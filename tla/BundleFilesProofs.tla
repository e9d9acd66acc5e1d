-------------------------- MODULE BundleFilesProofs --------------------------
(***************************************************************************)
(* What is proved of the bundle directories: whatever jobs, removals,      *)
(* failures and kills interleave, a directory that can be taken for a      *)
(* bundle is complete, except one that is being removed or that a copy     *)
(* with an outdated check writes over.  The names, the number of shards,   *)
(* of commands and the bounds are arbitrary.                               *)
(***************************************************************************)
EXTENDS BundleFiles, TLAPS

-----------------------------------------------------------------------------
(* Types *)

Manifests == [state : {"none", "partial", "whole"}, seal : Nat,
              shards : 0 .. MaxShards]

Directories == [exists : BOOLEAN, shard : [1 .. MaxShards -> Nat],
                manifest : Manifests]

Kinds == {"none", "seal", "copy", "verify"}
Stages == {"none", "begun", "running", "cleaning",
           "done", "failed", "cancelled"}

JobRecords ==
  [kind : Kinds, from : Paths \cup {<<>>}, to : Paths \cup {<<>>},
   manifest : Manifests, done : 0 .. MaxShards, filling : BOOLEAN,
   created : BOOLEAN, ok : BOOLEAN, stage : Stages]

CallRecords ==
  {NoCall} \cup {k \in [from : Paths, to : Paths, manifest : Manifests] :
                   k.from # k.to /\ k.manifest.state = "whole"}

Types ==
  /\ dir \in [Paths -> Directories]
  /\ job \in JobRecords
  /\ cancel \in BOOLEAN
  /\ call \in [Calls -> CallRecords]
  /\ removing \subseteq Paths /\ torn \subseteq Paths /\ late \subseteq Paths
  /\ sealings \in 0 .. MaxSealings /\ faults \in 0 .. MaxFaults

-----------------------------------------------------------------------------
(* The inductive invariant *)

\* The directories a removal is at, or was at when it ended.
Disturbed == removing \cup torn

\* The first n shards of d, or none of them, are from sealing s.
Filled(d, n, s) == \A i \in 1 .. n : d.shard[i] = s
Pure(d, n, s) == \A i \in 1 .. n : d.shard[i] \in {0, s}

\* A directory that is gone is empty, and no removal is at one.
GoneInv ==
  /\ \A p \in Paths : dir[p].exists \/ dir[p] = Absent
  /\ \A p \in Disturbed : dir[p].exists

\* A removal takes shards from a bundle, and nothing else mixes two sealings.
PureInv ==
  \A p \in Paths \ late : Admitted(dir[p]) =>
    Pure(dir[p], dir[p].manifest.shards, dir[p].manifest.seal)

\* A seal writes to a directory without a manifest.  If a removal that had
\* begun before deletes the directory, the seal cannot go on.
SealInv ==
  /\ dir[job.to].manifest.state = "none"
  /\ Pure(dir[job.to], MaxShards, job.manifest.seal)
  /\ dir[job.to].exists /\ job.to \notin Disturbed =>
       Filled(dir[job.to], job.done, job.manifest.seal)

\* A copy whose check still held writes to a directory it has made: it has no
\* manifest, so nothing removes it before the manifest begins to be filled.
\* Its source only loses shards, since no other job runs.
CopyInv ==
  /\ Pure(dir[job.from], job.manifest.shards, job.manifest.seal)
  /\ Pure(dir[job.to], job.manifest.shards, job.manifest.seal)
  /\ Admitted(dir[job.from]) => dir[job.from].manifest = job.manifest
  /\ dir[job.to].manifest.state \in {"none", "partial"}
  /\ dir[job.to].manifest.state = "partial" =>
       dir[job.to].manifest = [job.manifest EXCEPT !.state = "partial"]
  /\ ~job.filling => /\ job.to \notin Disturbed
                     /\ dir[job.to].manifest.state = "none"
                     /\ Working => dir[job.to].exists
  /\ dir[job.to].exists /\ job.to \notin Disturbed =>
       Filled(dir[job.to], job.done, job.manifest.seal)

\* What a job says of itself, whoever else is at its directories.
PlaceInv ==
  Running =>
    /\ job.kind # "none"
    /\ job.kind \in {"seal", "copy"} => job.to \in Paths
    /\ job.kind = "seal" => job.to \notin late
    /\ job.kind = "copy" => job.from \in Paths /\ job.from # job.to
    /\ job.kind = "verify" => Working /\ ~job.created
    /\ job.stage = "begun" => job.kind = "copy" /\ job.done = 0
    /\ job.done <= job.manifest.shards
    /\ job.manifest.state = "whole"

Copying == job.kind = "copy" /\ job.stage \in {"begun", "running"}

JobInv ==
  /\ PlaceInv
  /\ Working /\ job.kind = "seal" => SealInv
  /\ Copying /\ job.to \notin late => CopyInv
  /\ job.stage = "cleaning" /\ job.to \notin late =>
       dir[job.to].manifest.state # "whole"
  /\ job.filling =>
       Working /\ job.kind = "copy" /\ job.done = job.manifest.shards

Contents == GoneInv /\ PureInv /\ JobInv /\ AdmittedIsComplete

FilesInv == Types /\ Contents

-----------------------------------------------------------------------------
(* Types are kept *)

\* The values a directory and a job are reset to have their types.
LEMMA ValuesTyped ==
  /\ NoManifest \in Manifests
  /\ Absent \in Directories /\ Empty \in Directories
  /\ NoJob \in JobRecords
  /\ [c \in Calls |-> NoCall] \in [Calls -> CallRecords]
<1>1. NoManifest \in Manifests
  BY FilesAssumption DEF NoManifest, Manifests
<1>2. Absent \in Directories
  BY <1>1, FilesAssumption DEF Absent, Directories
<1>3. Empty \in Directories
  BY <1>2 DEF Empty, Directories
<1>4. NoJob \in JobRecords
  BY <1>1, FilesAssumption DEF NoJob, JobRecords, Kinds, Stages
<1>5. [c \in Calls |-> NoCall] \in [Calls -> CallRecords]
  BY DEF CallRecords
<1> QED
  BY <1>1, <1>2, <1>3, <1>4, <1>5

\* The empty directories and no job, the state at a start, have their types.
LEMMA TypesHold == Init => Types
<1>1. Init => cancel \in BOOLEAN
  BY DEF Init
<1>2. Init => /\ dir \in [Paths -> Directories] /\ job \in JobRecords
              /\ call \in [Calls -> CallRecords]
  BY ValuesTyped DEF Init
<1>3. Init => /\ removing \subseteq Paths /\ torn \subseteq Paths
              /\ late \subseteq Paths
              /\ sealings \in 0 .. MaxSealings /\ faults \in 0 .. MaxFaults
  BY FilesAssumption DEF Init
<1> QED
  BY <1>1, <1>2, <1>3 DEF Types

\* A job that ends, in whatever way, leaves a record of the right type.
LEMMA EndedTyped ==
  ASSUME Types, NEW stage \in Stages
  PROVE  Ended(stage) \in JobRecords
BY ValuesTyped DEF Ended, JobRecords

\* A job that fails has a record of the right type, whether it cleans up.
LEMMA FailsTyped ==
  ASSUME Types, Fails
  PROVE  job' \in JobRecords
<1>1. "failed" \in Stages /\ "cancelled" \in Stages /\ "cleaning" \in Stages
  BY DEF Stages
<1>2. Ended("failed") \in JobRecords /\ Ended("cancelled") \in JobRecords
  BY <1>1, EndedTyped
<1>3. [job EXCEPT !.stage = "cleaning", !.filling = FALSE] \in JobRecords
  BY <1>1 DEF Types, JobRecords
<1> QED
  BY <1>2, <1>3 DEF Fails

\* Deleting an entry leaves directories of the right type.
LEMMA UnlinkTyped ==
  ASSUME Types, NEW p \in Paths, Unlink(p)
  PROVE  dir' \in [Paths -> Directories]
<1>1. ASSUME NEW i \in 1 .. MaxShards, dir' = [dir EXCEPT ![p].shard[i] = 0]
      PROVE  dir' \in [Paths -> Directories]
  BY <1>1 DEF Types, Directories
<1>2. CASE dir' = [dir EXCEPT ![p].manifest = NoManifest]
  BY <1>2, ValuesTyped DEF Types, Directories
<1> QED
  BY <1>1, <1>2 DEF Unlink

\* The shard a job is at is one of the directory's.
LEMMA NextShard ==
  ASSUME Types, MoreShards
  PROVE  /\ job.done + 1 \in 1 .. MaxShards /\ job.done \in Nat
         /\ job.done + 1 <= job.manifest.shards
         /\ job.manifest.shards \in 0 .. MaxShards
         /\ job.manifest.seal \in Nat
<1>1. job.manifest \in Manifests /\ job.done \in 0 .. MaxShards
  BY DEF Types, JobRecords
<1> QED
  BY <1>1, FilesAssumption DEF MoreShards, Manifests

\* What is cleaned up is a directory.
LEMMA CleaningPlace ==
  ASSUME FilesInv, job.stage = "cleaning"
  PROVE  job.to \in Paths
BY DEF FilesInv, Types, JobRecords, Kinds, Contents, JobInv, PlaceInv, Running,
       Working

\* Every file operation, command and kill keeps the types.
LEMMA TypesNext ==
  ASSUME FilesInv, [Next]_vars
  PROVE  Types'
<1> USE FilesAssumption, ValuesTyped
<1> Types
  BY DEF FilesInv
<1>1. CASE UNCHANGED vars
  BY <1>1 DEF Types, vars
<1>2. ASSUME NEW p \in Paths, NEW n \in 0 .. MaxShards, BeginSeal(p, n)
      PROVE  Types'
  <2>1. sealings' \in 0 .. MaxSealings /\ sealings' \in Nat
    BY <1>2 DEF BeginSeal, Types
  <2>2. ManifestOf(sealings', n) \in Manifests
    BY <2>1 DEF ManifestOf, Manifests
  <2>3. dir[p].exists \in BOOLEAN
    BY DEF Types, Directories
  <2>4. job' \in JobRecords /\ cancel' \in BOOLEAN
    BY <1>2, <2>2, <2>3 DEF BeginSeal, Begin, JobRecords, Kinds, Stages
  <2>5. dir' \in [Paths -> Directories]
    BY <1>2 DEF BeginSeal, Types, Directories
  <2> QED
    BY <1>2, <2>1, <2>4, <2>5 DEF BeginSeal, Types
<1>3. ASSUME NEW c \in Calls, BeginCopy(c) \/ CopyRefused(c)
      PROVE  Types'
  <2>1. call' \in [Calls -> CallRecords]
    BY <1>3 DEF BeginCopy, CopyRefused, Types, CallRecords
  <2>2. CASE CopyRefused(c)
    BY <2>1, <2>2 DEF CopyRefused, Types
  <2>3. CASE BeginCopy(c)
    <3>1. /\ call[c].from \in Paths /\ call[c].to \in Paths
          /\ call[c].manifest \in Manifests
      BY <2>3 DEF BeginCopy, Types, CallRecords
    <3>2. job' \in JobRecords /\ cancel' \in BOOLEAN
      BY <2>3, <3>1 DEF BeginCopy, Begin, JobRecords, Kinds, Stages
    <3>3. late' \subseteq Paths
      BY <2>3, <3>1 DEF BeginCopy, Types
    <3> QED
      BY <2>1, <2>3, <3>2, <3>3 DEF BeginCopy, Types
  <2> QED
    BY <1>3, <2>2, <2>3
<1>9. ASSUME NEW c \in Calls, NEW from \in Paths, NEW to \in Paths,
             from # to, CheckCopy(c, from, to)
      PROVE  Types'
  <2>1. dir[from].manifest \in Manifests
    BY DEF Types, Directories
  <2>2. [from |-> from, to |-> to, manifest |-> dir[from].manifest]
          \in CallRecords
    BY <1>9, <2>1 DEF CheckCopy, Admitted, CallRecords
  <2>3. call' \in [Calls -> CallRecords]
    BY <1>9, <2>2 DEF CheckCopy, Types
  <2> QED
    BY <1>9, <2>3 DEF CheckCopy, Types
<1>4. ASSUME NEW p \in Paths, BeginVerify(p)
      PROVE  Types'
  <2>1. dir[p].manifest \in Manifests
    BY DEF Types, Directories
  <2>2. job' \in JobRecords /\ cancel' \in BOOLEAN
    BY <1>4, <2>1 DEF BeginVerify, Begin, JobRecords, Kinds, Stages
  <2> QED
    BY <1>4, <2>2 DEF BeginVerify, Types
<1>5. ASSUME NEW p \in Paths,
             BeginRemove(p) \/ RemoveEntry(p) \/ EndRemove(p) \/ RemoveFails(p)
      PROVE  Types'
  <2>1. CASE BeginRemove(p) \/ EndRemove(p) \/ RemoveFails(p)
    BY <2>1 DEF BeginRemove, EndRemove, RemoveFails, Fault, Types
  <2>2. CASE RemoveEntry(p)
    <3>1. dir' \in [Paths -> Directories]
      BY <2>2, UnlinkTyped DEF RemoveEntry
    <3> QED
      BY <2>2, <3>1 DEF RemoveEntry, Types
  <2> QED
    BY <1>5, <2>1, <2>2
<1>6. CASE JobStep
  <2>1. CASE SealShard
    <3>1. job.to \in Paths
      BY <2>1 DEF SealShard, MoreShards, Working, Running, FilesInv, Contents,
                  JobInv, PlaceInv
    <3>3. dir' \in [Paths -> Directories]
      BY <2>1, <3>1, NextShard DEF SealShard, Types, Directories
    <3>2. job' \in JobRecords
      BY <2>1, NextShard DEF SealShard, Types, JobRecords
    <3> QED
      BY <2>1, <3>2, <3>3 DEF SealShard, Types
  <2>3. CASE VerifyShard
    <3>1. job' \in JobRecords
      <4> DEFINE ok == job.ok /\ dir[job.from].shard[job.done + 1]
                                    = job.manifest.seal
      <4>1. ok \in BOOLEAN
        BY Zenon
      <4>4. job.done + 1 \in 0 .. MaxShards
        BY <2>3, NextShard DEF VerifyShard
      <4>2. job' = [job EXCEPT !.done = job.done + 1, !.ok = ok]
        BY <2>3 DEF VerifyShard
      <4>3. PICK b \in BOOLEAN :
                  job' = [job EXCEPT !.done = job.done + 1, !.ok = b]
        BY <4>1, <4>2, Zenon
      <4> QED
        BY <4>3, <4>4 DEF Types, JobRecords
    <3> QED
      BY <2>3, <3>1 DEF VerifyShard, Types
  <2>4. CASE SealManifest \/ CopyManifestEnds
    <3>1. job.manifest \in Manifests
      BY DEF Types, JobRecords
    <3>3. job.to \in Paths
      BY <2>4 DEF SealManifest, CopyManifestEnds, AllShards, FilesInv,
                  Contents, JobInv, PlaceInv, Working, Running
    <3>4. /\ dir[job.to] \in Directories
          /\ [dir[job.to].manifest EXCEPT !.state = "whole"] \in Manifests
      BY <3>3 DEF Types, Directories, Manifests
    <3>2. dir' \in [Paths -> Directories]
      <4>1. \/ dir' = dir
            \/ dir' = [dir EXCEPT ![job.to].manifest = job.manifest]
            \/ dir' = [dir EXCEPT ![job.to].manifest.state = "whole"]
        BY <2>4 DEF SealManifest, CopyManifestEnds
      <4>2. CASE dir' = [dir EXCEPT ![job.to].manifest = job.manifest]
        <5>2. [dir[job.to] EXCEPT !.manifest = job.manifest] \in Directories
          BY <3>1, <3>4 DEF Directories
        <5> QED
          BY <4>2, <5>2 DEF Types
      <4>3. CASE dir' = [dir EXCEPT ![job.to].manifest.state = "whole"]
        <5>2. [dir[job.to] EXCEPT !.manifest.state = "whole"] \in Directories
          BY <3>4 DEF Directories
        <5> QED
          BY <4>3, <5>2 DEF Types
      <4> QED
        BY <4>1, <4>2, <4>3 DEF Types
    <3> QED
      BY <2>4, <3>2, EndedTyped
         DEF SealManifest, CopyManifestEnds, Types, Stages
  <2>5. CASE CopyManifestBegins
    <3>4. job.to \in Paths /\ job.from \in Paths
      BY <2>5 DEF CopyManifestBegins, AllShards, FilesInv, Contents,
                  JobInv, PlaceInv, Working, Running
    <3>1. [dir[job.from].manifest EXCEPT !.state = "partial"] \in Manifests
      BY <3>4 DEF Types, Directories, Manifests
    <3>2. dir' \in [Paths -> Directories]
      BY <2>5, <3>1, <3>4 DEF CopyManifestBegins, Types, Directories
    <3>3. job' \in JobRecords
      BY <2>5 DEF CopyManifestBegins, Types, JobRecords
    <3> QED
      BY <2>5, <3>2, <3>3 DEF CopyManifestBegins, Types
  <2>6. CASE VerifyEnds
    BY <2>6, EndedTyped DEF VerifyEnds, Types, Stages
  <2>7. CASE JobFails \/ JobCancelled
    <3>1. job' \in JobRecords
      BY <2>7, FailsTyped DEF JobFails, JobCancelled
    <3> QED
      BY <2>7, <3>1 DEF JobFails, JobCancelled, Fault, Types
  <2>8. CASE MakeTarget
    <3>1. job.to \in Paths
      BY <2>8 DEF MakeTarget, FilesInv, Contents, JobInv, PlaceInv, Running
    <3>2. dir' \in [Paths -> Directories]
      BY <2>8, <3>1 DEF MakeTarget, Types, Directories
    <3>3. job' \in JobRecords
      BY <2>8 DEF MakeTarget, Types, JobRecords, Stages
    <3> QED
      BY <2>8, <3>2, <3>3 DEF MakeTarget, Types
  <2>9. CASE Cleanup \/ CleanupEnds
    <3>1. job.to \in Paths
      BY <2>9, CleaningPlace DEF Cleanup, CleanupEnds
    <3>2. CASE Cleanup
      <4>1. dir' \in [Paths -> Directories]
        BY <3>1, <3>2, UnlinkTyped DEF Cleanup
      <4> QED
        BY <3>2, <4>1 DEF Cleanup, Types
    <3>3. CASE CleanupEnds
      <4>1. dir' \in [Paths -> Directories]
        BY <3>1, <3>3 DEF CleanupEnds, Types
      <4>2. job' \in JobRecords
        BY <3>3, EndedTyped DEF CleanupEnds, Stages
      <4>3. /\ removing' \subseteq Paths /\ torn' \subseteq Paths
            /\ faults' \in 0 .. MaxFaults
        BY <3>3 DEF CleanupEnds, Fault, Types
      <4> QED
        BY <3>3, <4>1, <4>2, <4>3 DEF CleanupEnds, Types
    <3> QED
      BY <2>9, <3>2, <3>3
  <2>2. CASE CopyShard
    <3>5. Running /\ job.kind = "copy"
      BY <2>2 DEF CopyShard, MoreShards, Working, Running
    <3>2. job.to \in Paths /\ job.from \in Paths
      BY <3>5 DEF FilesInv, Contents, JobInv, PlaceInv
    <3>6. job.done + 1 \in 1 .. MaxShards
      BY <2>2, NextShard DEF CopyShard
    <3>4. dir[job.from].shard[job.done + 1] \in Nat
      <4>1. dir[job.from] \in Directories
        BY <3>2 DEF Types
      <4> QED
        BY <3>6, <4>1 DEF Directories
    <3>1. dir' \in [Paths -> Directories]
      BY <2>2, <3>2, <3>4, NextShard DEF CopyShard, Types, Directories
    <3>3. job' \in JobRecords
      BY <2>2, NextShard DEF CopyShard, Types, JobRecords
    <3> QED
      BY <2>2, <3>1, <3>3 DEF CopyShard, Types
  <2> QED
    BY <1>6, <2>1, <2>2, <2>3, <2>4, <2>5, <2>6, <2>7, <2>8, <2>9 DEF JobStep
<1>7. CASE Cancel \/ Dismiss
  BY <1>7 DEF Cancel, Dismiss, Types
<1>8. CASE Kill
  <2>1. cancel' \in BOOLEAN
    BY <1>8 DEF Kill
  <2>2. faults' \in 0 .. MaxFaults
    BY <1>8 DEF Kill, Fault, Types
  <2> QED
    BY <1>8, <2>1, <2>2 DEF Kill, Types
<1> QED
  <2>1. \A n \in Names : /\ <<"folder", n>> \in Paths /\ <<"store", n>> \in Paths
                         /\ <<"folder", n>> # <<"store", n>>
    BY DEF Paths, Places
  <2> QED
    BY <1>1, <1>2, <1>3, <1>4, <1>5, <1>6, <1>7, <1>8, <1>9, <2>1
       DEF Next, CheckImport, CheckExport

-----------------------------------------------------------------------------
(* The contents of the directories *)

\* The steps that leave the directories and who disturbs them alone, with no
\* job afterwards: a verification that ends, a dismissal, a kill.
LEMMA ContentsIdle ==
  ASSUME FilesInv, UNCHANGED <<dir, late>>, Disturbed' = Disturbed,
         ~Running', ~job'.filling
  PROVE  Contents'
<1>1. ~Working' /\ job'.stage # "cleaning" /\ ~Copying'
  BY DEF Running, Working, Copying
<1>2. JobInv'
  BY <1>1 DEF JobInv, PlaceInv
<1> QED
  BY <1>2 DEF FilesInv, Contents, GoneInv, PureInv, AdmittedIsComplete,
              Disturbed, Pure, Admitted, Complete

\* A job fails or is cancelled: what it made is no bundle, unless the check
\* that let it begin was outdated.
LEMMA ContentsFails ==
  ASSUME FilesInv, job.stage \in {"begun", "running"}, Fails,
         UNCHANGED <<dir, removing, torn, late>>
  PROVE  Contents'
<1>1. CASE ~job.created
  <2>1. job' = Ended("cancelled") \/ job' = Ended("failed")
    BY <1>1 DEF Fails
  <2>2. ~Running' /\ ~job'.filling
    BY <2>1 DEF Ended, NoJob, Running
  <2> QED
    BY <2>2, ContentsIdle DEF Disturbed
<1>2. CASE job.created
  <2>1. /\ job' = [job EXCEPT !.stage = "cleaning", !.filling = FALSE]
        /\ job'.stage = "cleaning" /\ ~job'.filling
        /\ job'.to = job.to /\ job'.from = job.from /\ job'.kind = job.kind
        /\ job'.done = job.done /\ job'.manifest = job.manifest
    BY <1>2 DEF Fails, FilesInv, Types, JobRecords
  <2>2. Running /\ job.kind \in {"seal", "copy"}
    BY <1>2 DEF Running, FilesInv, Types, JobRecords, Kinds, Contents, JobInv,
                PlaceInv
  <2>3. PlaceInv'
    BY <2>1, <2>2 DEF FilesInv, Contents, JobInv, PlaceInv
  <2>4. job.to \notin late => dir[job.to].manifest.state # "whole"
    <3>1. CASE job.kind = "seal"
      BY <2>2, <3>1 DEF FilesInv, Contents, JobInv, PlaceInv, SealInv, Working
    <3>2. CASE job.kind = "copy"
      BY <3>2 DEF FilesInv, Contents, JobInv, Copying, CopyInv
    <3> QED
      BY <2>2, <3>1, <3>2
  <2>5. JobInv'
    BY <2>1, <2>3, <2>4 DEF JobInv, Working, Copying
  <2> QED
    BY <2>5 DEF FilesInv, Contents, GoneInv, PureInv, AdmittedIsComplete,
                Disturbed, Pure, Admitted, Complete
<1> QED
  BY <1>1, <1>2 DEF FilesInv, Types, JobRecords

\* The cleanup has deleted everything, or could not and its error is ignored.
LEMMA ContentsCleanupEnds ==
  ASSUME FilesInv, CleanupEnds
  PROVE  Contents'
<1>1. job.to \in Paths /\ late' = late
  BY CleaningPlace DEF CleanupEnds
<1>2. ~Running' /\ ~job'.filling
  BY DEF CleanupEnds, Ended, NoJob, Running
<1>3. CASE UNCHANGED <<dir, removing, torn>>
  BY <1>1, <1>2, <1>3, ContentsIdle DEF Disturbed
<1>4. CASE /\ dir' = [dir EXCEPT ![job.to] = Absent]
           /\ removing' = removing \ {job.to} /\ torn' = torn \ {job.to}
  <2>1. /\ dir'[job.to] = Absent
        /\ \A q \in Paths : q # job.to => dir'[q] = dir[q]
    BY <1>1, <1>4 DEF FilesInv, Types
  <2>2. ~Absent.exists /\ ~Admitted(Absent)
    BY DEF Absent, Admitted, NoManifest
  <2>3. GoneInv'
    BY <1>4, <2>1 DEF FilesInv, Types, Contents, GoneInv, Disturbed
  <2>4. PureInv'
    BY <1>1, <2>1, <2>2 DEF FilesInv, Contents, PureInv, Pure, Admitted
  <2>5. AdmittedIsComplete'
    BY <1>1, <1>4, <2>1, <2>2
       DEF FilesInv, Contents, AdmittedIsComplete, Admitted, Complete
  <2>6. JobInv'
    BY <1>2 DEF JobInv, PlaceInv, Running, Working, Copying
  <2> QED
    BY <2>3, <2>4, <2>5, <2>6 DEF Contents
<1> QED
  BY <1>3, <1>4 DEF CleanupEnds

\* A seal begins in an empty directory, or one that is made for it.
LEMMA ContentsBeginSeal ==
  ASSUME FilesInv, NEW p \in Paths, NEW n \in 0 .. MaxShards, BeginSeal(p, n)
  PROVE  Contents'
<1>1. /\ dir' = [dir EXCEPT ![p].exists = TRUE]
      /\ UNCHANGED <<removing, torn>> /\ IsEmpty(dir[p])
      /\ late' = late \ {p}
  BY DEF BeginSeal, Usable
<1>2. /\ job'.kind = "seal" /\ job'.to = p /\ job'.done = 0
      /\ job'.manifest = ManifestOf(sealings', n) /\ ~job'.filling
      /\ job'.stage = "running"
  BY DEF BeginSeal, Begin, NoJob
<1>3. /\ dir'[p].exists /\ dir'[p].shard = dir[p].shard
      /\ dir'[p].manifest = dir[p].manifest
      /\ \A q \in Paths : q # p => dir'[q] = dir[q]
  BY <1>1 DEF FilesInv, Types, Directories
<1>4. /\ dir'[p].manifest.state = "none"
      /\ \A i \in 1 .. MaxShards : dir'[p].shard[i] = 0
  BY <1>1, <1>3 DEF IsEmpty
<1>5. GoneInv'
  BY <1>1, <1>3 DEF FilesInv, Contents, GoneInv, Disturbed
<1>6. PureInv'
  BY <1>1, <1>3, <1>4 DEF FilesInv, Contents, PureInv, Pure, Admitted
<1>7. AdmittedIsComplete'
  BY <1>1, <1>3, <1>4
     DEF FilesInv, Contents, AdmittedIsComplete, Admitted, Complete
<1>8. JobInv'
  <2>1. SealInv'
    BY <1>2, <1>4 DEF SealInv, Pure, Filled
  <2>2. /\ job'.manifest.state = "whole" /\ job'.manifest.shards = n
    BY <1>2 DEF ManifestOf
  <2> QED
    BY <1>1, <1>2, <2>1, <2>2 DEF JobInv, PlaceInv, Copying, Working
<1> QED
  BY <1>5, <1>6, <1>7, <1>8 DEF Contents

\* An import or export begins.  If what it checked still holds, its source
\* can be read as a bundle and its directory does not exist.
LEMMA ContentsBeginCopy ==
  ASSUME FilesInv, NEW c \in Calls, BeginCopy(c)
  PROVE  Contents'
<1> DEFINE from == call[c].from
           to == call[c].to
<1>1. /\ UNCHANGED <<dir, removing, torn>> /\ call[c] # NoCall
      /\ late' = IF Outdated(call[c]) THEN late \cup {to} ELSE late \ {to}
  BY DEF BeginCopy
<1>2. /\ job'.kind = "copy" /\ job'.from = from /\ job'.to = to
      /\ job'.done = 0 /\ job'.manifest = call[c].manifest
      /\ ~job'.filling /\ job'.stage = "begun"
  BY DEF BeginCopy, Begin, NoJob
<1>3. /\ from \in Paths /\ to \in Paths /\ from # to
      /\ call[c].manifest.state = "whole" /\ call[c].manifest \in Manifests
  BY <1>1 DEF FilesInv, Types, CallRecords
<1>4. /\ Absent.manifest.state = "none"
      /\ \A i \in 1 .. MaxShards : Absent.shard[i] = 0
  BY DEF Absent, NoManifest
<1>5. ASSUME ~Outdated(call[c])
      PROVE  /\ dir[to] = Absent /\ ~dir[to].exists /\ from \notin late
             /\ dir[from].manifest = call[c].manifest
             /\ to \notin Disturbed
  BY <1>3, <1>5 DEF Outdated, FilesInv, Contents, GoneInv
<1>6. \A q \in Paths \ late' : q \notin late \/ dir[q] = Absent
  BY <1>1, <1>5
<1>7. GoneInv'
  BY <1>1 DEF FilesInv, Contents, GoneInv, Disturbed
<1>8. PureInv'
  BY <1>1, <1>4, <1>6 DEF FilesInv, Contents, PureInv, Pure, Admitted
<1>9. AdmittedIsComplete'
  BY <1>1, <1>4, <1>6
     DEF FilesInv, Contents, AdmittedIsComplete, Admitted, Complete
<1>10. JobInv'
  <2>1. call[c].manifest.shards \in 0 .. MaxShards
    BY <1>3 DEF Manifests
  <2>2. PlaceInv'
    BY <1>2, <1>3, <2>1 DEF PlaceInv
  <2>3. ASSUME to \notin late'
        PROVE  CopyInv'
    <3>1. ~Outdated(call[c])
      BY <1>1, <2>3
    <3>2. Pure(dir[from], call[c].manifest.shards, call[c].manifest.seal)
      BY <1>3, <1>5, <3>1 DEF FilesInv, Contents, PureInv, Admitted
    <3>3. Pure(Absent, call[c].manifest.shards, call[c].manifest.seal)
      BY <1>4, <2>1, FilesAssumption DEF Pure
    <3>4. Filled(Absent, 0, call[c].manifest.seal)
      BY DEF Filled
    <3>5. /\ dir'[from] = dir[from] /\ dir'[to] = Absent
          /\ to \notin Disturbed'
      BY <1>1, <1>5, <3>1 DEF Disturbed
    <3>6. ~Working'
      BY <1>2 DEF Working
    <3>7. Admitted(dir'[from]) => dir'[from].manifest = job'.manifest
      BY <1>2, <1>5, <3>1, <3>5
    <3> QED
      BY <1>2, <1>4, <3>2, <3>3, <3>4, <3>5, <3>6, <3>7
         DEF CopyInv, Pure, Filled, Admitted
  <2> QED
    BY <1>2, <2>2, <2>3 DEF JobInv, Working, Copying
<1> QED
  BY <1>7, <1>8, <1>9, <1>10 DEF Contents

\* The copy makes its directory, or finds it there if the check was outdated.
LEMMA ContentsMakeTarget ==
  ASSUME FilesInv, MakeTarget
  PROVE  Contents'
<1> DEFINE to == job.to
           from == job.from
<1>1. /\ job.stage = "begun" /\ Running /\ PlaceInv /\ Copying
      /\ UNCHANGED <<removing, torn, late>>
  BY DEF MakeTarget, Running, FilesInv, Contents, JobInv, PlaceInv, Copying
<1>2. /\ to \in Paths /\ from \in Paths /\ from # to /\ job.kind = "copy"
      /\ ~job.filling
  BY <1>1 DEF PlaceInv, FilesInv, Contents, JobInv, Working
<1>3. /\ \A q \in Paths : q # to => dir'[q] = dir[q]
      /\ dir'[to].exists /\ dir'[to].shard = dir[to].shard
      /\ dir'[to].manifest = dir[to].manifest
  BY <1>2 DEF MakeTarget, FilesInv, Types, Directories
<1>4. /\ job'.kind = "copy" /\ job'.to = to /\ job'.from = from
      /\ job'.done = job.done /\ job'.manifest = job.manifest
      /\ ~job'.filling /\ job'.stage = "running"
  BY <1>2 DEF MakeTarget, FilesInv, Types, JobRecords
<1>5. GoneInv'
  BY <1>1, <1>3 DEF FilesInv, Types, Contents, GoneInv, Disturbed
<1>6. \A q \in Paths : Admitted(dir'[q]) =>
        /\ Admitted(dir[q]) /\ dir'[q].shard = dir[q].shard
        /\ dir'[q].manifest = dir[q].manifest
  BY <1>3 DEF Admitted
<1>7. PureInv'
  BY <1>1, <1>6 DEF FilesInv, Contents, PureInv, Pure
<1>8. AdmittedIsComplete'
  BY <1>1, <1>6 DEF FilesInv, Contents, AdmittedIsComplete, Complete
<1>9. JobInv'
  <2>1. PlaceInv'
    BY <1>1, <1>2, <1>4 DEF PlaceInv
  <2>2. ASSUME to \notin late
        PROVE  CopyInv'
    <3>1. CopyInv
      BY <1>1, <2>2 DEF FilesInv, Contents, JobInv
    <3>2. Disturbed' = Disturbed /\ dir'[from] = dir[from]
      BY <1>1, <1>2, <1>3 DEF Disturbed
    <3>3. /\ Pure(dir[from], job.manifest.shards, job.manifest.seal)'
          /\ Pure(dir[to], job.manifest.shards, job.manifest.seal)'
      BY <1>3, <1>4, <3>1, <3>2 DEF CopyInv, Pure
    <3>4. Filled(dir[to], job.done, job.manifest.seal)'
      <4>1. job.done = 0
        BY <1>1, <1>2 DEF FilesInv, Contents, JobInv, PlaceInv
      <4> QED
        BY <1>4, <4>1 DEF Filled
    <3> QED
      BY <1>2, <1>3, <1>4, <3>1, <3>2, <3>3, <3>4 DEF CopyInv, Admitted
  <2> QED
    BY <1>1, <1>4, <2>1, <2>2 DEF JobInv, Working, Copying
<1> QED
  BY <1>5, <1>7, <1>8, <1>9 DEF Contents

\* A step of a removal or of a cleanup: some shard of p, or its manifest, goes.
LEMMA ContentsUnlink ==
  ASSUME FilesInv, NEW p \in Paths, Unlink(p),
         UNCHANGED <<job, removing, torn, late>>,
         p \in removing \/ (job.stage = "cleaning" /\ p = job.to)
  PROVE  Contents'
<1>1. /\ \A q \in Paths : q # p => dir'[q] = dir[q]
      /\ dir'[p].exists = dir[p].exists
      /\ \A i \in 1 .. MaxShards :
           dir'[p].shard[i] = dir[p].shard[i] \/ dir'[p].shard[i] = 0
      /\ dir'[p].manifest = dir[p].manifest \/ dir'[p].manifest = NoManifest
  <2>2. ASSUME NEW i \in 1 .. MaxShards, dir' = [dir EXCEPT ![p].shard[i] = 0]
        PROVE  /\ \A q \in Paths : q # p => dir'[q] = dir[q]
               /\ dir'[p].exists = dir[p].exists
               /\ \A j \in 1 .. MaxShards :
                    dir'[p].shard[j] = dir[p].shard[j] \/ dir'[p].shard[j] = 0
               /\ dir'[p].manifest = dir[p].manifest
    BY <2>2 DEF FilesInv, Types, Directories
  <2>3. ASSUME dir' = [dir EXCEPT ![p].manifest = NoManifest]
        PROVE  /\ \A q \in Paths : q # p => dir'[q] = dir[q]
               /\ dir'[p].exists = dir[p].exists
               /\ dir'[p].shard = dir[p].shard
               /\ dir'[p].manifest = NoManifest
    BY <2>3 DEF FilesInv, Types, Directories
  <2> QED
    BY <2>2, <2>3 DEF Unlink
<1>5. NoManifest.state = "none"
  BY DEF NoManifest
<1>2. Disturbed' = Disturbed /\ dir[p].exists
  <2>1. /\ Absent.manifest.state = "none"
        /\ \A i \in 1 .. MaxShards : Absent.shard[i] = 0
    BY <1>5 DEF Absent
  <2>2. dir[p] # Absent
    BY <2>1 DEF Unlink
  <2> QED
    BY <2>2 DEF Disturbed, FilesInv, Contents, GoneInv
<1>3. GoneInv'
  BY <1>1, <1>2 DEF FilesInv, Types, Contents, GoneInv, Disturbed
<1>4. \A q \in Paths : /\ dir[q].manifest.shards \in 0 .. MaxShards
                       /\ dir[q].manifest \in Manifests
  BY DEF FilesInv, Types, Directories, Manifests
<1>6. PureInv'
  BY <1>1, <1>4, <1>5, FilesAssumption
     DEF FilesInv, Contents, PureInv, Pure, Admitted
<1>7. AdmittedIsComplete'
  <2>1. \A q \in Paths : q # p => dir'[q] = dir[q]
    BY <1>1
  <2>2. Admitted(dir'[p]) => p \in removing \cup late
    BY <1>1, <1>5 DEF Admitted, FilesInv, Contents, JobInv
  <2> QED
    BY <2>1, <2>2
       DEF FilesInv, Contents, AdmittedIsComplete, Admitted, Complete
<1>8. ASSUME NEW q \in Paths, NEW n \in 0 .. MaxShards, NEW s,
             Pure(dir[q], n, s)
      PROVE  Pure(dir[q], n, s)'
  BY <1>1, <1>8, FilesAssumption DEF Pure
<1>9. job.manifest.shards \in 0 .. MaxShards /\ MaxShards \in 0 .. MaxShards
  BY FilesAssumption DEF FilesInv, Types, JobRecords, Manifests
<1>15. PlaceInv /\ PlaceInv'
  BY DEF FilesInv, Contents, JobInv, PlaceInv, Running, Working
<1>14. (Working \/ Copying) => p \in Disturbed
  BY DEF Working, Copying, Disturbed
<1>10. Working /\ job.kind = "seal" => SealInv'
  <2> SUFFICES ASSUME SealInv, job.to \in Paths, p \in Disturbed
               PROVE  SealInv'
    BY <1>14, <1>15 DEF FilesInv, Contents, JobInv, PlaceInv, Running, Working
  <2>1. Pure(dir[job.to], MaxShards, job.manifest.seal)'
    BY <1>1, <1>8, <1>9 DEF SealInv, Pure
  <2> QED
    BY <1>1, <1>2, <1>5, <2>1 DEF SealInv, Filled
<1>11. Copying /\ job.to \notin late => CopyInv'
  <2> SUFFICES ASSUME CopyInv, job.to \in Paths, job.from \in Paths,
                      p \in Disturbed
               PROVE  CopyInv'
    BY <1>14, <1>15 DEF FilesInv, Contents, JobInv, PlaceInv, Running, Copying
  <2>1. /\ Pure(dir[job.from], job.manifest.shards, job.manifest.seal)'
        /\ Pure(dir[job.to], job.manifest.shards, job.manifest.seal)'
    BY <1>1, <1>8, <1>9 DEF CopyInv, Pure
  <2>2. Admitted(dir'[job.from]) => dir'[job.from].manifest = job.manifest
    BY <1>1, <1>5 DEF CopyInv, Admitted
  <2>3. /\ dir'[job.to].manifest.state \in {"none", "partial"}
        /\ dir'[job.to].manifest.state = "partial" =>
             dir'[job.to].manifest = dir[job.to].manifest
    BY <1>1, <1>5 DEF CopyInv
  <2>4. /\ ~job.filling => /\ job.to \notin Disturbed'
                           /\ dir'[job.to].manifest.state = "none"
                           /\ Working' => dir'[job.to].exists
    BY <1>1, <1>2, <1>5 DEF CopyInv, Working
  <2>5. dir'[job.to].exists /\ job.to \notin Disturbed' =>
          Filled(dir[job.to], job.done, job.manifest.seal)'
    BY <1>1, <1>2 DEF CopyInv, Filled
  <2> QED
    BY <2>1, <2>2, <2>3, <2>4, <2>5 DEF CopyInv
<1>13. job.stage = "cleaning" /\ job.to \notin late =>
         dir'[job.to].manifest.state # "whole"
  BY <1>1, <1>5, CleaningPlace DEF FilesInv, Contents, JobInv
<1>12. JobInv'
  BY <1>10, <1>11, <1>13, <1>15
     DEF FilesInv, Contents, JobInv, Running, Working, Copying
<1> QED
  BY <1>3, <1>6, <1>7, <1>12 DEF Contents

\* The end of a removal: the directory is gone.  A copy whose manifest is
\* being filled fills an unlinked file, a seal finds its directory gone.
LEMMA ContentsEndRemove ==
  ASSUME FilesInv, NEW p \in Paths, EndRemove(p)
  PROVE  Contents'
<1>1. /\ p \in removing /\ UNCHANGED <<job, late>>
      /\ removing' = removing \ {p} /\ torn' = torn \ {p}
      /\ dir'[p] = Absent /\ \A q \in Paths : q # p => dir'[q] = dir[q]
  BY DEF EndRemove, FilesInv, Types
<1>2. p \in Disturbed /\ Disturbed' = Disturbed \ {p}
  BY <1>1 DEF Disturbed
<1>3. /\ ~Absent.exists /\ Absent.manifest.state = "none"
      /\ \A i \in 1 .. MaxShards : Absent.shard[i] = 0
  BY DEF Absent, NoManifest
<1>4. GoneInv'
  BY <1>1, <1>2 DEF FilesInv, Types, Contents, GoneInv, Disturbed
<1>5. PureInv'
  BY <1>1, <1>3 DEF FilesInv, Contents, PureInv, Pure, Admitted
<1>6. AdmittedIsComplete'
  BY <1>1, <1>3
     DEF FilesInv, Contents, AdmittedIsComplete, Admitted, Complete
<1>7. job.manifest.shards \in 0 .. MaxShards
  BY DEF FilesInv, Types, JobRecords, Manifests
<1>8. PlaceInv /\ PlaceInv'
  BY <1>1 DEF FilesInv, Contents, JobInv, PlaceInv, Running, Working
<1>9. Working /\ job.kind = "seal" => SealInv'
  <2> SUFFICES ASSUME SealInv, job.to \in Paths
               PROVE  SealInv'
    BY <1>8 DEF FilesInv, Contents, JobInv, PlaceInv, Running, Working
  <2> QED
    BY <1>1, <1>2, <1>3 DEF SealInv, Pure, Filled
<1>10. Copying /\ job.to \notin late => CopyInv'
  <2> SUFFICES ASSUME CopyInv, job.to \in Paths, job.from \in Paths
               PROVE  CopyInv'
    BY <1>8 DEF FilesInv, Contents, JobInv, PlaceInv, Running, Copying
  <2>1. /\ Pure(dir[job.from], job.manifest.shards, job.manifest.seal)'
        /\ Pure(dir[job.to], job.manifest.shards, job.manifest.seal)'
    BY <1>1, <1>3, <1>7, FilesAssumption DEF CopyInv, Pure
  <2>2. Admitted(dir'[job.from]) => dir'[job.from].manifest = job.manifest
    BY <1>1, <1>3 DEF CopyInv, Admitted
  <2>3. /\ dir'[job.to].manifest.state \in {"none", "partial"}
        /\ dir'[job.to].manifest.state = "partial" =>
             dir'[job.to].manifest = dir[job.to].manifest
    BY <1>1, <1>3 DEF CopyInv
  <2>4. ~job.filling => /\ job.to \notin Disturbed'
                        /\ dir'[job.to].manifest.state = "none"
                        /\ Working' => dir'[job.to].exists
    BY <1>1, <1>2, <1>3 DEF CopyInv, Working
  <2>5. dir'[job.to].exists /\ job.to \notin Disturbed' =>
          Filled(dir[job.to], job.done, job.manifest.seal)'
    BY <1>1, <1>2, <1>3 DEF CopyInv, Filled
  <2> QED
    BY <1>1, <2>1, <2>2, <2>3, <2>4, <2>5 DEF CopyInv
<1>11. job.stage = "cleaning" /\ job.to \notin late =>
         dir'[job.to].manifest.state # "whole"
  BY <1>1, <1>3, CleaningPlace DEF FilesInv, Contents, JobInv
<1>12. JobInv'
  BY <1>1, <1>8, <1>9, <1>10, <1>11
     DEF FilesInv, Contents, JobInv, Working, Copying
<1> QED
  BY <1>4, <1>5, <1>6, <1>12 DEF Contents

\* A removal begins, which is not at a directory that is being copied to, or
\* fails; a job is asked to stop.
LEMMA ContentsDisturbed ==
  ASSUME FilesInv, UNCHANGED <<dir, job, late>>,
         \/ \E p \in Paths : BeginRemove(p)
         \/ Disturbed' = Disturbed
  PROVE  Contents'
<1>1. /\ Disturbed \subseteq Disturbed'
      /\ \A q \in Disturbed' \ Disturbed : dir[q].manifest.state # "none"
      /\ Disturbed' \subseteq Paths
  BY DEF BeginRemove, Listed, Disturbed, FilesInv, Types
<1>2. GoneInv'
  <2>1. Absent.manifest.state = "none"
    BY DEF Absent, NoManifest
  <2>2. \A q \in Disturbed' : dir[q].exists
    BY <1>1, <2>1 DEF FilesInv, Contents, GoneInv
  <2> QED
    BY <2>2 DEF FilesInv, Contents, GoneInv
<1>3. PureInv' /\ AdmittedIsComplete'
  BY <1>1 DEF FilesInv, Contents, PureInv, AdmittedIsComplete, Admitted,
              Complete, Pure, Disturbed
<1>4. JobInv'
  <2>1. PlaceInv /\ PlaceInv' /\ (Working' <=> Working) /\ (Copying' <=> Copying)
    BY DEF FilesInv, Contents, JobInv, PlaceInv, Running, Working, Copying
  <2>2. SealInv => SealInv'
    BY <1>1 DEF SealInv, Pure, Filled
  <2>3. CopyInv => CopyInv'
    BY <1>1, <2>1 DEF CopyInv, Pure, Filled, Admitted
  <2> QED
    BY <2>1, <2>2, <2>3 DEF FilesInv, Contents, JobInv
<1> QED
  BY <1>2, <1>3, <1>4 DEF Contents

\* A verification begins, which writes nothing.
LEMMA ContentsBeginVerify ==
  ASSUME FilesInv, NEW p \in Paths, BeginVerify(p)
  PROVE  Contents'
<1>1. /\ job'.kind = "verify" /\ ~job'.created /\ job'.done = 0
      /\ job'.manifest = dir[p].manifest /\ ~job'.filling
      /\ Admitted(dir[p]) /\ UNCHANGED <<dir, removing, torn, late>>
      /\ job'.stage = "running"
  BY DEF BeginVerify, Begin, NoJob
<1>2. dir[p].manifest.shards \in 0 .. MaxShards
  BY DEF FilesInv, Types, Directories, Manifests
<1>3. job'.done <= job'.manifest.shards /\ job'.manifest.state = "whole"
  BY <1>1, <1>2 DEF Admitted
<1>4. JobInv'
  BY <1>1, <1>3 DEF JobInv, PlaceInv, Working, Copying
<1> QED
  BY <1>1, <1>4 DEF FilesInv, Contents, GoneInv, PureInv, AdmittedIsComplete,
                    Disturbed, Pure, Admitted, Complete

\* check_shard reads one shard and writes nothing.
LEMMA ContentsVerifyShard ==
  ASSUME FilesInv, VerifyShard
  PROVE  Contents'
<1>1. /\ job'.kind = "verify" /\ job.kind = "verify"
      /\ job'.created = job.created /\ job'.done = job.done + 1
      /\ job'.manifest = job.manifest /\ job'.filling = job.filling
      /\ MoreShards /\ UNCHANGED <<dir, removing, torn, late>>
      /\ job'.stage = job.stage
  BY DEF VerifyShard, FilesInv, Types, JobRecords
<1>2. Running /\ Working /\ ~job.filling
  BY <1>1 DEF MoreShards, Working, Running, FilesInv, Contents, JobInv
<1>3. job'.done <= job'.manifest.shards
  BY <1>1, NextShard DEF FilesInv
<1>4. JobInv'
  BY <1>1, <1>2, <1>3
     DEF FilesInv, Contents, JobInv, PlaceInv, Running, Working, Copying
<1> QED
  BY <1>1, <1>4 DEF FilesInv, Contents, GoneInv, PureInv, AdmittedIsComplete,
                    Disturbed, Pure, Admitted, Complete

\* seal_into writes one shard more to a directory without a manifest.
LEMMA ContentsSealShard ==
  ASSUME FilesInv, SealShard
  PROVE  Contents'
<1> DEFINE to == job.to
           k == job.done + 1
<1>1. /\ MoreShards /\ Running /\ job.kind = "seal" /\ SealInv /\ PlaceInv
      /\ to \in Paths /\ dir[to].exists /\ ~job.filling /\ Working
      /\ UNCHANGED <<removing, torn, late>>
  BY DEF SealShard, MoreShards, Working, Running, FilesInv, Contents, JobInv,
         PlaceInv
<1>2. /\ k \in 1 .. MaxShards /\ k <= job.manifest.shards
      /\ job.done \in Nat
  BY <1>1, NextShard DEF FilesInv
<1>3. /\ \A q \in Paths : q # to => dir'[q] = dir[q]
      /\ dir'[to].exists = dir[to].exists
      /\ dir'[to].manifest = dir[to].manifest
      /\ \A i \in 1 .. MaxShards :
           dir'[to].shard[i] = IF i = k THEN job.manifest.seal
                               ELSE dir[to].shard[i]
  BY <1>1, <1>2 DEF SealShard, FilesInv, Types, Directories
<1>4. /\ job'.kind = "seal" /\ job'.to = to /\ job'.done = k
      /\ job'.manifest = job.manifest /\ ~job'.filling
      /\ job'.stage = "running"
  BY <1>1 DEF SealShard, Working, FilesInv, Types, JobRecords
<1>5. dir'[to].manifest.state = "none"
  BY <1>1, <1>3 DEF SealInv
<1>6. GoneInv'
  BY <1>1, <1>3 DEF FilesInv, Types, Contents, GoneInv, Disturbed
<1>7. PureInv'
  BY <1>1, <1>3, <1>5 DEF FilesInv, Contents, PureInv, Pure, Admitted
<1>8. AdmittedIsComplete'
  BY <1>1, <1>3, <1>5
     DEF FilesInv, Contents, AdmittedIsComplete, Admitted, Complete
<1>9. SealInv'
  <2>1. Pure(dir[to], MaxShards, job.manifest.seal)'
    BY <1>1, <1>3, <1>4 DEF SealInv, Pure
  <2>2. ASSUME dir[to].exists, to \notin Disturbed
        PROVE  Filled(dir[to], job.done, job.manifest.seal)'
    <3>1. \A i \in 1 .. job.done : dir[to].shard[i] = job.manifest.seal
      BY <1>1, <2>2 DEF SealInv, Filled
    <3>2. \A i \in 1 .. k : i \in 1 .. job.done \/ i = k
      BY <1>2
    <3>3. \A i \in 1 .. k : i \in 1 .. MaxShards
      BY <1>2, FilesAssumption
    <3>4. \A i \in 1 .. k : dir'[to].shard[i] = job.manifest.seal
      BY <1>3, <3>1, <3>2, <3>3
    <3> QED
      BY <1>4, <3>4 DEF Filled
  <2>3. Disturbed' = Disturbed
    BY <1>1 DEF Disturbed
  <2> QED
    BY <1>1, <1>3, <1>4, <1>5, <2>1, <2>2, <2>3 DEF SealInv
<1>10. JobInv'
  BY <1>1, <1>2, <1>4, <1>9 DEF JobInv, PlaceInv, Working, Copying
<1> QED
  BY <1>6, <1>7, <1>8, <1>10 DEF Contents

\* A copy goes on: the source shard is there, and it is of the sealing the
\* manifest read at the start is of.
LEMMA ContentsCopyShard ==
  ASSUME FilesInv, CopyShard
  PROVE  Contents'
<1> DEFINE to == job.to
           from == job.from
           k == job.done + 1
<1>1. /\ MoreShards /\ Running /\ Working /\ Copying /\ job.kind = "copy"
      /\ PlaceInv /\ dir[from].shard[k] # 0
      /\ UNCHANGED <<removing, torn, late>>
  BY DEF CopyShard, MoreShards, Working, Running, Copying, FilesInv, Contents,
         JobInv
<1>2. /\ k \in 1 .. MaxShards /\ k \in 1 .. job.manifest.shards
      /\ job.done \in Nat /\ job.manifest.shards \in 0 .. MaxShards
      /\ job.done # job.manifest.shards
  BY <1>1, NextShard DEF FilesInv, MoreShards
<1>3. ~job.filling /\ to \in Paths /\ from \in Paths /\ from # to
  BY <1>1, <1>2 DEF FilesInv, Contents, JobInv, PlaceInv
<1>5. /\ \A q \in Paths : q # to => dir'[q] = dir[q]
      /\ dir'[to].exists /\ dir'[to].manifest = dir[to].manifest
      /\ \A i \in 1 .. MaxShards :
           dir'[to].shard[i] = IF i = k THEN dir[from].shard[k]
                               ELSE dir[to].shard[i]
  BY <1>2, <1>3 DEF CopyShard, FilesInv, Types, Directories
<1>6. /\ job'.kind = "copy" /\ job'.to = to /\ job'.from = from
      /\ job'.done = k /\ job'.manifest = job.manifest
      /\ ~job'.filling /\ job'.stage = "running"
  BY <1>1, <1>3 DEF CopyShard, Working, FilesInv, Types, JobRecords
<1>4. to \notin late => CopyInv
  BY <1>1 DEF FilesInv, Contents, JobInv
<1>7. GoneInv'
  BY <1>1, <1>3, <1>5 DEF FilesInv, Types, Contents, GoneInv, Disturbed
<1>12. \A q \in Paths : Admitted(dir'[q]) => dir'[q] = dir[q] \/ q \in late
  BY <1>3, <1>4, <1>5 DEF CopyInv, Admitted
<1>8. PureInv'
  BY <1>1, <1>12 DEF FilesInv, Contents, PureInv, Pure, Admitted
<1>9. AdmittedIsComplete'
  BY <1>1, <1>12
     DEF FilesInv, Contents, AdmittedIsComplete, Admitted, Complete
<1>10. ASSUME to \notin late
       PROVE  CopyInv'
  <2>1. \A i \in 1 .. job.manifest.shards : i \in 1 .. MaxShards
    BY <1>2, FilesAssumption
  <2>9. CopyInv
    BY <1>4, <1>10
  <2>8. dir[from].shard[k] = job.manifest.seal
    BY <1>1, <1>2, <2>9 DEF CopyInv, Pure
  <2>2. Pure(dir[to], job.manifest.shards, job.manifest.seal)'
    BY <1>5, <1>6, <2>1, <2>8, <2>9 DEF CopyInv, Pure
  <2>3. Pure(dir[from], job.manifest.shards, job.manifest.seal)'
    BY <1>3, <1>5, <1>6, <2>9 DEF CopyInv, Pure
  <2>7. /\ to \notin Disturbed /\ dir[to].exists
        /\ dir[to].manifest.state = "none"
    BY <1>1, <1>3, <2>9 DEF CopyInv
  <2>4. Filled(dir[to], job.done, job.manifest.seal)'
    <3>1. \A i \in 1 .. job.done : dir[to].shard[i] = job.manifest.seal
      BY <2>7, <2>9 DEF CopyInv, Filled
    <3>2. \A i \in 1 .. k : i \in 1 .. job.done \/ i = k
      BY <1>2
    <3>3. \A i \in 1 .. k : i \in 1 .. MaxShards
      BY <1>2, FilesAssumption
    <3>4. \A i \in 1 .. k : dir'[to].shard[i] = job.manifest.seal
      BY <1>5, <2>8, <3>1, <3>2, <3>3
    <3> QED
      BY <1>6, <3>4 DEF Filled
  <2>5. Disturbed' = Disturbed
    BY <1>1 DEF Disturbed
  <2>6. Admitted(dir'[from]) => dir'[from].manifest = job'.manifest
    BY <1>3, <1>5, <1>6, <2>9 DEF CopyInv
  <2> QED
    BY <1>5, <1>6, <2>2, <2>3, <2>4, <2>5, <2>6, <2>7 DEF CopyInv
<1>11. JobInv'
  BY <1>1, <1>2, <1>3, <1>6, <1>10 DEF JobInv, PlaceInv, Working, Copying
<1> QED
  BY <1>7, <1>8, <1>9, <1>11 DEF Contents

\* A manifest appears whole, at the end of a seal or of a copy, in a directory
\* that has its shards unless a removal has taken some.
LEMMA ContentsManifest ==
  ASSUME FilesInv, Working, job.kind \in {"seal", "copy"},
         job.done = job.manifest.shards, dir[job.to].exists,
         job.to \notin late => dir'[job.to].manifest = job.manifest,
         dir'[job.to].exists, dir'[job.to].shard = dir[job.to].shard,
         \A q \in Paths : q # job.to => dir'[q] = dir[q],
         UNCHANGED <<removing, torn, late>>, job' = Ended("done")
  PROVE  Contents'
<1> DEFINE to == job.to
<1>1. ~Running' /\ ~job'.filling
  BY DEF Ended, NoJob, Running
<1>0. to \in Paths
  BY DEF FilesInv, Contents, JobInv, PlaceInv, Working, Running
<1>2. ASSUME to \notin late
      PROVE  /\ Pure(dir[to], job.manifest.shards, job.manifest.seal)
             /\ to \notin Disturbed =>
                  Filled(dir[to], job.manifest.shards, job.manifest.seal)
  <2>1. \A i \in 1 .. job.manifest.shards : i \in 1 .. MaxShards
    BY FilesAssumption DEF FilesInv, Types, JobRecords, Manifests
  <2>2. CASE job.kind = "seal"
    BY <2>1, <2>2 DEF FilesInv, Contents, JobInv, SealInv, Pure
  <2>3. CASE job.kind = "copy"
    BY <1>2, <2>3 DEF FilesInv, Contents, JobInv, CopyInv, Working, Copying
  <2> QED
    BY <2>2, <2>3
<1>4. GoneInv'
  BY <1>0 DEF FilesInv, Types, Contents, GoneInv, Disturbed
<1>5. PureInv'
  BY <1>0, <1>2 DEF FilesInv, Contents, PureInv, Pure, Admitted
<1>6. AdmittedIsComplete'
  BY <1>0, <1>2 DEF FilesInv, Contents, AdmittedIsComplete, Admitted,
                    Complete, Filled, Disturbed
<1>7. JobInv'
  BY <1>1 DEF JobInv, PlaceInv, Running, Working, Copying
<1> QED
  BY <1>4, <1>5, <1>6, <1>7 DEF Contents

\* The two ways a manifest is finished: the rename of a seal, the end of a
\* copy, whose file may have been unlinked meanwhile.
LEMMA ContentsManifestEnds ==
  ASSUME FilesInv, SealManifest \/ CopyManifestEnds
  PROVE  Contents'
<1> DEFINE to == job.to
<1>0. /\ Working /\ Running /\ to \in Paths
      /\ UNCHANGED <<removing, torn, late>> /\ job' = Ended("done")
      /\ job.done = job.manifest.shards
  BY DEF SealManifest, CopyManifestEnds, AllShards, Working, Running, FilesInv,
         Contents, JobInv, PlaceInv
<1>1. CASE SealManifest
  <2>1. /\ \A q \in Paths : q # to => dir'[q] = dir[q]
        /\ dir'[to].exists /\ dir'[to].manifest = job.manifest
        /\ dir'[to].shard = dir[to].shard /\ dir[to].exists
    BY <1>0, <1>1 DEF SealManifest, FilesInv, Types, Directories
  <2> QED
    BY <1>0, <1>1, <2>1, ContentsManifest DEF SealManifest
<1>2. CASE CopyManifestEnds
  <2>1. job.kind = "copy" /\ Copying
    BY <1>0, <1>2 DEF CopyManifestEnds, FilesInv, Contents, JobInv, Working,
                      Copying
  <2>2. CASE dir[to].manifest.state = "partial"
    <3>1. Absent.manifest.state # "partial"
      BY DEF Absent, NoManifest
    <3>2. dir[to].exists
      BY <1>0, <2>2, <3>1 DEF FilesInv, Contents, GoneInv
    <3>3. /\ \A q \in Paths : q # to => dir'[q] = dir[q]
          /\ dir'[to].exists = dir[to].exists
          /\ dir'[to].manifest = [dir[to].manifest EXCEPT !.state = "whole"]
          /\ dir'[to].shard = dir[to].shard
      BY <1>0, <1>2, <2>2 DEF CopyManifestEnds, FilesInv, Types, Directories
    <3>4. ASSUME to \notin late
          PROVE  dir'[to].manifest = job.manifest
      <4>1. dir[to].manifest = [job.manifest EXCEPT !.state = "partial"]
        BY <2>1, <2>2, <3>4 DEF FilesInv, Contents, JobInv, CopyInv
      <4>2. job.manifest.state = "whole" /\ job.manifest \in Manifests
        BY <1>0 DEF FilesInv, Types, JobRecords, Contents, JobInv, PlaceInv
      <4>3. [[job.manifest EXCEPT !.state = "partial"] EXCEPT !.state = "whole"]
              = job.manifest
        BY <4>2 DEF Manifests
      <4> QED
        BY <3>3, <4>1, <4>3
    <3> QED
      BY <1>0, <2>1, <3>2, <3>3, <3>4, ContentsManifest
  <2>3. CASE dir[to].manifest.state # "partial"
    <3>1. ~Running' /\ ~job'.filling
      BY <1>0 DEF Ended, NoJob, Running
    <3>2. UNCHANGED <<dir, late>> /\ Disturbed' = Disturbed
      BY <1>0, <1>2, <2>3 DEF CopyManifestEnds, Disturbed
    <3> QED
      BY <3>1, <3>2, ContentsIdle
  <2> QED
    BY <2>2, <2>3
<1> QED
  BY <1>1, <1>2

\* The copied manifest exists and cannot be read yet.  From here on the
\* directory is listed, and a removal may begin.
LEMMA ContentsManifestBegins ==
  ASSUME FilesInv, CopyManifestBegins
  PROVE  Contents'
<1> DEFINE to == job.to
           from == job.from
<1>1. /\ Running /\ Working /\ Copying /\ job.kind = "copy" /\ PlaceInv
      /\ job.done = job.manifest.shards /\ ~job.filling
      /\ to \in Paths /\ from \in Paths /\ from # to
      /\ dir[to].exists /\ Admitted(dir[from])
      /\ UNCHANGED <<removing, torn, late>>
  BY DEF CopyManifestBegins, AllShards, Admitted, Running, Working, Copying,
         FilesInv, Contents, JobInv, PlaceInv
<1>2. dir[from].manifest \in Manifests
  BY <1>1 DEF FilesInv, Types, Directories
<1>3. /\ \A q \in Paths : q # to => dir'[q] = dir[q]
      /\ dir'[to].exists /\ dir'[to].shard = dir[to].shard
      /\ dir'[to].manifest = [dir[from].manifest EXCEPT !.state = "partial"]
  BY <1>1 DEF CopyManifestBegins, FilesInv, Types, Directories
<1>4. dir'[to].manifest.state = "partial"
  BY <1>2, <1>3 DEF Manifests
<1>5. /\ job'.kind = "copy" /\ job'.to = to /\ job'.from = from
      /\ job'.done = job.done /\ job'.manifest = job.manifest
      /\ job'.filling /\ job'.stage = "running"
  BY <1>1 DEF CopyManifestBegins, Working, FilesInv, Types, JobRecords
<1>6. GoneInv'
  BY <1>1, <1>3 DEF FilesInv, Types, Contents, GoneInv, Disturbed
<1>7. PureInv'
  BY <1>1, <1>3, <1>4 DEF FilesInv, Contents, PureInv, Pure, Admitted
<1>8. AdmittedIsComplete'
  <2>1. \A q \in Paths : Admitted(dir'[q]) => dir'[q] = dir[q]
    BY <1>3, <1>4 DEF Admitted
  <2> QED
    BY <1>1, <2>1
       DEF FilesInv, Contents, AdmittedIsComplete, Admitted, Complete
<1>9. ASSUME to \notin late
      PROVE  CopyInv'
  <2>0. CopyInv /\ to \notin Disturbed
    BY <1>1, <1>9 DEF FilesInv, Contents, JobInv, CopyInv
  <2>1. Disturbed' = Disturbed /\ dir'[from] = dir[from]
    BY <1>1, <1>3 DEF Disturbed
  <2>2. /\ Pure(dir[from], job.manifest.shards, job.manifest.seal)'
        /\ Pure(dir[to], job.manifest.shards, job.manifest.seal)'
    BY <1>3, <1>5, <2>0, <2>1 DEF CopyInv, Pure
  <2>3. Filled(dir[to], job.done, job.manifest.seal)'
    BY <1>1, <1>3, <1>5, <2>0 DEF CopyInv, Filled
  <2>4. dir[from].manifest = job.manifest
    BY <1>1, <2>0 DEF CopyInv
  <2>5. Admitted(dir'[from]) => dir'[from].manifest = job'.manifest
    BY <1>5, <2>1, <2>4
  <2>6. dir'[to].manifest = [job'.manifest EXCEPT !.state = "partial"]
    BY <1>3, <1>5, <2>4
  <2> QED
    BY <1>4, <1>5, <2>2, <2>3, <2>5, <2>6 DEF CopyInv
<1>10. JobInv'
  BY <1>1, <1>5, <1>9 DEF JobInv, PlaceInv, Working, Copying
<1> QED
  BY <1>6, <1>7, <1>8, <1>10 DEF Contents

\* Every step of a job, of a removal and of the app keeps the contents.
LEMMA ContentsNext ==
  ASSUME FilesInv, [Next]_vars
  PROVE  Contents'
<1>1. CASE UNCHANGED vars
  BY <1>1, ContentsDisturbed DEF vars, Disturbed
<1>2. ASSUME NEW c \in Calls, NEW n \in Names,
             CheckImport(c, n) \/ CheckExport(c, n)
      PROVE  Contents'
  BY <1>2, ContentsDisturbed DEF CheckImport, CheckExport, CheckCopy, Disturbed
<1>7. ASSUME NEW c \in Calls, CopyRefused(c)
      PROVE  Contents'
  BY <1>7, ContentsDisturbed DEF CopyRefused, Disturbed
<1>3. ASSUME NEW p \in Paths,
             BeginRemove(p) \/ RemoveEntry(p) \/ EndRemove(p) \/ RemoveFails(p)
      PROVE  Contents'
  <2>1. CASE BeginRemove(p)
    BY <2>1, ContentsDisturbed DEF BeginRemove
  <2>2. CASE RemoveEntry(p) \/ EndRemove(p)
    BY <2>2, ContentsUnlink, ContentsEndRemove DEF RemoveEntry
  <2>3. CASE RemoveFails(p)
    <3>1. UNCHANGED <<dir, job, late>> /\ Disturbed' = Disturbed
      BY <2>3 DEF RemoveFails, Disturbed
    <3> QED
      BY <3>1, ContentsDisturbed
  <2> QED
    BY <1>3, <2>1, <2>2, <2>3
<1>4. CASE JobFails \/ JobCancelled
  BY <1>4, ContentsFails DEF JobFails, JobCancelled, Working
<1>8. CASE Cleanup
  BY <1>8, CleaningPlace, ContentsUnlink DEF Cleanup
<1>5. CASE VerifyEnds \/ Dismiss \/ Kill
  <2>1. job' = Ended("done") \/ job' = Ended("failed") \/ job' = NoJob
    BY <1>5 DEF VerifyEnds, Dismiss, Kill
  <2>2. ~Running' /\ ~job'.filling
    <3>1. CASE job' = NoJob
      BY <3>1 DEF NoJob, Running
    <3>2. CASE job' = Ended("done")
      BY <3>2 DEF Ended, NoJob, Running
    <3>3. CASE job' = Ended("failed")
      BY <3>3 DEF Ended, NoJob, Running
    <3> QED
      BY <2>1, <3>1, <3>2, <3>3
  <2>3. UNCHANGED <<dir, late>> /\ Disturbed' = Disturbed
    <3>1. CASE VerifyEnds \/ Dismiss
      BY <3>1 DEF VerifyEnds, Dismiss, Disturbed
    <3>2. CASE Kill
      BY <3>2 DEF Kill, Disturbed
    <3> QED
      BY <1>5, <3>1, <3>2
  <2> QED
    BY <2>2, <2>3, ContentsIdle
<1>6. CASE Cancel
  BY <1>6, ContentsDisturbed DEF Cancel, Disturbed
<1> QED
  BY <1>1, <1>2, <1>3, <1>4, <1>5, <1>6, <1>7, <1>8, ContentsBeginSeal,
     ContentsBeginCopy, ContentsMakeTarget, ContentsCleanupEnds,
     ContentsBeginVerify, ContentsSealShard, ContentsCopyShard,
     ContentsVerifyShard, ContentsManifestEnds, ContentsManifestBegins
     DEF Next, JobStep

-----------------------------------------------------------------------------
(* The theorems *)

\* Every file operation of sealing, import, export, verification and removal
\* keeps the directories, the job and the manifests well-formed, and no copy
\* or seal mixes the shards of two sealings.
THEOREM FilesInductive == Spec => []FilesInv
<1>1. Init => FilesInv
  <2>1. ASSUME Init
        PROVE  Contents
    <3>1. \A p \in Paths : dir[p] = Absent
      BY <2>1 DEF Init
    <3>2. Absent.manifest.state = "none"
      BY DEF Absent, NoManifest
    <3>3. Disturbed = {}
      BY <2>1 DEF Init, Disturbed
    <3>4. ~Running /\ ~job.filling
      BY <2>1 DEF Init, NoJob, Running
    <3>5. JobInv
      BY <3>4 DEF JobInv, PlaceInv, Running, Working, Copying
    <3> QED
      BY <3>1, <3>2, <3>3, <3>5 DEF Contents, GoneInv, PureInv,
         AdmittedIsComplete, Admitted
  <2> QED
    BY <2>1, TypesHold DEF FilesInv
<1>2. FilesInv /\ [Next]_vars => FilesInv'
  BY TypesNext, ContentsNext DEF FilesInv
<1> QED
  BY <1>1, <1>2, PTL DEF Spec

\* The type invariant of the bundle directories holds for every number of
\* names, shards, sealings and faults.
THEOREM FilesTypeCorrect == Spec => []TypeOK
<1>1. FilesInv => TypeOK
  <2> SUFFICES ASSUME FilesInv
               PROVE  TypeOK
    OBVIOUS
  <2>1. cancel \in BOOLEAN
    BY DEF FilesInv, Types
  <2>2. /\ job.stage \in {"none", "begun", "running", "cleaning",
                          "done", "failed", "cancelled"}
        /\ job.done \in 0 .. MaxShards
    BY DEF FilesInv, Types, JobRecords, Stages
  <2>3. /\ removing \subseteq Paths /\ torn \subseteq Paths
        /\ late \subseteq Paths
        /\ faults \in 0 .. MaxFaults /\ sealings \in 0 .. MaxSealings
        /\ \A p \in Paths : dir[p].exists \/ dir[p] = Absent
    BY DEF FilesInv, Types, Contents, GoneInv
  <2> QED
    BY <2>1, <2>2, <2>3 DEF TypeOK
<1> QED
  BY <1>1, FilesInductive, PTL

\* What scan_existing_bundles and the app take for a bundle has every shard of
\* the sealing its manifest names, whatever was cancelled, failed, left half
\* cleaned up or killed and however removals interleaved with it, unless it is
\* itself being removed or a copy began on it after its check was outdated.
THEOREM BundlesAreComplete == Spec => []AdmittedIsComplete
<1>1. FilesInv => AdmittedIsComplete
  BY DEF FilesInv, Contents
<1> QED
  BY <1>1, FilesInductive, PTL

=============================================================================
