----------------------------- MODULE BundleFiles -----------------------------
(***************************************************************************)
(* Bundle directories on disk: sealing (bundle.rs, cordon-provision),      *)
(* import, export, verification and removal (the desktop's bundles.rs),    *)
(* and what the model store and the app take for a bundle.                 *)
(*                                                                         *)
(* One job runs at a time; a removal is a command of its own and runs      *)
(* beside it.  An import or an export looks at its target before it asks   *)
(* for the job, so that others run in between.  The process may be killed  *)
(* between any two file operations.                                        *)
(* Every sealing draws fresh nonces, so shards and manifests of different  *)
(* sealings never match: a sealing is known by its number.                 *)
(***************************************************************************)
EXTENDS Naturals, FiniteSets

CONSTANTS
  Names,        \* bundle ids
  Calls,        \* import and export commands in progress at once
  MaxShards,    \* shards of the largest weights
  MaxSealings,  \* bound on sealings
  MaxFaults     \* bound on I/O errors and kills

ASSUME FilesAssumption ==
  MaxShards \in Nat \ {0} /\ MaxSealings \in Nat /\ MaxFaults \in Nat

VARIABLES
  dir,       \* the bundle directories of the store and of other folders
  job,       \* the job of Jobs or of one cordon-provision
  call,      \* import and export commands that have looked at their target
  cancel,    \* the cancel flag of Jobs
  removing,  \* the directories a removal is deleting
  torn,      \* history: directories whose removal was cut short
  late,      \* history: targets of a copy that began on an outdated check
  sealings,  \* sealings so far, bounded by MaxSealings
  faults     \* faults so far, bounded by MaxFaults

vars == <<dir, job, call, cancel, removing, torn, late, sealings, faults>>

Places == {"store", "folder"}
Paths == Places \X Names

\* A directory: its shard files by index, each from some sealing, and its
\* manifest.json, which says of how many shards of which sealing it is made.
\* A manifest that is only partly copied cannot be read.
NoManifest == [state |-> "none", seal |-> 0, shards |-> 0]
Absent == [exists |-> FALSE, shard |-> [i \in 1 .. MaxShards |-> 0],
           manifest |-> NoManifest]
Empty == [Absent EXCEPT !.exists = TRUE]

ManifestOf(s, n) == [state |-> "whole", seal |-> s, shards |-> n]

\* read_manifest succeeds: the model store, the app and verify take the
\* directory for a bundle.  validate_structure never admitted one without
\* shards.
Admitted(d) == d.manifest.state = "whole"

Complete(d) ==
  \A i \in 1 .. d.manifest.shards : d.shard[i] = d.manifest.seal

NoJob == [kind |-> "none", from |-> <<>>, to |-> <<>>, manifest |-> NoManifest,
          done |-> 0, filling |-> FALSE, created |-> FALSE, ok |-> TRUE,
          stage |-> "none"]

\* A command between its check of the target and Jobs::begin.
NoCall == [from |-> <<>>, to |-> <<>>, manifest |-> NoManifest]

Init ==
  /\ dir = [p \in Paths |-> Absent]
  /\ job = NoJob
  /\ call = [c \in Calls |-> NoCall]
  /\ cancel = FALSE
  /\ removing = {} /\ torn = {} /\ late = {}
  /\ sealings = 0 /\ faults = 0

\* The job's stage is "running" for everybody else; its thread has not made
\* the target yet, writes to it, or removes it again.
Running == job.stage \in {"begun", "running", "cleaning"}

Working == job.stage = "running"

Fault == faults < MaxFaults /\ faults' = faults + 1

-------------------------------------------------------------------------------
(* Beginning a job *)

\* Jobs::begin: one job at a time, with the cancel flag cleared.
Begin(j, stage) ==
  /\ ~Running
  /\ job' = [j EXCEPT !.stage = stage]
  /\ cancel' = FALSE

IsEmpty(d) ==
  d.manifest.state = "none" /\ \A i \in 1 .. MaxShards : d.shard[i] = 0

\* prepare_output: a new directory, or one that exists and is empty.
Usable(d) == IsEmpty(d)

\* Seal weights of n shards; the output directory is made before anything is
\* written, and removed on failure only if it was made here.
BeginSeal(p, n) ==
  /\ sealings < MaxSealings
  /\ sealings' = sealings + 1
  /\ Usable(dir[p])
  /\ Begin([NoJob EXCEPT !.kind = "seal", !.to = p,
                         !.manifest = ManifestOf(sealings', n),
                         !.created = ~dir[p].exists], "running")
  /\ dir' = [dir EXCEPT ![p].exists = TRUE]
  /\ late' = late \ {p}
  /\ UNCHANGED <<call, removing, torn, faults>>

\* The manifest is read and the target must not exist yet.
CheckCopy(c, from, to) ==
  /\ call[c] = NoCall
  /\ Admitted(dir[from])
  /\ ~dir[to].exists
  /\ call' = [call EXCEPT ![c] = [from |-> from, to |-> to,
                                 manifest |-> dir[from].manifest]]
  /\ UNCHANGED <<dir, job, cancel, removing, torn, late, sealings, faults>>

\* Under the bundle's own name, which must be free in the store, as a
\* directory or as a bundle.
CheckImport(c, n) == CheckCopy(c, <<"folder", n>>, <<"store", n>>)

CheckExport(c, n) == CheckCopy(c, <<"store", n>>, <<"folder", n>>)

\* What the command saw no longer holds, or is itself the result of such a
\* copy.
Outdated(k) ==
  \/ dir[k.to].exists
  \/ dir[k.from].manifest # k.manifest
  \/ k.from \in late

\* The command asks for the job; nothing is looked at again.
BeginCopy(c) ==
  /\ call[c] # NoCall
  /\ Begin([NoJob EXCEPT !.kind = "copy", !.from = call[c].from,
                         !.to = call[c].to, !.manifest = call[c].manifest,
                         !.created = TRUE], "begun")
  /\ call' = [call EXCEPT ![c] = NoCall]
  /\ late' = IF Outdated(call[c]) THEN late \cup {call[c].to}
                                  ELSE late \ {call[c].to}
  /\ UNCHANGED <<dir, removing, torn, sealings, faults>>

\* Another task is still running.
CopyRefused(c) ==
  /\ call[c] # NoCall
  /\ Running
  /\ call' = [call EXCEPT ![c] = NoCall]
  /\ UNCHANGED <<dir, job, cancel, removing, torn, late, sealings, faults>>

BeginVerify(p) ==
  /\ Admitted(dir[p])
  /\ Begin([NoJob EXCEPT !.kind = "verify", !.from = p,
                         !.manifest = dir[p].manifest], "running")
  /\ UNCHANGED <<dir, call, removing, torn, late, sealings, faults>>

-------------------------------------------------------------------------------
(* The steps of a job *)

\* copy_bundle makes the directory, or finds it.
MakeTarget ==
  /\ job.stage = "begun"
  /\ dir' = [dir EXCEPT ![job.to].exists = TRUE]
  /\ job' = [job EXCEPT !.stage = "running"]
  /\ UNCHANGED <<call, cancel, removing, torn, late, sealings, faults>>

MoreShards == Working /\ ~cancel /\ job.done < job.manifest.shards

\* seal_into: read, encrypt and write the next shard.
SealShard ==
  /\ MoreShards /\ job.kind = "seal"
  /\ dir[job.to].exists
  /\ dir' = [dir EXCEPT ![job.to].shard[job.done + 1] = job.manifest.seal]
  /\ job' = [job EXCEPT !.done = @ + 1]
  /\ UNCHANGED <<call, cancel, removing, torn, late, sealings, faults>>

\* copy_bundle: the shard is copied as it is now; its directory is made anew
\* if it is gone.
CopyShard ==
  LET i == job.done + 1
  IN  /\ MoreShards /\ job.kind = "copy"
      /\ dir[job.from].shard[i] # 0
      /\ dir' = [dir EXCEPT ![job.to].exists = TRUE,
                            ![job.to].shard[i] = dir[job.from].shard[i]]
      /\ job' = [job EXCEPT !.done = i]
      /\ UNCHANGED <<call, cancel, removing, torn, late, sealings, faults>>

\* check_shard: against the manifest read at the start, also under a key.
VerifyShard ==
  LET i == job.done + 1
  IN  /\ MoreShards /\ job.kind = "verify"
      /\ job' = [job EXCEPT !.done = i,
                            !.ok = @ /\ dir[job.from].shard[i]
                                          = job.manifest.seal]
      /\ UNCHANGED <<dir, call, cancel, removing, torn, late, sealings, faults>>

AllShards == Working /\ job.done = job.manifest.shards

Ended(stage) == [NoJob EXCEPT !.stage = stage]

\* Mutation: the manifest is written before the shards are.
SealManifestFirst ==
  /\ Working /\ job.kind = "seal"
  /\ job.manifest.shards > 0
  /\ dir[job.to].exists
  /\ dir' = [dir EXCEPT ![job.to].manifest = job.manifest]
  /\ job' = IF job.done = job.manifest.shards THEN Ended("done") ELSE job
  /\ UNCHANGED <<call, cancel, removing, torn, late, sealings, faults>>

\* validate_structure, then manifest.json.tmp and its rename: the manifest
\* appears whole.
SealManifest ==
  /\ AllShards /\ job.kind = "seal"
  /\ job.manifest.shards > 0
  /\ dir[job.to].exists
  /\ dir' = [dir EXCEPT ![job.to].manifest = job.manifest]
  /\ job' = Ended("done")
  /\ UNCHANGED <<call, cancel, removing, torn, late, sealings, faults>>

\* The manifest is copied in place: it exists before it can be read.
CopyManifestBegins ==
  /\ AllShards /\ job.kind = "copy" /\ ~job.filling
  /\ dir[job.from].manifest.state = "whole"
  /\ dir[job.to].exists
  /\ dir' = [dir EXCEPT ![job.to].manifest =
                [dir[job.from].manifest EXCEPT !.state = "partial"]]
  /\ job' = [job EXCEPT !.filling = TRUE]
  /\ UNCHANGED <<call, cancel, removing, torn, late, sealings, faults>>

\* Filled through the open file, which a removal may have unlinked.
CopyManifestEnds ==
  /\ Working /\ job.filling
  /\ dir' = IF dir[job.to].manifest.state = "partial"
            THEN [dir EXCEPT ![job.to].manifest.state = "whole"] ELSE dir
  /\ job' = Ended("done")
  /\ UNCHANGED <<call, cancel, removing, torn, late, sealings, faults>>

VerifyEnds ==
  /\ AllShards /\ job.kind = "verify"
  /\ job' = Ended(IF job.ok THEN "done" ELSE "failed")
  /\ UNCHANGED <<dir, call, cancel, removing, torn, late, sealings, faults>>

\* Mutation: a copy waits for a shard its source does not have.
HopelessPatient ==
  \/ AllShards /\ job.kind = "seal" /\ job.manifest.shards = 0
  \/ Working /\ job.kind = "seal" /\ ~dir[job.to].exists
  \/ /\ job.kind = "copy" /\ AllShards /\ ~job.filling
     /\ dir[job.from].manifest.state # "whole" \/ ~dir[job.to].exists

\* A step that cannot be done as the files are now.
Hopeless ==
  \/ AllShards /\ job.kind = "seal" /\ job.manifest.shards = 0
  \/ Working /\ job.kind = "seal" /\ ~dir[job.to].exists
  \/ /\ job.kind = "copy" /\ MoreShards
     /\ dir[job.from].shard[job.done + 1] = 0
  \/ /\ job.kind = "copy" /\ AllShards /\ ~job.filling
     /\ dir[job.from].manifest.state # "whole" \/ ~dir[job.to].exists

\* The job returns an error: what was made for it is removed, by path and
\* whatever is there by now.
Fails ==
  job' = IF job.created THEN [job EXCEPT !.stage = "cleaning", !.filling = FALSE]
         ELSE Ended(IF cancel THEN "cancelled" ELSE "failed")

\* Any step may fail in I/O.
JobFails ==
  /\ job.stage \in {"begun", "running"}
  /\ \/ Hopeless /\ UNCHANGED faults
     \/ Fault
  /\ Fails
  /\ UNCHANGED <<dir, call, cancel, removing, torn, late, sealings>>

\* The flag is seen at the next read, shard or check; after the last of them
\* it is not looked at again.
JobCancelled ==
  /\ Working /\ cancel
  /\ job.done < job.manifest.shards
  /\ Fails
  /\ UNCHANGED <<dir, call, cancel, removing, torn, late, sealings, faults>>

\* remove_dir_all deletes the entries in the order the directory lists them.
Unlink(p) ==
  \/ \E i \in 1 .. MaxShards :
       /\ dir[p].shard[i] # 0
       /\ dir' = [dir EXCEPT ![p].shard[i] = 0]
  \/ /\ dir[p].manifest.state # "none"
     /\ dir' = [dir EXCEPT ![p].manifest = NoManifest]

Cleanup ==
  /\ job.stage = "cleaning"
  /\ Unlink(job.to)
  /\ UNCHANGED <<job, call, cancel, removing, torn, late, sealings, faults>>

\* The directory goes, or it cannot be deleted: the error is ignored.  The
\* outcome is named after the cancel flag.
CleanupEnds ==
  /\ job.stage = "cleaning"
  /\ \/ /\ IsEmpty(dir[job.to])
        /\ dir' = [dir EXCEPT ![job.to] = Absent]
        /\ removing' = removing \ {job.to} /\ torn' = torn \ {job.to}
        /\ UNCHANGED faults
     \/ Fault /\ UNCHANGED <<dir, removing, torn>>
  /\ job' = Ended(IF cancel THEN "cancelled" ELSE "failed")
  /\ UNCHANGED <<call, cancel, late, sealings>>

-------------------------------------------------------------------------------
(* Commands beside the job *)

Cancel ==
  /\ cancel' = TRUE
  /\ UNCHANGED <<dir, job, call, removing, torn, late, sealings, faults>>

Dismiss ==
  /\ job.stage \in {"done", "failed", "cancelled"}
  /\ job' = NoJob
  /\ UNCHANGED <<dir, call, cancel, removing, torn, late, sealings, faults>>

\* A directory of the store with a manifest.json, readable or not.
Listed(p) == p[1] = "store" /\ dir[p].manifest.state # "none"

BeginRemove(p) ==
  /\ Listed(p)
  /\ removing' = removing \cup {p}
  /\ UNCHANGED <<dir, job, call, cancel, torn, late, sealings, faults>>

RemoveEntry(p) ==
  /\ p \in removing
  /\ Unlink(p)
  /\ UNCHANGED <<job, call, cancel, removing, torn, late, sealings, faults>>

EndRemove(p) ==
  /\ p \in removing
  /\ IsEmpty(dir[p])
  /\ dir' = [dir EXCEPT ![p] = Absent]
  /\ removing' = removing \ {p}
  /\ torn' = torn \ {p}
  /\ UNCHANGED <<job, call, cancel, late, sealings, faults>>

\* An entry cannot be deleted, or one appeared that was not listed.
RemoveFails(p) ==
  /\ p \in removing
  /\ Fault
  /\ removing' = removing \ {p}
  /\ torn' = torn \cup {p}
  /\ UNCHANGED <<dir, job, call, cancel, late, sealings>>

\* The app is killed: the job, the commands and the removals end where they
\* are.
Kill ==
  /\ Fault
  /\ job' = NoJob
  /\ call' = [c \in Calls |-> NoCall]
  /\ cancel' = FALSE
  /\ torn' = torn \cup removing
  /\ removing' = {}
  /\ UNCHANGED <<dir, late, sealings>>

-------------------------------------------------------------------------------
(* Specification *)

JobStep ==
  \/ MakeTarget \/ SealShard \/ CopyShard \/ VerifyShard
  \/ SealManifest \/ CopyManifestBegins \/ CopyManifestEnds
  \/ VerifyEnds \/ JobFails \/ JobCancelled \/ Cleanup \/ CleanupEnds

Next ==
  \/ \E p \in Paths, n \in 0 .. MaxShards : BeginSeal(p, n)
  \/ \E c \in Calls :
       \/ \E n \in Names : CheckImport(c, n) \/ CheckExport(c, n)
       \/ BeginCopy(c) \/ CopyRefused(c)
  \/ \E p \in Paths :
       \/ BeginVerify(p)
       \/ BeginRemove(p) \/ RemoveEntry(p) \/ EndRemove(p) \/ RemoveFails(p)
  \/ JobStep
  \/ Cancel \/ Dismiss \/ Kill

Spec == Init /\ [][Next]_vars

\* The blocking thread runs the job and the command removes to the end.
FairSpec ==
  /\ Spec
  /\ WF_vars(JobStep)
  /\ \A p \in Paths : WF_vars(RemoveEntry(p) \/ EndRemove(p))

-------------------------------------------------------------------------------
(* Properties *)

\* Every variable keeps its type; only directories that exist hold files.
TypeOK ==
  /\ job.stage \in {"none", "begun", "running", "cleaning",
                    "done", "failed", "cancelled"}
  /\ job.done \in 0 .. MaxShards
  /\ cancel \in BOOLEAN
  /\ removing \subseteq Paths /\ torn \subseteq Paths /\ late \subseteq Paths
  /\ faults \in 0 .. MaxFaults /\ sealings \in 0 .. MaxSealings
  /\ \A p \in Paths : dir[p].exists \/ dir[p] = Absent

\* A directory that can be taken for a bundle is complete, with every shard
\* from the sealing its manifest is of: whatever was cancelled, failed, left
\* half cleaned up or killed, nothing half-written is admitted by
\* scan_existing_bundles.  Only a removal takes a bundle apart with its
\* manifest in place, and a copy that began on an outdated check may.
AdmittedIsComplete ==
  \A p \in Paths :
    (Admitted(dir[p]) /\ p \notin removing \cup torn \cup late)
      => Complete(dir[p])

\* A job ends, cancelled or not, and with it the refusal of other jobs.
JobsEnd == Running ~> ~Running

===============================================================================
