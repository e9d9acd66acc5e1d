--------------------------- MODULE DesktopProofs ---------------------------
(***************************************************************************)
(* What is proved of the desktop app and of the configurations: the        *)
(* decrypted weights are accounted for, a client revoked while no issue is *)
(* under way is shut out, and what has been prepared starts and delivers   *)
(* what its mode is documented to.  The settings, certificates, threads,   *)
(* keys and bounds are arbitrary, as DesktopAssumption allows.             *)
(***************************************************************************)
EXTENDS Desktop, TLAPS

-----------------------------------------------------------------------------
(* The staged path *)

(* The slot is a record with the fields of Free, whatever their values. *)
SlotRecord ==
  slot = [at |-> slot.at, by |-> slot.by, s |-> slot.s, log |-> slot.log,
          registry |-> slot.registry, woken |-> slot.woken,
          tries |-> slot.tries, thread |-> slot.thread]

(* What may be at the staged path, besides nothing.                        *)
Files == [by : Threads \cup {NoOne}, at : {"partial", "whole", "left"},
          kept : BOOLEAN]

(* The plaintext is accounted for, and a start that has a thread decrypts  *)
(* a bundle: whatever erases because it is sealed erases what was staged.  *)
StageInv ==
  /\ SlotRecord
  /\ threads \in [Threads -> {"idle", "queued", "writing"}]
  /\ file \in Files \cup {NoOne}
  /\ slot.thread \in Threads \cup {NoOne}
  /\ slot.thread # NoOne => Sealed(slot.s)
  /\ PlaintextAccounted

stageVars == <<slot, threads, file>>

(* A step that touches neither the slot, a thread nor the path leaves the  *)
(* invariant.                                                              *)
LEMMA StageStays ==
  ASSUME StageInv, UNCHANGED stageVars
  PROVE  StageInv'
BY DEF StageInv, stageVars, SlotRecord, Files, Sealed, PlaintextAccounted,
       Holds

(* Engine::stop up to its wait marks a start and moves nothing.            *)
LEMMA StageStopCalled ==
  ASSUME StageInv, NEW op \in Ops, NEW s, CallStop(op, s),
         UNCHANGED <<threads, file>>
  PROVE  StageInv'
BY DEF StageInv, CallStop, SlotRecord, Files, Sealed, PlaintextAccounted,
       Holds

(* What a removal leaves at the path, if anything, is there because it     *)
(* failed.                                                                 *)
LEMMA StageRemoves ==
  ASSUME StageInv, Removes
  PROVE  file' \in Files \cup {NoOne} /\ (file' # NoOne => file'.kept)
BY DEF Removes, StageInv, Files

(* A start that fails or is abandoned drops the StagedModel it holds.      *)
LEMMA StageBootFails ==
  ASSUME StageInv, BootFails, UNCHANGED threads
  PROVE  StageInv'
BY DEF StageInv, BootFails, Erase, Removes, Free, SlotRecord, Files, Sealed,
       PlaintextAccounted, Holds

(* A data directory with nothing staged satisfies the invariant.           *)
LEMMA StageInit == Init => StageInv
BY DesktopAssumption DEF Init, StageInv, Free, SlotRecord, Files, Sealed,
   PlaintextAccounted, Holds

(* Every command, every step of the engine, every thread that decrypts,    *)
(* the release of an old node and the end of the process keep the          *)
(* plaintext accounted for (boot, stage_plaintext, StagedModel::erase).    *)
LEMMA StageNext ==
  ASSUME StageInv, [Next]_vars
  PROVE  StageInv'
<1> USE DEF vars, disks, records, engine
<1>1. CASE UNCHANGED vars
  BY <1>1, StageStays DEF stageVars
<1>2. CASE Commands
  <2>1. CASE \/ \E s \in Choices, restart \in BOOLEAN :
                  SaveSettings(s, restart)
             \/ Start
             \/ \E m \in {"plain", "bundle"} :
                  SelectModel(m) \/ ModelArrives(m)
             \/ \E k \in Keys : KeyCreate(k)
             \/ HardwareCapture
             \/ \E what \in {"ak", "amd_root"} : HardwarePick(what)
             \/ \E c \in Certs : RemoteIssue(c) \/ RemoteRevoke(c)
             \/ RemoteClearRevoked \/ Launch
    BY <2>1, StageStays
       DEF stageVars, SaveSettings, Start, SelectModel, ModelArrives,
           KeyCreate, HardwareCapture, HardwarePick, RemoteIssue,
           RemoteRevoke, RemoteClearRevoked, OnMain, Launch
  <2>2. CASE Stop \/ Quit
    BY <2>2, StageStopCalled DEF Stop, Quit, Ops
  <2>3. CASE \E m \in {"plain", "bundle"} : Remove(m)
    BY <2>3, StageStays, StageStopCalled DEF stageVars, Remove, Ops
  <2>4. CASE KeyRemove
    BY <2>4, StageStays, StageStopCalled DEF stageVars, KeyRemove, Ops
  <2>5. CASE Kill
    BY <2>5 DEF Kill, ProcessEnds, StageInv, Free, Left, SlotRecord, Files,
                Sealed, PlaintextAccounted, Holds
  <2> QED
    BY <1>2, <2>1, <2>2, <2>3, <2>4, <2>5 DEF Commands
<1>3. CASE SlotStep
  <2>1. CASE \E s \in starts : AcquireStart(s)
    BY <2>1 DEF AcquireStart, Take, StageInv, Free, SlotRecord, Files, Sealed,
                PlaintextAccounted, Holds
  <2>2. CASE \E op \in Ops : AcquireStop(op)
    BY <2>2 DEF AcquireStop, Take, StageInv, Free, SlotRecord, Files, Sealed,
                PlaintextAccounted, Holds
  <2>3. CASE Drained
    <3>1. Removes \/ UNCHANGED file
      BY <2>3 DEF Drained, LetGo, Erase
    <3>2. \/ file' \in Files \cup {NoOne} /\ (file' # NoOne => file'.kept)
          \/ UNCHANGED file
      BY <3>1, StageRemoves
    <3>3. /\ slot.at = "draining" /\ UNCHANGED threads
          /\ slot' = Free \/ slot' = [slot EXCEPT !.at = "booting"]
      BY <2>3 DEF Drained
    <3> QED
      BY <3>2, <3>3 DEF StageInv, Free, SlotRecord, Sealed,
                        PlaintextAccounted, Holds
  <2>4. CASE Plan
    <3>1. CASE BootFails
      BY <2>4, <3>1, StageBootFails DEF Plan
    <3>2. CASE ~BootFails
      BY <2>4, <3>2 DEF Plan, Boots, StageInv, SlotRecord, Files, Sealed,
                        PlaintextAccounted, Holds
    <3> QED
      BY <3>1, <3>2
  <2>5. CASE Build
    <3>1. CASE BootFails /\ UNCHANGED threads
      BY <2>5, <3>1, StageBootFails DEF Build
    <3>2. CASE /\ slot' = [slot EXCEPT !.at = "loading"]
               /\ UNCHANGED <<threads, file>>
      BY <2>5, <3>2 DEF Build, Boots, StageInv, SlotRecord, Files, Sealed,
                        PlaintextAccounted, Holds
    <3>3. ASSUME NEW t \in Threads, threads[t] = "idle", Sealed(slot.s),
                 threads' = [threads EXCEPT ![t] = "queued"],
                 slot' = [slot EXCEPT !.at = "staging", !.thread = t],
                 UNCHANGED file
          PROVE  StageInv'
      BY <2>5, <3>3 DEF Build, Boots, StageInv, SlotRecord, Files, Sealed,
                        PlaintextAccounted, Holds
    <3> QED
      BY <2>5, <3>1, <3>2, <3>3 DEF Build
  <2>6. CASE Load
    <3>1. CASE BootFails
      BY <2>6, <3>1, StageBootFails DEF Load
    <3>2. CASE ~BootFails
      <4>1. /\ slot.at = "loading" /\ UNCHANGED threads
            /\ IF Sealed(slot.s) THEN Removes ELSE UNCHANGED file
            /\ Retry \/ slot' = [slot EXCEPT !.at = "opening"]
        BY <2>6, <3>2 DEF Load, Boots, Erase
      <4> QED
        BY <4>1 DEF Retry, Removes, StageInv, SlotRecord, Files, Sealed,
                    PlaintextAccounted, Holds
    <3> QED
      BY <3>1, <3>2
  <2>7. CASE Publish \/ OpenFails
    BY <2>7 DEF Publish, OpenFails, Boots, StageInv, Free, SlotRecord, Files,
                Sealed, PlaintextAccounted, Holds
  <2>8. CASE FailedStops
    BY <2>8 DEF FailedStops, Boots, LetGo, Erase, Removes, StageInv, Free,
                SlotRecord, Files, Sealed, PlaintextAccounted, Holds
  <2>9. CASE Abandon
    BY <2>9, StageBootFails DEF Abandon
  <2> QED
    BY <1>3, <2>1, <2>2, <2>3, <2>4, <2>5, <2>6, <2>7, <2>8, <2>9 DEF SlotStep
<1>4. ASSUME NEW t \in Threads, StageStep(t)
      PROVE  StageInv'
  <2>1. CASE StageBegins(t)
    BY <2>1, DesktopAssumption
       DEF StageBegins, Stages, StageInv, SlotRecord, Files, Sealed,
           PlaintextAccounted, Holds
  <2>2. CASE StageEnds(t)
    BY <2>2, DesktopAssumption
       DEF StageEnds, Stages, Removes, Wanted, StageInv, SlotRecord, Files,
           Sealed, PlaintextAccounted, Holds
  <2>3. CASE StageFails(t)
    <3>1. CASE Removes
      BY <2>3, <3>1, StageRemoves
         DEF StageFails, Stages, Wanted, StageInv, Free, SlotRecord, Sealed,
             PlaintextAccounted, Holds
    <3>2. CASE file' = IF file # NoOne /\ file.by = t THEN Left ELSE file
      BY <2>3, <3>2, DesktopAssumption
         DEF StageFails, Stages, Wanted, Left, StageInv, Free, SlotRecord,
             Files, Sealed, PlaintextAccounted, Holds
    <3> QED
      BY <2>3, <3>1, <3>2 DEF StageFails
  <2> QED
    BY <1>4, <2>1, <2>2, <2>3 DEF StageStep
<1>5. CASE \E l \in lingering : OldNodeReleased(l)
  BY <1>5 DEF OldNodeReleased, Erase, Removes, StageInv, SlotRecord, Files, Sealed,
              PlaintextAccounted, Holds
<1>6. CASE \/ RemoveEnds \/ KeyRemoveEnds \/ CaptureEnds
           \/ \E c \in Certs : IssueSaves(c) \/ IssueEnds(c)
           \/ MainSaves \/ RevokeEnds
  BY <1>6, StageStays
     DEF stageVars, RemoveEnds, KeyRemoveEnds, CaptureEnds, IssueSaves,
         IssueEnds, MainSaves, RevokeEnds
<1>7. CASE Exit
  BY <1>7 DEF Exit, ProcessEnds, StageInv, Free, Left, SlotRecord, Files,
              Sealed, PlaintextAccounted, Holds
<1> QED
  BY <1>1, <1>2, <1>3, <1>4, <1>5, <1>6, <1>7 DEF Next

(* Decrypted weights are on disk only while a thread writes them or a      *)
(* start holds them, or because a shard or a removal failed or the process *)
(* ended, however many threads decrypt to the one path                     *)
(* (PlaintextAccounted).                                                   *)
THEOREM PlaintextIsAccounted == Spec => []PlaintextAccounted
<1>1. Init => StageInv
  BY StageInit
<1>2. StageInv /\ [Next]_vars => StageInv'
  BY StageNext
<1>3. StageInv => PlaintextAccounted
  BY DEF StageInv
<1> QED
  BY <1>1, <1>2, <1>3, PTL DEF Spec

-----------------------------------------------------------------------------
(* Revocation *)

States == {"none", "live", "revoked", "forgotten"}

(* n, a node or the start of one, would serve a client that was shut out. *)
Stale(n) == \E c \in shut : Admits(n, c)

Records == [Certs -> States]
Out(all, c) == all[c] \in {"revoked", "forgotten"}
NoConsole(all) ==
  \A c \in Certs : all[c] # "none" => ClientOf[c] # "console"

(* Certificates that were shut out, or will be when a revocation returns. *)
Closed ==
  shut \cup {c \in Certs : main.at = "saved" /\ main.alone /\ c = main.cert}

RecordsTyped ==
  /\ certs \in Records
  /\ issues \in [Certs -> [at : {"idle", "loaded", "saved"}, all : Records,
                           exposed : BOOLEAN]]
  /\ main \in [at : {"idle", "loaded", "saved"}, cert : Certs \cup {NoOne},
               all : Records, alone : BOOLEAN]
  /\ main.at = "saved" => main.cert \in Certs
  /\ shut \subseteq Certs

(* What is known of the records, and of the copies that are loaded and not *)
(* saved yet: a certificate that was shut out is never live again, and     *)
(* none names the console.                                                 *)
CertsInv == NoConsole(certs) /\ \A d \in Closed : Out(certs, d)

IssuesInv ==
  \A c \in Certs : issues[c].at = "loaded" =>
    /\ ClientOf[c] # "console" /\ issues[c].all[c] = "none"
    /\ NoConsole(issues[c].all)
    /\ \A d \in Closed : Out(issues[c].all, d)

MainInv ==
  main.at = "loaded" =>
    /\ NoConsole(main.all)
    /\ main.cert # NoOne => main.all[main.cert] # "none"
    /\ \A d \in shut : Out(main.all, d)

RecordsInv == RecordsTyped /\ CertsInv /\ IssuesInv /\ MainInv

LEMMA RecordsStay ==
  ASSUME RecordsInv, UNCHANGED <<records, shut>>
  PROVE  RecordsInv'
BY DEF RecordsInv, RecordsTyped, CertsInv, IssuesInv, MainInv, NoConsole, Out,
       Closed, records

LEMMA NothingIdle ==
  /\ NoIssue \in [at : {"idle", "loaded", "saved"}, all : Records,
                  exposed : BOOLEAN]
  /\ MainIdle \in [at : {"idle", "loaded", "saved"}, cert : Certs \cup {NoOne},
                   all : Records, alone : BOOLEAN]
  /\ NoIssue.at = "idle" /\ MainIdle.at = "idle"
BY DEF NoIssue, MainIdle, Records, States

(* The end of the process drops every copy.                                *)
LEMMA RecordsDropped ==
  ASSUME RecordsInv, UNCHANGED <<certs, shut>>, main' = MainIdle,
         issues' = [c \in Certs |-> NoIssue]
  PROVE  RecordsInv'
<1>1. Closed' \subseteq Closed
  BY NothingIdle DEF Closed
<1>2. RecordsTyped'
  BY NothingIdle DEF RecordsInv, RecordsTyped
<1>3. CertsInv'
  BY <1>1 DEF RecordsInv, CertsInv, NoConsole, Out
<1>4. IssuesInv' /\ MainInv'
  BY NothingIdle DEF IssuesInv, MainInv
<1> QED
  BY <1>2, <1>3, <1>4 DEF RecordsInv

(* remote_issue loads, saves and returns: what it saves is what it loaded  *)
(* and its own certificate, which was not on record.                       *)
LEMMA IssueKeepsRecords ==
  ASSUME RecordsInv, NEW c \in Certs,
         RemoteIssue(c) \/ IssueSaves(c) \/ IssueEnds(c)
  PROVE  RecordsInv'
<1>0. UNCHANGED <<main, shut>> /\ Closed' = Closed /\ MainInv'
  BY DEF RemoteIssue, IssueSaves, IssueEnds, RecordsInv, MainInv, Closed,
         NoConsole, Out
<1>1. CASE RemoteIssue(c)
  <2> DEFINE e == [at |-> "loaded", all |-> certs,
                   exposed |-> UsesTls(settings)]
  <2>1. /\ issues' = [issues EXCEPT ![c] = e] /\ UNCHANGED certs
        /\ certs[c] = "none" /\ ClientOf[c] # "console"
    BY <1>1 DEF RemoteIssue, Issuable, ValidClientId
  <2>2. e \in [at : {"idle", "loaded", "saved"}, all : Records,
               exposed : BOOLEAN]
    BY DEF UsesTls, Hardened, RecordsInv, RecordsTyped
  <2>3. e.all = certs
    OBVIOUS
  <2> HIDE DEF e
  <2>4. RecordsTyped' /\ CertsInv'
    BY <1>0, <2>1, <2>2
       DEF RecordsInv, RecordsTyped, CertsInv, NoConsole, Out
  <2>5. IssuesInv'
    BY <1>0, <2>1, <2>3
       DEF RecordsInv, RecordsTyped, CertsInv, IssuesInv, NoConsole, Out
  <2> QED
    BY <1>0, <2>4, <2>5 DEF RecordsInv
<1>2. ASSUME issues' = [issues EXCEPT ![c] = NoIssue], UNCHANGED certs
      PROVE  RecordsInv'
  <2>1. RecordsTyped' /\ CertsInv'
    BY <1>0, <1>2, NothingIdle
       DEF RecordsInv, RecordsTyped, CertsInv, NoConsole, Out
  <2>2. IssuesInv'
    BY <1>0, <1>2, NothingIdle
       DEF RecordsInv, RecordsTyped, IssuesInv, NoConsole, Out
  <2> QED
    BY <1>0, <2>1, <2>2 DEF RecordsInv
<1>3. ASSUME issues[c].at = "loaded",
             certs' = [issues[c].all EXCEPT ![c] = "live"],
             issues' = [issues EXCEPT ![c].at = "saved"]
      PROVE  RecordsInv'
  <2> DEFINE all == issues[c].all
  <2>1. /\ all \in Records /\ all[c] = "none" /\ ClientOf[c] # "console"
        /\ NoConsole(all) /\ \A d \in Closed : Out(all, d)
        /\ Closed \subseteq Certs
    BY <1>3 DEF RecordsInv, RecordsTyped, IssuesInv, Closed
  <2>2. certs' = [all EXCEPT ![c] = "live"]
    BY <1>3
  <2>3. RecordsTyped'
    <3>1. issues' \in [Certs -> [at : {"idle", "loaded", "saved"},
                                all : Records, exposed : BOOLEAN]]
      BY <1>3 DEF RecordsInv, RecordsTyped
    <3> HIDE DEF all
    <3>2. certs' \in Records
      BY <2>1, <2>2 DEF Records, States
    <3> QED
      BY <1>0, <3>1, <3>2 DEF RecordsInv, RecordsTyped
  <2>4. IssuesInv'
    <3>1. \A d \in Certs : issues'[d].at = "loaded" =>
            issues[d].at = "loaded" /\ issues'[d].all = issues[d].all
      BY <1>3 DEF RecordsInv, RecordsTyped
    <3> QED
      BY <1>0, <3>1 DEF RecordsInv, IssuesInv, NoConsole, Out
  <2> HIDE DEF all
  <2>5. CertsInv'
    BY <1>0, <2>1, <2>2 DEF CertsInv, NoConsole, Out, Records
  <2> QED
    BY <1>0, <2>3, <2>4, <2>5 DEF RecordsInv
<1> QED
  BY <1>1, <1>2, <1>3 DEF IssueSaves, IssueEnds

(* remote_revoke and remote_clear_revoked load and save.                   *)
LEMMA MainKeepsRecords ==
  ASSUME RecordsInv,
         \/ \E c \in Certs : RemoteRevoke(c)
         \/ RemoteClearRevoked \/ MainSaves
  PROVE  RecordsInv'
<1>0. UNCHANGED <<issues, shut>>
  BY DEF RemoteRevoke, RemoteClearRevoked, OnMain, MainSaves
<1>1. ASSUME NEW cert \in Certs \cup {NoOne}, OnMain(cert),
             cert # NoOne => certs[cert] # "none"
      PROVE  RecordsInv'
  <2>1. /\ main.at = "idle" /\ UNCHANGED certs
        /\ main' = [at |-> "loaded", cert |-> cert, all |-> certs,
                    alone |-> FALSE]
    BY <1>1 DEF OnMain
  <2>2. /\ main'.at = "loaded" /\ main'.cert = cert /\ main'.all = certs
        /\ main' \in [at : {"idle", "loaded", "saved"},
                      cert : Certs \cup {NoOne}, all : Records,
                      alone : BOOLEAN]
    BY <1>1, <2>1 DEF RecordsInv, RecordsTyped
  <2>3. Closed' = Closed /\ shut \subseteq Closed
    BY <1>0, <2>1, <2>2 DEF Closed
  <2>4. RecordsTyped' /\ CertsInv' /\ IssuesInv'
    BY <1>0, <2>1, <2>2, <2>3
       DEF RecordsInv, RecordsTyped, CertsInv, IssuesInv, NoConsole, Out
  <2>5. MainInv'
    BY <1>0, <1>1, <2>1, <2>2, <2>3
       DEF RecordsInv, CertsInv, MainInv, NoConsole, Out
  <2> QED
    BY <2>4, <2>5 DEF RecordsInv
<1>2. CASE (\E c \in Certs : RemoteRevoke(c)) \/ RemoteClearRevoked
  BY <1>1, <1>2, DesktopAssumption DEF RemoteRevoke, RemoteClearRevoked
<1>3. ASSUME main' = MainIdle, certs' \in Records, NoConsole(certs)',
             \A d \in shut : Out(certs', d)
      PROVE  RecordsInv'
  <2>1. Closed' = shut /\ shut \subseteq Closed
    BY <1>0, <1>3, NothingIdle DEF Closed
  <2>2. RecordsTyped'
    BY <1>0, <1>3, NothingIdle DEF RecordsInv, RecordsTyped
  <2>3. CertsInv' /\ MainInv'
    BY <1>3, <2>1, NothingIdle DEF CertsInv, MainInv, Out
  <2>4. IssuesInv'
    BY <1>0, <2>1 DEF RecordsInv, IssuesInv, NoConsole, Out
  <2> QED
    BY <2>2, <2>3, <2>4 DEF RecordsInv
<1>4. CASE MainSaves
  <2>1. /\ main.at = "loaded" /\ main.all \in Records /\ NoConsole(main.all)
        /\ \A d \in shut : Out(main.all, d) /\ d \in Certs
    BY <1>4 DEF MainSaves, RecordsInv, RecordsTyped, MainInv
  <2>2. CASE main' = MainIdle /\ UNCHANGED certs
    <3>1. \A d \in shut : Out(certs, d)
      BY DEF RecordsInv, CertsInv, Closed
    <3> QED
      BY <1>3, <2>2, <3>1
         DEF RecordsInv, RecordsTyped, CertsInv, NoConsole, Out
  <2>3. CASE main' = MainIdle /\ certs' = Cleared(main.all)
    <3>1. certs' \in Records
      BY <2>1, <2>3 DEF Cleared, Records, States
    <3>2. NoConsole(certs)' /\ \A d \in shut : Out(certs', d)
      BY <2>1, <2>3 DEF Cleared, NoConsole, Out
    <3> QED
      BY <1>3, <2>3, <3>1, <3>2
  <2>4. ASSUME main.cert # NoOne, certs' = Revoked(main.all, main.cert),
               main' = [main EXCEPT !.at = "saved",
                                    !.alone = \A c \in Certs :
                                                issues[c].at # "loaded"]
        PROVE  RecordsInv'
    <3> DEFINE free == \A c \in Certs : issues[c].at # "loaded"
               all == main.all
               cert == main.cert
    <3>1. cert \in Certs /\ all[cert] # "none"
      BY <2>1, <2>4 DEF RecordsInv, RecordsTyped, MainInv
    <3>2. free \in BOOLEAN
      OBVIOUS
    <3>3. /\ main'.at = "saved" /\ main'.cert = cert /\ main'.alone = free
          /\ main' \in [at : {"idle", "loaded", "saved"},
                        cert : Certs \cup {NoOne}, all : Records,
                        alone : BOOLEAN]
      <4>1. main' = [main EXCEPT !.at = "saved", !.alone = free]
        BY <2>4
      <4> HIDE DEF free
      <4> QED
        BY <3>2, <4>1 DEF RecordsInv, RecordsTyped
    <3>4. certs' = [all EXCEPT ![cert] = "revoked"]
      BY <2>4 DEF Revoked
    <3>5. Closed' \subseteq shut \cup {cert} /\ shut \subseteq Closed
      BY <1>0, <3>3 DEF Closed
    <3>6. ~free => Closed' = shut
      BY <1>0, <3>3 DEF Closed
    <3>7. IssuesInv'
      BY <1>0, <3>5, <3>6 DEF RecordsInv, IssuesInv, NoConsole, Out
    <3> HIDE DEF all, cert, free
    <3>8. all \in Records /\ NoConsole(all)
          /\ \A d \in shut : Out(all, d) /\ d \in Certs
      BY <2>1 DEF all
    <3>9. certs' \in Records
      BY <3>1, <3>4, <3>8 DEF Records, States
    <3>10. CertsInv'
      BY <3>1, <3>4, <3>5, <3>8 DEF CertsInv, NoConsole, Out, Records
    <3>11. RecordsTyped' /\ MainInv'
      BY <1>0, <3>1, <3>3, <3>9 DEF RecordsInv, RecordsTyped, MainInv
    <3> QED
      BY <3>7, <3>10, <3>11 DEF RecordsInv
  <2> QED
    BY <1>4, <2>2, <2>3, <2>4 DEF MainSaves
<1> QED
  BY <1>2, <1>4

(* A revocation that returns: what it has saved is what it shuts out.      *)
LEMMA RevokeKeepsRecords ==
  ASSUME RecordsInv, RevokeEnds
  PROVE  RecordsInv'
<1>1. /\ main.at = "saved" /\ main' = MainIdle /\ UNCHANGED <<certs, issues>>
      /\ shut' = shut \/ (main.alone /\ shut' = shut \cup {main.cert})
  BY DEF RevokeEnds
<1>2. shut' \subseteq Certs /\ shut' \subseteq Closed /\ Closed' = shut'
  <2>1. Closed' = shut'
    BY <1>1, NothingIdle DEF Closed
  <2>2. CASE shut' = shut
    BY <2>1, <2>2 DEF Closed, RecordsInv, RecordsTyped
  <2>3. CASE main.alone /\ shut' = shut \cup {main.cert}
    <3>1. Out(certs, main.cert) \/ main.cert \notin Certs
      BY <1>1, <2>3 DEF RecordsInv, CertsInv, Closed
    <3>2. main.cert \in Certs
      BY <1>1 DEF RecordsInv, RecordsTyped
    <3> QED
      BY <1>1, <2>1, <2>3, <3>2 DEF Closed, RecordsInv, RecordsTyped
  <2> QED
    BY <1>1, <2>2, <2>3
<1>3. RecordsTyped' /\ MainInv'
  BY <1>1, <1>2, NothingIdle DEF RecordsInv, RecordsTyped, MainInv
<1>4. CertsInv' /\ IssuesInv'
  BY <1>1, <1>2 DEF RecordsInv, CertsInv, IssuesInv, NoConsole, Out
<1> QED
  BY <1>3, <1>4 DEF RecordsInv

(* A start has no node beside it; the phase restart_if_running looks at    *)
(* tells of every start in its boot and every node that is not stopping.   *)
PhaseInv ==
  /\ SlotRecord
  /\ slot.at \in Steps => node = NoOne /\ phase = "starting"
  /\ node # NoOne => phase = "running" \/ slot.at = "draining"
  /\ slot.at = "draining" => node # NoOne

(* A registry without a revocation is behind a start that will read the    *)
(* records again, or in front of a node that is being stopped.             *)
StaleInv ==
  /\ slot.at \in Steps \ {"booting"} /\ Stale(slot) => starts # {}
  /\ node # NoOne /\ Stale(node) => starts # {} \/ slot.at = "draining"

ShutInv == RecordsInv /\ PhaseInv /\ StaleInv

(* A step that only lets starts grow leaves the invariant. *)
LEMMA ShutStays ==
  ASSUME ShutInv, RecordsInv', UNCHANGED <<phase, slot, node, shut>>,
         starts # {} => starts' # {}
  PROVE  ShutInv'
BY DEF ShutInv, PhaseInv, StaleInv, Stale, Admits, SlotRecord

(* Engine::stop up to its wait marks a start and nothing else. *)
LEMMA ShutStopCalled ==
  ASSUME ShutInv, NEW op \in Ops, NEW s, CallStop(op, s),
         UNCHANGED <<records, phase, starts, node, shut>>
  PROVE  ShutInv'
<1>1. slot' = slot \/ slot' = [slot EXCEPT !.woken = TRUE]
  BY DEF CallStop
<1>2. RecordsInv'
  BY RecordsStay DEF ShutInv
<1> QED
  BY <1>1, <1>2 DEF ShutInv, PhaseInv, StaleInv, Stale, Admits, SlotRecord

(* Where the slot is given up without a node, nothing stale is left. *)
LEMMA ShutFreed ==
  ASSUME RecordsInv', slot' = Free, node' = NoOne
  PROVE  ShutInv'
BY DEF ShutInv, PhaseInv, StaleInv, SlotRecord, Free, Steps

(* A step of the boot that keeps its registry. *)
LEMMA ShutBoots ==
  ASSUME ShutInv, slot.at \in Steps \ {"booting"}, SlotRecord',
         slot'.at \in Steps, slot'.s = slot.s,
         slot'.registry = slot.registry,
         UNCHANGED <<records, phase, starts, node, shut>>
  PROVE  ShutInv'
<1>1. RecordsInv'
  BY RecordsStay DEF ShutInv
<1> QED
  BY <1>1 DEF ShutInv, PhaseInv, StaleInv, Stale, Admits, Steps

(* Every command and every step of the engine keeps a stale registry       *)
(* behind a start that is still to come (remote_revoke,                    *)
(* restart_if_running, start, stop, boot).                                 *)
LEMMA ShutNext ==
  ASSUME ShutInv, [Next]_vars
  PROVE  ShutInv'
<1> USE DEF vars, disks, engine
<1>0. ASSUME UNCHANGED <<records, shut>> PROVE RecordsInv'
  BY <1>0, RecordsStay DEF ShutInv
<1>1. CASE UNCHANGED vars
  BY <1>0, <1>1, ShutStays
<1>2. CASE Commands
  <2>1. CASE \/ \E s \in Choices, restart \in BOOLEAN :
                  SaveSettings(s, restart)
             \/ Start
             \/ \E m \in {"plain", "bundle"} :
                  SelectModel(m) \/ ModelArrives(m)
             \/ \E k \in Keys : KeyCreate(k)
             \/ HardwareCapture
             \/ \E what \in {"ak", "amd_root"} : HardwarePick(what)
             \/ Launch
    BY <1>0, <2>1, ShutStays
       DEF SaveSettings, Start, SelectModel, ModelArrives, KeyCreate, Spawn,
           HardwareCapture, HardwarePick, Launch
  <2>2. CASE Stop \/ Quit
    BY <2>2, ShutStopCalled DEF Stop, Quit, Ops
  <2>3. CASE \E m \in {"plain", "bundle"} : Remove(m)
    BY <1>0, <2>3, ShutStays, ShutStopCalled DEF Remove, Ops
  <2>4. CASE KeyRemove
    BY <1>0, <2>4, ShutStays, ShutStopCalled DEF KeyRemove, Ops
  <2>5. CASE Kill
    BY <2>5, ShutFreed, RecordsDropped DEF Kill, ProcessEnds, ShutInv
  <2>6. ASSUME NEW c \in Certs, RemoteIssue(c)
        PROVE  ShutInv'
    <3>1. RecordsInv'
      BY <2>6, IssueKeepsRecords DEF ShutInv
    <3> QED
      BY <2>6, <3>1, ShutStays DEF RemoteIssue
  <2>7. CASE (\E c \in Certs : RemoteRevoke(c)) \/ RemoteClearRevoked
    <3>1. RecordsInv'
      BY <2>7, MainKeepsRecords DEF ShutInv
    <3> QED
      BY <2>7, <3>1, ShutStays DEF RemoteRevoke, RemoteClearRevoked, OnMain
  <2> QED
    BY <1>2, <2>1, <2>2, <2>3, <2>4, <2>5, <2>6, <2>7 DEF Commands
<1>3. CASE SlotStep
  <2>1. ASSUME NEW s, NEW by, slot.at = "free", Take(s, by),
               UNCHANGED <<records, shut, node>>,
               starts' = starts \/ by = "start"
        PROVE  ShutInv'
    <3>1. CASE node # NoOne
      BY <1>0, <2>1, <3>1 DEF Take, Free, ShutInv, PhaseInv, StaleInv,
                              SlotRecord, Steps
    <3>2. CASE node = NoOne
      BY <1>0, <2>1, <3>2 DEF Take, Free, ShutInv, PhaseInv, StaleInv,
                              SlotRecord, Steps
    <3> QED
      BY <3>1, <3>2
  <2>2. CASE \/ \E s \in starts : AcquireStart(s)
             \/ \E op \in Ops : AcquireStop(op)
    BY <2>1, <2>2 DEF AcquireStart, AcquireStop
  <2>3. CASE Drained
    <3>1. CASE slot' = Free
      BY <1>0, <2>3, <3>1, ShutFreed DEF Drained
    <3>2. CASE slot' = [slot EXCEPT !.at = "booting"] /\ phase' = "starting"
      BY <1>0, <2>3, <3>2 DEF Drained, ShutInv, PhaseInv, StaleInv,
                              SlotRecord, Steps
    <3> QED
      BY <2>3, <3>1, <3>2 DEF Drained
  <2>4. ASSUME slot.at \in Steps, slot' = Free,
               UNCHANGED <<records, shut, node>>
        PROVE  ShutInv'
    <3>1. node = NoOne
      BY <2>4 DEF ShutInv, PhaseInv
    <3> QED
      BY <1>0, <2>4, <3>1, ShutFreed
  <2>5. CASE Plan
    <3>1. CASE BootFails
      BY <2>4, <2>5, <3>1 DEF Plan, Boots, BootFails, Steps
    <3>2. CASE slot' = [slot EXCEPT !.at = "building", !.log = LogOf(slot.s),
                                    !.registry = Registry(slot.s)]
               /\ UNCHANGED phase
      <4>1. /\ slot.at = "booting"
            /\ UNCHANGED <<settings, key, records, starts, shut, node>>
        BY <2>5 DEF Plan, Boots
      <4>2. /\ SlotRecord' /\ slot'.at = "building" /\ slot'.s = slot.s
            /\ slot'.registry = Registry(slot.s)
        BY <3>2 DEF ShutInv, PhaseInv, SlotRecord
      <4>3. RecordsInv'
        BY <1>0, <4>1
      <4>4. ~Stale(slot)'
        <5>1. ASSUME NEW c \in shut
              PROVE  ~Admits(slot, c)'
          <6>1. c \in Certs /\ c \notin Live /\ ClientOf[c] # "console"
            BY DEF ShutInv, RecordsInv, RecordsTyped, CertsInv, Closed,
                   NoConsole, Out, Live
          <6>2. c # "console" /\ ClientOf[c] \notin Live
            BY <6>1, DesktopAssumption DEF Live
          <6> QED
            BY <4>2, <6>1, <6>2 DEF Admits, Registry, UsesTls, Hardened
        <5> QED
          BY <4>1, <5>1 DEF Stale
      <4> QED
        BY <3>2, <4>1, <4>2, <4>3, <4>4
           DEF ShutInv, PhaseInv, StaleInv, Steps
    <3> QED
      BY <2>5, <3>1, <3>2 DEF Plan
  <2>6. CASE Build
    <3>1. CASE BootFails
      BY <2>4, <2>6, <3>1 DEF Build, Boots, BootFails, Steps
    <3>2. CASE slot' = [slot EXCEPT !.at = "loading"] /\ UNCHANGED phase
      BY <2>6, <3>2, ShutBoots
         DEF Build, Boots, ShutInv, PhaseInv, SlotRecord, Steps
    <3>3. ASSUME NEW t, UNCHANGED phase,
                 slot' = [slot EXCEPT !.at = "staging", !.thread = t]
          PROVE  ShutInv'
      BY <2>6, <3>3, ShutBoots
         DEF Build, Boots, ShutInv, PhaseInv, SlotRecord, Steps
    <3> QED
      BY <2>6, <3>1, <3>2, <3>3 DEF Build
  <2>7. CASE Load
    <3>1. CASE BootFails
      BY <2>4, <2>7, <3>1 DEF Load, Boots, BootFails, Steps
    <3>2. CASE Retry /\ UNCHANGED phase
      BY <2>7, <3>2, ShutBoots
         DEF Load, Boots, Retry, ShutInv, PhaseInv, SlotRecord, Steps
    <3>3. CASE slot' = [slot EXCEPT !.at = "opening"] /\ UNCHANGED phase
      BY <2>7, <3>3, ShutBoots
         DEF Load, Boots, ShutInv, PhaseInv, SlotRecord, Steps
    <3> QED
      BY <2>7, <3>1, <3>2, <3>3 DEF Load
  <2>8. CASE Publish
    <3>1. /\ slot.at = "opening" /\ slot' = Free /\ phase' = "running"
          /\ node' = [s |-> slot.s, log |-> slot.log,
                      registry |-> slot.registry]
          /\ UNCHANGED <<records, shut, starts>>
      BY <2>8 DEF Publish, Boots
    <3>2. Stale(node)' => Stale(slot)
      BY <3>1 DEF Stale, Admits
    <3> QED
      BY <1>0, <3>1, <3>2 DEF ShutInv, PhaseInv, StaleInv, SlotRecord, Free,
                              Steps
  <2>9. CASE OpenFails
    BY <2>9, ShutBoots DEF OpenFails, Boots, ShutInv, PhaseInv, SlotRecord,
                           Steps
  <2>10. CASE FailedStops \/ Abandon
    BY <2>4, <2>10 DEF FailedStops, Abandon, Boots, BootFails, Steps
  <2> QED
    BY <1>3, <2>2, <2>3, <2>5, <2>6, <2>7, <2>8, <2>9, <2>10 DEF SlotStep
<1>4. ASSUME NEW t \in Threads, StageStep(t)
      PROVE  ShutInv'
  <2>1. UNCHANGED <<records, starts, node, shut>>
    BY <1>4 DEF StageStep, StageBegins, StageEnds, StageFails, Stages
  <2>2. CASE UNCHANGED <<slot, phase>>
    BY <1>0, <2>1, <2>2, ShutStays
  <2>3. CASE /\ slot.at = "staging" /\ UNCHANGED phase
             /\ slot' = [slot EXCEPT !.at = "loading"]
    BY <2>1, <2>3, ShutBoots DEF ShutInv, PhaseInv, SlotRecord, Steps
  <2>4. CASE slot.at = "staging" /\ slot' = Free
    <3>1. node = NoOne
      BY <2>4 DEF ShutInv, PhaseInv, Steps
    <3> QED
      BY <1>0, <2>1, <2>4, <3>1, ShutFreed
  <2> QED
    BY <1>4, <2>2, <2>3, <2>4
       DEF StageStep, StageBegins, StageEnds, StageFails, Wanted
<1>5. CASE \/ \E l \in lingering : OldNodeReleased(l)
           \/ RemoveEnds \/ KeyRemoveEnds \/ CaptureEnds
  BY <1>0, <1>5, ShutStays
     DEF OldNodeReleased, RemoveEnds, KeyRemoveEnds, CaptureEnds
<1>6. CASE Exit
  BY <1>6, ShutFreed, RecordsDropped DEF Exit, ProcessEnds, ShutInv
<1>7. ASSUME NEW c \in Certs, IssueSaves(c) \/ IssueEnds(c)
      PROVE  ShutInv'
  <2>1. RecordsInv'
    BY <1>7, IssueKeepsRecords DEF ShutInv
  <2> QED
    BY <1>7, <2>1, ShutStays
       DEF IssueSaves, IssueEnds, RestartIfRunning, Spawn
<1>8. CASE MainSaves
  <2>1. RecordsInv'
    BY <1>8, MainKeepsRecords DEF ShutInv
  <2> QED
    BY <1>8, <2>1, ShutStays DEF MainSaves
<1>9. CASE RevokeEnds
  <2>1. RecordsInv'
    BY <1>9, RevokeKeepsRecords DEF ShutInv
  <2>2. /\ UNCHANGED <<phase, slot, node>>
        /\ starts # {} => starts' # {}
        /\ shut' = shut \/ (phase \in {"running", "starting"} => starts' # {})
    BY <1>9 DEF RevokeEnds, RestartIfRunning, Spawn
  <2>3. CASE shut' = shut
    BY <2>1, <2>2, <2>3, ShutStays
  <2>4. CASE phase \in {"running", "starting"} => starts' # {}
    BY <2>1, <2>2, <2>4 DEF ShutInv, PhaseInv, StaleInv, SlotRecord
  <2> QED
    BY <2>2, <2>3, <2>4
<1> QED
  BY <1>1, <1>2, <1>3, <1>4, <1>5, <1>6, <1>7, <1>8, <1>9 DEF Next

(* A data directory of an earlier session satisfies the invariant.         *)
LEMMA ShutInit == Init => ShutInv
<1> SUFFICES ASSUME Init PROVE ShutInv
  OBVIOUS
<1>1. RecordsTyped /\ shut = {} /\ Closed = {}
  BY NothingIdle, DesktopAssumption
     DEF Init, RecordsTyped, Closed, Records, States
<1>2. CertsInv /\ IssuesInv /\ MainInv
  BY <1>1, NothingIdle, DesktopAssumption
     DEF Init, CertsInv, IssuesInv, MainInv, NoConsole
<1>3. PhaseInv /\ StaleInv
  BY DEF Init, PhaseInv, StaleInv, SlotRecord, Free, Steps
<1> QED
  BY <1>1, <1>2, <1>3 DEF ShutInv, RecordsInv

(* A client revoked while no issue was under way is not served once the    *)
(* engine is at rest, for every set of settings, certificates and commands *)
(* (RevokedIsShut): restart_if_running sees every start and every node     *)
(* whose registry was written before the revocation, and no copy of the    *)
(* records that is saved later has the certificate live.                   *)
THEOREM RevokedStaysShut == Spec => []RevokedIsShut
<1>1. Init => ShutInv
  BY ShutInit
<1>2. ShutInv /\ [Next]_vars => ShutInv'
  BY ShutNext
<1>3. ShutInv => RevokedIsShut
  BY DEF ShutInv, StaleInv, Stale, RevokedIsShut, AtRest
<1> QED
  BY <1>1, <1>2, <1>3, PTL DEF Spec

-----------------------------------------------------------------------------
(* Deployment: whatever has been prepared *)

(* What the preparations of a hardened configuration have in common: all   *)
(* that validate, build_backend and the claims of its mode look at, but    *)
(* for the key.                                                            *)
Prepared(c, mode) ==
  /\ c.mode = mode /\ c.sane = TRUE
  /\ c.local_key = FALSE /\ c.hatches = FALSE
  /\ mode = "dark" => c.fips_level = 4 /\ c.multi_tenant = FALSE
  /\ c.simulation = FALSE
  /\ \/ /\ c.measurement_source = "tpm2" /\ c.tpm_required = TRUE
        /\ c.expected = {"pcr_values"}
     \/ c.measurement_source = "sev_snp" /\ c.expected = {"mrenclave", "amd_root"}
  /\ AirGapped(mode) => c.egress = FALSE /\ c.timing # "none"
  /\ c.backend = "supervised"
  /\ c.require_mtls = TRUE /\ c.client_ca = TRUE /\ c.console = "none"

LEMMA PreparedServes ==
  ASSUME NEW c, NEW mode \in Modes \ {"light"}, Prepared(c, mode)
  PROVE  /\ Validate(c)
         /\ \A machine : Cmk(c) = "cmk" /\ c.measurement_source \in machine =>
              /\ Builds(c, machine) /\ Serves(c, FALSE, machine)
              /\ TlsMode(c, FALSE) = "mutual" /\ Claims(c, "mutual")
<1>1. ~Light(c)
  BY DEF Prepared, Light
<1>2. RootOfTrust(c)
  BY DEF Prepared, RootOfTrust, Pinned
<1>3. Egress(c) /\ Transport(c) /\ Console(c) /\ Runtime(c)
  BY DEF Prepared, Egress, Transport, Console, Runtime
<1>4. KeyCustody(c) /\ Limits(c) /\ DarkCustody(c)
  BY DEF Prepared, KeyCustody, Limits, DarkCustody
<1>5. Validate(c)
  BY <1>2, <1>3, <1>4 DEF Validate
<1>6. BuildBackend(c)
  BY DEF Prepared, BuildBackend, BuildSupervised
<1>7. ASSUME NEW machine, Cmk(c) = "cmk", c.measurement_source \in machine
      PROVE  /\ Builds(c, machine) /\ Serves(c, FALSE, machine)
             /\ TlsMode(c, FALSE) = "mutual" /\ Claims(c, "mutual")
  <2>1. ProvisionKeys(c) = "cmk"
    BY <1>1, <1>7 DEF Prepared, ProvisionKeys
  <2>2. Measures(c, machine)
    BY <1>7 DEF Prepared, Measures
  <2>3. Builds(c, machine)
    BY <1>5, <1>6, <2>1, <2>2 DEF Builds
  <2>4. Serves(c, FALSE, machine) /\ TlsMode(c, FALSE) = "mutual"
    BY <2>3 DEF Prepared, Serves, SpawnConsole, Acceptor, TlsMode
  <2>5. Claims(c, "mutual")
    BY <2>1 DEF Prepared, Claims, Pinned
  <2> QED
    BY <2>3, <2>4, <2>5
<1> QED
  BY <1>5, <1>7

(* The timing of an air-gapped mode is normalised. *)
LEMMA AirGappedTiming ==
  ASSUME NEW mode, AirGapped(mode)
  PROVE  TimingOf(mode) # "none"
<1>1. CASE mode = "dark"
  <2>1. TimingOf(mode) = "fixed_floor"
    BY <1>1, Zenon DEF TimingOf
  <2> QED
    BY <2>1
<1>2. CASE mode \in {"vault", "island"}
  <2>1. TimingOf(mode) = "bucket"
    BY <1>2, Zenon DEF TimingOf
  <2> QED
    BY <2>1
<1> QED
  BY <1>1, <1>2 DEF AirGapped

LEMMA DefaultFields ==
  DOMAIN DefaultLight =
    {"mode", "sane", "local_key", "cmk_path", "env_cmk", "hatches",
     "fips_level", "multi_tenant", "simulation", "measurement_source",
     "tpm_required", "expected", "egress", "backend", "endpoint",
     "require_mtls", "client_ca", "console", "timing"}
BY DEF DefaultLight

(* A template for a hardened mode, completed as it says, and with a key.   *)
LEMMA TemplatePrepared ==
  ASSUME NEW mode \in Modes \ {"light"}
  PROVE  TemplateStarts(mode)
<1> DEFINE t == TimingOf(mode)
<1>1. mode # "light"
  OBVIOUS
<1>2. Completed(mode) = [Template(mode) EXCEPT !.expected = {"pcr_values"}]
  BY <1>1 DEF Completed
<1>3. AirGapped(mode) => t # "none"
  BY AirGappedTiming
<1> HIDE DEF t
<1> DEFINE x == Template(mode)
           y == {"pcr_values"}
           f == IF mode = "dark" THEN 4 ELSE 3
           many == mode # "dark"
           out == mode = "sovereign_cloud"
<1>4. x = [DefaultLight EXCEPT
             !.mode = mode, !.backend = "supervised",
             !.simulation = FALSE, !.measurement_source = "tpm2",
             !.tpm_required = TRUE, !.require_mtls = TRUE, !.client_ca = TRUE,
             !.multi_tenant = many, !.fips_level = f,
             !.egress = out, !.timing = t]
  BY <1>1 DEF Template, t
<1>5. /\ mode = "dark" => f = 4 /\ many = FALSE
      /\ AirGapped(mode) => out = FALSE
  BY DEF AirGapped
<1> HIDE DEF f, many, out
<1>6. /\ x.mode = mode /\ x.sane = TRUE /\ x.local_key = FALSE
      /\ x.hatches = FALSE /\ x.simulation = FALSE
      /\ x.measurement_source = "tpm2" /\ x.tpm_required = TRUE
      /\ x.backend = "supervised"
      /\ x.require_mtls = TRUE /\ x.client_ca = TRUE /\ x.console = "none"
      /\ x.fips_level = f /\ x.multi_tenant = many /\ x.egress = out
      /\ x.timing = t /\ x.cmk_path = "unset" /\ x.env_cmk = "unset"
      /\ DOMAIN x = DOMAIN DefaultLight
  <2> HIDE DEF x
  <2>1. DOMAIN x = DOMAIN DefaultLight
    BY <1>4, Zenon
  <2> QED
    BY <1>4, <2>1 DEF DefaultLight
<1> HIDE DEF x, y
<1>7. Completed(mode) = [x EXCEPT !.expected = y]
  BY <1>2 DEF x, y
<1> DEFINE c == Completed(mode)
<1>8. Prepared(c, mode) /\ c.measurement_source = "tpm2"
      /\ c.cmk_path = "unset" /\ c.env_cmk = "unset"
      /\ DOMAIN c = DOMAIN DefaultLight
  <2> HIDE DEF c
  <2>1. DOMAIN c = DOMAIN DefaultLight
    BY <1>6, <1>7, Zenon DEF c
  <2>2. /\ c.mode = mode /\ c.sane = TRUE /\ c.local_key = FALSE
        /\ c.hatches = FALSE /\ c.simulation = FALSE
        /\ c.measurement_source = "tpm2" /\ c.tpm_required = TRUE
        /\ c.expected = y /\ c.backend = "supervised"
        /\ c.require_mtls = TRUE /\ c.client_ca = TRUE /\ c.console = "none"
    BY <1>6, <1>7, DefaultFields DEF c
  <2>3. /\ c.fips_level = f /\ c.multi_tenant = many /\ c.egress = out
        /\ c.timing = t /\ c.cmk_path = "unset" /\ c.env_cmk = "unset"
    BY <1>6, <1>7, DefaultFields DEF c
  <2>4. /\ mode = "dark" => c.fips_level = 4 /\ c.multi_tenant = FALSE
        /\ AirGapped(mode) => c.egress = FALSE /\ c.timing # "none"
    BY <1>3, <1>5, <2>3
  <2> QED
    BY <2>1, <2>2, <2>3, <2>4 DEF Prepared, y
<1> HIDE DEF c
<1>9. ASSUME NEW named \in {"cmk_path", "env_cmk"}
      PROVE  LET k == [c EXCEPT ![named] = "readable"]
             IN  Serves(k, FALSE, {"tpm2"}) /\ Claims(k, TlsMode(k, FALSE))
  <2> DEFINE k == [c EXCEPT ![named] = "readable"]
  <2>1. \A field \in DOMAIN c : field # named => k[field] = c[field]
    OBVIOUS
  <2>2. k[named] = "readable"
    BY <1>8, DefaultFields
  <2> HIDE DEF k
  <2>3. Cmk(k) = "cmk" /\ k.measurement_source = "tpm2"
    BY <1>8, <2>1, <2>2, DefaultFields DEF Cmk
  <2>4. /\ k.mode = c.mode /\ k.sane = c.sane /\ k.local_key = c.local_key
        /\ k.hatches = c.hatches /\ k.fips_level = c.fips_level
        /\ k.multi_tenant = c.multi_tenant /\ k.simulation = c.simulation
        /\ k.tpm_required = c.tpm_required /\ k.expected = c.expected
        /\ k.egress = c.egress /\ k.timing = c.timing
        /\ k.backend = c.backend /\ k.require_mtls = c.require_mtls
        /\ k.client_ca = c.client_ca /\ k.console = c.console
    BY <1>8, <2>1, DefaultFields
  <2>5. Prepared(k, mode)
    BY <1>8, <2>3, <2>4 DEF Prepared
  <2>6. Serves(k, FALSE, {"tpm2"}) /\ Claims(k, TlsMode(k, FALSE))
    BY <2>3, <2>5, PreparedServes
  <2> QED
    BY <2>6 DEF k
<1>10. Validate(c) /\ ~Light(c)
  BY <1>8, PreparedServes DEF Prepared, Light
<1> QED
  BY <1>9, <1>10 DEF TemplateStarts, c

(* The template for Light mode, which needs no key.                        *)
LEMMA LightServes ==
  ASSUME NEW c, NEW machine, c.mode = "light", c.sane = TRUE,
         c.backend = "supervised", c.egress = TRUE, c.require_mtls = FALSE,
         c.console \in {"none", "loopback"}, c.measurement_source = "software",
         ProvisionKeys(c) # "refused"
  PROVE  /\ Validate(c) /\ Builds(c, machine) /\ Serves(c, FALSE, machine)
         /\ \A tls : Claims(c, tls)
<1>1. Validate(c)
  BY DEF Validate, KeyCustody, Limits, DarkCustody, RootOfTrust, Egress,
         Transport, Console, Runtime, Light, AirGapped
<1>2. BuildBackend(c) /\ Measures(c, machine)
  BY DEF BuildBackend, BuildSupervised, Measures
<1> QED
  BY <1>1, <1>2 DEF Serves, Builds, SpawnConsole, Acceptor, TlsMode, Claims,
                    Light, AirGapped

LEMMA LightTemplate == TemplateStarts("light")
<1> DEFINE c == Completed("light")
<1>1. c = [DefaultLight EXCEPT !.backend = "supervised"]
  BY DEF Completed, Template
<1>2. /\ c.mode = "light" /\ c.sane = TRUE /\ c.cmk_path = "unset"
      /\ c.env_cmk = "unset" /\ c.local_key = FALSE
      /\ c.backend = "supervised" /\ c.egress = TRUE
      /\ c.require_mtls = FALSE /\ c.console = "none"
      /\ c.measurement_source = "software"
      /\ DOMAIN c = DOMAIN DefaultLight
  BY <1>1 DEF DefaultLight
<1> HIDE DEF c
<1>3. Serves(c, FALSE, {}) /\ Validate(c)
  <2>1. ProvisionKeys(c) = "ephemeral"
    BY <1>2 DEF ProvisionKeys, Cmk, Light
  <2> QED
    BY <1>2, <2>1, LightServes
<1>4. ASSUME NEW named \in {"cmk_path", "env_cmk"}
      PROVE  LET k == [c EXCEPT ![named] = "readable"]
             IN  Serves(k, FALSE, {"tpm2"}) /\ Claims(k, TlsMode(k, FALSE))
  <2> DEFINE k == [c EXCEPT ![named] = "readable"]
  <2>1. \A field \in DOMAIN c : field # named => k[field] = c[field]
    OBVIOUS
  <2>2. k[named] = "readable"
    BY <1>2, DefaultFields
  <2> HIDE DEF k
  <2>3. /\ k.mode = "light" /\ k.sane = TRUE
        /\ k.backend = "supervised" /\ k.egress = TRUE
        /\ k.require_mtls = FALSE /\ k.console = "none"
        /\ k.measurement_source = "software"
    BY <1>2, <2>1, DefaultFields
  <2>4. Cmk(k) = "cmk"
    BY <1>2, <2>1, <2>2, DefaultFields DEF Cmk
  <2>5. ProvisionKeys(k) = "cmk"
    BY <2>3, <2>4 DEF ProvisionKeys, Light
  <2>6. Serves(k, FALSE, {"tpm2"}) /\ Claims(k, TlsMode(k, FALSE))
    BY <2>3, <2>5, LightServes
  <2> QED
    BY <2>6 DEF k
<1> QED
  BY <1>3, <1>4 DEF TemplateStarts, c

(* Settings the app reports ready, planned.                                *)
LEMMA PlanPrepared ==
  ASSUME NEW s \in Settings, s.sane, NEW mode \in Modes \ {"light"},
         NEW D, NEW hasKey \in BOOLEAN, NEW probe \in SUBSET {"tpm2", "sev_snp"},
         Ready(mode, s, D, hasKey, probe)
  PROVE  LET p == [s EXCEPT !.mode = mode]
             c == PlannedConfig(p)
         IN  CanPlan(p, D, hasKey) /\ Builds(c, probe) /\ Claims(c, "mutual")
<1> DEFINE p == [s EXCEPT !.mode = mode]
<1>1. /\ p.mode = mode /\ p.sane = s.sane /\ p.model = s.model
      /\ p.source = s.source /\ p.pcrs = s.pcrs /\ p.amd_root = s.amd_root
      /\ p.measurement = s.measurement /\ p.fips_level_4 = s.fips_level_4
  BY DEF Settings
<1> HIDE DEF p
<1>2. /\ hasKey /\ s.model = "bundle" /\ "bundle" \in D
      /\ RootIsMet(s, probe) /\ PinsAreMet(s)
      /\ mode = "dark" => s.fips_level_4
  BY DEF Ready, Sealed
<1>3. \/ s.source = "tpm2" /\ s.pcrs
      \/ s.source = "sev_snp" /\ s.amd_root /\ s.measurement
  BY <1>2 DEF RootIsMet, PinsAreMet
<1>4. Hardened(p) /\ Sealed(p) /\ UsesCmk(p) /\ UsesTls(p) /\ CanHarden(p)
  BY <1>1, <1>2, <1>3 DEF Hardened, Sealed, UsesCmk, UsesTls, CanHarden
<1> DEFINE c == [DefaultLight EXCEPT
              !.mode = p.mode, !.sane = p.sane, !.backend = "supervised",
              !.cmk_path = IF UsesCmk(p) THEN "readable" ELSE "unset",
              !.local_key = ~UsesCmk(p), !.client_ca = UsesTls(p),
              !.require_mtls = Hardened(p),
              !.console = IF Hardened(p) THEN "none" ELSE "loopback"]
<1>5. PlannedConfig(p) = Harden(c, p)
  BY <1>4 DEF PlannedConfig
<1>6. /\ c.mode = mode /\ c.sane = p.sane /\ c.local_key = FALSE
      /\ c.cmk_path = "readable" /\ c.hatches = FALSE
      /\ c.backend = "supervised" /\ c.require_mtls = TRUE
      /\ c.client_ca = TRUE /\ c.console = "none"
      /\ DOMAIN c = DOMAIN DefaultLight
  <2>1. /\ UsesCmk(p) = TRUE /\ UsesTls(p) = TRUE /\ Hardened(p) = TRUE
        /\ (~UsesCmk(p)) = FALSE
    BY <1>4, Zenon
  <2>2. c = [DefaultLight EXCEPT
              !.mode = mode, !.sane = p.sane, !.backend = "supervised",
              !.cmk_path = "readable", !.local_key = FALSE, !.client_ca = TRUE,
              !.require_mtls = TRUE, !.console = "none"]
    BY <1>1, <2>1
  <2> HIDE DEF c
  <2>3. DOMAIN c = DOMAIN DefaultLight
    BY <2>2, Zenon
  <2> QED
    BY <2>2, <2>3 DEF DefaultLight
<1> HIDE DEF c
<1> DEFINE t == TimingOf(p.mode)
           e == IF p.source = "tpm2" THEN {"pcr_values"}
                ELSE {"mrenclave", "amd_root"}
           h == Harden(c, p)
<1>7. h = [c EXCEPT
            !.fips_level = IF p.mode = "dark" /\ p.fips_level_4 THEN 4 ELSE 3,
            !.multi_tenant = p.mode # "dark",
            !.egress = PermitsDownloads(p.mode), !.simulation = FALSE,
            !.measurement_source = p.source,
            !.tpm_required = p.source = "tpm2",
            !.expected = e, !.timing = t]
  BY DEF Harden
<1> HIDE DEF t, e, h
<1>8. /\ h.mode = mode /\ h.sane = p.sane /\ h.local_key = FALSE
      /\ h.cmk_path = "readable" /\ h.hatches = FALSE /\ h.simulation = FALSE
      /\ h.backend = "supervised" /\ h.require_mtls = TRUE
      /\ h.client_ca = TRUE /\ h.console = "none"
      /\ h.measurement_source = p.source /\ h.expected = e /\ h.timing = t
  BY <1>6, <1>7, DefaultFields
<1>9. /\ h.fips_level = IF p.mode = "dark" /\ p.fips_level_4 THEN 4 ELSE 3
      /\ h.multi_tenant = (p.mode # "dark")
      /\ h.egress = PermitsDownloads(p.mode)
      /\ h.tpm_required = (p.source = "tpm2")
  BY <1>6, <1>7, DefaultFields
<1>10. s.sane = TRUE /\ s.fips_level_4 \in BOOLEAN
  BY DEF Settings
<1>11. mode = "dark" => h.fips_level = 4 /\ h.multi_tenant = FALSE
  BY <1>1, <1>2, <1>9, <1>10
<1>12. AirGapped(mode) => h.egress = FALSE
  <2> SUFFICES ASSUME AirGapped(mode) PROVE h.egress = FALSE
    OBVIOUS
  <2>1. PermitsDownloads(mode) = FALSE
    BY DEF AirGapped, PermitsDownloads
  <2> QED
    BY <1>1, <1>9, <2>1
<1>13. \/ /\ h.measurement_source = "tpm2" /\ h.tpm_required = TRUE
          /\ h.expected = {"pcr_values"}
       \/ h.measurement_source = "sev_snp" /\ h.expected = {"mrenclave", "amd_root"}
  BY <1>1, <1>3, <1>8, <1>9 DEF e
<1>14. AirGapped(mode) => h.timing # "none"
  BY <1>1, <1>8, AirGappedTiming DEF t
<1>15. Prepared(h, mode)
  BY <1>1, <1>8, <1>10, <1>11, <1>12, <1>13, <1>14 DEF Prepared
<1>16. Cmk(h) = "cmk" /\ h.measurement_source \in probe
  BY <1>1, <1>2, <1>8 DEF Cmk, RootIsMet
<1>17. /\ Builds(h, probe) /\ Validate(h) /\ Claims(h, "mutual")
       /\ h = PlannedConfig(p)
  BY <1>5, <1>15, <1>16, PreparedServes DEF h
<1>18. CanPlan(p, D, hasKey)
  BY <1>1, <1>2, <1>4, <1>10, <1>17 DEF CanPlan, SettingsValid
<1> QED
  BY <1>17, <1>18 DEF p

(* What has been prepared starts and delivers what its mode claims, for    *)
(* every setting, machine and mode (PreparedStarts; default-config, run,   *)
(* plan and readiness against validate, provision_keys, build_backend and  *)
(* AttestationService::new).                                               *)
THEOREM PreparedAlwaysStarts == Spec => []PreparedStarts
<1>1. PreparedStarts
  <2>1. \A mode \in Modes : TemplateStarts(mode)
    BY TemplatePrepared, LightTemplate
  <2>2. ASSUME NEW ui \in BOOLEAN
        PROVE  Builds(RunConfig(ui), {})
    <3> DEFINE c == RunConfig(ui)
    <3>1. /\ c.mode = "light" /\ c.sane = TRUE /\ c.cmk_path = "unset"
          /\ c.env_cmk = "unset" /\ c.local_key = TRUE
          /\ c.backend = "supervised" /\ c.egress = TRUE
          /\ c.require_mtls = FALSE /\ c.console \in {"none", "loopback"}
          /\ c.measurement_source = "software"
      BY DEF RunConfig, DefaultLight
    <3> HIDE DEF c
    <3>2. ProvisionKeys(c) = "local"
      BY <3>1 DEF ProvisionKeys, Cmk, Light
    <3>3. Builds(c, {})
      BY <3>1, <3>2, LightServes
    <3> QED
      BY <3>3 DEF c
  <2>3. ASSUME NEW s \in {x \in Settings : x.sane /\ x.start_on_launch},
               NEW mode \in Modes \ {"light"}, NEW hasKey \in BOOLEAN,
               NEW machine \in SUBSET {"tpm2", "sev_snp"},
               Ready(mode, s, disk, hasKey, machine)
        PROVE  LET p == [s EXCEPT !.mode = mode]
                   c == PlannedConfig(p)
               IN  CanPlan(p, disk, hasKey) /\ Builds(c, machine)
                     /\ Claims(c, "mutual")
    BY <2>3, PlanPrepared
  <2> QED
    BY <2>1, <2>2, <2>3 DEF PreparedStarts
<1> QED
  BY <1>1, PTL

-----------------------------------------------------------------------------
(* Types *)

Phases == {"idle", "starting", "running", "stopping", "failed"}
Sane == {s \in Settings : s.sane}

(* What the person's data are: settings saved, carried by a call that has  *)
(* not returned, or by a start.                                            *)
DataInv ==
  /\ settings \in Sane
  /\ key \in Keys \cup {NoOne} /\ disk \subseteq {"plain", "bundle"}
  /\ app \in {"off", "up", "quitting"}
  /\ starts \subseteq Sane
  /\ calls \in [Ops -> [at : {"idle", "waiting", "done"}, s : Sane]]

(* One node at a time: a slot that drains has one, a boot has none.  A     *)
(* boot past its plan, and every node since, has an audit log.             *)
EngineInv ==
  /\ phase \in Phases
  /\ slot.at \in Steps \cup {"free", "draining"}
  /\ slot.by \in Ops \cup {"start"} /\ slot.s \in Sane
  /\ slot.log \in Log \cup {NoOne}
  /\ slot.at \in Steps \ {"booting"} => slot.log \in Log
  /\ slot.at = "draining" => node # NoOne
  /\ slot.at \in Steps => node = NoOne
  /\ node # NoOne => node.log \in Log
  /\ \A l \in lingering : l.log \in Log

dataVars == <<settings, key, disk, app, starts, calls>>
engineVars == <<phase, slot, node, lingering>>

LEMMA DataStays ==
  ASSUME DataInv, UNCHANGED dataVars
  PROVE  DataInv'
BY DEF DataInv, dataVars

LEMMA EngineStays ==
  ASSUME EngineInv, UNCHANGED engineVars
  PROVE  EngineInv'
BY DEF EngineInv, engineVars

LEMMA DefaultIsSane == DefaultSettings \in Sane
BY DEF DefaultSettings, Sane, Settings, Modes, Hardware

LEMMA ChoicesAreSane == Choices \subseteq Sane
BY DesktopAssumption DEF Sane

LEMMA ModelChosen ==
  ASSUME NEW s \in Sane, NEW m \in {"none", "plain", "bundle"}
  PROVE  [s EXCEPT !.model = m] \in Sane
BY DEF Sane, Settings

LEMMA HardwareChosen ==
  ASSUME NEW s \in Sane, NEW what \in {"ak", "amd_root"}
  PROVE  [s EXCEPT ![what] = TRUE] \in Sane
<1>1. CASE what = "ak"
  BY <1>1 DEF Sane, Settings
<1>2. CASE what = "amd_root"
  BY <1>2 DEF Sane, Settings
<1> QED
  BY <1>1, <1>2

LEMMA CaptureChosen ==
  ASSUME NEW s \in Sane, NEW a \in BOOLEAN, NEW b \in BOOLEAN
  PROVE  [s EXCEPT !.pcrs = a, !.measurement = b] \in Sane
BY DEF Sane, Settings

LEMMA LogOfType ==
  ASSUME NEW s \in Sane, key \in Keys \cup {NoOne}
  PROVE  LogOf(s) \in Log
BY DEF LogOf, Log, Sane, Settings

(* A call of stop, and its return.                                         *)
LEMMA CallsType ==
  ASSUME calls \in [Ops -> [at : {"idle", "waiting", "done"}, s : Sane]],
         NEW op \in Ops, NEW s \in Sane
  PROVE  /\ [calls EXCEPT ![op] = [at |-> "waiting", s |-> s]]
              \in [Ops -> [at : {"idle", "waiting", "done"}, s : Sane]]
         /\ [calls EXCEPT ![op] = [at |-> "done", s |-> s]]
              \in [Ops -> [at : {"idle", "waiting", "done"}, s : Sane]]
         /\ [calls EXCEPT ![op] = Idle]
              \in [Ops -> [at : {"idle", "waiting", "done"}, s : Sane]]
         /\ Returned(op) \in [Ops -> [at : {"idle", "waiting", "done"}, s : Sane]]
         /\ calls[op].s \in Sane
<1>1. Idle \in [at : {"idle", "waiting", "done"}, s : Sane]
  BY DefaultIsSane DEF Idle
<1>2. calls[op].s \in Sane
  OBVIOUS
<1>3. [at |-> "done", s |-> calls[op].s]
        \in [at : {"idle", "waiting", "done"}, s : Sane]
  BY <1>2
<1> QED
  BY <1>1, <1>2, <1>3 DEF Returned

LEMMA DataInit == Init => DataInv /\ EngineInv
<1>1. Idle \in [at : {"idle", "waiting", "done"}, s : Sane]
  BY DefaultIsSane DEF Idle
<1>2. Init => DataInv
  BY <1>1, ChoicesAreSane DEF Init, DataInv
<1>3. Init => EngineInv
  BY DefaultIsSane DEF Init, EngineInv, Free, Phases, Steps
<1> QED
  BY <1>2, <1>3

(* A call of stop keeps both.                                              *)
LEMMA CallStopTypes ==
  ASSUME DataInv, EngineInv, SlotRecord, NEW op \in Ops, CallStop(op, settings),
         UNCHANGED <<phase, node, lingering>>
  PROVE  /\ calls' \in [Ops -> [at : {"idle", "waiting", "done"}, s : Sane]]
         /\ EngineInv'
<1>1. calls' \in [Ops -> [at : {"idle", "waiting", "done"}, s : Sane]]
  BY CallsType DEF CallStop, DataInv
<1>2. EngineInv'
  BY DEF CallStop, EngineInv, SlotRecord
<1> QED
  BY <1>1, <1>2

LEMMA ProcessEndsTypes ==
  ASSUME DataInv, ProcessEnds
  PROVE  DataInv' /\ EngineInv'
<1> USE DEF disks
<1>1. Idle \in [at : {"idle", "waiting", "done"}, s : Sane]
  BY DefaultIsSane DEF Idle
<1>2. DataInv'
  BY <1>1 DEF ProcessEnds, DataInv
<1>3. EngineInv'
  BY DefaultIsSane DEF ProcessEnds, EngineInv, Free, Phases, Steps
<1> QED
  BY <1>2, <1>3

LEMMA CommandTypes ==
  ASSUME DataInv, EngineInv, SlotRecord, Commands
  PROVE  DataInv' /\ EngineInv'
<1> USE DEF disks, engine
<1>1. CASE \E s \in Choices, restart \in BOOLEAN : SaveSettings(s, restart)
  BY <1>1, ChoicesAreSane, EngineStays
     DEF SaveSettings, Save, Spawn, Command, DataInv, engineVars
<1>2. CASE Start \/ Launch
  BY <1>2, EngineStays DEF Start, Launch, Spawn, Command, DataInv, engineVars
<1>3. CASE Stop
  <2>1. /\ calls' \in [Ops -> [at : {"idle", "waiting", "done"}, s : Sane]]
        /\ EngineInv'
    BY <1>3, CallStopTypes DEF Stop, Ops
  <2> QED
    BY <1>3, <2>1 DEF Stop, Command, DataInv
<1>4. CASE Quit
  <2>1. /\ calls' \in [Ops -> [at : {"idle", "waiting", "done"}, s : Sane]]
        /\ EngineInv'
    BY <1>4, CallStopTypes DEF Quit, Ops
  <2> QED
    BY <1>4, <2>1 DEF Quit, DataInv
<1>5. ASSUME NEW m \in {"plain", "bundle"}, SelectModel(m)
      PROVE  DataInv' /\ EngineInv'
  <2>1. settings' \in Sane
    <3>1. [settings EXCEPT !.model = m] \in Sane
      BY ModelChosen DEF DataInv
    <3> QED
      BY <1>5, <3>1 DEF SelectModel, Save
  <2> QED
    BY <1>5, <2>1, EngineStays
       DEF SelectModel, Spawn, Command, DataInv, engineVars
<1>6. ASSUME NEW m \in {"plain", "bundle"}, ModelArrives(m)
      PROVE  DataInv' /\ EngineInv'
  <2>1. settings' \in Sane
    <3>1. [settings EXCEPT !.model = m] \in Sane /\ settings \in Sane
      BY ModelChosen DEF DataInv
    <3>2. settings' = [settings EXCEPT !.model = m] \/ settings' = settings
      BY <1>6 DEF ModelArrives, Save
    <3> QED
      BY <3>1, <3>2
  <2> QED
    BY <1>6, <2>1, EngineStays
       DEF ModelArrives, Spawn, Command, DataInv, engineVars
<1>7. ASSUME NEW m \in {"plain", "bundle"}, Remove(m)
      PROVE  DataInv' /\ EngineInv'
  <2>1. CASE CallStop("remove", settings) /\ UNCHANGED disk
    <3>1. /\ calls' \in [Ops -> [at : {"idle", "waiting", "done"}, s : Sane]]
          /\ EngineInv'
      BY <1>7, <2>1, CallStopTypes DEF Remove, Ops
    <3> QED
      BY <1>7, <2>1, <3>1 DEF Remove, Command, DataInv
  <2>2. CASE disk' = disk \ {m} /\ UNCHANGED <<slot, calls>>
    BY <1>7, <2>2, EngineStays DEF Remove, Command, DataInv, engineVars
  <2> QED
    BY <1>7, <2>1, <2>2 DEF Remove
<1>8. CASE KeyRemove
  <2>1. CASE CallStop("key", settings) /\ UNCHANGED key
    <3>1. /\ calls' \in [Ops -> [at : {"idle", "waiting", "done"}, s : Sane]]
          /\ EngineInv'
      BY <1>8, <2>1, CallStopTypes DEF KeyRemove, Ops
    <3> QED
      BY <1>8, <2>1, <3>1 DEF KeyRemove, Command, DataInv
  <2>2. CASE key' = NoOne /\ UNCHANGED <<slot, calls>>
    BY <1>8, <2>2, EngineStays DEF KeyRemove, Command, DataInv, engineVars
  <2> QED
    BY <1>8, <2>1, <2>2 DEF KeyRemove
<1>9. CASE \E k \in Keys : KeyCreate(k)
  BY <1>9, EngineStays DEF KeyCreate, Command, DataInv, engineVars
<1>10. CASE HardwareCapture
  <2>1. calls' \in [Ops -> [at : {"idle", "waiting", "done"}, s : Sane]]
    BY <1>10, CallsType DEF HardwareCapture, DataInv, Ops
  <2> QED
    BY <1>10, <2>1, EngineStays
       DEF HardwareCapture, Command, DataInv, engineVars
<1>11. ASSUME NEW what \in {"ak", "amd_root"}, HardwarePick(what)
       PROVE  DataInv' /\ EngineInv'
  <2>1. settings' \in Sane
    BY <1>11, HardwareChosen DEF HardwarePick, Save, DataInv
  <2> QED
    BY <1>11, <2>1, EngineStays DEF HardwarePick, Command, DataInv, engineVars
<1>12. CASE \/ \E c \in Certs : RemoteIssue(c) \/ RemoteRevoke(c)
            \/ RemoteClearRevoked
  BY <1>12, EngineStays, DataStays
     DEF RemoteIssue, RemoteRevoke, RemoteClearRevoked, OnMain, Command,
         dataVars, engineVars
<1>13. CASE Kill
  BY <1>13, ProcessEndsTypes DEF Kill
<1> QED
  BY <1>1, <1>2, <1>3, <1>4, <1>5, <1>6, <1>7, <1>8, <1>9, <1>10, <1>11,
     <1>12, <1>13 DEF Commands

(* A boot that fails frees the slot.                                       *)
LEMMA BootFailsTypes ==
  ASSUME EngineInv, BootFails, UNCHANGED node,
         \A l \in lingering' : l.log \in Log
  PROVE  EngineInv'
BY DefaultIsSane DEF EngineInv, BootFails, Free, Phases, Steps

(* A boot that goes on.                                                    *)
LEMMA BootGoesOn ==
  ASSUME EngineInv, SlotRecord, slot.at \in Steps,
         NEW at \in Steps \ {"booting"}, slot'.at = at,
         slot'.by = slot.by, slot'.s = slot.s, slot'.log \in Log,
         UNCHANGED <<phase, node, lingering>>
  PROVE  EngineInv'
BY DEF EngineInv, Phases, Steps

LEMMA SlotTypes ==
  ASSUME DataInv, EngineInv, SlotRecord, SlotStep
  PROVE  DataInv' /\ EngineInv'
<1> USE DEF disks, engine, dataVars
<1>1. CASE \E s \in starts : AcquireStart(s)
  <2>1. PICK s \in starts : AcquireStart(s)
    BY <1>1
  <2>2. DataInv' /\ s \in Sane
    BY <2>1 DEF AcquireStart, DataInv
  <2>3. CASE node = NoOne
    BY <2>1, <2>2, <2>3 DEF AcquireStart, Take, Free, EngineInv, Phases, Steps
  <2>4. CASE node # NoOne
    BY <2>1, <2>2, <2>4 DEF AcquireStart, Take, Free, EngineInv, Phases, Steps
  <2> QED
    BY <2>3, <2>4
<1>2. ASSUME NEW op \in Ops, AcquireStop(op)
      PROVE  DataInv' /\ EngineInv'
  <2>1. calls' \in [Ops -> [at : {"idle", "waiting", "done"}, s : Sane]]
    BY <1>2, CallsType, DefaultIsSane DEF AcquireStop, DataInv
  <2>2. DataInv'
    BY <1>2, <2>1 DEF AcquireStop, DataInv
  <2>3. EngineInv'
    BY <1>2, DefaultIsSane
       DEF AcquireStop, Take, Free, EngineInv, Phases, Steps, Ops
  <2> QED
    BY <2>2, <2>3
<1>3. CASE Drained
  <2>1. calls' \in [Ops -> [at : {"idle", "waiting", "done"}, s : Sane]]
    BY <1>3, CallsType, DefaultIsSane DEF Drained, DataInv, EngineInv
  <2>2. DataInv'
    BY <1>3, <2>1 DEF Drained, DataInv
  <2>3. EngineInv'
    BY <1>3, DefaultIsSane
       DEF Drained, LetGo, Lingers, Free, EngineInv, SlotRecord, Phases, Steps
  <2> QED
    BY <2>2, <2>3
<1>4. CASE Plan
  <2>1. DataInv'
    BY <1>4, DataStays DEF Plan, Boots
  <2>2. LogOf(slot.s) \in Log
    BY LogOfType DEF DataInv, EngineInv
  <2>3. EngineInv'
    <3>1. CASE BootFails
      BY <1>4, <3>1, BootFailsTypes DEF Plan, EngineInv
    <3>2. CASE ~BootFails
      <4>1. /\ slot.at = "booting" /\ UNCHANGED <<phase, node, lingering>>
            /\ slot' = [slot EXCEPT !.at = "building", !.log = LogOf(slot.s),
                                    !.registry = Registry(slot.s)]
        BY <1>4, <3>2 DEF Plan, Boots
      <4>2. /\ slot'.at = "building" /\ slot'.by = slot.by
            /\ slot'.s = slot.s /\ slot'.log = LogOf(slot.s)
        BY <4>1 DEF SlotRecord
      <4> QED
        BY <2>2, <4>1, <4>2, BootGoesOn DEF Steps
    <3> QED
      BY <3>1, <3>2
  <2> QED
    BY <2>1, <2>3
<1>5. CASE Build \/ Load \/ Publish \/ OpenFails \/ FailedStops
  <2>1. DataInv'
    BY <1>5, DataStays DEF Build, Load, Publish, OpenFails, FailedStops, Boots
  <2>2. CASE Build
    <3>1. CASE BootFails
      BY <2>1, <2>2, <3>1, BootFailsTypes DEF Build, EngineInv
    <3>2. CASE ~BootFails
      <4>1. /\ slot.at = "building" /\ UNCHANGED <<phase, node, lingering>>
            /\ \/ slot' = [slot EXCEPT !.at = "loading"]
               \/ \E t : slot' = [slot EXCEPT !.at = "staging", !.thread = t]
        BY <2>2, <3>2 DEF Build, Boots
      <4>2. /\ slot'.at \in {"loading", "staging"} /\ slot'.by = slot.by
            /\ slot'.s = slot.s /\ slot'.log = slot.log
        BY <4>1 DEF SlotRecord
      <4>3. slot.log \in Log
        BY <4>1 DEF EngineInv, Steps
      <4> QED
        BY <2>1, <4>1, <4>2, <4>3, BootGoesOn DEF Steps
    <3> QED
      BY <3>1, <3>2
  <2>3. CASE Load
    <3>1. CASE BootFails
      BY <2>1, <2>3, <3>1, BootFailsTypes DEF Load, EngineInv
    <3>2. CASE ~BootFails
      <4>1. /\ slot.at = "loading" /\ UNCHANGED <<phase, node, lingering>>
            /\ Retry \/ slot' = [slot EXCEPT !.at = "opening"]
        BY <2>3, <3>2 DEF Load, Boots
      <4>2. /\ slot'.at \in {"building", "opening"} /\ slot'.by = slot.by
            /\ slot'.s = slot.s /\ slot'.log = slot.log
        BY <4>1 DEF Retry, SlotRecord
      <4>3. slot.log \in Log
        BY <4>1 DEF EngineInv, Steps
      <4> QED
        BY <2>1, <4>1, <4>2, <4>3, BootGoesOn DEF Steps
    <3> QED
      BY <3>1, <3>2
  <2>4. CASE Publish
    <3>1. slot.log \in Log /\ slot' = Free /\ phase' = "running"
          /\ node' = [s |-> slot.s, log |-> slot.log, registry |-> slot.registry]
          /\ lingering' = lingering
      BY <2>4 DEF Publish, Boots, EngineInv, Steps
    <3>2. node'.log = slot.log
      BY <3>1
    <3> QED
      BY <2>1, <3>1, <3>2, DefaultIsSane DEF Free, EngineInv, Phases, Steps
  <2>5. CASE OpenFails
    <3>1. /\ slot.at = "opening" /\ UNCHANGED <<phase, node, lingering>>
          /\ slot' = [slot EXCEPT !.at = "failing"]
      BY <2>5 DEF OpenFails, Boots
    <3>2. /\ slot'.at = "failing" /\ slot'.by = slot.by
          /\ slot'.s = slot.s /\ slot'.log = slot.log
      BY <3>1 DEF SlotRecord
    <3>3. slot.log \in Log
      BY <3>1 DEF EngineInv, Steps
    <3> QED
      BY <2>1, <3>1, <3>2, <3>3, BootGoesOn DEF Steps
  <2>6. CASE FailedStops
    <3>1. slot.log \in Log
      BY <2>6 DEF FailedStops, Boots, EngineInv, Steps
    <3>2. \A l \in lingering' : l.log \in Log
      BY <2>6, <3>1 DEF FailedStops, LetGo, Lingers, EngineInv
    <3> QED
      BY <2>1, <2>6, <3>2, DefaultIsSane
         DEF FailedStops, Free, EngineInv, Phases, Steps
  <2> QED
    BY <1>5, <2>1, <2>2, <2>3, <2>4, <2>5, <2>6
<1>6. CASE Abandon
  <2>1. DataInv'
    BY <1>6, DataStays DEF Abandon
  <2>2. EngineInv'
    BY <1>6, DefaultIsSane
       DEF Abandon, BootFails, Lingers, Free, EngineInv, SlotRecord, Phases,
           Steps
  <2> QED
    BY <2>1, <2>2
<1> QED
  BY <1>1, <1>2, <1>3, <1>4, <1>5, <1>6 DEF SlotStep

LEMMA OtherTypes ==
  ASSUME DataInv, EngineInv, SlotRecord,
         \/ \E t \in Threads : StageStep(t)
         \/ \E l \in lingering : OldNodeReleased(l)
         \/ RemoveEnds \/ KeyRemoveEnds \/ CaptureEnds \/ Exit
         \/ \E c \in Certs : IssueSaves(c) \/ IssueEnds(c)
         \/ MainSaves \/ RevokeEnds
  PROVE  DataInv' /\ EngineInv'
<1> USE DEF disks, engine, dataVars, engineVars
<1>1. ASSUME NEW t \in Threads, StageStep(t)
      PROVE  DataInv' /\ EngineInv'
  <2>1. DataInv'
    BY <1>1, DataStays
       DEF StageStep, StageBegins, StageEnds, StageFails, Stages
  <2>2. EngineInv'
    BY <1>1, DefaultIsSane
       DEF StageStep, StageBegins, StageEnds, StageFails, Stages, Wanted, Free,
           EngineInv, SlotRecord, Phases, Steps
  <2> QED
    BY <2>1, <2>2
<1>2. CASE \E l \in lingering : OldNodeReleased(l)
  <2>1. DataInv'
    BY <1>2, DataStays DEF OldNodeReleased
  <2>2. EngineInv'
    BY <1>2 DEF OldNodeReleased, EngineInv
  <2> QED
    BY <2>1, <2>2
<1>3. CASE RemoveEnds
  <2>1. calls["remove"].s \in Sane
    BY CallsType DEF DataInv, Ops
  <2>2. settings' \in Sane
    BY <1>3, <2>1, ModelChosen DEF RemoveEnds, Save
  <2>3. calls' \in [Ops -> [at : {"idle", "waiting", "done"}, s : Sane]]
    BY <1>3, CallsType, DefaultIsSane DEF RemoveEnds, DataInv, Ops
  <2> QED
    BY <1>3, <2>2, <2>3, EngineStays DEF RemoveEnds, DataInv
<1>4. CASE KeyRemoveEnds
  <2>1. calls' \in [Ops -> [at : {"idle", "waiting", "done"}, s : Sane]]
    BY <1>4, CallsType, DefaultIsSane DEF KeyRemoveEnds, DataInv, Ops
  <2> QED
    BY <1>4, <2>1, EngineStays DEF KeyRemoveEnds, DataInv
<1>5. CASE CaptureEnds
  <2>1. calls["capture"].s \in Sane
    BY CallsType DEF DataInv, Ops
  <2>2. settings' \in Sane
    BY <1>5, <2>1, CaptureChosen DEF CaptureEnds, Save, DataInv
  <2>3. calls' \in [Ops -> [at : {"idle", "waiting", "done"}, s : Sane]]
    BY <1>5, CallsType, DefaultIsSane DEF CaptureEnds, DataInv, Ops
  <2> QED
    BY <1>5, <2>2, <2>3, EngineStays DEF CaptureEnds, DataInv
<1>6. CASE Exit
  BY <1>6, ProcessEndsTypes DEF Exit
<1>7. CASE \/ \E c \in Certs : IssueSaves(c) \/ IssueEnds(c)
           \/ MainSaves \/ RevokeEnds
  <2>1. starts' = starts \/ starts' = starts \cup {settings}
    BY <1>7 DEF IssueSaves, IssueEnds, MainSaves, RevokeEnds,
                RestartIfRunning, Spawn
  <2>2. UNCHANGED <<settings, key, disk, app, calls>> /\ UNCHANGED engineVars
    BY <1>7 DEF IssueSaves, IssueEnds, MainSaves, RevokeEnds
  <2> QED
    BY <2>1, <2>2, EngineStays DEF DataInv
<1> QED
  BY <1>1, <1>2, <1>3, <1>4, <1>5, <1>6, <1>7

(* Type correctness of the app's state; in it, that the engine has one     *)
(* node at a time: a boot has none beside it and only a slot with a node   *)
(* drains (engine.rs, start and stop under the slot's lock).               *)
THEOREM DesktopTypeCorrect == Spec => []TypeOK
<1> DEFINE I == StageInv /\ ShutInv /\ DataInv /\ EngineInv
<1>1. Init => I
  BY StageInit, ShutInit, DataInit
<1>2. I /\ [Next]_vars => I'
  <2> SUFFICES ASSUME I, [Next]_vars PROVE I'
    OBVIOUS
  <2>1. StageInv' /\ ShutInv'
    BY StageNext, ShutNext
  <2>2. SlotRecord
    BY DEF StageInv
  <2>3. CASE UNCHANGED vars
    BY <2>1, <2>3, DataStays, EngineStays
       DEF vars, disks, engine, dataVars, engineVars
  <2>4. CASE Next
    BY <2>1, <2>2, <2>4, CommandTypes, SlotTypes, OtherTypes DEF Next
  <2> QED
    BY <2>3, <2>4
<1>3. I => TypeOK
  BY DEF TypeOK, StageInv, ShutInv, RecordsInv, RecordsTyped, Records, States,
         DataInv, EngineInv, Sane, Phases
<1> HIDE DEF I
<1> QED
  BY <1>1, <1>2, <1>3, PTL DEF Spec
=============================================================================
