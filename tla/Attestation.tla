---------------------------- MODULE Attestation ----------------------------
(***************************************************************************)
(* A node that produces attestation reports, the transport that carries    *)
(* them, the clients that verify them, and the node's own record of which  *)
(* client has verified it (attestation_service.rs, tpm.rs,                 *)
(* confidential_vm.rs, the attestation endpoints of handlers.rs).          *)
(*                                                                         *)
(* Two machines run the same software: "node", the one whose gate is       *)
(* modelled, and "other".  The other's TPM may be no hardware: then its    *)
(* key signs whatever it is given.  The transport keeps reports, delivers  *)
(* old ones, joins parts of two reports, signs quotes anew with such a key *)
(* and recomputes the unsigned digest.  Ages are counted in ticks and      *)
(* saturate, so time never ends.                                           *)
(***************************************************************************)
EXTENDS Evidence, FiniteSets

CONSTANTS Clients,      \* the clients of the node's API
          Sources,      \* measurement sources, of "tpm", "sev", "nitro", "soft"
          Classes,      \* what the other machine may be, see Chip
          MaxNonces,    \* bound: challenges issued
          MaxReports,   \* bound: reports handed out and being made
          Interval,     \* attestation.interval_hours, in ticks
          MaxAge        \* the pinned nitro max_age_seconds, in ticks

ASSUME BoundsAssumption ==
    {MaxNonces, MaxReports, Interval, MaxAge} \subseteq Nat \ {0}

ASSUME KindsAssumption ==
    /\ Sources \subseteq {"tpm", "sev", "nitro", "soft"}
    /\ Classes \subseteq {"genuine", "unchained", "oldTcb", "debuggable"}

VARIABLES
    conf,      \* [src, class, pinned]: fixed at deployment
    image,     \* machine -> what its hardware measures now
    node,      \* machine -> the service: [up, key, pcrs]
    entries,   \* requests between their entry's creation and its reading
    blob,      \* entry name -> what the platform was given there
    wire,      \* reports handed out: [r, age, nonce, clean]
    signed,    \* ghost: the statements signed for reports handed out
    issued,    \* challenges issued so far
    asked,     \* client -> its outstanding challenge, 0 when none
    verdict,   \* client -> what it concluded: [res, key]
    records,   \* verified_clients: client -> {} or {age of its record}
    goodAge    \* ghost: ticks since the node's machine measured as pinned

vars == <<conf, image, node, entries, blob, wire, signed, issued, asked, verdict, records, goodAge>>

\* Only hardware sources have a maker, only SEV-SNP ones a TCB and a guest policy; CordonConfig::validate refuses unpinned measurements outside
\* Light mode.
Deployments ==
    {dep \in [src : Sources, class : Classes, pinned : BOOLEAN] :
        /\ dep.class \in {"oldTcb", "debuggable"} => dep.src = "sev"
        /\ dep.class = "unchained" => dep.src # "soft"
        /\ dep.pinned \/ dep.src = "soft"}

Machines == {"node", "other"}
KeyOf == [node |-> "n1", other |-> "o1"]
Images == {"pinned", "changed"}
Registers == {11, 13}
Empty == [i \in {} |-> <<0, "">>]
NoResult == [res |-> Refused, key |-> "no key"]
Hardware == conf.src # "soft"

----------------------------------------------------------------------------
(* The platforms (external): their keys, their certificates, what they sign *)

\* The node's machine is genuine; the other one may not be.
Class(d) == IF d = "node" THEN "genuine" ELSE conf.class

Vendor(d) == IF Class(d) = "unchained" THEN "self" ELSE "vendor"

Cert(subject, issuer, by, key, life) ==
    [subject |-> subject, issuer |-> issuer, by |-> by, key |-> key, life |-> life]
Root(v) == Cert("root", "root", <<v, "root">>, <<v, "root">>, MaxAge + 1)
Ca(v) == Cert("ca", "root", <<v, "root">>, <<v, "ca">>, MaxAge + 1)
Leaf(d) == Cert("leaf", "ca", <<Vendor(d), "ca">>, <<d, "leaf">>, MaxAge)

Measured(img) == [i \in Registers |-> <<i, img>>]

\* tpm2_quote over the standard selection.
TpmStatement(challenge, pcrs) == [form |-> "quote", extra |-> challenge, pcrs |-> pcrs]

\* A TPM that is a program: nothing ties its key to hardware.
SoftwareTpm == conf.src = "tpm" /\ Class("other") = "unchained"
SoftwareKey == <<"other", "ak">>

\* The report the firmware answers an outblob read with.
SnpReport(d, challenge) ==
    LET body == [form |-> "report", data |-> Padded(challenge), meas |-> image[d],
                 tcb |-> IF Class(d) = "oldTcb" THEN 0 ELSE 1,
                 vmpl |-> 0, debug |-> Class(d) = "debuggable"]
    IN  [body |-> body, sig |-> [by |-> <<d, "leaf">>, over |-> body]]

NitroDocument(d, challenge) ==
    LET body == [pcrs |-> Measured(image[d]), cert |-> Leaf(d), nonce |-> {challenge},
                 cabundle |-> <<Root(Vendor(d)), Ca(Vendor(d))>>]
    IN  [alg |-> "ES384", body |-> body,
         sig |-> [by |-> <<d, "leaf">>, over |-> <<"ES384", body>>]]

----------------------------------------------------------------------------
(* generate_attestation                                                    *)

NoEvidence == [kind |-> "none"]

\* Only the TPM source carries a quote; its parts are read back from files in
\* a directory of the request's own, and the key's public area may not read.
TpmPart(d, b, nonce, akReads) ==
    LET msg == TpmStatement(b.challenge, b.pcrs)
    IN  IF conf.src = "tpm"
        THEN [pcrs |-> node[d].pcrs, nonce |-> nonce, msg |-> {msg},
              sig |-> {[by |-> <<d, "ak">>, over |-> msg]},
              aik |-> IF akReads THEN {<<d, "ak">>} ELSE {}]
        ELSE [pcrs |-> node[d].pcrs, nonce |-> nonce, msg |-> {}, sig |-> {}, aik |-> {}]

\* A confidential VM's measurement comes from its report, any other's from
\* the build and the node id.
TeePart(d, key, measurement) ==
    [mrenclave |-> measurement, mrsigner |-> "signer", svn |-> 0, type |-> "tee", key |-> key]

\* request_sev_snp_evidence: the host may have cached no VCEK; its copy of the
\* root is never forwarded.
EvidencePart(d, b, cached) ==
    IF conf.src = "sev"
    THEN [kind |-> "sev", report |-> SnpReport(d, b.challenge),
          vcek |-> IF cached THEN {Leaf(d)} ELSE {},
          chain |-> IF cached THEN <<Ca(Vendor(d))>> ELSE <<>>]
    ELSE IF conf.src = "nitro"
    THEN [kind |-> "nitro", doc |-> NitroDocument(d, b.challenge)]
    ELSE NoEvidence

Measurement(d) == IF conf.src = "sev" THEN image[d] ELSE "enclave"

\* The report for request e read from its entry, b; extras: the certificates
\* and the key's public area could be read.
Report(e, b, extras) ==
    MkReport(TpmPart(e.dev, b, e.nonce, extras),
             TeePart(e.dev, e.key, Measurement(e.dev)),
             EvidencePart(e.dev, b, extras))

----------------------------------------------------------------------------
(* What is pinned                                                          *)

\* cordon attest --pin, taken from a node that measured as intended.
PinBlock(pcrs, measurement) ==
    [pcrs |-> pcrs, mrenclave |-> {measurement}, mrsigner |-> {"signer"}, svn |-> 0]

\* pinned_measurements: the block, the configured TEE and the vendor roots.
Pins ==
    LET block == PinBlock(IF conf.src = "tpm" THEN Measured("pinned")
                          ELSE IF conf.src = "soft" THEN Measured("config")
                          ELSE Empty,
                          IF conf.src = "sev" THEN "pinned" ELSE "enclave")
    IN  [pcrs |-> block.pcrs, mrenclave |-> block.mrenclave, mrsigner |-> block.mrsigner,
         svn |-> block.svn, type |-> "tee",
         sev |-> {[root |-> Root("vendor"), tcb |-> 1, vmpl |-> 0, refuseDebug |-> TRUE]},
         nitro |-> {[root |-> {Root("vendor")}, pcrs |-> Measured("pinned"), maxAge |-> MaxAge]}]

NoPins == [Pins EXCEPT !.pcrs = Empty, !.mrenclave = {}, !.mrsigner = {}, !.sev = {}, !.nitro = {}]

Expected == IF conf.pinned THEN Pins ELSE NoPins

----------------------------------------------------------------------------
(* State                                                                   *)

\* AttestationService::new: a TPM may return fewer registers than asked for
\* (not none).
TakeMeasurements(d, readable) ==
    IF conf.src = "tpm" THEN [i \in readable |-> Measured(image[d])[i]]
    ELSE IF conf.src = "soft" THEN Measured("config")
    ELSE Empty

\* The response-signing key, sealed on disk, is loaded with the process.
Running(d, readable) ==
    [up |-> TRUE, key |-> KeyOf[d], pcrs |-> TakeMeasurements(d, readable)]

Down == [up |-> FALSE, key |-> "no key", pcrs |-> Empty]

Init ==
    /\ conf \in Deployments
    /\ image \in [Machines -> Images] /\ image["node"] = "pinned"
    /\ node = [node |-> Down, other |-> Running("other", Registers)]
    /\ entries = {} /\ blob = [n \in 1..MaxReports |-> {}]
    /\ wire = {} /\ signed = {}
    /\ issued = 0 /\ asked = [c \in Clients |-> 0]
    /\ verdict = [c \in Clients |-> NoResult]
    /\ records = [c \in Clients |-> {}]
    /\ goodAge = 0

\* The process is started: a guest whose policy permits debugging and a Nitro
\* enclave are refused.
Start ==
    /\ ~node["node"].up /\ conf.src # "nitro"
    /\ conf.src = "sev" => Class("node") # "debuggable"
    /\ \E readable \in {Registers, {11}} : node' = [node EXCEPT !["node"] = Running("node", readable)]
    /\ UNCHANGED <<conf, image, entries, blob, wire, signed, issued, asked, verdict, records, goodAge>>

\* The process ends: its requests, and its records of who verified it, with it.
Stop ==
    /\ node["node"].up
    /\ node' = [node EXCEPT !["node"] = Down]
    /\ entries' = {} /\ blob' = [n \in DOMAIN blob |-> {}]
    /\ records' = [c \in Clients |-> {}]
    /\ UNCHANGED <<conf, image, wire, signed, issued, asked, verdict, goodAge>>

\* External: the node's machine is measured anew when it boots or its VM is
\* launched, and a TPM's registers can be extended under a running node.
Remeasure ==
    /\ \E img \in Images \ {image["node"]} :
          /\ node["node"].up => conf.src = "tpm" /\ img = "changed"
          /\ image' = [image EXCEPT !["node"] = img]
          /\ goodAge' = IF img = "pinned" THEN 0 ELSE goodAge
    /\ UNCHANGED <<conf, node, entries, blob, wire, signed, issued, asked, verdict, records>>

\* A client draws a fresh challenge.
Ask(c) ==
    /\ issued < MaxNonces
    /\ issued' = issued + 1
    /\ asked' = [asked EXCEPT ![c] = issued + 1]
    /\ verdict' = [verdict EXCEPT ![c] = NoResult]
    /\ UNCHANGED <<conf, image, node, entries, blob, wire, signed, records, goodAge>>

RoomOnWire == Cardinality(wire) + Cardinality(entries) < MaxReports

\* Mutation: one fixed name, as earlier revisions had it.
SharedName == 1

\* A private directory, or a configfs entry, with a name no other request has.
EntryName == CHOOSE n \in 1..MaxReports : \A e \in entries : e.name # n

\* What the platform is given: the challenge, over the registers as they are.
Given(c) ==
    [challenge |-> Challenge(node["node"].key, asked[c]), pcrs |-> Measured(image["node"])]

\* GET /v1/attestation up to the platform's answer.
Open(c) ==
    /\ node["node"].up /\ asked[c] # 0 /\ RoomOnWire
    /\ entries' = entries \cup {[name |-> EntryName, dev |-> "node", nonce |-> asked[c],
                                  key |-> node["node"].key]}
    /\ blob' = [blob EXCEPT ![EntryName] = {Given(c)}]
    /\ UNCHANGED <<conf, image, node, wire, signed, issued, asked, verdict, records, goodAge>>

\* ReportEntry::drop and TempDir: the entry goes whatever the outcome.
Close(e) ==
    /\ entries' = entries \ {e}
    /\ blob' = [blob EXCEPT ![e.name] = {}]

\* The age from which a document is too old; nothing else is looked at for age.
Old == IF conf.src = "nitro" THEN MaxAge + 1 ELSE 0

\* A report as every later check expects it: genuine, pinned, complete.
Clean(e, b, extras) ==
    /\ extras /\ Class(e.dev) = "genuine" /\ image[e.dev] = "pinned"
    /\ conf.src = "tpm" => node[e.dev].pcrs = Measured("pinned") /\ b.pcrs = Measured("pinned")

\* What is signed: the challenge, and what the signer says it measures.
Statement(e, b) ==
    [dev |-> e.dev, challenge |-> b.challenge,
     says |-> IF conf.src = "tpm" /\ b.pcrs # Measured("pinned") THEN "changed"
              ELSE IF conf.src = "tpm" THEN "pinned" ELSE image[e.dev]]

Send(w) == wire' = wire \cup {w}

\* The answer to GET: the report goes out.
Answer(e) ==
    /\ \E b \in blob[e.name], extras \in BOOLEAN :
          /\ Send([r |-> Report(e, b, extras), age |-> 0, nonce |-> e.nonce,
                   clean |-> Clean(e, b, extras)])
          /\ signed' = IF Hardware THEN signed \cup {Statement(e, b)} ELSE signed
    /\ Close(e)
    /\ UNCHANGED <<conf, image, node, issued, asked, verdict, records, goodAge>>

\* verify_for_client: pins, the report, and in a hardware mode a quote; only
\* then the record.
Established(e, b, extras) ==
    LET res == Verify(Report(e, b, extras), Expected, e.nonce, 0)
    IN  conf.pinned /\ res.ok /\ (Hardware => res.quote = "verified")

\* POST /v1/attestation/verify: the node makes a report for the caller's nonce
\* and checks it against its own pins.  It ends within the tick it begins in.
VerifyForClient(c) ==
    /\ node["node"].up /\ asked[c] # 0
    /\ \E extras \in BOOLEAN :
          LET e == [dev |-> "node", nonce |-> asked[c], key |-> node["node"].key]
          IN  Established(e, Given(c), extras)
    /\ records' = [records EXCEPT ![c] = {0}]
    /\ UNCHANGED <<conf, image, node, entries, blob, wire, signed, issued, asked, verdict, goodAge>>

\* No attestation key, an unreadable file, an unusable report: an error and no
\* weaker report in its place.
QuoteFails(e) ==
    /\ Hardware
    /\ Close(e)
    /\ UNCHANGED <<conf, image, node, wire, signed, issued, asked, verdict, records, goodAge>>

\* Another machine, or (no Cordon node can) an enclave, answers a challenge in
\* one step: what it does meanwhile is not looked at.
AnsweredElsewhere(d, c) ==
    /\ asked[c] # 0 /\ RoomOnWire /\ (d = "other" \/ conf.src = "nitro")
    /\ LET e == [dev |-> d, nonce |-> asked[c], key |-> KeyOf[d]]
           b == [challenge |-> Challenge(KeyOf[d], asked[c]), pcrs |-> Measured(image[d])]
       IN  /\ Send([r |-> Report(e, b, TRUE), age |-> 0, nonce |-> asked[c],
                    clean |-> Clean(e, b, TRUE)])
           /\ signed' = IF Hardware THEN signed \cup {Statement(e, b)} ELSE signed
    /\ UNCHANGED <<conf, image, node, entries, blob, issued, asked, verdict, records, goodAge>>

\* The report of a TPM that is a program: any registers, any signing key.
SoftwareReport(key, nonce, pcrs) ==
    LET msg == TpmStatement(Challenge(key, nonce), pcrs)
    IN  MkReport([pcrs |-> pcrs, nonce |-> nonce, msg |-> {msg},
                  sig |-> {[by |-> SoftwareKey, over |-> msg]}, aik |-> {SoftwareKey}],
                 TeePart("other", key, "enclave"), NoEvidence)

AnsweredInSoftware(c) ==
    /\ SoftwareTpm /\ asked[c] # 0 /\ RoomOnWire
    /\ \E d \in Machines, img \in Images :
          /\ Send([r |-> SoftwareReport(KeyOf[d], asked[c], Measured(img)), age |-> 0,
                   nonce |-> asked[c], clean |-> FALSE])
          /\ signed' = signed \cup {[dev |-> "other", says |-> img,
                                     challenge |-> Challenge(KeyOf[d], asked[c])]}
    /\ UNCHANGED <<conf, image, node, entries, blob, issued, asked, verdict, records, goodAge>>

\* A quote signed anew, with the software key in the place of its own.
SignedAnew(tpm) ==
    IF SoftwareTpm THEN [tpm EXCEPT !.sig = {[by |-> SoftwareKey, over |-> m] : m \in tpm.msg},
                                    !.aik = {SoftwareKey}]
    ELSE tpm

\* What the transport can make of two reports for a client waiting on nonce.
Rearranged(r1, r2, nonce) ==
    LET now  == [r1.tpm EXCEPT !.nonce = nonce]
        tpms == {r1.tpm, now, [now EXCEPT !.pcrs = r2.tpm.pcrs], [now EXCEPT !.msg = {}],
                 [now EXCEPT !.aik = r2.tpm.aik], SignedAnew(now),
                 [now EXCEPT !.msg = r2.tpm.msg, !.sig = r2.tpm.sig, !.aik = r2.tpm.aik]}
        tees == {r1.tee, r2.tee, [r1.tee EXCEPT !.mrenclave = r2.tee.mrenclave]}
        evs  == {r1.ev, r2.ev, NoEvidence}
    IN  {MkReport(t, e, v) : t \in tpms, e \in tees, v \in evs}
            \cup {[r1 EXCEPT !.tee = r2.tee]}

\* AttestationReport::verify, run by the client against its own pins.
Deliver(c) ==
    /\ asked[c] # 0
    /\ \E w1, w2 \in wire : \E r \in Rearranged(w1.r, w2.r, asked[c]) :
          LET age == IF r.ev = w2.r.ev THEN w2.age ELSE w1.age
              res == Verify(r, Expected, asked[c], age)
          IN  res.ok /\ verdict' = [verdict EXCEPT ![c] = [res |-> res, key |-> r.tee.key]]
    /\ UNCHANGED <<conf, image, node, entries, blob, wire, signed, issued, asked, records, goodAge>>

----------------------------------------------------------------------------
(* Time and the gate                                                       *)

Older(age, limit) == IF age < limit THEN age + 1 ELSE age

Tick ==
    /\ records' = [c \in Clients |-> {Older(a, Interval) : a \in records[c]}]
    /\ wire' = {[w EXCEPT !.age = Older(w.age, Old)] : w \in wire}
    /\ goodAge' = IF image["node"] = "pinned" THEN 0 ELSE Older(goodAge, Interval)
    /\ UNCHANGED <<conf, image, node, entries, blob, signed, issued, asked, verdict>>

\* is_verified_by: asked on every request, so it does not wait for the sweep.
IsVerifiedBy(c) == \E a \in records[c] : a < Interval

\* expire_stale_verifications: the sweep, and every reader of the count.
ExpireStale ==
    /\ records' = [c \in Clients |-> {a \in records[c] : a < Interval}]
    /\ UNCHANGED <<conf, image, node, entries, blob, wire, signed, issued, asked, verdict, goodAge>>

Next ==
    \/ Start \/ Stop \/ Remeasure
    \/ \E c \in Clients : Ask(c) \/ Open(c) \/ VerifyForClient(c) \/ Deliver(c)
                          \/ AnsweredInSoftware(c)
    \/ \E c \in Clients, d \in Machines : AnsweredElsewhere(d, c)
    \/ \E e \in entries : Answer(e) \/ QuoteFails(e)
    \/ Tick
    \/ ExpireStale

Spec == Init /\ [][Next]_vars

----------------------------------------------------------------------------
(* Properties                                                              *)

\* The pieces of state stay in their ranges: entries name their blobs, and a
\* record's age is within the interval.
TypeOK ==
    /\ conf \in Deployments
    /\ image \in [Machines -> Images]
    /\ \A d \in Machines : node[d].up \in BOOLEAN /\ node[d].key \in {KeyOf[d], "no key"}
    /\ \A e \in entries : e.name \in 1..MaxReports /\ node[e.dev].up /\ e.key = node[e.dev].key
    /\ Cardinality(wire) <= MaxReports /\ issued \in 0..MaxNonces
    /\ asked \in [Clients -> 0..issued]
    /\ \A c \in Clients : records[c] \subseteq 0..Interval /\ Cardinality(records[c]) <= 1

\* AttestationReport::verify, is_hardware_rooted: whatever the transport did, a
\* client that concludes "hardware rooted" was answered by the holder of an
\* attestation key, who signed for this very challenge, with the key the client
\* now trusts, and for the pinned measurements.  Only when the attestation key
\* is called trusted, which a TPM's never is (ak_is_trusted), is the holder a
\* genuine platform, and what it signed is what it measured.
AcceptedIsQuoted ==
    \A c \in Clients :
        LET v == verdict[c]
        IN  v.res.ok /\ IsHardwareRooted(v.res) =>
              \E s \in signed : /\ s.challenge = Challenge(v.key, asked[c])
                                /\ s.says = "pinned"
                                /\ v.res.trusted => Class(s.dev) = "genuine"

\* A report that reaches a client as the node made it, from a genuine machine
\* that measured as pinned and while it is fresh, verifies; on a hardware
\* source it also proves the signing key.
HonestReportVerifies ==
    \A w \in wire :
        conf.pinned /\ w.clean /\ w.age <= MaxAge =>
            LET res == Verify(w.r, Expected, w.nonce, w.age)
            IN  res.ok /\ (Hardware => IsHardwareRooted(res))

\* is_verified_by: a client the gate admits was vouched for by hardware that
\* measured as pinned less than one interval ago, whatever changed since.
GateIsRecent ==
    Hardware => \A c \in Clients : IsVerifiedBy(c) => goodAge < Interval
=============================================================================
