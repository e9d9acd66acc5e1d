-------------------------- MODULE AttestationProofs --------------------------
(***************************************************************************)
(* What is proved of attestation: a client concludes "hardware rooted"     *)
(* only about a platform that signed for its challenge while it measured   *)
(* as pinned, whatever the transport did; a report of a sound machine      *)
(* verifies; and the node's gate rests on a recent measurement.  Clients,  *)
(* challenges, reports, intervals and ages are arbitrary.                  *)
(***************************************************************************)
EXTENDS Attestation, FiniteSetTheorems, SequenceTheorems, TLAPS

-----------------------------------------------------------------------------
(* What was deployed *)

\* The bounds are positive numbers.
LEMMA Positive ==
  /\ MaxNonces \in Nat \ {0} /\ MaxReports \in Nat \ {0}
  /\ Interval \in Nat \ {0} /\ MaxAge \in Nat \ {0}
BY BoundsAssumption

\* CordonConfig::validate: hardware sources are pinned.
LEMMA DeployedKinds ==
  ASSUME conf \in Deployments
  PROVE  /\ conf.src \in {"tpm", "sev", "nitro", "soft"}
         /\ conf.class \in {"genuine", "unchained", "oldTcb", "debuggable"}
         /\ conf.class \in {"oldTcb", "debuggable"} => conf.src = "sev"
         /\ Hardware => conf.pinned
BY KindsAssumption DEF Deployments, Hardware

\* pinned_measurements, field by field.
LEMMA PinnedFields ==
  /\ Pins.pcrs = IF conf.src = "tpm" THEN Measured("pinned")
                 ELSE IF conf.src = "soft" THEN Measured("config") ELSE Empty
  /\ Pins.mrenclave = {IF conf.src = "sev" THEN "pinned" ELSE "enclave"}
  /\ Pins.mrsigner = {"signer"} /\ Pins.svn = 0 /\ Pins.type = "tee"
  /\ Pins.sev = {[root |-> Root("vendor"), tcb |-> 1, vmpl |-> 0,
                  refuseDebug |-> TRUE]}
  /\ Pins.nitro = {[root |-> {Root("vendor")}, pcrs |-> Measured("pinned"),
                    maxAge |-> MaxAge]}
BY DEF Pins, PinBlock

\* Registers tell the images apart: a register that reads as pinned is one of
\* a machine that measures as pinned.
LEMMA MeasuredApart ==
  ASSUME NEW img, NEW want, VerifyAgainst(Measured(img), Measured(want))
  PROVE  img = want
<1>1. 11 \in Registers
  BY DEF Registers
<1>2. Measured(img)[11] = <<11, img>> /\ Measured(want)[11] = <<11, want>>
  BY <1>1 DEF Measured
<1>3. 11 \in DOMAIN Measured(want)
  BY <1>1 DEF Measured
<1>4. <<11, img>> = <<11, want>>
  BY <1>2, <1>3 DEF VerifyAgainst
<1> QED
  BY <1>4

-----------------------------------------------------------------------------
(* The node's own gate *)

GateInv ==
  /\ conf \in Deployments
  /\ image \in [Machines -> Images]
  /\ DOMAIN node = Machines
  /\ node["node"].up => conf.src # "nitro"
  /\ goodAge \in 0 .. Interval
  /\ image["node"] = "pinned" => goodAge = 0
  /\ records \in [Clients -> SUBSET (0 .. Interval)]
  /\ Hardware => \A c \in Clients : \A a \in records[c] : goodAge <= a

\* verify_for_client: what the node establishes of itself in a hardware mode
\* is that its machine measures as pinned now.
LEMMA EstablishedIsPinned ==
  ASSUME conf \in Deployments, Hardware, conf.src # "nitro",
         NEW c \in Clients, NEW extras \in BOOLEAN, NEW e, e.dev = "node",
         Established(e, Given(c), extras)
  PROVE  image["node"] = "pinned"
<1> DEFINE b == Given(c)
           r == Report(e, b, extras)
<1>1. /\ conf.pinned /\ Expected = Pins
      /\ Verify(r, Pins, e.nonce, 0).quote = "verified"
  BY DEF Established, Expected
<1>2. /\ MeasurementsMatch(r, Pins)
      /\ PlatformQuote(r, Pins, e.nonce, 0).quote = "verified"
  BY <1>1 DEF Verify, Refused
<1>3. /\ r.tpm = TpmPart("node", b, e.nonce, extras)
      /\ r.tee = TeePart("node", e.key, Measurement("node"))
      /\ r.ev = EvidencePart("node", b, extras)
  BY DEF Report, MkReport
<1> HIDE DEF r
<1>4. CASE conf.src = "sev"
  <2>1. r.tee.mrenclave = image["node"]
    BY <1>3, <1>4 DEF TeePart, Measurement
  <2>2. Pins.mrenclave = {"pinned"}
    BY <1>4, PinnedFields
  <2> QED
    BY <1>2, <2>1, <2>2 DEF MeasurementsMatch, Matches
<1>5. CASE conf.src = "tpm"
  <2>1. r.ev = NoEvidence
    BY <1>3, <1>5 DEF EvidencePart
  <2>2. VerifyTpmQuote(r, Challenge(r.tee.key, e.nonce)).quote = "verified"
    BY <1>2, <2>1 DEF PlatformQuote, NoEvidence
  <2>3. /\ HasHardwareEvidence(r.tpm)
        /\ VerifyQuote(r.tpm, Challenge(r.tee.key, e.nonce))
    BY <2>2 DEF VerifyTpmQuote, Refused
  <2>4. /\ r.tpm.pcrs = node["node"].pcrs
        /\ r.tpm.msg = {TpmStatement(b.challenge, b.pcrs)}
    BY <1>3, <1>5 DEF TpmPart
  <2>5. r.tpm.pcrs = TpmStatement(b.challenge, b.pcrs).pcrs
    BY <2>3, <2>4 DEF HasHardwareEvidence, VerifyQuote, PcrDigestMatches
  <2>6. r.tpm.pcrs = Measured(image["node"])
    BY <2>5 DEF TpmStatement, Given
  <2>7. VerifyAgainst(Measured(image["node"]), Measured("pinned"))
    BY <1>2, <1>5, <2>6, PinnedFields DEF MeasurementsMatch
  <2> QED
    BY <2>7, MeasuredApart
<1> QED
  BY <1>4, <1>5, DeployedKinds DEF Hardware

\* Ages grow together and saturate at the interval.
LEMMA OlderTogether ==
  ASSUME NEW a \in 0 .. Interval, NEW g \in 0 .. Interval
  PROVE  /\ Older(a, Interval) \in 0 .. Interval
         /\ g <= a => Older(g, Interval) <= Older(a, Interval)
BY Positive DEF Older

\* The start, the stop, a remeasurement, a verification, time and the sweep
\* keep the gate's invariant; nothing else touches what it is about.
LEMMA GateNext ==
  ASSUME GateInv, [Next]_vars
  PROVE  GateInv'
<1> USE DEF GateInv
<1>0. Hardware' = Hardware /\ conf' = conf
  BY DEF Next, vars, Start, Stop, Remeasure, Ask, Open, VerifyForClient,
         Deliver, AnsweredElsewhere, AnsweredInSoftware,
         Answer, QuoteFails, Tick, ExpireStale,
         Hardware
<1>1. ASSUME UNCHANGED <<image, node, records, goodAge>>
      PROVE  GateInv'
  BY <1>0, <1>1
<1>2. CASE Start
  <2>1. PICK readable :
          node' = [node EXCEPT !["node"] = Running("node", readable)]
    BY <1>2 DEF Start
  <2>2. conf.src # "nitro" /\ UNCHANGED <<image, records, goodAge>>
    BY <1>2 DEF Start
  <2>3. DOMAIN node' = Machines
    BY <2>1
  <2> QED
    BY <1>0, <2>2, <2>3
<1>3. CASE Stop
  <2>1. node' = [node EXCEPT !["node"] = Down]
    BY <1>3 DEF Stop
  <2>2. DOMAIN node' = Machines /\ ~node'["node"].up
    BY <2>1 DEF Machines, Down
  <2>3. /\ records' \in [Clients -> SUBSET (0 .. Interval)]
        /\ \A c \in Clients : records'[c] = {}
    BY <1>3 DEF Stop
  <2>4. UNCHANGED <<image, goodAge>>
    BY <1>3 DEF Stop
  <2> QED
    BY <1>0, <2>2, <2>3, <2>4
<1>4. CASE Remeasure
  <2>1. PICK img \in Images \ {image["node"]} :
          /\ image' = [image EXCEPT !["node"] = img]
          /\ goodAge' = IF img = "pinned" THEN 0 ELSE goodAge
    BY <1>4 DEF Remeasure
  <2>2. UNCHANGED <<node, records>>
    BY <1>4 DEF Remeasure
  <2>3. image' \in [Machines -> Images] /\ image'["node"] = img
    BY <2>1 DEF Machines
  <2>4. /\ goodAge' \in 0 .. Interval /\ goodAge' <= goodAge
        /\ image'["node"] = "pinned" => goodAge' = 0
    BY <2>1, <2>3, Positive
  <2>5. ASSUME Hardware, NEW c \in Clients, NEW a \in records[c]
        PROVE  goodAge' <= a
    <3>1. a \in 0 .. Interval /\ goodAge <= a
      BY <2>5
    <3> QED
      BY <2>4, <3>1, Positive
  <2> QED
    BY <1>0, <2>2, <2>3, <2>4, <2>5
<1>5. ASSUME NEW c \in Clients, VerifyForClient(c)
      PROVE  GateInv'
  <2>1. /\ records' = [records EXCEPT ![c] = {0}]
        /\ UNCHANGED <<image, node, goodAge>> /\ node["node"].up
    BY <1>5 DEF VerifyForClient
  <2>2. records' \in [Clients -> SUBSET (0 .. Interval)]
    BY <2>1, Positive
  <2>3. Hardware => image["node"] = "pinned"
    <3>1. PICK extras \in BOOLEAN :
            Established([dev |-> "node", nonce |-> asked[c],
                         key |-> node["node"].key], Given(c), extras)
      BY <1>5 DEF VerifyForClient
    <3> DEFINE e == [dev |-> "node", nonce |-> asked[c],
                     key |-> node["node"].key]
    <3>2. e.dev = "node" /\ Established(e, Given(c), extras)
      BY <3>1
    <3> HIDE DEF e
    <3> QED
      BY <2>1, <3>2, EstablishedIsPinned
  <2>4. ASSUME Hardware, NEW q \in Clients, NEW a \in records'[q]
        PROVE  goodAge <= a
    <3>1. goodAge = 0
      BY <2>3, <2>4
    <3>2. a \in 0 .. Interval
      BY <2>2
    <3> QED
      BY <3>1, <3>2
  <2> QED
    BY <1>0, <2>1, <2>2, <2>4
<1>6. CASE Tick
  <2>1. /\ records' = [c \in Clients |->
                         {Older(a, Interval) : a \in records[c]}]
        /\ goodAge' = IF image["node"] = "pinned" THEN 0
                      ELSE Older(goodAge, Interval)
        /\ UNCHANGED <<image, node>>
    BY <1>6 DEF Tick
  <2>2. records' \in [Clients -> SUBSET (0 .. Interval)]
    BY <2>1, OlderTogether
  <2>3. goodAge' \in 0 .. Interval
    BY <2>1, OlderTogether, Positive
  <2>4. ASSUME Hardware, NEW c \in Clients, NEW a \in records'[c]
        PROVE  goodAge' <= a
    <3>1. PICK x \in records[c] : a = Older(x, Interval)
      BY <2>1
    <3>2. x \in 0 .. Interval /\ goodAge <= x
      BY <2>4
    <3>3. Older(goodAge, Interval) <= a /\ a \in 0 .. Interval
      BY <3>1, <3>2, OlderTogether
    <3> QED
      BY <2>1, <3>3
  <2> QED
    BY <1>0, <2>1, <2>2, <2>3, <2>4
<1>7. CASE ExpireStale
  <2>1. /\ records' \in [Clients -> SUBSET (0 .. Interval)]
        /\ \A c \in Clients : records'[c] \subseteq records[c]
    BY <1>7 DEF ExpireStale
  <2>2. UNCHANGED <<image, node, goodAge>>
    BY <1>7 DEF ExpireStale
  <2> QED
    BY <1>0, <2>1, <2>2
<1>8. ASSUME NEW c \in Clients,
             Ask(c) \/ Open(c) \/ Deliver(c) \/ AnsweredInSoftware(c)
      PROVE  GateInv'
  BY <1>1, <1>8 DEF Ask, Open, Deliver, AnsweredInSoftware
<1>9. ASSUME NEW c \in Clients, NEW d \in Machines, AnsweredElsewhere(d, c)
      PROVE  GateInv'
  BY <1>1, <1>9 DEF AnsweredElsewhere
<1>10. ASSUME NEW e \in entries, Answer(e) \/ QuoteFails(e)
       PROVE  GateInv'
  BY <1>1, <1>10 DEF Answer, QuoteFails
<1>11. CASE UNCHANGED vars
  BY <1>1, <1>11 DEF vars
<1> QED
  BY <1>2, <1>3, <1>4, <1>5, <1>6, <1>7, <1>8, <1>9, <1>10, <1>11 DEF Next

\* A node starts down, unverified, on a machine that measures as pinned.
LEMMA GateStarts == Init => GateInv
<1> SUFFICES ASSUME Init
             PROVE  GateInv
  OBVIOUS
<1>1. DOMAIN node = Machines /\ ~node["node"].up
  BY DEF Init, Machines, Down
<1>2. /\ conf \in Deployments /\ image \in [Machines -> Images]
      /\ records \in [Clients -> SUBSET (0 .. Interval)]
      /\ \A c \in Clients : records[c] = {}
      /\ goodAge = 0
  BY DEF Init
<1> QED
  BY <1>1, <1>2, Positive DEF GateInv

\* is_verified_by: a client passes the gate of a hardware node only if that
\* node's machine measured as pinned less than one interval ago, whatever was
\* restarted, remeasured or swept since.
THEOREM GateStaysRecent == Spec => []GateIsRecent
<1>1. GateInv => GateIsRecent
  BY Positive DEF GateInv, GateIsRecent, IsVerifiedBy
<1> QED
  BY <1>1, GateStarts, GateNext, PTL DEF Spec

-----------------------------------------------------------------------------
(* Certificate chains *)

\* A chain of one intermediate holds when its two links do.
LEMMA ChainOfThree ==
  ASSUME NEW leaf, NEW ca, NEW root
  PROVE  VerifyChainToRoot(leaf, <<ca>>, root) <=>
           VerifySignedBy(leaf, ca) /\ VerifySignedBy(ca, root)
<1> DEFINE S == {leaf, ca, root}
           two == <<leaf>> \o <<ca>>
           path == two \o <<root>>
<1>1. /\ two \in Seq(S) /\ Len(two) = 2
      /\ two[1] = leaf /\ two[2] = ca
  <2>1. <<leaf>> \in Seq(S) /\ <<ca>> \in Seq(S)
    OBVIOUS
  <2> QED
    BY <2>1
<1> HIDE DEF two
<1>2. /\ Len(path) = 3
      /\ path[1] = leaf /\ path[2] = ca /\ path[3] = root
  <2>1. <<root>> \in Seq(S) /\ Len(<<root>>) = 1 /\ <<root>>[1] = root
    OBVIOUS
  <2>2. 1 \in 1 .. 3 /\ 2 \in 1 .. 3 /\ 3 \in 1 .. 3 /\ 3 - 2 = 1 /\ 2 + 1 = 3
    OBVIOUS
  <2> DEFINE last == <<root>>
  <2>3. last \in Seq(S) /\ Len(last) = 1 /\ last[1] = root
    BY <2>1
  <2> HIDE DEF S, last
  <2>4. /\ Len(two \o last) = Len(two) + Len(last)
        /\ \A i \in 1 .. Len(two) + Len(last) :
             (two \o last)[i] = IF i <= Len(two) THEN two[i]
                                ELSE last[i - Len(two)]
    BY <1>1, <2>3, ConcatProperties, Zenon
  <2>5. /\ Len(two \o last) = 3
        /\ (two \o last)[1] = leaf /\ (two \o last)[2] = ca
        /\ (two \o last)[3] = root
    BY <1>1, <2>2, <2>3, <2>4
  <2> QED
    BY <2>5 DEF last
<1> HIDE DEF path
<1>3. 1 .. (Len(path) - 1) = {1, 2}
  BY <1>2
<1>4. 1 + 1 = 2 /\ 2 + 1 = 3
  OBVIOUS
<1>5. (\A i \in 1 .. (Len(path) - 1) : VerifySignedBy(path[i], path[i + 1]))
        <=> VerifySignedBy(path[1], path[2]) /\ VerifySignedBy(path[2], path[3])
  BY <1>3, <1>4
<1> QED
  BY <1>2, <1>5 DEF VerifyChainToRoot, path, two

\* A platform's chain ends at the pinned root exactly when a vendor made the
\* platform.
LEMMA ChainIsVendors ==
  ASSUME NEW d
  PROVE  VerifyChainToRoot(Leaf(d), <<Ca(Vendor(d))>>, Root("vendor")) <=>
           Class(d) # "unchained"
<1>1. VerifySignedBy(Leaf(d), Ca(Vendor(d)))
  BY DEF VerifySignedBy, Leaf, Ca, Cert
<1>2. VerifySignedBy(Ca(Vendor(d)), Root("vendor")) <=>
        <<Vendor(d), "root">> = <<"vendor", "root">>
  BY DEF VerifySignedBy, Ca, Root, Cert
<1>3. <<Vendor(d), "root">> = <<"vendor", "root">> <=> Vendor(d) = "vendor"
  OBVIOUS
<1>4. Vendor(d) = "vendor" <=> Class(d) # "unchained"
  BY DEF Vendor
<1> QED
  BY <1>1, <1>2, <1>3, <1>4, ChainOfThree

\* The bundle of a document is its chain, root first, without the root.
LEMMA BundleOfTwo ==
  ASSUME NEW body, NEW root, NEW ca, body.cabundle = <<root, ca>>
  PROVE  Intermediates(body) = <<ca>>
<1>1. Len(body.cabundle) = 2 /\ body.cabundle[2] = ca
  OBVIOUS
<1>2. Intermediates(body) = [i \in 1 .. 1 |-> body.cabundle[3 - i]]
  BY <1>1 DEF Intermediates
<1>3. 1 .. 1 = {1} /\ 3 - 1 = 2
  OBVIOUS
<1>4. /\ Intermediates(body)[1] = ca /\ DOMAIN Intermediates(body) = 1 .. 1
      /\ Intermediates(body) = [i \in 1 .. 1 |-> Intermediates(body)[i]]
  BY <1>1, <1>2, <1>3
<1> QED
  BY <1>4

-----------------------------------------------------------------------------
(* Reports as their machines made them *)

\* The parts of a report by machine d with image img, for a challenge.
MadeTpm(d, challenge, img, claimed, nonce, extras) ==
  LET msg == TpmStatement(challenge, Measured(img))
  IN  [pcrs |-> claimed, nonce |-> nonce,
       msg |-> IF conf.src = "tpm" THEN {msg} ELSE {},
       sig |-> IF conf.src = "tpm" THEN {[by |-> <<d, "ak">>, over |-> msg]}
               ELSE {},
       aik |-> IF conf.src = "tpm" /\ extras THEN {<<d, "ak">>} ELSE {}]

SnpBody(d, challenge, img) ==
  [form |-> "report", data |-> Padded(challenge), meas |-> img,
   tcb |-> IF Class(d) = "oldTcb" THEN 0 ELSE 1,
   vmpl |-> 0, debug |-> Class(d) = "debuggable"]

NitroBody(d, challenge, img) ==
  [pcrs |-> Measured(img), cert |-> Leaf(d), nonce |-> {challenge},
   cabundle |-> <<Root(Vendor(d)), Ca(Vendor(d))>>]

SnpEvidence(d, challenge, img, cached) ==
  [kind |-> "sev",
   report |-> [body |-> SnpBody(d, challenge, img),
               sig |-> [by |-> <<d, "leaf">>,
                        over |-> SnpBody(d, challenge, img)]],
   vcek |-> IF cached THEN {Leaf(d)} ELSE {},
   chain |-> IF cached THEN <<Ca(Vendor(d))>> ELSE <<>>]

NitroEvidence(d, challenge, img) ==
  [kind |-> "nitro",
   doc |-> [alg |-> "ES384", body |-> NitroBody(d, challenge, img),
            sig |-> [by |-> <<d, "leaf">>,
                     over |-> <<"ES384", NitroBody(d, challenge, img)>>]]]

MadeEvidence(d, challenge, img, cached) ==
  IF conf.src = "sev" THEN SnpEvidence(d, challenge, img, cached)
  ELSE IF conf.src = "nitro" THEN NitroEvidence(d, challenge, img)
  ELSE NoEvidence

Made(d, key, nonce, img, claimed, extras) ==
  MkReport(MadeTpm(d, Challenge(key, nonce), img, claimed, nonce, extras),
           TeePart(d, key, IF conf.src = "sev" THEN img ELSE "enclave"),
           MadeEvidence(d, Challenge(key, nonce), img, extras))

\* generate_attestation makes such a report, of the registers the platform was
\* given and, for a confidential VM, of the image it runs.
LEMMA ReportIsMade ==
  ASSUME NEW e, NEW b, NEW extras \in BOOLEAN, NEW img,
         b.challenge = Challenge(e.key, e.nonce),
         conf.src = "tpm" => b.pcrs = Measured(img),
         conf.src # "tpm" => image[e.dev] = img
  PROVE  Report(e, b, extras) =
           Made(e.dev, e.key, e.nonce, img, node[e.dev].pcrs, extras)
<1>1. TpmPart(e.dev, b, e.nonce, extras) =
        MadeTpm(e.dev, b.challenge, img, node[e.dev].pcrs, e.nonce, extras)
  BY DEF TpmPart, MadeTpm
<1>2. EvidencePart(e.dev, b, extras) =
        MadeEvidence(e.dev, b.challenge, img, extras)
  BY DEF EvidencePart, MadeEvidence, SnpReport, NitroDocument, SnpEvidence,
         NitroEvidence, SnpBody, NitroBody
<1>3. Measurement(e.dev) = IF conf.src = "sev" THEN img ELSE "enclave"
  BY DEF Measurement
<1> QED
  BY <1>1, <1>2, <1>3 DEF Report, Made

-----------------------------------------------------------------------------
(* What the verifier establishes *)

SevPin == [root |-> Root("vendor"), tcb |-> 1, vmpl |-> 0, refuseDebug |-> TRUE]

NitroPin == [root |-> {Root("vendor")}, pcrs |-> Measured("pinned"),
             maxAge |-> MaxAge]

\* first_failure for SEV-SNP: evidence verifies exactly when it was made for
\* the challenge by a genuine machine that measured as pinned and came with
\* its certificates.
LEMMA SnpMeans ==
  ASSUME conf \in Deployments, NEW d \in Machines, NEW ch, NEW img,
         NEW cached \in BOOLEAN, NEW challenge
  PROVE  SnpVerifies(SnpEvidence(d, ch, img, cached), SevPin, {"pinned"},
                     challenge) <=>
           cached /\ ch = challenge /\ img = "pinned" /\ Class(d) = "genuine"
<1> DEFINE ev == SnpEvidence(d, ch, img, cached)
           body == SnpBody(d, ch, img)
<1>1. /\ ev.report.body = body
      /\ ev.report.sig = [by |-> <<d, "leaf">>, over |-> body]
      /\ ev.vcek = IF cached THEN {Leaf(d)} ELSE {}
      /\ ev.chain = IF cached THEN <<Ca(Vendor(d))>> ELSE <<>>
  BY DEF SnpEvidence
<1>2. /\ body.form = "report" /\ body.data = Padded(ch) /\ body.meas = img
      /\ body.vmpl = 0
  BY DEF SnpBody
<1>3. body.tcb >= 1 <=> Class(d) # "oldTcb"
  BY DEF SnpBody
<1>4. body.debug <=> Class(d) = "debuggable"
  BY DEF SnpBody
<1> HIDE DEF ev, body
<1>5. Padded(ch) = Padded(challenge) <=> ch = challenge
  BY DEF Padded
<1>6. Leaf(d).key = <<d, "leaf">>
  BY DEF Leaf, Cert
<1>7. /\ SevPin.root = Root("vendor") /\ SevPin.tcb = 1 /\ SevPin.vmpl = 0
      /\ SevPin.refuseDebug
  BY DEF SevPin
<1>8. Class(d) \in {"genuine", "unchained", "oldTcb", "debuggable"}
  BY DeployedKinds DEF Class
<1>9. SignatureHolds(ev.report.sig, <<d, "leaf">>, body)
  BY <1>1 DEF SignatureHolds
<1>10. {"pinned"} = {img} <=> img = "pinned"
  OBVIOUS
<1>11. PolicyAcceptable(body, SevPin) <=> Class(d) # "debuggable"
  BY <1>2, <1>4, <1>7 DEF PolicyAcceptable
<1>12. IsAtLeast(body.tcb, SevPin.tcb) <=> Class(d) # "oldTcb"
  BY <1>3, <1>7 DEF IsAtLeast
<1>13. CASE cached
  <2>1. /\ ev.vcek = {Leaf(d)} /\ ev.chain = <<Ca(Vendor(d))>>
    BY <1>1, <1>13
  <2>2. (\A vcek \in ev.vcek :
           /\ VerifyChainToRoot(vcek, ev.chain, SevPin.root)
           /\ SignatureHolds(ev.report.sig, vcek.key, ev.report.body))
          <=> Class(d) # "unchained"
    BY <1>1, <1>6, <1>7, <1>9, <2>1, ChainIsVendors
  <2>3. SnpVerifies(ev, SevPin, {"pinned"}, challenge) <=>
          /\ Class(d) # "unchained" /\ ch = challenge /\ img = "pinned"
          /\ Class(d) # "oldTcb" /\ Class(d) # "debuggable"
    BY <1>1, <1>2, <1>5, <1>10, <1>11, <1>12, <2>1, <2>2
       DEF SnpVerifies, SnpParses
  <2> QED
    BY <1>8, <1>13, <2>3 DEF ev
<1>14. CASE ~cached
  BY <1>1, <1>14 DEF SnpVerifies, ev
<1> QED
  BY <1>13, <1>14

\* The registers of an image against the pinned ones.
LEMMA MeasuredAgainst ==
  ASSUME NEW img, NEW want
  PROVE  VerifyAgainst(Measured(img), Measured(want)) <=> img = want
<1>1. VerifyAgainst(Measured(img), Measured(img))
  BY DEF VerifyAgainst
<1> QED
  BY <1>1, MeasuredApart

\* first_failure for Nitro: a document verifies exactly when it was made for
\* the challenge by a genuine enclave that measured as pinned, and is recent.
LEMMA NitroMeans ==
  ASSUME conf \in Deployments, conf.src = "nitro", NEW d \in Machines, NEW ch,
         NEW img, NEW challenge, NEW age \in Nat
  PROVE  NitroVerifies(NitroEvidence(d, ch, img).doc, NitroPin, challenge, age)
           <=> /\ ch = challenge /\ img = "pinned" /\ Class(d) = "genuine"
               /\ age <= MaxAge
<1> DEFINE doc == NitroEvidence(d, ch, img).doc
           body == NitroBody(d, ch, img)
           v == Vendor(d)
<1>1. /\ doc.alg = "ES384" /\ doc.body = body
      /\ doc.sig = [by |-> <<d, "leaf">>, over |-> <<"ES384", body>>]
  BY DEF NitroEvidence
<1>2. /\ body.pcrs = Measured(img) /\ body.cert = Leaf(d)
      /\ body.nonce = {ch} /\ body.cabundle = <<Root(v), Ca(v)>>
  BY DEF NitroBody
<1> HIDE DEF doc, body
<1>3. CoseParses(doc) /\ DocParses(body)
  <2>1. 11 \in DOMAIN Measured(img)
    BY DEF Measured, Registers
  <2>2. <<Root(v), Ca(v)>> # <<>>
    OBVIOUS
  <2> QED
    BY <1>1, <1>2, <2>1, <2>2 DEF CoseParses, DocParses
<1>4. /\ Leaf(d).key = <<d, "leaf">> /\ Leaf(d).life = MaxAge
      /\ Root(v).life = MaxAge + 1 /\ Ca(v).life = MaxAge + 1
  BY DEF Leaf, Root, Ca, Cert
<1>5. SignatureHolds(doc.sig, body.cert.key, <<doc.alg, doc.body>>)
  BY <1>1, <1>2, <1>4 DEF SignatureHolds
<1>6. /\ NitroPin.root = {Root("vendor")} /\ NitroPin.pcrs = Measured("pinned")
      /\ NitroPin.maxAge = MaxAge
  BY DEF NitroPin
<1>7. (\A root \in NitroPin.root :
         VerifyChainToRoot(body.cert, Intermediates(body), root)) <=>
        Class(d) # "unchained"
  BY <1>2, <1>6, BundleOfTwo, ChainIsVendors
<1>8. IsCurrentlyValid(body.cert, age) <=> age <= MaxAge
  BY <1>2, <1>4 DEF IsCurrentlyValid
<1>9. age <= MaxAge => \A i \in DOMAIN body.cabundle :
                         IsCurrentlyValid(body.cabundle[i], age)
  <2>1. age <= MaxAge => age <= MaxAge + 1
    BY Positive
  <2>2. /\ DOMAIN body.cabundle = {1, 2}
        /\ body.cabundle[1] = Root(v) /\ body.cabundle[2] = Ca(v)
    BY <1>2
  <2> QED
    BY <1>4, <2>1, <2>2 DEF IsCurrentlyValid
<1>10. {ch} = {challenge} <=> ch = challenge
  OBVIOUS
<1>11. DOMAIN NitroPin.pcrs # {} /\ NitroPin.root # {} /\ MaxAge # 0
  BY <1>6, Positive DEF Measured, Registers
<1>12. VerifyAgainst(body.pcrs, NitroPin.pcrs) <=> img = "pinned"
  BY <1>2, <1>6, MeasuredAgainst
<1>13. Class(d) \in {"genuine", "unchained"}
  BY DeployedKinds DEF Class
<1>14. NitroVerifies(doc, NitroPin, challenge, age) <=>
         /\ Class(d) # "unchained" /\ ch = challenge /\ img = "pinned"
         /\ age <= MaxAge
  BY <1>1, <1>2, <1>3, <1>5, <1>6, <1>7, <1>8, <1>9, <1>10, <1>11, <1>12
     DEF NitroVerifies
<1> QED
  BY <1>13, <1>14 DEF doc

\* Where a report on the wire comes from: machine d made it with key for the
\* nonce, when its image was img, and its platform signed for it.
SignedBy(d, key, nonce, img) ==
  [dev |-> d, challenge |-> Challenge(key, nonce), says |-> img]

Origin(w, d, key, img, extras) ==
  /\ w.r = Made(d, key, w.nonce, img, w.r.tpm.pcrs, extras)
  /\ Hardware => SignedBy(d, key, w.nonce, img) \in signed
  /\ w.clean => /\ extras /\ Class(d) = "genuine" /\ img = "pinned"
                /\ conf.src = "tpm" => w.r.tpm.pcrs = Measured("pinned")
  /\ conf.src = "soft" => w.r.tpm.pcrs = Measured("config")

OnWire(w) ==
  /\ w = [r |-> w.r, age |-> w.age, nonce |-> w.nonce, clean |-> w.clean]
  /\ w.age \in Nat
  /\ \E d \in Machines, key \in {"n1", "o1"}, img \in Images,
        extras \in BOOLEAN : Origin(w, d, key, img, extras)

\* The parts of a report as it was made.
LEMMA MadeParts ==
  ASSUME NEW d, NEW key, NEW nonce, NEW img, NEW claimed,
         NEW extras \in BOOLEAN
  PROVE  LET r == Made(d, key, nonce, img, claimed, extras)
         IN  /\ r.tpm = MadeTpm(d, Challenge(key, nonce), img, claimed, nonce,
                                extras)
             /\ r.tee = TeePart(d, key, IF conf.src = "sev" THEN img
                                        ELSE "enclave")
             /\ r.ev = MadeEvidence(d, Challenge(key, nonce), img, extras)
             /\ r.hash = CombinedHash(r.tpm, r.tee, r.ev)
             /\ r = [tpm |-> r.tpm, tee |-> r.tee, ev |-> r.ev,
                     hash |-> r.hash]
BY DEF Made, MkReport

\* What the transport can do: what was quoted is one report's, or missing,
\* whoever signs for it, and the evidence is one report's, or missing.
LEMMA RearrangedParts ==
  ASSUME NEW r1, NEW r2, NEW nonce,
         r1 = [tpm |-> r1.tpm, tee |-> r1.tee, ev |-> r1.ev, hash |-> r1.hash],
         r1.tpm = [pcrs |-> r1.tpm.pcrs, nonce |-> r1.tpm.nonce,
                   msg |-> r1.tpm.msg, sig |-> r1.tpm.sig, aik |-> r1.tpm.aik],
         NEW r \in Rearranged(r1, r2, nonce)
  PROVE  /\ r.tpm.msg \in {r1.tpm.msg, r2.tpm.msg, {}}
         /\ r.ev \in {r1.ev, r2.ev, NoEvidence}
<1> DEFINE now == [r1.tpm EXCEPT !.nonce = nonce]
           tpms == {r1.tpm, now, [now EXCEPT !.pcrs = r2.tpm.pcrs],
                    [now EXCEPT !.msg = {}], [now EXCEPT !.aik = r2.tpm.aik],
                    SignedAnew(now),
                    [now EXCEPT !.msg = r2.tpm.msg, !.sig = r2.tpm.sig,
                                !.aik = r2.tpm.aik]}
           tees == {r1.tee, r2.tee,
                    [r1.tee EXCEPT !.mrenclave = r2.tee.mrenclave]}
           evs == {r1.ev, r2.ev, NoEvidence}
<1>0. SignedAnew(now).msg = r1.tpm.msg
  BY DEF SignedAnew
<1>1. \A t \in tpms : t.msg \in {r1.tpm.msg, r2.tpm.msg, {}}
  BY <1>0
<1>2. \/ \E t \in tpms, e \in tees, v \in evs : r = MkReport(t, e, v)
      \/ r = [r1 EXCEPT !.tee = r2.tee]
  BY DEF Rearranged
<1> HIDE DEF tees, now
<1>3. ASSUME NEW t \in tpms, NEW e \in tees, NEW v \in evs,
             r = MkReport(t, e, v)
      PROVE  r.tpm \in tpms /\ r.ev \in evs
  BY <1>3 DEF MkReport
<1>4. ASSUME r = [r1 EXCEPT !.tee = r2.tee]
      PROVE  r.tpm = r1.tpm /\ r.ev = r1.ev
  BY <1>4
<1>5. r.tpm \in tpms /\ r.ev \in evs
  BY <1>2, <1>3, <1>4
<1> QED
  BY <1>1, <1>5

\* verify_quote: a quote that verifies against the pins was made for the
\* challenge by a machine whose registers read as pinned.
LEMMA TpmMeans ==
  ASSUME conf \in Deployments, NEW tpm, NEW challenge, NEW ch, NEW img,
         tpm.msg \in {IF conf.src = "tpm"
                      THEN {TpmStatement(ch, Measured(img))} ELSE {}, {}},
         HasHardwareEvidence(tpm), VerifyQuote(tpm, challenge),
         VerifyAgainst(tpm.pcrs, Pins.pcrs)
  PROVE  conf.src = "tpm" /\ ch = challenge /\ img = "pinned"
<1>1. conf.src = "tpm" /\ tpm.msg = {TpmStatement(ch, Measured(img))}
  BY DEF HasHardwareEvidence
<1>2. PICK sig \in tpm.sig, ak \in tpm.aik : TRUE
  BY DEF HasHardwareEvidence
<1>3. /\ NonceMatches(TpmStatement(ch, Measured(img)), challenge)
      /\ PcrDigestMatches(tpm.pcrs, TpmStatement(ch, Measured(img)))
  BY <1>1, <1>2 DEF VerifyQuote
<1>4. ch = challenge /\ tpm.pcrs = Measured(img)
  BY <1>3 DEF NonceMatches, PcrDigestMatches, TpmStatement
<1>5. VerifyAgainst(Measured(img), Measured("pinned"))
  BY <1>1, <1>4, PinnedFields
<1> QED
  BY <1>1, <1>4, <1>5, MeasuredApart

\* The quote of a report as it was made.
LEMMA MadeTpmParts ==
  ASSUME NEW d, NEW challenge, NEW img, NEW claimed, NEW nonce,
         NEW extras \in BOOLEAN
  PROVE  LET t == MadeTpm(d, challenge, img, claimed, nonce, extras)
             msg == TpmStatement(challenge, Measured(img))
         IN  /\ t = [pcrs |-> t.pcrs, nonce |-> t.nonce, msg |-> t.msg,
                     sig |-> t.sig, aik |-> t.aik]
             /\ t.pcrs = claimed /\ t.nonce = nonce
             /\ t.msg = IF conf.src = "tpm" THEN {msg} ELSE {}
             /\ t.sig = IF conf.src = "tpm"
                        THEN {[by |-> <<d, "ak">>, over |-> msg]} ELSE {}
             /\ t.aik = IF conf.src = "tpm" /\ extras THEN {<<d, "ak">>}
                        ELSE {}
BY DEF MadeTpm

\* verify_platform_quote: what a verified quote rests on, by kind of evidence.
LEMMA QuoteRests ==
  ASSUME NEW r, NEW pins, NEW nonce, NEW age,
         PlatformQuote(r, pins, nonce, age).quote = "verified"
  PROVE  LET challenge == Challenge(r.tee.key, nonce)
         IN  /\ r.ev.kind = "sev" => SevSnpEvidenceHolds(r, pins, challenge)
             /\ r.ev.kind = "nitro" =>
                  NitroEvidenceHolds(r, pins, challenge, age)
             /\ r.ev.kind \notin {"sev", "nitro"} =>
                  /\ HasHardwareEvidence(r.tpm)
                  /\ VerifyQuote(r.tpm, challenge)
                  /\ ~PlatformQuote(r, pins, nonce, age).trusted
<1> DEFINE challenge == Challenge(r.tee.key, nonce)
           res == PlatformQuote(r, pins, nonce, age)
<1>1. Refused.quote = "absent" /\ [Refused EXCEPT !.ok = TRUE].quote = "absent"
  BY DEF Refused
<1>2. CASE r.ev.kind = "sev"
  <2>1. res = IF SevSnpEvidenceHolds(r, pins, challenge)
              THEN Verified(r, TRUE) ELSE Refused
    BY <1>2 DEF PlatformQuote
  <2> QED
    BY <1>1, <1>2, <2>1
<1>3. CASE r.ev.kind = "nitro"
  <2>1. res = IF NitroEvidenceHolds(r, pins, challenge, age)
              THEN Verified(r, TRUE) ELSE Refused
    BY <1>3 DEF PlatformQuote
  <2> QED
    BY <1>1, <1>3, <2>1
<1>4. CASE r.ev.kind \notin {"sev", "nitro"}
  <2>1. res = IF ~HasHardwareEvidence(r.tpm) THEN [Refused EXCEPT !.ok = TRUE]
              ELSE IF VerifyQuote(r.tpm, challenge) THEN Verified(r, FALSE)
              ELSE Refused
    BY <1>4 DEF PlatformQuote, VerifyTpmQuote
  <2>2. /\ HasHardwareEvidence(r.tpm) /\ VerifyQuote(r.tpm, challenge)
    BY <1>1, <2>1
  <2>3. res = Verified(r, FALSE)
    BY <2>1, <2>2
  <2>4. ~Verified(r, FALSE).trusted
    BY DEF Verified
  <2> QED
    BY <1>4, <2>2, <2>3, <2>4
<1> QED
  BY <1>2, <1>3, <1>4

\* AttestationReport::verify, from its answer back to the platform: whatever
\* the transport made of two reports, an answer "hardware rooted" rests on a
\* statement some platform signed.
LEMMA AcceptedReport ==
  ASSUME conf \in Deployments, NEW w1, NEW w2, OnWire(w1), OnWire(w2),
         NEW nonce, NEW r \in Rearranged(w1.r, w2.r, nonce), NEW age \in Nat,
         Verify(r, Expected, nonce, age).ok,
         IsHardwareRooted(Verify(r, Expected, nonce, age))
  PROVE  \E s \in signed :
           /\ s.challenge = Challenge(r.tee.key, nonce) /\ s.says = "pinned"
           /\ Verify(r, Expected, nonce, age).trusted =>
                Class(s.dev) = "genuine"
<1> DEFINE challenge == Challenge(r.tee.key, nonce)
           res == Verify(r, Expected, nonce, age)
<1>1. PICK d1 \in Machines, k1 \in {"n1", "o1"}, i1 \in Images,
           x1 \in BOOLEAN : Origin(w1, d1, k1, i1, x1)
  BY DEF OnWire
<1>2. PICK d2 \in Machines, k2 \in {"n1", "o1"}, i2 \in Images,
           x2 \in BOOLEAN : Origin(w2, d2, k2, i2, x2)
  BY DEF OnWire
<1>3. /\ w1.r.tpm = MadeTpm(d1, Challenge(k1, w1.nonce), i1, w1.r.tpm.pcrs,
                            w1.nonce, x1)
      /\ w2.r.tpm = MadeTpm(d2, Challenge(k2, w2.nonce), i2, w2.r.tpm.pcrs,
                            w2.nonce, x2)
      /\ w1.r.ev = MadeEvidence(d1, Challenge(k1, w1.nonce), i1, x1)
      /\ w2.r.ev = MadeEvidence(d2, Challenge(k2, w2.nonce), i2, x2)
      /\ w1.r = [tpm |-> w1.r.tpm, tee |-> w1.r.tee, ev |-> w1.r.ev,
                 hash |-> w1.r.hash]
  BY <1>1, <1>2, MadeParts DEF Origin
<1>4. ASSUME NEW t, NEW d, NEW ch, NEW img, NEW claimed, NEW n,
             NEW x \in BOOLEAN, t = MadeTpm(d, ch, img, claimed, n, x)
      PROVE  /\ t.msg = IF conf.src = "tpm"
                        THEN {TpmStatement(ch, Measured(img))} ELSE {}
             /\ t = [pcrs |-> t.pcrs, nonce |-> t.nonce, msg |-> t.msg,
                     sig |-> t.sig, aik |-> t.aik]
  BY <1>4 DEF MadeTpm
<1>41. /\ w1.r.tpm.msg = IF conf.src = "tpm"
                         THEN {TpmStatement(Challenge(k1, w1.nonce),
                                            Measured(i1))} ELSE {}
       /\ w1.r.tpm = [pcrs |-> w1.r.tpm.pcrs, nonce |-> w1.r.tpm.nonce,
                      msg |-> w1.r.tpm.msg, sig |-> w1.r.tpm.sig,
                      aik |-> w1.r.tpm.aik]
  <2> DEFINE t == w1.r.tpm
             ch == Challenge(k1, w1.nonce)
             c == w1.r.tpm.pcrs
             n == w1.nonce
  <2>1. t = MadeTpm(d1, ch, i1, c, n, x1)
    BY <1>3
  <2> HIDE DEF t, ch, c, n
  <2>2. /\ t.msg = IF conf.src = "tpm" THEN {TpmStatement(ch, Measured(i1))}
                   ELSE {}
        /\ t = [pcrs |-> t.pcrs, nonce |-> t.nonce, msg |-> t.msg,
                sig |-> t.sig, aik |-> t.aik]
    BY <1>4, <2>1
  <2> QED
    BY <2>2 DEF t, ch
<1>42. w2.r.tpm.msg = IF conf.src = "tpm"
                      THEN {TpmStatement(Challenge(k2, w2.nonce),
                                         Measured(i2))} ELSE {}
  <2> DEFINE t == w2.r.tpm
             ch == Challenge(k2, w2.nonce)
             c == w2.r.tpm.pcrs
             n == w2.nonce
  <2>1. t = MadeTpm(d2, ch, i2, c, n, x2)
    BY <1>3
  <2> HIDE DEF t, ch, c, n
  <2>2. t.msg = IF conf.src = "tpm" THEN {TpmStatement(ch, Measured(i2))}
                ELSE {}
    BY <1>4, <2>1
  <2> QED
    BY <2>2 DEF t, ch
<1>5. /\ r.tpm.msg \in {w1.r.tpm.msg, w2.r.tpm.msg, {}}
      /\ r.ev \in {w1.r.ev, w2.r.ev, NoEvidence}
  BY <1>3, <1>41, RearrangedParts
<1>6. /\ MeasurementsMatch(r, Expected)
      /\ res = PlatformQuote(r, Expected, nonce, age)
      /\ res.quote = "verified"
  BY DEF Verify, Refused, IsHardwareRooted
<1>7. NoEvidence.kind = "none"
  BY DEF NoEvidence
<1>8. ASSUME NEW d \in Machines, NEW key, NEW n, NEW img, img = "pinned",
             SignedBy(d, key, n, img) \in signed,
             Challenge(key, n) = challenge,
             res.trusted => Class(d) = "genuine"
      PROVE  \E s \in signed : /\ s.challenge = challenge /\ s.says = "pinned"
                               /\ res.trusted => Class(s.dev) = "genuine"
  <2>1. /\ SignedBy(d, key, n, img).challenge = challenge
        /\ SignedBy(d, key, n, img).says = "pinned"
        /\ SignedBy(d, key, n, img).dev = d
    BY <1>8 DEF SignedBy
  <2> HIDE DEF res, challenge
  <2> QED
    BY <1>8, <2>1
<1>9. CASE r.ev.kind = "sev"
  <2>1. PICK w \in {w1, w2}, d \in Machines, key \in {"n1", "o1"},
             img \in Images, x \in BOOLEAN :
               /\ Origin(w, d, key, img, x)
               /\ r.ev = MadeEvidence(d, Challenge(key, w.nonce), img, x)
    BY <1>1, <1>2, <1>3, <1>5, <1>7, <1>9
  <2>2. conf.src = "sev"
    BY <1>9, <2>1 DEF MadeEvidence, SnpEvidence, NitroEvidence, NoEvidence
  <2>3. r.ev = SnpEvidence(d, Challenge(key, w.nonce), img, x)
    BY <2>1, <2>2 DEF MadeEvidence
  <2>4. Hardware /\ Expected = Pins
    BY <2>2, DeployedKinds DEF Hardware, Expected
  <2>5. SevSnpEvidenceHolds(r, Expected, challenge)
    BY <1>6, <1>9, QuoteRests
  <2>6. SnpVerifies(r.ev, SevPin, {"pinned"}, challenge)
    BY <2>2, <2>4, <2>5, PinnedFields DEF SevSnpEvidenceHolds, SevPin
  <2>7. /\ Challenge(key, w.nonce) = challenge /\ img = "pinned"
        /\ Class(d) = "genuine"
    BY <2>3, <2>6, SnpMeans
  <2>8. SignedBy(d, key, w.nonce, img) \in signed
    BY <2>1, <2>4 DEF Origin
  <2> QED
    BY <1>8, <2>7, <2>8
<1>10. CASE r.ev.kind = "nitro"
  <2>1. PICK w \in {w1, w2}, d \in Machines, key \in {"n1", "o1"},
             img \in Images, x \in BOOLEAN :
               /\ Origin(w, d, key, img, x)
               /\ r.ev = MadeEvidence(d, Challenge(key, w.nonce), img, x)
    BY <1>1, <1>2, <1>3, <1>5, <1>7, <1>10
  <2>2. conf.src = "nitro"
    BY <1>10, <2>1 DEF MadeEvidence, SnpEvidence, NitroEvidence, NoEvidence
  <2>3. r.ev = NitroEvidence(d, Challenge(key, w.nonce), img)
    BY <2>1, <2>2 DEF MadeEvidence
  <2>4. Hardware /\ Expected = Pins
    BY <2>2, DeployedKinds DEF Hardware, Expected
  <2>5. NitroEvidenceHolds(r, Expected, challenge, age)
    BY <1>6, <1>10, QuoteRests
  <2>6. NitroVerifies(r.ev.doc, NitroPin, challenge, age)
    BY <2>2, <2>4, <2>5, PinnedFields DEF NitroEvidenceHolds, NitroPin
  <2>7. /\ Challenge(key, w.nonce) = challenge /\ img = "pinned"
        /\ Class(d) = "genuine"
    <3> DEFINE ch == Challenge(key, w.nonce)
    <3>1. NitroVerifies(NitroEvidence(d, ch, img).doc, NitroPin, challenge,
                        age)
      BY <2>3, <2>6
    <3> HIDE DEF ch, challenge
    <3>2. ch = challenge /\ img = "pinned" /\ Class(d) = "genuine"
      BY <2>2, <3>1, NitroMeans
    <3> QED
      BY <3>2 DEF ch
  <2>8. SignedBy(d, key, w.nonce, img) \in signed
    BY <2>1, <2>4 DEF Origin
  <2> QED
    BY <1>8, <2>7, <2>8
<1>11. CASE r.ev.kind \notin {"sev", "nitro"}
  <2>2. /\ HasHardwareEvidence(r.tpm) /\ VerifyQuote(r.tpm, challenge)
        /\ ~res.trusted
    BY <1>6, <1>11, QuoteRests
  <2>3. conf.src = "tpm" /\ r.tpm.msg \in {w1.r.tpm.msg, w2.r.tpm.msg}
    BY <1>41, <1>42, <1>5, <2>2 DEF HasHardwareEvidence
  <2>4. Hardware /\ Expected = Pins
    BY <2>3, DeployedKinds DEF Hardware, Expected
  <2>5. PICK w \in {w1, w2}, d \in Machines, key \in {"n1", "o1"},
             img \in Images, x \in BOOLEAN :
               /\ Origin(w, d, key, img, x)
               /\ r.tpm.msg = IF conf.src = "tpm"
                              THEN {TpmStatement(Challenge(key, w.nonce),
                                                 Measured(img))} ELSE {}
    BY <1>1, <1>2, <1>41, <1>42, <2>3
  <2>6. Challenge(key, w.nonce) = challenge /\ img = "pinned"
    BY <1>6, <2>2, <2>4, <2>5, TpmMeans DEF MeasurementsMatch
  <2>7. SignedBy(d, key, w.nonce, img) \in signed
    BY <2>4, <2>5 DEF Origin
  <2> QED
    BY <1>8, <2>2, <2>6, <2>7
<1> QED
  BY <1>9, <1>10, <1>11

\* The other direction: a report that reaches the client as a sound machine
\* made it, while it is fresh, verifies.
LEMMA HonestReport ==
  ASSUME conf \in Deployments, conf.pinned, NEW w, OnWire(w), w.clean,
         w.age <= MaxAge
  PROVE  LET res == Verify(w.r, Expected, w.nonce, w.age)
         IN  res.ok /\ (Hardware => IsHardwareRooted(res))
<1> DEFINE r == w.r
           res == Verify(r, Pins, w.nonce, w.age)
<1>1. PICK d \in Machines, key \in {"n1", "o1"}, img \in Images,
           x \in BOOLEAN : Origin(w, d, key, img, x)
  BY DEF OnWire
<1> DEFINE ch == Challenge(key, w.nonce)
           claimed == r.tpm.pcrs
           msg == TpmStatement(ch, Measured(img))
<1>2. /\ x /\ Class(d) = "genuine" /\ img = "pinned"
      /\ conf.src = "tpm" => claimed = Measured("pinned")
      /\ conf.src = "soft" => claimed = Measured("config")
  BY <1>1 DEF Origin
<1>3. /\ r.tpm = MadeTpm(d, ch, img, claimed, w.nonce, x)
      /\ r.tee = TeePart(d, key, IF conf.src = "sev" THEN img ELSE "enclave")
      /\ r.ev = MadeEvidence(d, ch, img, x)
      /\ r.hash = CombinedHash(r.tpm, r.tee, r.ev)
  <2>1. r = Made(d, key, w.nonce, img, claimed, x)
    BY <1>1 DEF Origin
  <2> HIDE DEF r, claimed
  <2> QED
    BY <2>1 DEF Made, MkReport
<1> HIDE DEF r, ch, claimed
<1>4. /\ r.tpm.nonce = w.nonce /\ r.tpm.pcrs = claimed
      /\ r.tpm.msg = IF conf.src = "tpm" THEN {msg} ELSE {}
      /\ r.tpm.sig = IF conf.src = "tpm"
                     THEN {[by |-> <<d, "ak">>, over |-> msg]} ELSE {}
      /\ r.tpm.aik = IF conf.src = "tpm" THEN {<<d, "ak">>} ELSE {}
  BY <1>2, <1>3 DEF MadeTpm
<1>5. /\ r.tee.key = key /\ r.tee.mrsigner = "signer" /\ r.tee.svn = 0
      /\ r.tee.mrenclave = IF conf.src = "sev" THEN "pinned" ELSE "enclave"
      /\ r.tee.type = "tee"
  BY <1>2, <1>3 DEF TeePart
<1>6. MeasurementsMatch(r, Pins)
  <2>1. VerifyAgainst(claimed, Pins.pcrs)
    <3>1. CASE conf.src \in {"tpm", "soft"}
      BY <1>2, <3>1, PinnedFields DEF VerifyAgainst
    <3>2. CASE conf.src \notin {"tpm", "soft"}
      BY <3>2, PinnedFields DEF VerifyAgainst, Empty
    <3> QED
      BY <3>1, <3>2
  <2> QED
    BY <1>4, <1>5, <2>1, PinnedFields DEF MeasurementsMatch, Matches
<1>7. ~PinsNothing(Pins)
  BY PinnedFields DEF PinsNothing
<1>8. res = PlatformQuote(r, Pins, w.nonce, w.age)
  BY <1>3, <1>4, <1>6, <1>7 DEF Verify
<1>9. /\ Verified(r, TRUE).ok /\ IsHardwareRooted(Verified(r, TRUE))
      /\ Verified(r, FALSE).ok /\ IsHardwareRooted(Verified(r, FALSE))
  BY <1>5 DEF Verified, IsHardwareRooted
<1>10. Expected = Pins /\ Challenge(r.tee.key, w.nonce) = ch
  BY <1>5 DEF Expected, ch
<1> SUFFICES res.ok /\ (Hardware => IsHardwareRooted(res))
  BY <1>10 DEF r
<1> HIDE DEF res
<1>11. CASE conf.src = "sev"
  <2>1. r.ev = SnpEvidence(d, ch, img, x)
    BY <1>3, <1>11 DEF MadeEvidence
  <2>2. SnpVerifies(r.ev, SevPin, {"pinned"}, ch)
    <3>1. SnpVerifies(SnpEvidence(d, ch, img, x), SevPin, {"pinned"}, ch) <=>
            x /\ ch = ch /\ img = "pinned" /\ Class(d) = "genuine"
      BY SnpMeans, Zenon
    <3> QED
      BY <1>2, <2>1, <3>1, Zenon
  <2>3. SevSnpEvidenceHolds(r, Pins, ch)
    BY <1>11, <2>2, PinnedFields DEF SevSnpEvidenceHolds, SevPin
  <2>4. r.ev.kind = "sev"
    BY <2>1 DEF SnpEvidence
  <2>5. res = Verified(r, TRUE)
    BY <1>8, <1>10, <2>3, <2>4 DEF PlatformQuote
  <2> QED
    BY <1>9, <2>5
<1>12. CASE conf.src = "nitro"
  <2>1. r.ev = NitroEvidence(d, ch, img)
    BY <1>3, <1>12 DEF MadeEvidence
  <2>2. w.age \in Nat
    BY DEF OnWire
  <2>3. NitroVerifies(NitroEvidence(d, ch, img).doc, NitroPin, ch, w.age)
    <3> DEFINE age == w.age
    <3>1. age \in Nat /\ age <= MaxAge
      BY <2>2
    <3> HIDE DEF age
    <3>2. /\ ch = ch /\ img = "pinned" /\ Class(d) = "genuine"
          /\ age <= MaxAge
      BY <1>2, <3>1
    <3>3. NitroVerifies(NitroEvidence(d, ch, img).doc, NitroPin, ch, age)
      BY <1>12, <3>1, <3>2, NitroMeans
    <3> QED
      BY <3>3 DEF age
  <2>4. NitroEvidenceHolds(r, Pins, ch, w.age)
    BY <2>1, <2>3, PinnedFields DEF NitroEvidenceHolds, NitroPin
  <2>5. r.ev.kind = "nitro"
    BY <2>1 DEF NitroEvidence
  <2>6. res = Verified(r, TRUE)
    BY <1>8, <1>10, <2>4, <2>5 DEF PlatformQuote
  <2> QED
    BY <1>9, <2>6
<1>13. CASE conf.src \in {"tpm", "soft"}
  <2>1. r.ev.kind = "none"
    BY <1>3, <1>13 DEF MadeEvidence, NoEvidence
  <2>2. res = VerifyTpmQuote(r, ch)
    BY <1>8, <1>10, <2>1 DEF PlatformQuote
  <2>3. CASE conf.src = "tpm"
    <3>1. claimed = Measured(img)
      BY <1>2, <2>3
    <3>2. msg.form = "quote" /\ msg.extra = ch /\ msg.pcrs = Measured(img)
      BY DEF TpmStatement
    <3> HIDE DEF msg
    <3>3. /\ r.tpm.msg = {msg} /\ r.tpm.aik = {<<d, "ak">>}
          /\ r.tpm.sig = {[by |-> <<d, "ak">>, over |-> msg]}
      BY <1>4, <2>3
    <3>4. HasHardwareEvidence(r.tpm)
      BY <3>3 DEF HasHardwareEvidence
    <3>5. VerifyQuote(r.tpm, ch)
      BY <1>4, <3>1, <3>2, <3>3 DEF VerifyQuote, AttestParses, SignatureHolds,
         NonceMatches, PcrDigestMatches
    <3>6. res = Verified(r, FALSE)
      BY <2>2, <3>4, <3>5 DEF VerifyTpmQuote
    <3> QED
      BY <1>9, <3>6
  <2>4. CASE conf.src = "soft"
    <3>1. ~HasHardwareEvidence(r.tpm)
      BY <1>4, <2>4 DEF HasHardwareEvidence
    <3>2. res = [Refused EXCEPT !.ok = TRUE]
      BY <2>2, <3>1 DEF VerifyTpmQuote
    <3>3. [Refused EXCEPT !.ok = TRUE].ok
      BY DEF Refused
    <3> QED
      BY <2>4, <3>2, <3>3 DEF Hardware
  <2> QED
    BY <1>13, <2>3, <2>4
<1> QED
  BY <1>11, <1>12, <1>13, DeployedKinds

-----------------------------------------------------------------------------
(* Requests and the wire *)

\* A request between its entry's creation and its reading has the entry to
\* itself, and the entry holds what the platform was given for it.
OwnEntry(e) ==
  /\ e.dev = "node" /\ e.key = "n1" /\ e.name \in 1 .. MaxReports
  /\ \A b \in blob[e.name] : /\ b.challenge = Challenge(e.key, e.nonce)
                             /\ \E img \in Images : b.pcrs = Measured(img)

RequestsInv ==
  /\ IsFiniteSet(entries) /\ IsFiniteSet(wire)
  /\ DOMAIN blob = 1 .. MaxReports
  /\ \A e \in entries : OwnEntry(e) /\ node["node"].up
  /\ \A e, f \in entries : e.name = f.name => e = f
  /\ node["node"].up => node["node"].key = "n1"
  /\ conf.src = "soft" =>
       /\ node["node"].up => node["node"].pcrs = Measured("config")
       /\ node["other"].pcrs = Measured("config")

WireInv == \A w \in wire : OnWire(w)

VerdictsInv ==
  DOMAIN verdict = Clients /\ DOMAIN asked = Clients /\ AcceptedIsQuoted

AttestInv == GateInv /\ RequestsInv /\ WireInv /\ VerdictsInv

\* The deployment never changes.
LEMMA ConfStays ==
  ASSUME [Next]_vars
  PROVE  /\ conf' = conf /\ Hardware' = Hardware /\ signed \subseteq signed'
         /\ \A d : Class(d)' = Class(d)
<1>1. conf' = conf
  BY DEF Next, vars, Start, Stop, Remeasure, Ask, Open, VerifyForClient,
         Deliver, AnsweredElsewhere, AnsweredInSoftware,
         Answer, QuoteFails, Tick, ExpireStale
<1>2. signed \subseteq signed'
  BY DEF Next, vars, Start, Stop, Remeasure, Ask, Open, VerifyForClient,
         Deliver, AnsweredElsewhere, AnsweredInSoftware,
         Answer, QuoteFails, Tick, ExpireStale
<1> QED
  BY <1>1, <1>2 DEF Hardware, Class

\* Reports are made of what was true when they were made: nothing later
\* changes what one is.
LEMMA MadeStays ==
  ASSUME conf' = conf, NEW d, NEW key, NEW nonce, NEW img, NEW claimed,
         NEW extras
  PROVE  Made(d, key, nonce, img, claimed, extras)'
           = Made(d, key, nonce, img, claimed, extras)
<1> DEFINE ch == Challenge(key, nonce)
<1>1. Class(d)' = Class(d) /\ Vendor(d)' = Vendor(d)
  BY DEF Class, Vendor
<1>2. Leaf(d)' = Leaf(d) /\ Ca(Vendor(d))' = Ca(Vendor(d))
      /\ Root(Vendor(d))' = Root(Vendor(d))
  BY <1>1 DEF Leaf, Ca, Root
<1>3. SnpBody(d, ch, img)' = SnpBody(d, ch, img)
  BY <1>1 DEF SnpBody
<1>4. NitroBody(d, ch, img)' = NitroBody(d, ch, img)
  BY <1>2 DEF NitroBody
<1>5. /\ SnpEvidence(d, ch, img, extras)' = SnpEvidence(d, ch, img, extras)
      /\ NitroEvidence(d, ch, img)' = NitroEvidence(d, ch, img)
  BY <1>2, <1>3, <1>4 DEF SnpEvidence, NitroEvidence
<1>6. MadeEvidence(d, ch, img, extras)' = MadeEvidence(d, ch, img, extras)
  BY <1>5 DEF MadeEvidence
<1>7. MadeTpm(d, ch, img, claimed, nonce, extras)'
        = MadeTpm(d, ch, img, claimed, nonce, extras)
  BY DEF MadeTpm
<1> QED
  BY <1>6, <1>7 DEF Made

\* A report stays on the wire with its origin.
LEMMA OnWireStays ==
  ASSUME conf' = conf, signed \subseteq signed', NEW w, OnWire(w)
  PROVE  OnWire(w)'
<1>1. PICK d \in Machines, key \in {"n1", "o1"}, img \in Images,
           x \in BOOLEAN : Origin(w, d, key, img, x)
  BY DEF OnWire
<1>2. Class(d)' = Class(d) /\ Hardware' = Hardware
  BY DEF Class, Hardware
<1>3. Origin(w, d, key, img, x)'
  BY <1>1, <1>2, MadeStays DEF Origin
<1> QED
  BY <1>3 DEF OnWire

\* The answer to a request: a report with its origin.
LEMMA AnswerOnWire ==
  ASSUME GateInv, conf' = conf, NEW e, NEW b, NEW extras \in BOOLEAN,
         NEW img \in Images, e.dev \in Machines, e.key \in {"n1", "o1"},
         b.challenge = Challenge(e.key, e.nonce),
         conf.src = "tpm" => b.pcrs = Measured(img),
         conf.src # "tpm" => image[e.dev] = img,
         conf.src = "soft" => node[e.dev].pcrs = Measured("config"),
         signed' = IF Hardware THEN signed \cup {Statement(e, b)} ELSE signed,
         NEW w, w = [r |-> Report(e, b, extras), age |-> 0, nonce |-> e.nonce,
                     clean |-> Clean(e, b, extras)]
  PROVE  OnWire(w)'
<1>1. /\ w.r = Report(e, b, extras) /\ w.age = 0 /\ w.nonce = e.nonce
      /\ w.clean = Clean(e, b, extras)
      /\ w = [r |-> w.r, age |-> w.age, nonce |-> w.nonce, clean |-> w.clean]
  OBVIOUS
<1>2. w.r = Made(e.dev, e.key, e.nonce, img, node[e.dev].pcrs, extras)
  BY <1>1, ReportIsMade
<1>3. w.r.tpm.pcrs = node[e.dev].pcrs
  BY <1>2 DEF Made, MkReport, MadeTpm
<1>4. Measured(img) = Measured("pinned") <=> img = "pinned"
  BY MeasuredAgainst DEF VerifyAgainst
<1>5. Statement(e, b) = SignedBy(e.dev, e.key, e.nonce, img)
  BY <1>4 DEF Statement, SignedBy, Images
<1>6. Hardware' = Hardware /\ Class(e.dev)' = Class(e.dev)
  BY DEF Hardware, Class
<1>7. w.clean => /\ extras /\ Class(e.dev) = "genuine" /\ img = "pinned"
                 /\ conf.src = "tpm" => node[e.dev].pcrs = Measured("pinned")
  BY <1>1, <1>4 DEF Clean
<1>8. Made(e.dev, e.key, w.nonce, img, w.r.tpm.pcrs, extras)' = w.r
  BY <1>1, <1>2, <1>3, MadeStays
<1>9. Origin(w, e.dev, e.key, img, extras)'
  BY <1>1, <1>3, <1>5, <1>6, <1>7, <1>8 DEF Origin
<1> QED
  BY <1>1, <1>9 DEF OnWire

-----------------------------------------------------------------------------
(* Requests keep their entries apart *)

\* A private directory or configfs entry: while there is room, some name is
\* taken by no other request.
LEMMA FreeName ==
  ASSUME RequestsInv, RoomOnWire
  PROVE  /\ EntryName \in 1 .. MaxReports
         /\ \A e \in entries : e.name # EntryName
<1> DEFINE Names == {e.name : e \in entries}
           f == [e \in entries |-> e.name]
<1>1. IsFiniteSet(entries) /\ IsFiniteSet(wire)
  BY DEF RequestsInv
<1>2. Cardinality(entries) \in Nat /\ Cardinality(wire) \in Nat
  BY <1>1, FS_CardinalityType
<1>3. Cardinality(entries) < MaxReports
  BY <1>2, Positive DEF RoomOnWire
<1>4. f \in Surjection(entries, Names)
  BY DEF Surjection
<1>5. IsFiniteSet(Names) /\ Cardinality(Names) <= Cardinality(entries)
  <2> HIDE DEF f, Names
  <2> QED
    BY <1>1, <1>4, FS_Surjection
<1>6. 1 \in Int /\ MaxReports \in Int
  BY Positive
<1>7. Cardinality(1 .. MaxReports) = IF 1 > MaxReports THEN 0
                                     ELSE MaxReports - 1 + 1
  BY <1>6, FS_Interval, Zenon
<1>8. Cardinality(1 .. MaxReports) = MaxReports
  BY <1>7, Positive
<1>9. Cardinality(Names) \in Nat
  BY <1>5, FS_CardinalityType
<1>10. ~(1 .. MaxReports \subseteq Names)
  <2> HIDE DEF Names
  <2> SUFFICES ASSUME 1 .. MaxReports \in SUBSET Names
               PROVE  FALSE
    OBVIOUS
  <2>1. Cardinality(1 .. MaxReports) <= Cardinality(Names)
    BY <1>5, FS_Subset
  <2> QED
    BY <1>2, <1>3, <1>5, <1>8, <1>9, <2>1, Positive
<1>11. \E n \in 1 .. MaxReports : \A e \in entries : e.name # n
  BY <1>10
<1> QED
  BY <1>11 DEF EntryName

\* What each operation leaves of the requests: an entry is its request's own
\* from its creation to its reading, and none outlives the process.
LEMMA RequestsNext ==
  ASSUME GateInv, RequestsInv, [Next]_vars
  PROVE  RequestsInv'
<1>1. conf' = conf
  BY ConfStays
<1>2. ASSUME UNCHANGED <<node, entries, blob>>, IsFiniteSet(wire')
      PROVE  RequestsInv'
  BY <1>1, <1>2 DEF RequestsInv, OwnEntry
<1>3. CASE Start
  <2>1. entries = {} /\ UNCHANGED <<entries, blob, wire>>
    BY <1>3 DEF Start, RequestsInv
  <2>2. PICK readable :
          node' = [node EXCEPT !["node"] = Running("node", readable)]
    BY <1>3 DEF Start
  <2>3. /\ node'["node"] = Running("node", readable)
        /\ node'["other"] = node["other"]
    BY <2>2 DEF GateInv, Machines
  <2>4. /\ Running("node", readable).key = "n1"
        /\ conf.src = "soft" =>
             Running("node", readable).pcrs = Measured("config")
    BY DEF Running, KeyOf, TakeMeasurements
  <2> QED
    BY <1>1, <2>1, <2>3, <2>4 DEF RequestsInv
<1>4. CASE Stop
  <2>1. /\ entries' = {} /\ wire' = wire /\ DOMAIN blob' = DOMAIN blob
        /\ node' = [node EXCEPT !["node"] = Down]
    BY <1>4 DEF Stop
  <2>2. ~node'["node"].up /\ node'["other"] = node["other"]
    BY <2>1 DEF GateInv, Machines, Down
  <2>3. IsFiniteSet(entries')
    BY <2>1, FS_EmptySet
  <2> QED
    BY <1>1, <2>1, <2>2, <2>3 DEF RequestsInv
<1>5. ASSUME NEW c \in Clients, Open(c)
      PROVE  RequestsInv'
  <2>0. PICK new : new = [name |-> EntryName, dev |-> "node",
                          nonce |-> asked[c], key |-> node["node"].key]
    OBVIOUS
  <2>1. /\ node["node"].up /\ RoomOnWire
        /\ entries' = entries \cup {new}
        /\ blob' = [blob EXCEPT ![EntryName] = {Given(c)}]
        /\ UNCHANGED <<node, wire>>
    BY <1>5, <2>0 DEF Open
  <2>2. /\ EntryName \in 1 .. MaxReports
        /\ \A e \in entries : e.name # EntryName
    BY <2>1, FreeName
  <2>3. /\ new.name = EntryName /\ new.dev = "node" /\ new.nonce = asked[c]
        /\ new.key = "n1"
    BY <2>0, <2>1 DEF RequestsInv
  <2>4. /\ Given(c).challenge = Challenge("n1", asked[c])
        /\ Given(c).pcrs = Measured(image["node"])
        /\ image["node"] \in Images
    BY <2>1 DEF Given, RequestsInv, GateInv, Machines
  <2>5. IsFiniteSet(entries')
    BY <2>1, FS_AddElement DEF RequestsInv
  <2>6. DOMAIN blob' = 1 .. MaxReports /\ blob'[new.name] = {Given(c)}
    BY <2>1, <2>2, <2>3 DEF RequestsInv
  <2>7. OwnEntry(new)'
    BY <2>2, <2>3, <2>4, <2>6 DEF OwnEntry
  <2>8. ASSUME NEW e \in entries
        PROVE  OwnEntry(e)'
    <3>1. OwnEntry(e) /\ e.name # EntryName
      BY <2>2 DEF RequestsInv
    <3>2. blob'[e.name] = blob[e.name]
      BY <2>1, <3>1 DEF RequestsInv, OwnEntry
    <3> QED
      BY <3>1, <3>2 DEF OwnEntry
  <2>9. \A e, f \in entries' : e.name = f.name => e = f
    BY <2>1, <2>2, <2>3 DEF RequestsInv
  <2> QED
    BY <1>1, <2>1, <2>5, <2>6, <2>7, <2>8, <2>9 DEF RequestsInv
<1>6. ASSUME NEW e \in entries, Close(e), node' = node, IsFiniteSet(wire')
      PROVE  RequestsInv'
  <2>1. /\ entries' = entries \ {e}
        /\ blob' = [blob EXCEPT ![e.name] = {}]
    BY <1>6 DEF Close
  <2>2. IsFiniteSet(entries')
    BY <2>1, FS_RemoveElement DEF RequestsInv
  <2>3. DOMAIN blob' = 1 .. MaxReports
    BY <2>1 DEF RequestsInv
  <2>4. ASSUME NEW f \in entries'
        PROVE  OwnEntry(f)'
    <3>1. f \in entries /\ OwnEntry(f) /\ f.name # e.name
      BY <2>1, <2>4 DEF RequestsInv
    <3>2. blob'[f.name] = blob[f.name]
      BY <2>1, <3>1 DEF RequestsInv, OwnEntry
    <3> QED
      BY <3>1, <3>2 DEF OwnEntry
  <2> QED
    BY <1>1, <1>6, <2>1, <2>2, <2>3, <2>4 DEF RequestsInv
<1>7. ASSUME NEW e \in entries, Answer(e)
      PROVE  RequestsInv'
  <2>1. PICK w : wire' = wire \cup {w}
    BY <1>7 DEF Answer, Send
  <2>2. IsFiniteSet(wire')
    BY <2>1, FS_AddElement DEF RequestsInv
  <2> QED
    BY <1>6, <1>7, <2>2 DEF Answer
<1>8. ASSUME NEW e \in entries, QuoteFails(e)
      PROVE  RequestsInv'
  BY <1>6, <1>8 DEF QuoteFails, RequestsInv
<1>9. ASSUME NEW c \in Clients, NEW d \in Machines, AnsweredElsewhere(d, c)
      PROVE  RequestsInv'
  <2>1. PICK w : wire' = wire \cup {w}
    BY <1>9 DEF AnsweredElsewhere, Send
  <2>2. IsFiniteSet(wire')
    BY <2>1, FS_AddElement DEF RequestsInv
  <2> QED
    BY <1>2, <1>9, <2>2 DEF AnsweredElsewhere
<1>12. ASSUME NEW c \in Clients, AnsweredInSoftware(c)
       PROVE  RequestsInv'
  <2>1. PICK w : wire' = wire \cup {w}
    BY <1>12 DEF AnsweredInSoftware, Send
  <2>2. IsFiniteSet(wire')
    BY <2>1, FS_AddElement DEF RequestsInv
  <2> QED
    BY <1>2, <1>12, <2>2 DEF AnsweredInSoftware
<1>10. CASE Tick
  <2> DEFINE f == [w \in wire |-> [w EXCEPT !.age = Older(w.age, Old)]]
  <2>1. wire' = {[w EXCEPT !.age = Older(w.age, Old)] : w \in wire}
    BY <1>10 DEF Tick
  <2>2. f \in Surjection(wire, wire')
    BY <2>1 DEF Surjection
  <2>3. IsFiniteSet(wire')
    <3> HIDE DEF f
    <3> QED
      BY <2>2, FS_Surjection DEF RequestsInv
  <2> QED
    BY <1>2, <1>10, <2>3 DEF Tick
<1>11. CASE UNCHANGED <<node, entries, blob, wire>>
  BY <1>2, <1>11 DEF RequestsInv
<1> QED
  BY <1>3, <1>4, <1>5, <1>7, <1>8, <1>9, <1>10, <1>11, <1>12
  DEF Next, vars, Remeasure, Ask, VerifyForClient, Deliver, ExpireStale

-----------------------------------------------------------------------------
(* Reports on the wire have an origin *)

\* A tick changes a report's age and nothing else of it.
LEMMA OnWireAges ==
  ASSUME conf \in Deployments, NEW w, OnWire(w)
  PROVE  OnWire([w EXCEPT !.age = Older(w.age, Old)])
<1>1. PICK v : v = [w EXCEPT !.age = Older(w.age, Old)]
  OBVIOUS
<1>2. w = [r |-> w.r, age |-> w.age, nonce |-> w.nonce, clean |-> w.clean]
  BY DEF OnWire
<1>3. /\ v = [r |-> w.r, age |-> Older(w.age, Old), nonce |-> w.nonce,
              clean |-> w.clean]
  BY <1>1, <1>2
<1>4. /\ v.r = w.r /\ v.nonce = w.nonce /\ v.clean = w.clean
      /\ v.age = Older(w.age, Old)
      /\ v = [r |-> v.r, age |-> v.age, nonce |-> v.nonce, clean |-> v.clean]
  BY <1>3
<1>5. w.age \in Nat
  BY DEF OnWire
<1>6. v.age \in Nat
  BY <1>4, <1>5, Positive DEF Older, Old
<1>7. PICK d \in Machines, key \in {"n1", "o1"}, img \in Images,
           x \in BOOLEAN : Origin(w, d, key, img, x)
  BY DEF OnWire
<1>8. Origin(v, d, key, img, x)
  BY <1>4, <1>7, Zenon DEF Origin
<1>9. OnWire(v)
  BY <1>4, <1>6, <1>8 DEF OnWire
<1> QED
  BY <1>1, <1>9

\* generate_attestation and the transport: every report on the wire was made
\* by a machine for the challenge it carries, and its platform signed for it.
LEMMA WireNext ==
  ASSUME GateInv, RequestsInv, WireInv, [Next]_vars
  PROVE  WireInv'
<1>1. conf' = conf /\ signed \subseteq signed'
  BY ConfStays
<1>2. ASSUME NEW w \in wire
      PROVE  OnWire(w)'
  BY <1>1, OnWireStays DEF WireInv
<1>3. CASE wire' = wire
  BY <1>2, <1>3 DEF WireInv
<1>4. ASSUME NEW e \in entries, Answer(e)
      PROVE  WireInv'
  <2>1. PICK b \in blob[e.name], extras \in BOOLEAN :
          /\ Send([r |-> Report(e, b, extras), age |-> 0, nonce |-> e.nonce,
                   clean |-> Clean(e, b, extras)])
          /\ signed' = IF Hardware THEN signed \cup {Statement(e, b)}
                       ELSE signed
    BY <1>4 DEF Answer
  <2>2. /\ OwnEntry(e) /\ node["node"].up
        /\ conf.src = "soft" => node["node"].pcrs = Measured("config")
    BY DEF RequestsInv
  <2>3. /\ e.dev = "node" /\ e.key = "n1"
        /\ b.challenge = Challenge(e.key, e.nonce)
        /\ \E img \in Images : b.pcrs = Measured(img)
    BY <2>1, <2>2 DEF OwnEntry
  <2>4. \E img \in Images : /\ conf.src = "tpm" => b.pcrs = Measured(img)
                            /\ conf.src # "tpm" => image[e.dev] = img
    BY <2>3 DEF GateInv, Machines
  <2>5. PICK img \in Images : /\ conf.src = "tpm" => b.pcrs = Measured(img)
                              /\ conf.src # "tpm" => image[e.dev] = img
    BY <2>4
  <2>6. PICK w : w = [r |-> Report(e, b, extras), age |-> 0,
                      nonce |-> e.nonce, clean |-> Clean(e, b, extras)]
    OBVIOUS
  <2>7. e.dev \in Machines /\ e.key \in {"n1", "o1"}
    BY <2>3 DEF Machines
  <2>8. conf.src = "soft" => node[e.dev].pcrs = Measured("config")
    BY <2>2, <2>3
  <2>9. OnWire(w)'
    BY <1>1, <2>1, <2>3, <2>5, <2>6, <2>7, <2>8, AnswerOnWire
  <2>10. wire' = wire \cup {w}
    BY <2>1, <2>6 DEF Send
  <2> QED
    BY <1>2, <2>9, <2>10 DEF WireInv
<1>5. ASSUME NEW c \in Clients, NEW d \in Machines, AnsweredElsewhere(d, c)
      PROVE  WireInv'
  <2>1. PICK e : e = [dev |-> d, nonce |-> asked[c], key |-> KeyOf[d]]
    OBVIOUS
  <2>2. PICK b : b = [challenge |-> Challenge(KeyOf[d], asked[c]),
                      pcrs |-> Measured(image[d])]
    OBVIOUS
  <2>3. PICK w : w = [r |-> Report(e, b, TRUE), age |-> 0,
                      nonce |-> asked[c], clean |-> Clean(e, b, TRUE)]
    OBVIOUS
  <2>4. /\ wire' = wire \cup {w}
        /\ signed' = IF Hardware THEN signed \cup {Statement(e, b)}
                     ELSE signed
        /\ d = "other" \/ conf.src = "nitro"
    BY <1>5, <2>1, <2>2, <2>3 DEF AnsweredElsewhere, Send
  <2>5. e.dev = d /\ e.nonce = asked[c] /\ e.key = KeyOf[d]
    BY <2>1
  <2>6. /\ b.challenge = Challenge(KeyOf[d], asked[c])
        /\ b.pcrs = Measured(image[d])
    BY <2>2
  <2>7. KeyOf[d] \in {"n1", "o1"}
    BY DEF KeyOf, Machines
  <2>8. image[d] \in Images
    BY DEF GateInv
  <2>9. conf.src = "soft" => node[e.dev].pcrs = Measured("config")
    BY <2>4, <2>5 DEF RequestsInv
  <2>10. e.dev \in Machines /\ e.key \in {"n1", "o1"}
    BY <2>5, <2>7
  <2>11. /\ b.challenge = Challenge(e.key, e.nonce)
         /\ w = [r |-> Report(e, b, TRUE), age |-> 0, nonce |-> e.nonce,
                 clean |-> Clean(e, b, TRUE)]
    BY <2>3, <2>5, <2>6
  <2>12. image[e.dev] = image[d] /\ b.pcrs = Measured(image[d])
    BY <2>5, <2>6
  <2>13. PICK img \in Images : img = image[d]
    BY <2>8
  <2>14. OnWire(w)'
    BY <1>1, <2>4, <2>9, <2>10, <2>11, <2>12, <2>13, AnswerOnWire
  <2> QED
    BY <1>2, <2>4, <2>14 DEF WireInv
<1>7. ASSUME NEW c \in Clients, AnsweredInSoftware(c)
      PROVE  WireInv'
  <2>1. PICK d \in Machines, img \in Images :
          /\ Send([r |-> SoftwareReport(KeyOf[d], asked[c], Measured(img)),
                   age |-> 0, nonce |-> asked[c], clean |-> FALSE])
          /\ signed' = signed \cup
               {[dev |-> "other", says |-> img,
                 challenge |-> Challenge(KeyOf[d], asked[c])]}
    BY <1>7 DEF AnsweredInSoftware
  <2>2. conf.src = "tpm"
    BY <1>7 DEF AnsweredInSoftware, SoftwareTpm
  <2>3. PICK key \in {"n1", "o1"} : key = KeyOf[d]
    BY DEF KeyOf, Machines
  <2>4. PICK w : w = [r |-> SoftwareReport(key, asked[c], Measured(img)),
                      age |-> 0, nonce |-> asked[c], clean |-> FALSE]
    OBVIOUS
  <2>5. /\ w.r = SoftwareReport(key, asked[c], Measured(img)) /\ w.age = 0
        /\ w.nonce = asked[c] /\ w.clean = FALSE
        /\ w = [r |-> w.r, age |-> w.age, nonce |-> w.nonce, clean |-> w.clean]
    BY <2>4
  <2>6. w.r = Made("other", key, w.nonce, img, Measured(img), TRUE)
    <3>1. conf.src # "sev" /\ conf.src # "nitro"
      BY <2>2
    <3>2. MadeEvidence("other", Challenge(key, asked[c]), img, TRUE) = NoEvidence
      BY <3>1 DEF MadeEvidence
    <3>3. w.r = MkReport(MadeTpm("other", Challenge(key, asked[c]), img,
                                 Measured(img), asked[c], TRUE),
                         TeePart("other", key, "enclave"), NoEvidence)
      BY <2>2, <2>5 DEF SoftwareReport, SoftwareKey, MadeTpm
    <3> QED
      BY <2>5, <3>1, <3>2, <3>3 DEF Made
  <2>7. w.r.tpm.pcrs = Measured(img)
    BY <2>6 DEF Made, MkReport, MadeTpm
  <2>8. PICK o \in Machines, x \in BOOLEAN : o = "other" /\ x = TRUE
    BY DEF Machines
  <2>9. w.r = Made(o, key, w.nonce, img, w.r.tpm.pcrs, x)
    BY <2>6, <2>7, <2>8
  <2>10. SignedBy(o, key, w.nonce, img) \in signed'
    BY <2>1, <2>3, <2>5, <2>8 DEF SignedBy
  <2>11. Origin(w, o, key, img, x)'
    <3>1. Made(o, key, w.nonce, img, w.r.tpm.pcrs, x)' = w.r
      BY <1>1, <2>9, MadeStays
    <3>2. conf'.src # "soft"
      BY <1>1, <2>2
    <3> QED
      BY <2>5, <2>10, <3>1, <3>2 DEF Origin, SignedBy
  <2>13. OnWire(w)'
    BY <2>5, <2>11 DEF OnWire
  <2>12. wire' = wire \cup {w}
    BY <2>1, <2>3, <2>4 DEF Send
  <2> QED
    BY <1>2, <2>12, <2>13 DEF WireInv
<1>6. CASE Tick
  <2>1. /\ wire' = {[w EXCEPT !.age = Older(w.age, Old)] : w \in wire}
        /\ signed' = signed
    BY <1>6 DEF Tick
  <2>2. ASSUME NEW w \in wire
        PROVE  OnWire([w EXCEPT !.age = Older(w.age, Old)])
    BY OnWireAges DEF WireInv, GateInv
  <2>3. ASSUME NEW v \in wire'
        PROVE  OnWire(v)'
    <3>1. OnWire(v)
      BY <2>1, <2>2
    <3> QED
      BY <1>1, <3>1, OnWireStays
  <2> QED
    BY <2>3 DEF WireInv
<1> QED
  BY <1>3, <1>4, <1>5, <1>6, <1>7
  DEF Next, vars, Start, Stop, Remeasure, Ask, Open, VerifyForClient, Deliver,
      QuoteFails, ExpireStale

-----------------------------------------------------------------------------
(* Clients *)

\* A client's conclusion about a report and the challenge it waits for.
Quoted(v, nonce) ==
  v.res.ok /\ IsHardwareRooted(v.res) =>
    \E s \in signed : /\ s.challenge = Challenge(v.key, nonce)
                      /\ s.says = "pinned"
                      /\ v.res.trusted => Class(s.dev) = "genuine"

\* Platforms do not unsign: a conclusion stays justified.
LEMMA QuotedStays ==
  ASSUME [Next]_vars, NEW q, NEW v, NEW nonce, Quoted(v, nonce),
         verdict'[q] = v, asked'[q] = nonce
  PROVE  Quoted(verdict[q], asked[q])'
<1>1. signed \subseteq signed' /\ \A d : Class(d)' = Class(d)
  BY ConfStays
<1> QED
  BY <1>1 DEF Quoted

\* AttestationReport::verify: a challenge clears the conclusion, and only a
\* report that verifies for that challenge makes a new one.
LEMMA VerdictsNext ==
  ASSUME GateInv, WireInv, VerdictsInv, [Next]_vars
  PROVE  VerdictsInv'
<1>1. \A q \in Clients : Quoted(verdict[q], asked[q])
  BY DEF VerdictsInv, AcceptedIsQuoted, Quoted
<1>2. ASSUME DOMAIN verdict' = Clients, DOMAIN asked' = Clients,
             \A q \in Clients : Quoted(verdict[q], asked[q])'
      PROVE  VerdictsInv'
  BY <1>2 DEF VerdictsInv, AcceptedIsQuoted, Quoted
<1>3. ASSUME NEW c \in Clients, Ask(c)
      PROVE  VerdictsInv'
  <2>1. /\ asked' = [asked EXCEPT ![c] = issued + 1]
        /\ verdict' = [verdict EXCEPT ![c] = NoResult]
    BY <1>3 DEF Ask
  <2>2. DOMAIN verdict' = Clients /\ DOMAIN asked' = Clients
    BY <2>1 DEF VerdictsInv
  <2>3. ~NoResult.res.ok
    BY DEF NoResult, Refused
  <2>4. ASSUME NEW q \in Clients
        PROVE  Quoted(verdict[q], asked[q])'
    <3>1. CASE q = c
      <4>1. verdict'[q] = NoResult
        BY <2>1, <3>1 DEF VerdictsInv
      <4> QED
        BY <2>3, <4>1 DEF Quoted
    <3>2. CASE q # c
      <4>1. verdict'[q] = verdict[q] /\ asked'[q] = asked[q]
        BY <2>1, <3>2 DEF VerdictsInv
      <4> QED
        BY <1>1, <4>1, QuotedStays
    <3> QED
      BY <3>1, <3>2
  <2> QED
    BY <1>2, <2>2, <2>4
<1>4. ASSUME NEW c \in Clients, Deliver(c)
      PROVE  VerdictsInv'
  <2>0. PICK w1 \in wire, w2 \in wire :
          \E r \in Rearranged(w1.r, w2.r, asked[c]) :
            LET age == IF r.ev = w2.r.ev THEN w2.age ELSE w1.age
                res == Verify(r, Expected, asked[c], age)
            IN  /\ res.ok
                /\ verdict' = [verdict EXCEPT ![c] =
                                 [res |-> res, key |-> r.tee.key]]
    BY <1>4 DEF Deliver
  <2>1. PICK r \in Rearranged(w1.r, w2.r, asked[c]) :
          LET age == IF r.ev = w2.r.ev THEN w2.age ELSE w1.age
              res == Verify(r, Expected, asked[c], age)
          IN  /\ res.ok
              /\ verdict' = [verdict EXCEPT ![c] =
                               [res |-> res, key |-> r.tee.key]]
    BY <2>0
  <2>2. PICK age : age = IF r.ev = w2.r.ev THEN w2.age ELSE w1.age
    OBVIOUS
  <2>3. PICK res : res = Verify(r, Expected, asked[c], age)
    OBVIOUS
  <2>4. /\ res.ok
        /\ verdict' = [verdict EXCEPT ![c] = [res |-> res, key |-> r.tee.key]]
    BY <2>1, <2>2, <2>3
  <2>5. OnWire(w1) /\ OnWire(w2)
    BY DEF WireInv
  <2>6. age \in Nat
    BY <2>2, <2>5 DEF OnWire
  <2>7. IsHardwareRooted(res) =>
          \E s \in signed :
            /\ s.challenge = Challenge(r.tee.key, asked[c])
            /\ s.says = "pinned"
            /\ res.trusted => Class(s.dev) = "genuine"
    BY <2>3, <2>4, <2>5, <2>6, AcceptedReport DEF GateInv
  <2>8. PICK v : v = [res |-> res, key |-> r.tee.key]
    OBVIOUS
  <2>9. v.res = res /\ v.key = r.tee.key
    BY <2>8
  <2>10. Quoted(v, asked[c])
    BY <2>7, <2>9 DEF Quoted
  <2>11. asked' = asked
    BY <1>4 DEF Deliver
  <2>12. verdict' = [verdict EXCEPT ![c] = v]
    BY <2>4, <2>8
  <2>13. DOMAIN verdict' = Clients /\ DOMAIN asked' = Clients
    BY <2>11, <2>12 DEF VerdictsInv
  <2>14. ASSUME NEW q \in Clients
         PROVE  Quoted(verdict[q], asked[q])'
    <3>1. /\ verdict'[q] = IF q = c THEN v ELSE verdict[q]
          /\ asked'[q] = asked[q]
      BY <2>11, <2>12 DEF VerdictsInv
    <3>2. CASE q = c
      BY <2>10, <3>1, <3>2, QuotedStays
    <3>3. CASE q # c
      BY <1>1, <3>1, <3>3, QuotedStays
    <3> QED
      BY <3>2, <3>3
  <2> QED
    BY <1>2, <2>13, <2>14
<1>5. CASE UNCHANGED <<verdict, asked>>
  <2>1. ASSUME NEW q \in Clients
        PROVE  Quoted(verdict[q], asked[q])'
    BY <1>1, <1>5, QuotedStays
  <2> QED
    BY <1>2, <1>5, <2>1 DEF VerdictsInv
<1> QED
  BY <1>3, <1>4, <1>5
  DEF Next, vars, Start, Stop, Remeasure, Open, VerifyForClient, Answer,
      AnsweredElsewhere, AnsweredInSoftware, QuoteFails, Tick, ExpireStale

-----------------------------------------------------------------------------
(* The theorems *)

\* A deployment starts with nothing asked, made or concluded.
LEMMA AttestStarts == Init => AttestInv
<1> SUFFICES ASSUME Init
             PROVE  AttestInv
  OBVIOUS
<1>1. GateInv
  BY GateStarts
<1>2. RequestsInv
  <2>1. /\ entries = {} /\ wire = {} /\ DOMAIN blob = 1 .. MaxReports
        /\ node["node"] = Down /\ node["other"] = Running("other", Registers)
    BY DEF Init
  <2>2. IsFiniteSet(entries) /\ IsFiniteSet(wire)
    BY <2>1, FS_EmptySet
  <2>3. ~node["node"].up
    BY DEF Init, Down
  <2>4. conf.src = "soft" => node["other"].pcrs = Measured("config")
    BY <2>1 DEF Running, TakeMeasurements
  <2> QED
    BY <2>1, <2>2, <2>3, <2>4 DEF RequestsInv
<1>3. WireInv
  BY DEF Init, WireInv
<1>4. VerdictsInv
  <2>1. ~NoResult.res.ok
    BY DEF NoResult, Refused
  <2>2. /\ DOMAIN verdict = Clients /\ DOMAIN asked = Clients
        /\ \A c \in Clients : verdict[c] = NoResult
    BY DEF Init
  <2> QED
    BY <2>1, <2>2 DEF VerdictsInv, AcceptedIsQuoted
<1> QED
  BY <1>1, <1>2, <1>3, <1>4 DEF AttestInv

\* The parts of the invariant hold together, at every step of the node, the
\* other machine, the transport and the clients.
THEOREM AttestationInductive == Spec => []AttestInv
<1>1. AttestInv /\ [Next]_vars => AttestInv'
  BY GateNext, RequestsNext, WireNext, VerdictsNext DEF AttestInv
<1> QED
  BY <1>1, AttestStarts, PTL DEF Spec

\* AttestationReport::verify and is_hardware_rooted: a client that concludes
\* "hardware rooted" was answered by the holder of an attestation key who signed
\* for its challenge, the key it now trusts and the pinned measurements, whatever
\* the transport replayed, joined or signed anew, for any number of clients and
\* reports; a key it calls trusted is a genuine platform's.
THEOREM AcceptedAreQuoted == Spec => []AcceptedIsQuoted
<1>1. AttestInv => AcceptedIsQuoted
  BY DEF AttestInv, VerdictsInv
<1> QED
  BY <1>1, AttestationInductive, PTL

\* The verifier refuses no sound node: a report of a genuine machine that
\* measured as pinned, delivered as it was made while it is fresh, verifies
\* and, on a hardware source, is hardware rooted.
THEOREM HonestReportsVerify == Spec => []HonestReportVerifies
<1>1. AttestInv => HonestReportVerifies
  BY HonestReport DEF AttestInv, GateInv, WireInv, HonestReportVerifies
<1> QED
  BY <1>1, AttestationInductive, PTL
=============================================================================
