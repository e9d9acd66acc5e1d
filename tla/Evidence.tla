------------------------------ MODULE Evidence ------------------------------
(***************************************************************************)
(* What AttestationReport::verify (cordon-crypto) establishes about a      *)
(* report: the operators of the verifier, with the three kinds of platform *)
(* evidence it knows, a TPM 2.0 quote, an AMD SEV-SNP report and an AWS    *)
(* Nitro document.                                                         *)
(*                                                                         *)
(* Digests are injective here: a digest is the value it is taken of.  A    *)
(* signature is [by, over]: the key and the exact value it covers.  An     *)
(* optional field is a set of at most one element; a byte string that does *)
(* not decode is a structure whose form is "garbled".                      *)
(***************************************************************************)
EXTENDS Naturals, Sequences

----------------------------------------------------------------------------
(* Challenges and digests                                                  *)

\* CanonicalWriter: a named section, every field behind its length, so no two
\* different contents have one encoding.
Canonical(section, fields) == <<section, fields>>

\* attestation_challenge: one digest over the response-signing key and the
\* verifier's nonce, each with its length.
Challenge(key, nonce) == Canonical("challenge", <<key, nonce>>)

\* REPORT_DATA is 64 bytes wide: the challenge is padded, never cut.
Padded(challenge) == <<challenge, "zeros">>

\* compute_combined_hash: over all three parts of a report.  Nothing signs it.
TpmCanonical(tpm) == Canonical("tpm", tpm)
TeeCanonical(tee) == Canonical("tee", tee)
EvidenceCanonical(evidence) == Canonical("platform", evidence)

CombinedHash(tpm, tee, evidence) ==
    Canonical("combined", <<TpmCanonical(tpm), TeeCanonical(tee), EvidenceCanonical(evidence)>>)

\* A report that carries the digest of its own contents.
MkReport(tpm, tee, evidence) ==
    [tpm |-> tpm, tee |-> tee, ev |-> evidence, hash |-> CombinedHash(tpm, tee, evidence)]

SignatureHolds(sig, key, message) == sig.by = key /\ sig.over = message

----------------------------------------------------------------------------
(* Certificates: [subject, issuer, by, key, life]                          *)

VerifySignedBy(child, parent) == child.issuer = parent.subject /\ child.by = parent.key

\* Every link of the walk, and the last one to the root the verifier pinned.
VerifyChainToRoot(leaf, intermediates, root) ==
    LET path == <<leaf>> \o intermediates \o <<root>>
    IN  \A i \in 1..(Len(path) - 1) : VerifySignedBy(path[i], path[i + 1])

IsCurrentlyValid(cert, age) == age <= cert.life

----------------------------------------------------------------------------
(* TPM 2.0                                                                 *)

\* Pinned registers must be present and equal; others are not looked at.
VerifyAgainst(claimed, expected) ==
    \A i \in DOMAIN expected : i \in DOMAIN claimed /\ claimed[i] = expected[i]

\* A software report has none of the three; a node that could not read its
\* attestation key has the first two only.
HasHardwareEvidence(tpm) == tpm.msg # {} /\ tpm.sig # {} /\ tpm.aik # {}

\* AttestQuote::parse: TPM_GENERATED, of type quote, not cut short.
AttestParses(msg) == msg.form = "quote"

\* Mutation: the claimed registers are not compared with the quoted ones.
PcrDigestUnchecked(claimed, msg) == TRUE

\* The claimed registers are exactly the quoted ones and hash to the digest.
PcrDigestMatches(claimed, msg) ==
    DOMAIN claimed = DOMAIN msg.pcrs /\ claimed = msg.pcrs

\* Mutation: an old quote is as good as a new one.
NonceUnchecked(msg, challenge) == TRUE

NonceMatches(msg, challenge) == msg.extra = challenge

\* verify_quote: under the attestation key the report itself supplies.
VerifyQuote(tpm, challenge) ==
    \A msg \in tpm.msg, sig \in tpm.sig, ak \in tpm.aik :
        /\ AttestParses(msg)
        /\ SignatureHolds(sig, ak, msg)
        /\ NonceMatches(msg, challenge)
        /\ PcrDigestMatches(tpm.pcrs, msg)

----------------------------------------------------------------------------
(* AMD SEV-SNP                                                             *)

\* SevSnpReport::parse (no shorter than a report; what follows it is dropped),
\* the signature algorithm it declares and scalars that fit P-384.
SnpParses(report) == report.body.form = "report"

\* Every security version at or above the pinned floor.
IsAtLeast(tcb, floor) == tcb >= floor

\* The expected VMPL, and no debugging when the pins refuse it.
PolicyAcceptable(body, pins) ==
    /\ body.vmpl = pins.vmpl
    /\ ~(pins.refuseDebug /\ body.debug)

\* verify_report and first_failure: the chain starts at the VCEK the report
\* brings and ends at the pinned root, never at a root the report brings.
SnpVerifies(ev, pins, measurement, challenge) ==
    /\ SnpParses(ev.report)
    /\ ev.vcek # {}
    /\ \A vcek \in ev.vcek :
          /\ VerifyChainToRoot(vcek, ev.chain, pins.root)
          /\ SignatureHolds(ev.report.sig, vcek.key, ev.report.body)
    /\ ev.report.body.data = Padded(challenge)
    /\ measurement = {ev.report.body.meas}
    /\ IsAtLeast(ev.report.body.tcb, pins.tcb)
    /\ PolicyAcceptable(ev.report.body, pins)

----------------------------------------------------------------------------
(* AWS Nitro                                                               *)

\* CoseSign1::parse: four items, ES384 named by the signed header, a payload.
CoseParses(doc) == doc.alg = "ES384"

\* NitroAttestationDoc::parse: registers and a certificate bundle present.
DocParses(body) == DOMAIN body.pcrs # {} /\ body.cabundle # <<>>

\* The bundle is root first and its own root is dropped.
Intermediates(body) ==
    LET n == Len(body.cabundle) IN [i \in 1..(n - 1) |-> body.cabundle[n + 1 - i]]

\* verify_document and first_failure; age is the verifier's clock minus the
\* document's timestamp.
NitroVerifies(doc, pins, challenge, age) ==
    /\ CoseParses(doc) /\ DocParses(doc.body)
    /\ SignatureHolds(doc.sig, doc.body.cert.key, <<doc.alg, doc.body>>)
    /\ pins.root # {}
    /\ \A root \in pins.root : VerifyChainToRoot(doc.body.cert, Intermediates(doc.body), root)
    /\ IsCurrentlyValid(doc.body.cert, age)
    /\ \A i \in DOMAIN doc.body.cabundle : IsCurrentlyValid(doc.body.cabundle[i], age)
    /\ doc.body.nonce = {challenge}
    /\ DOMAIN pins.pcrs # {} /\ VerifyAgainst(doc.body.pcrs, pins.pcrs)
    /\ pins.maxAge = 0 \/ age <= pins.maxAge

----------------------------------------------------------------------------
(* AttestationReport::verify                                               *)

Refused == [ok |-> FALSE, quote |-> "absent", trusted |-> FALSE, binds |-> FALSE]

\* ExpectedMeasurements::is_empty
PinsNothing(pins) ==
    /\ DOMAIN pins.pcrs = {} /\ pins.mrenclave = {} /\ pins.mrsigner = {}
    /\ \A n \in pins.nitro : DOMAIN n.pcrs = {}

\* An unpinned value is skipped.
Matches(value, pinned) == pinned = {} \/ pinned = {value}

MeasurementsMatch(r, pins) ==
    /\ VerifyAgainst(r.tpm.pcrs, pins.pcrs)
    /\ Matches(r.tee.mrenclave, pins.mrenclave)
    /\ Matches(r.tee.mrsigner, pins.mrsigner)
    /\ r.tee.svn >= pins.svn
    /\ r.tee.type = pins.type

\* Evidence whose vendor root is not pinned is refused, not ignored.
SevSnpEvidenceHolds(r, pins, challenge) ==
    pins.sev # {} /\ \A p \in pins.sev : SnpVerifies(r.ev, p, pins.mrenclave, challenge)

NitroEvidenceHolds(r, pins, challenge, age) ==
    pins.nitro # {} /\ \A p \in pins.nitro : NitroVerifies(r.ev.doc, p, challenge, age)

\* The quote commits to the declared signing key, if there is one.
Verified(r, trusted) ==
    [ok |-> TRUE, quote |-> "verified", trusted |-> trusted, binds |-> r.tee.key # "no key"]

\* A TPM quote proves its key's holder and never that the key is a TPM's; a
\* report without one is a software measurement, not an error.
VerifyTpmQuote(r, challenge) ==
    IF ~HasHardwareEvidence(r.tpm) THEN [Refused EXCEPT !.ok = TRUE]
    ELSE IF VerifyQuote(r.tpm, challenge) THEN Verified(r, FALSE) ELSE Refused

\* verify_platform_quote: confidential-VM evidence takes precedence.
PlatformQuote(r, pins, nonce, age) ==
    LET challenge == Challenge(r.tee.key, nonce)
    IN  IF r.ev.kind = "sev"
        THEN IF SevSnpEvidenceHolds(r, pins, challenge) THEN Verified(r, TRUE) ELSE Refused
        ELSE IF r.ev.kind = "nitro"
        THEN IF NitroEvidenceHolds(r, pins, challenge, age) THEN Verified(r, TRUE) ELSE Refused
        ELSE VerifyTpmQuote(r, challenge)

Verify(r, pins, nonce, age) ==
    IF /\ ~PinsNothing(pins)
       /\ r.hash = CombinedHash(r.tpm, r.tee, r.ev)
       /\ r.tpm.nonce = nonce
       /\ MeasurementsMatch(r, pins)
    THEN PlatformQuote(r, pins, nonce, age)
    ELSE Refused

IsHardwareRooted(res) == res.quote = "verified" /\ res.binds
=============================================================================
