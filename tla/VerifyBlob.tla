----------------------------- MODULE VerifyBlob -----------------------------
(***************************************************************************)
(* The verify-blob operation (internal/cosign/verifyblob.go): calls of     *)
(* executeVerifyBlob that read a blob, a certificate, a signature and a    *)
(* bundle one after the other from a file system that others write to.     *)
(* One action is one such read, with the computation that follows it.      *)
(*                                                                         *)
(* Why a call ends is told apart further than its error does: "rejected"   *)
(* is what the files, the log and the input decide, "failed" is a fault    *)
(* of the environment (a read error, an unreachable service).              *)
(*                                                                         *)
(* An operator BUG_... is a plausible mistake in the definition after it;  *)
(* nothing uses it here (see README.md, "Seeded bugs").                    *)
(***************************************************************************)
EXTENDS BlobFiles

CONSTANTS
    Verifications,  \* executeVerifyBlob invocations
    Identity,       \* who the certificate of a keyless signature names
    Authorities,    \* certificate authorities
    Authority,      \* the one that issued it
    PublicGood,     \* the one of sigstore's public trust root
    Distributed,    \* whose keys the TUF client has: the CT logs, by the
                    \* authority that uses them, and Rekor
    NoOne,          \* stands for "no identity", "no authority"
    Inputs          \* the validated inputs the host may send

Identities  == {Identity[c] : c \in Calls}
Rekor       == "rekor"

(* The blob is a path or inline content; the signature a path or inline.   *)
VerifyBlobConfig ==
    [blob : Blobs \cup Contents, signature : Paths \cup {NoPath, Inline},
     bundle : Paths \cup {NoPath}, format : Formats,
     key : Keys \cup {Keyless}, certificate : Paths \cup {NoPath},
     identity : Identities \cup {NoOne},
     certChain : Authorities \cup {NoOne}, caRoots : Authorities \cup {NoOne},
     trustedRoot : Authorities \cup {NoOne},
     rekor : BOOLEAN, ignoreTlog : BOOLEAN]

(* What parseVerifyBlobConfig lets through (see SignInput).                *)
InputsValid ==
    /\ Inputs \subseteq VerifyBlobConfig
    /\ \A in \in Inputs :
         /\ in.format = SigstoreFormat => in.bundle # NoPath
         /\ in.format = SigstoreFormat <=> in.trustedRoot # NoOne
         /\ in.key # Keyless => in.certificate = NoPath /\ in.identity = NoOne
         /\ in.key = Keyless =>
              in.identity # NoOne /\ (in.certificate # NoPath \/ in.bundle # NoPath)
AuthoritiesValid ==
    /\ Authority \in [Calls -> Authorities] /\ PublicGood \in Authorities
    /\ Distributed \subseteq Authorities \cup {Rekor} /\ PublicGood \in Distributed
    /\ NoOne \notin Identities \cup Authorities
    /\ Blobs \cap Contents = {} /\ Inline \notin Paths

VARIABLES
    pc,             \* how far each call has come
    cfg,            \* its verifyBlobConfig
    digest,         \* content its digest is of
    temps,          \* calls whose temporary file exists
    evidence,       \* signature, certificates and entry it has loaded
    outcome,        \* how it will end
    bundleVerified, \* the output of that name
    blobs, files,   \* file system, see SignBlob
    tlog            \* Rekor, see SignBlob

local == <<pc, cfg, digest, temps, evidence, outcome, bundleVerified>>
world == <<blobs, files, tlog>>

NoSignature == [key |-> NoCert, content |-> NoContent, by |-> NoCert]
(* Something that is nobody's signature.                                   *)
Garbage     == [key |-> NoCert, content |-> NoContent, by |-> Inline]
NoEvidence  == [sig |-> NoSignature, given |-> NoCert, cert |-> NoCert, entry |-> 0]

Running == {"parsed", "copied", "read", "verifier", "signature", "loaded"}
-----------------------------------------------------------------------------
Init ==
    /\ pc = [v \in Verifications |-> "idle"]
    /\ cfg \in [Verifications -> Inputs]
    /\ digest = [v \in Verifications |-> NoContent]
    /\ temps = {}
    /\ evidence = [v \in Verifications |-> NoEvidence]
    /\ outcome = [v \in Verifications |-> "none"]
    /\ bundleVerified = [v \in Verifications |-> FALSE]

Goto(v, from, to) == pc[v] = from /\ pc' = [pc EXCEPT ![v] = to]
End(v, how) ==
    /\ pc' = [pc EXCEPT ![v] = "returning"]
    /\ outcome' = [outcome EXCEPT ![v] = how]

(* The call is made, with signature s if the input has one inline.         *)
ExecuteVerifyBlob(v, s) ==
    /\ Goto(v, "idle", "parsed")
    /\ evidence' = [evidence EXCEPT ![v].sig = s]
    /\ UNCHANGED <<cfg, digest, temps, outcome, bundleVerified, world>>

(* writeTempBlob: inline content goes to a file of its own.                *)
WriteTempBlob(v) ==
    /\ cfg[v].blob \in Contents
    /\ Goto(v, "parsed", "copied")
    /\ temps' = temps \cup {v}
    /\ UNCHANGED <<cfg, digest, evidence, outcome, bundleVerified, world>>

BUG_ReadBlob(v) ==
    /\ pc[v] \in {"parsed", "copied"} /\ Goto(v, pc[v], "read")
    /\ digest' = [digest EXCEPT ![v] = cfg[v].blob]
    /\ UNCHANGED <<cfg, temps, evidence, outcome, bundleVerified, world>>

(* The blob is read once; digest and verification are of the same bytes.   *)
ReadBlob(v) ==
    /\ \/ cfg[v].blob \in Blobs /\ Goto(v, "parsed", "read")
          /\ digest' = [digest EXCEPT ![v] = blobs[cfg[v].blob]]
       \/ Goto(v, "copied", "read") /\ digest' = [digest EXCEPT ![v] = cfg[v].blob]
    /\ UNCHANGED <<cfg, temps, evidence, outcome, bundleVerified, world>>

(* The trusted root or the key is loaded, or the certificate file; then    *)
(* Rekor's public keys and the certificate authorities.                    *)
LoadVerifier(v) ==
    /\ pc[v] = "read"
    /\ LET f == files[cfg[v].certificate] IN
       \/ cfg[v].certificate = NoPath
          /\ Goto(v, "read", "verifier") /\ UNCHANGED <<evidence, outcome>>
       \/ cfg[v].certificate # NoPath /\ f.kind = "certificate"
          /\ Goto(v, "read", "verifier")
          /\ evidence' = [evidence EXCEPT ![v].given = f.cert] /\ UNCHANGED outcome
       \/ cfg[v].certificate # NoPath /\ f.kind # "certificate"
          /\ End(v, "rejected") /\ UNCHANGED evidence
    /\ UNCHANGED <<cfg, digest, temps, bundleVerified, world>>

(* loadSignatureAndLegacyBundle, first half.  Inline, what is not base64   *)
(* is refused; a file that is not is encoded.  An empty file is no         *)
(* signature, which leaves the bundle's.                                   *)
LoadSignature(v) ==
    /\ cfg[v].format = LegacyFormat /\ pc[v] = "verifier"
    /\ LET f == files[cfg[v].signature] IN
       \/ cfg[v].signature \notin Paths
          /\ Goto(v, "verifier", "signature") /\ UNCHANGED <<evidence, outcome>>
       \/ cfg[v].signature \in Paths /\ f # Absent
          /\ Goto(v, "verifier", "signature") /\ UNCHANGED outcome
          /\ evidence' = [evidence EXCEPT ![v].sig =
                 IF f.kind = "signature" THEN f.sig
                 ELSE IF f = Empty THEN NoSignature ELSE Garbage]
       \/ cfg[v].signature \in Paths /\ f = Absent
          /\ End(v, "rejected") /\ UNCHANGED evidence
       \/ cfg[v].signature = Inline /\ evidence[v].sig = Garbage
          /\ End(v, "rejected") /\ UNCHANGED evidence
    /\ UNCHANGED <<cfg, digest, temps, bundleVerified, world>>

(* What FetchLocalSignedPayloadFromPath makes of a file: an object without *)
(* the legacy fields has neither signature nor certificate nor entry.      *)
ReadsAsLegacy(f)   == f.kind = "bundle"
ReadsAsSigstore(f) == f.kind = "bundle" /\ f.format = SigstoreFormat
Adopt(e, f) ==
    IF f.format # LegacyFormat THEN e
    ELSE [e EXCEPT !.sig = IF e.sig = NoSignature THEN f.sig ELSE e.sig,
                   !.cert = f.cert, !.entry = f.entry]

(* Its second half: the bundle's certificate and entry, and its signature  *)
(* if there is no other.                                                   *)
LoadLegacyBundle(v) ==
    /\ cfg[v].format = LegacyFormat /\ pc[v] = "signature"
    /\ LET f == IF cfg[v].bundle = NoPath THEN Absent ELSE files[cfg[v].bundle]
           e == IF ReadsAsLegacy(f) THEN Adopt(evidence[v], f) ELSE evidence[v]
           ok == (cfg[v].bundle = NoPath \/ ReadsAsLegacy(f)) /\ e.sig # NoSignature
       IN
       \/ ok /\ Goto(v, "signature", "loaded") /\ UNCHANGED outcome
          /\ evidence' = [evidence EXCEPT ![v] = e]
       \/ ~ok /\ End(v, "rejected") /\ UNCHANGED evidence
    /\ UNCHANGED <<cfg, digest, temps, bundleVerified, world>>

(* verifyBlobBundle: everything comes from the bundle, not from a separate *)
(* signature or certificate that the input may name.                       *)
LoadSigstoreBundle(v) ==
    /\ cfg[v].format = SigstoreFormat /\ pc[v] = "verifier"
    /\ LET f == files[cfg[v].bundle] IN
       \/ ReadsAsSigstore(f) /\ Goto(v, "verifier", "loaded") /\ UNCHANGED outcome
          /\ evidence' = [evidence EXCEPT ![v] =
                 [@ EXCEPT !.sig = f.sig, !.cert = f.cert, !.entry = f.entry]]
       \/ ~ReadsAsSigstore(f) /\ End(v, "rejected") /\ UNCHANGED evidence
    /\ UNCHANGED <<cfg, digest, temps, bundleVerified, world>>
-----------------------------------------------------------------------------
(* The decision.                                                           *)

(* setLegacyVerifyTrust: one set of anchors replaces the next.             *)
Anchor(v) ==
    IF cfg[v].format = SigstoreFormat THEN cfg[v].trustedRoot
    ELSE IF cfg[v].certChain # NoOne THEN cfg[v].certChain
    ELSE IF cfg[v].caRoots # NoOne THEN cfg[v].caRoots
    ELSE PublicGood

(* verifyBlobLegacy: the bundle's certificate, which must be the given one *)
(* if there is one, else the given one.                                    *)
Certificate(v) ==
    IF evidence[v].cert # NoCert \/ cfg[v].format = SigstoreFormat
    THEN evidence[v].cert ELSE evidence[v].given

BUG_NoConflict(v) == FALSE
(* Both were given, and differ.                                            *)
Conflict(v) ==
    /\ cfg[v].format = LegacyFormat
    /\ NoCert \notin {evidence[v].given, evidence[v].cert}
    /\ evidence[v].given # evidence[v].cert

(* On the legacy path co.CTLogPubKeys and co.RekorPubKeys are always those *)
(* of the TUF client, whatever the anchor; a trusted root has its own.     *)
KeysAtHand(v, s) == cfg[v].format = LegacyFormat => s \in Distributed

BUG_IdentityNotChecked(v) ==
    /\ Certificate(v) \in Calls
    /\ Authority[Certificate(v)] = Anchor(v)
    /\ KeysAtHand(v, Authority[Certificate(v)])

(* cosign's check of a certificate against co.RootCerts, of the timestamp  *)
(* embedded in it against co.CTLogPubKeys, and against co.Identities.      *)
CertificateTrusted(v) ==
    /\ Certificate(v) \in Calls
    /\ Authority[Certificate(v)] = Anchor(v)
    /\ KeysAtHand(v, Authority[Certificate(v)])
    /\ Identity[Certificate(v)] = cfg[v].identity

(* The signature is over these bytes, by the key or the certificate.       *)
SignatureValid(v) ==
    /\ evidence[v].sig.content = digest[v]
    /\ \/ cfg[v].key # Keyless /\ evidence[v].sig.key = cfg[v].key
       \/ /\ cfg[v].key = Keyless /\ CertificateTrusted(v)
          /\ evidence[v].sig.key = Certificate(v)

BUG_EntryOptional(v) ==
    /\ evidence[v].entry # 0 =>
         tlog[evidence[v].entry] = [sig |-> evidence[v].sig, digest |-> digest[v]]
    /\ evidence[v].entry = 0 => cfg[v].rekor

(* The entry in the bundle is of this signature and digest; without one,   *)
(* the legacy path asks Rekor, if a rekor_url is given.  Either is signed  *)
(* with Rekor's key.                                                       *)
EntryFound(v) ==
    LET own == [sig |-> evidence[v].sig, digest |-> digest[v]] IN
    /\ KeysAtHand(v, Rekor)
    /\ \/ evidence[v].entry \in 1 .. Len(tlog) /\ tlog[evidence[v].entry] = own
       \/ /\ evidence[v].entry = 0 /\ cfg[v].format = LegacyFormat /\ cfg[v].rekor
          /\ \E i \in 1 .. Len(tlog) : tlog[i] = own

Accepts(v) ==
    /\ ~Conflict(v)
    /\ SignatureValid(v)
    /\ cfg[v].ignoreTlog \/ EntryFound(v)

(* A certificate lives ten minutes.  Without a log entry to date the       *)
(* signature by, it is compared with the current time.                     *)
MayHaveExpired(v) == cfg[v].key = Keyless /\ cfg[v].ignoreTlog

(* VerifyBlobSignature returns whether it checked the log.                 *)
VerifyBlobSignature(v) ==
    /\ cfg[v].format = LegacyFormat /\ pc[v] = "loaded"
    /\ \/ Accepts(v) /\ End(v, "verified")
          /\ bundleVerified' = [bundleVerified EXCEPT ![v] = ~cfg[v].ignoreTlog]
       \/ (~Accepts(v) \/ MayHaveExpired(v)) /\ End(v, "rejected")
          /\ UNCHANGED bundleVerified
    /\ UNCHANGED <<cfg, digest, temps, evidence, world>>

(* verifyBlobBundle returns true when VerifyNewBundle returns no error.    *)
VerifyNewBundle(v) ==
    /\ cfg[v].format = SigstoreFormat /\ pc[v] = "loaded"
    /\ \/ Accepts(v) /\ End(v, "verified")
          /\ bundleVerified' = [bundleVerified EXCEPT ![v] = TRUE]
       \/ (~Accepts(v) \/ MayHaveExpired(v)) /\ End(v, "rejected")
          /\ UNCHANGED bundleVerified
    /\ UNCHANGED <<cfg, digest, temps, evidence, world>>

(* What the call has loaded is lost with it.                               *)
Forget(v) ==
    /\ digest' = [digest EXCEPT ![v] = NoContent]
    /\ evidence' = [evidence EXCEPT ![v] = NoEvidence]

(* The environment lets the call down: a file, KMS, TUF or Rekor.          *)
Fail(v) ==
    /\ pc[v] \in Running
    /\ End(v, "failed")
    /\ Forget(v)
    /\ UNCHANGED <<cfg, temps, bundleVerified, world>>

BUG_RemovedOnSuccessOnly(v) ==
    /\ Goto(v, "returning", "done")
    /\ temps' = IF outcome[v] = "verified" THEN temps \ {v} ELSE temps
    /\ UNCHANGED <<cfg, digest, evidence, outcome, bundleVerified, world>>

(* The deferred os.Remove, on every way out.                               *)
Return(v) ==
    /\ Goto(v, "returning", "done")
    /\ temps' = temps \ {v}
    /\ UNCHANGED <<cfg, digest, evidence, outcome, bundleVerified, world>>

(* The process is stopped: deferred functions do not run.                  *)
Killed(v) ==
    /\ pc[v] \in Running \cup {"returning"}
    /\ pc' = [pc EXCEPT ![v] = "killed"]
    /\ outcome' = [outcome EXCEPT ![v] = "none"]
    /\ bundleVerified' = [bundleVerified EXCEPT ![v] = FALSE]
    /\ Forget(v)
    /\ UNCHANGED <<cfg, temps, world>>

Step(v) ==
    \/ WriteTempBlob(v) \/ ReadBlob(v) \/ LoadVerifier(v) \/ LoadSignature(v)
    \/ LoadLegacyBundle(v) \/ LoadSigstoreBundle(v)
    \/ VerifyBlobSignature(v) \/ VerifyNewBundle(v)
    \/ Fail(v) \/ Return(v) \/ Killed(v)
-----------------------------------------------------------------------------
TypeOK ==
    /\ pc \in [Verifications -> Running \cup {"idle", "returning", "done", "killed"}]
    /\ cfg \in [Verifications -> Inputs]
    /\ digest \in [Verifications -> Contents \cup {NoContent}]
    /\ temps \subseteq Verifications
    /\ evidence \in [Verifications ->
          [sig : Signatures \cup {NoSignature, Garbage}, given : Calls \cup {NoCert},
           cert : Calls \cup {NoCert}, entry : Nat]]
    /\ outcome \in [Verifications -> {"none", "verified", "rejected", "failed"}]
    /\ bundleVerified \in [Verifications -> BOOLEAN]
=============================================================================
