---------------------------- MODULE BlobPipeline ----------------------------
(***************************************************************************)
(* sign-blob and verify-blob over one file system and one log: the host    *)
(* runs both operations concurrently, or one after the other when the      *)
(* input of a verification is the output of a signing (README.md:142-197,  *)
(* "pin-and-assert before publishing").                                    *)
(***************************************************************************)
EXTENDS SignBlob

CONSTANTS
    Verifications, Identity, Authorities, Authority, PublicGood,
    Distributed, NoOne,
    VerifyInputs   \* the validated verify-blob inputs the host may send

VARIABLES
    vpc, vcfg, digest, temps, evidence, outcome, bundleVerified,
    began   \* history: the calls that had signed when a verification began

V == INSTANCE VerifyBlob WITH pc <- vpc, cfg <- vcfg, Inputs <- VerifyInputs

ASSUME VerifyInputsAssumption == V!InputsValid
ASSUME AuthoritiesAssumption  == V!AuthoritiesValid

verifying    == <<vpc, vcfg, digest, temps, evidence, outcome, bundleVerified>>
pipelineVars == <<vars, verifying, began>>

Succeeded == {c \in Calls : pc[c] = "ok"}

(* An inline signature comes from the output of a call, or is wrong.       *)
Supplied(v) ==
    IF vcfg[v].signature = Inline
    THEN {SignatureOf(c) : c \in Succeeded} \cup {V!Garbage}
    ELSE {V!NoSignature}

PipelineInit ==
    /\ Init
    /\ V!Init
    /\ began = [v \in Verifications |-> {}]

Sign == Next /\ UNCHANGED <<verifying, began>>

Begin(v) ==
    /\ \E s \in Supplied(v) : V!ExecuteVerifyBlob(v, s)
    /\ began' = [began EXCEPT ![v] = Succeeded]
    /\ UNCHANGED local

Verify(v) == V!Step(v) /\ UNCHANGED <<local, began>>

PipelineNext == Sign \/ \E v \in Verifications : Begin(v) \/ Verify(v)

PipelineSpec == PipelineInit /\ [][PipelineNext]_pipelineVars
-----------------------------------------------------------------------------
Verified(v) == vpc[v] = "done" /\ outcome[v] = "verified"

(* What the input pins: a key, or an identity under an authority, that of  *)
(* the trusted root or the chain, else of the roots, else the public one.  *)
PinnedAuthority(w, a) ==
    /\ w.trustedRoot # NoOne => a = w.trustedRoot
    /\ w.trustedRoot = NoOne /\ w.certChain # NoOne => a = w.certChain
    /\ {w.trustedRoot, w.certChain} = {NoOne} /\ w.caRoots # NoOne => a = w.caRoots
    /\ {w.trustedRoot, w.certChain, w.caRoots} = {NoOne} => a = PublicGood
PinnedSigner(v, c) ==
    IF vcfg[v].key # Keyless THEN cfg[c].key = vcfg[v].key
    ELSE /\ cfg[c].key = Keyless
         /\ Identity[c] = vcfg[v].identity
         /\ PinnedAuthority(vcfg[v], Authority[c])

VerifyTypeOK == V!TypeOK /\ began \in [Verifications -> SUBSET Calls]

(* verifyblob.go:63-157: what verify-blob accepts, and reports the digest  *)
(* of, has been signed by the pinned signer, though the blob, certificate, *)
(* signature and bundle are read one after the other while signing calls   *)
(* and others replace them.                                                *)
AcceptedWasSigned ==
    \A v \in Verifications : Verified(v) =>
        \E c \in Calls : signed[c] = digest[v] /\ PinnedSigner(v, c)

(* verifyblob.go:84-87, 113-127: unless ignore_tlog says otherwise, what   *)
(* is accepted has an entry, of that digest and by that signer.            *)
AcceptedWasLogged ==
    \A v \in Verifications : Verified(v) /\ ~vcfg[v].ignoreTlog =>
        \E i \in 1 .. Len(tlog) :
            /\ tlog[i].digest = digest[v]
            /\ PinnedSigner(v, tlog[i].sig.by)

(* verifyblob.go:166-172: "If a certificate was passed in, it must match   *)
(* the bundle's": the signature that is accepted on the legacy path was    *)
(* made with that certificate's key, though the bundle is read later.      *)
AcceptedByGivenCertificate ==
    \A v \in Verifications :
        Verified(v) /\ vcfg[v].certificate # NoPath /\ vcfg[v].format = LegacyFormat =>
            evidence[v].sig.key = evidence[v].given

(* verifyblob.go:69-76, 369-385: the temporary copy of an inline blob is   *)
(* gone when the call has returned, whatever the way; only a call that is  *)
(* stopped leaves its copy behind.                                         *)
TempsAreRemoved ==
    \A v \in temps : vpc[v] \notin {"idle", "parsed", "done"}

(* v verifies what call c wrote: with its verifier, from its files.        *)
VerifiesOutputOf(v, c) ==
    LET w == vcfg[v]  o == cfg[c].out IN
    /\ w.key = cfg[c].key
    /\ PinnedSigner(v, c)
    /\ \/ w.signature = Inline /\ evidence[v].sig.by = c
       \/ w.signature # NoPath /\ w.signature = o[Signature]
       \/ w.signature = NoPath /\ w.bundle # NoPath
    /\ w.bundle # NoPath => w.bundle = o[Bundle] /\ w.format = cfg[c].format
    /\ w.certificate # NoPath => w.certificate = o[Certificate]
(* Its log entry can be found, or need not be.                             *)
EntryWithinReach(v, c) ==
    \/ vcfg[v].ignoreTlog /\ vcfg[v].key # Keyless
    \/ ~vcfg[v].ignoreTlog /\ cfg[c].tlogUpload /\ (vcfg[v].bundle # NoPath \/ vcfg[v].rekor)

(* The services behind the signature are ones whose keys the legacy path   *)
(* has: the CT log that timestamps the certificate, and Rekor.             *)
ServicesKnown(v, c) ==
    /\ vcfg[v].key = Keyless => V!KeysAtHand(v, Authority[c])
    /\ ~vcfg[v].ignoreTlog   => V!KeysAtHand(v, V!Rekor)

(* Refused, though the signing call had returned success before the        *)
(* verification began, nobody else writes its files, and the blob is the   *)
(* one it signed.                                                          *)
Refused(v, c) ==
    /\ outcome[v] = "rejected" /\ c \in began[v] /\ Exclusive(c)
    /\ VerifiesOutputOf(v, c) /\ EntryWithinReach(v, c)
    /\ digest[v] = signed[c]

(* README.md:156, 216: what sign-blob wrote verifies, as long as the keys  *)
(* of the services it used are at hand (verifyblob.go:120-126, 276-281).   *)
SignedThenVerifies ==
    \A v \in Verifications, c \in Calls : Refused(v, c) => ~ServicesKnown(v, c)

(* README.md:199: "For private deployments, pass ca_roots/ca_intermediates *)
(* /certificate_chain (legacy path) ... instead" of sigstore's public      *)
(* trust material: with these anchors, too, what was written verifies.     *)
AnchorsSuffice ==
    \A v \in Verifications, c \in Calls :
        Refused(v, c) => {vcfg[v].certChain, vcfg[v].caRoots} = {NoOne}

(* provider.go:437: bundle_verified says "Whether the Rekor bundle was     *)
(* verified (verify-blob: offline bundle or online entry check)".          *)
BundleVerifiedMeansLogged ==
    \A v \in Verifications : Verified(v) /\ bundleVerified[v] =>
        \E i \in 1 .. Len(tlog) : tlog[i].sig = evidence[v].sig
=============================================================================
