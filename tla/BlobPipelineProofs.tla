------------------------- MODULE BlobPipelineProofs -------------------------
(***************************************************************************)
(* Theorems about sign-blob and verify-blob together, for any number of    *)
(* calls, files, identities and authorities.  What a verification holds in *)
(* its hands was made by a signing call, because all that it reads was     *)
(* (SignBlobProofs); a made signature stays made, and the log only grows,  *)
(* so what it concludes from them remains true.  Conversely, the files of  *)
(* a call that returned success stay what they are, so a verification that *)
(* reads them later finds all it needs.                                    *)
(***************************************************************************)
EXTENDS BlobPipeline, SignBlobProofs

(* With the verifications hidden, the pipeline is the signing operation.   *)
LEMMA StepSigns == PipelineNext => [Next]_vars
<1>1. ASSUME NEW v \in Verifications, Begin(v) PROVE UNCHANGED vars
  BY <1>1 DEF Begin, V!ExecuteVerifyBlob, V!world, local, vars
<1>2. ASSUME NEW v \in Verifications, Verify(v) PROVE UNCHANGED vars
  BY <1>2 DEF Verify, V!Step, V!WriteTempBlob, V!ReadBlob, V!LoadVerifier,
     V!LoadSignature, V!LoadLegacyBundle, V!LoadSigstoreBundle, V!VerifyBlobSignature,
     V!VerifyNewBundle, V!Fail, V!Return, V!Killed, V!world, local, vars
<1>3. QED  BY <1>1, <1>2 DEF PipelineNext, Sign

THEOREM PipelineSigns == PipelineSpec => Spec
<1>1. PipelineInit => Init
  BY DEF PipelineInit
<1>2. [PipelineNext]_pipelineVars => [Next]_vars
  BY StepSigns DEF pipelineVars
<1>3. QED  BY <1>1, <1>2, PTL DEF PipelineSpec, Spec

LEMMA PipelineInv == PipelineSpec => []Inv
BY PipelineSigns, InvAlways, PTL
-----------------------------------------------------------------------------
(* A signature that a verification holds is nobody's or was made.          *)
Held(s) == s \in {V!NoSignature, V!Garbage} \/ Made(s)

HasRead == {"read", "verifier", "signature", "loaded"}

(* What the verification has concluded, in terms of what others did.       *)
SignedBy(v, c) ==
    /\ pc[c] \notin {"idle", "signer"}
    /\ signed[c] = digest[v] /\ PinnedSigner(v, c)
LoggedAs(v, i) == tlog[i].digest = digest[v] /\ PinnedSigner(v, tlog[i].sig.by)

Justified(v) ==
    /\ Held(evidence[v].sig)
    /\ vpc[v] \in HasRead => digest[v] \in Contents /\ outcome[v] = "none"
    /\ vpc[v] \in {"idle", "parsed", "copied"} => outcome[v] = "none"
    /\ vpc[v] = "copied" => vcfg[v].blob \in Contents
    /\ outcome[v] = "verified" =>
         /\ \E c \in Calls : SignedBy(v, c)
         /\ ~vcfg[v].ignoreTlog => \E i \in 1 .. Len(tlog) : LoggedAs(v, i)

VerifyInv == VerifyTypeOK /\ \A v \in Verifications : Justified(v)
-----------------------------------------------------------------------------
(* The names that both operations have from BlobFiles.                     *)
LEMMA SameNames ==
    /\ V!Signatures = Signatures /\ V!Files = Files /\ V!Formats = Formats
    /\ V!NoCert = NoCert /\ V!NoPath = NoPath /\ V!NoContent = NoContent
    /\ V!Absent = Absent /\ V!Empty = Empty
    /\ V!LegacyFormat = LegacyFormat /\ V!SigstoreFormat = SigstoreFormat
BY DEF V!Signatures, V!Files, V!Formats, V!NoCert, V!NoPath, V!NoContent, V!Absent, V!Empty,
       V!LegacyFormat, V!SigstoreFormat, V!Torn, Signatures, Files, Formats, NoCert, NoPath,
       NoContent, Absent, Empty, Torn, LegacyFormat, SigstoreFormat

LEMMA FileType ==
    ASSUME NEW f \in Files
    PROVE  /\ f.kind = "certificate" => f.cert \in Calls
           /\ f.kind = "signature" => f.sig \in Signatures
           /\ f.kind = "bundle" => /\ f.format \in Formats /\ f.sig \in Signatures
                                   /\ f.cert \in Calls \cup {NoCert} /\ f.entry \in Nat
BY DEF Files, Absent, Empty, Torn

LEMMA InputType ==
    ASSUME VerifyTypeOK, NEW v \in Verifications
    PROVE  vcfg[v] \in V!VerifyBlobConfig
BY VerifyInputsAssumption DEF V!InputsValid, VerifyTypeOK, V!TypeOK

LEMMA SuppliedHeld ==
    ASSUME Inv, NEW v \in Verifications, NEW s \in Supplied(v)
    PROVE  Held(s) /\ s \in Signatures \cup {V!NoSignature, V!Garbage}
<1>1. ASSUME NEW c \in Succeeded PROVE Made(SignatureOf(c))
  BY <1>1, CallType DEF Inv, Progress, Succeeded, Made, SignatureOf
<1>2. QED  BY <1>1 DEF Supplied, Held, Made

Evidence == [sig : Signatures \cup {V!NoSignature, V!Garbage}, given : Calls \cup {NoCert},
             cert : Calls \cup {NoCert}, entry : Nat]

VerifyTypes ==
    /\ vpc \in [Verifications -> V!Running \cup {"idle", "returning", "done", "killed"}]
    /\ vcfg \in [Verifications -> VerifyInputs]
    /\ digest \in [Verifications -> Contents \cup {NoContent}]
    /\ temps \subseteq Verifications
    /\ evidence \in [Verifications -> Evidence]
    /\ outcome \in [Verifications -> {"none", "verified", "rejected", "failed"}]
    /\ bundleVerified \in [Verifications -> BOOLEAN]
    /\ began \in [Verifications -> SUBSET Calls]

LEMMA VerifyTypeParts == VerifyTypeOK <=> VerifyTypes
BY SameNames DEF VerifyTypeOK, V!TypeOK, Evidence, VerifyTypes

LEMMA VerifyTypePartsNext == VerifyTypeOK' <=> VerifyTypes'
BY VerifyTypeParts, PTL

(* What a bundle adds to the evidence.                                     *)
LEMMA AdoptType ==
    ASSUME NEW f \in Files, f.kind = "bundle", NEW e \in Evidence
    PROVE  V!Adopt(e, f) \in Evidence /\ V!Adopt(e, f).sig \in {e.sig, f.sig}
BY FileType, SameNames DEF V!Adopt, Evidence

(* What each reading of a file makes of the evidence.                      *)
LEMMA EvidenceNext ==
    ASSUME Inv, VerifyTypeOK, NEW v \in Verifications, V!Step(v)
    PROVE  evidence' \in [Verifications -> Evidence]
<1> evidence \in [Verifications -> Evidence] /\ vcfg[v] \in V!VerifyBlobConfig
  BY VerifyTypeParts, InputType DEF VerifyTypes
<1> files \in [Paths -> Files]
  BY DEF Inv, TypeOK
<1>1. CASE UNCHANGED evidence
  BY <1>1
<1>2. ASSUME NEW e \in Evidence, evidence' = [evidence EXCEPT ![v] = e]
      PROVE  evidence' \in [Verifications -> Evidence]
  BY <1>2
<1>3. CASE V!LoadVerifier(v)
  <2>1. ASSUME vcfg[v].certificate # V!NoPath, files[vcfg[v].certificate].kind = "certificate"
        PROVE  [evidence[v] EXCEPT !.given = files[vcfg[v].certificate].cert] \in Evidence
    <3>1. files[vcfg[v].certificate] \in Files
      BY <2>1, SameNames DEF V!VerifyBlobConfig
    <3>2. QED  BY <2>1, <3>1, FileType DEF Evidence
  <2>2. UNCHANGED evidence \/ ( /\ vcfg[v].certificate # V!NoPath
                                /\ files[vcfg[v].certificate].kind = "certificate"
                                /\ evidence' = [evidence EXCEPT ![v] =
                                     [@ EXCEPT !.given = files[vcfg[v].certificate].cert]] )
    BY <1>3 DEF V!LoadVerifier
  <2>3. QED  BY <2>1, <2>2
<1>4. CASE V!LoadSignature(v)
  <2>1. ASSUME vcfg[v].signature \in Paths
        PROVE  \A s \in {V!NoSignature, V!Garbage} : [evidence[v] EXCEPT !.sig = s] \in Evidence
    BY DEF Evidence
  <2>2. ASSUME vcfg[v].signature \in Paths, files[vcfg[v].signature].kind = "signature"
        PROVE  [evidence[v] EXCEPT !.sig = files[vcfg[v].signature].sig] \in Evidence
    <3>1. files[vcfg[v].signature].sig \in Signatures
      BY <2>2, FileType
    <3>2. QED  BY <3>1 DEF Evidence
  <2>3. UNCHANGED evidence \/
          /\ vcfg[v].signature \in Paths
          /\ \E s \in {V!NoSignature, V!Garbage, files[vcfg[v].signature].sig} :
               /\ evidence' = [evidence EXCEPT ![v] = [@ EXCEPT !.sig = s]]
               /\ s \in {V!NoSignature, V!Garbage} \/ files[vcfg[v].signature].kind = "signature"
    BY <1>4 DEF V!LoadSignature
  <2>4. QED  BY <2>1, <2>2, <2>3
<1>5. CASE V!LoadLegacyBundle(v)
  <2>1. UNCHANGED evidence \/ evidence' = evidence \/
          /\ vcfg[v].bundle # V!NoPath /\ files[vcfg[v].bundle].kind = "bundle"
          /\ evidence' = [evidence EXCEPT ![v] = V!Adopt(evidence[v], files[vcfg[v].bundle])]
    BY <1>5, SameNames DEF V!LoadLegacyBundle, V!ReadsAsLegacy, Absent
  <2>2. vcfg[v].bundle # V!NoPath => files[vcfg[v].bundle] \in Files
    BY SameNames DEF V!VerifyBlobConfig
  <2>3. QED  BY <2>1, <2>2, AdoptType
<1>6. CASE V!LoadSigstoreBundle(v)
  <2>1. vcfg[v].bundle \in Paths
    BY <1>6, VerifyInputsAssumption, VerifyTypeParts, SameNames
       DEF VerifyTypes, V!LoadSigstoreBundle, V!InputsValid, V!VerifyBlobConfig
  <2>2. files[vcfg[v].bundle] \in Files
    BY <2>1
  <2>3. UNCHANGED evidence \/
          /\ files[vcfg[v].bundle].kind = "bundle"
          /\ evidence' = [evidence EXCEPT ![v] =
               [@ EXCEPT !.sig = files[vcfg[v].bundle].sig, !.cert = files[vcfg[v].bundle].cert,
                         !.entry = files[vcfg[v].bundle].entry]]
    BY <1>6 DEF V!LoadSigstoreBundle, V!ReadsAsSigstore
  <2>4. ASSUME files[vcfg[v].bundle].kind = "bundle"
        PROVE  [evidence[v] EXCEPT !.sig = files[vcfg[v].bundle].sig,
                  !.cert = files[vcfg[v].bundle].cert,
                  !.entry = files[vcfg[v].bundle].entry] \in Evidence
    <3>1. /\ files[vcfg[v].bundle].sig \in Signatures
          /\ files[vcfg[v].bundle].cert \in Calls \cup {NoCert}
          /\ files[vcfg[v].bundle].entry \in Nat
      BY <2>2, <2>4, FileType
    <3>2. QED  BY <3>1 DEF Evidence
  <2>5. QED  BY <2>3, <2>4
<1>7. CASE V!Fail(v) \/ V!Killed(v)
  <2>1. V!NoEvidence \in Evidence
    BY SameNames DEF V!NoEvidence, Evidence
  <2>2. QED  BY <1>7, <2>1 DEF V!Fail, V!Killed, V!Forget
<1>8. QED
  BY <1>1, <1>3, <1>4, <1>5, <1>6, <1>7
     DEF V!Step, V!WriteTempBlob, V!ReadBlob, V!VerifyBlobSignature, V!VerifyNewBundle, V!Return

LEMMA DigestNext ==
    ASSUME Inv, VerifyInv, NEW v \in Verifications, V!Step(v)
    PROVE  digest' \in [Verifications -> Contents \cup {NoContent}]
<1> digest \in [Verifications -> Contents \cup {NoContent}] /\ blobs \in [Blobs -> Contents]
  BY VerifyTypeParts DEF VerifyTypes, VerifyInv, Inv, TypeOK
<1>1. CASE V!ReadBlob(v)
  <2>1. vpc[v] = "copied" => vcfg[v].blob \in Contents
    BY DEF VerifyInv, Justified
  <2>2. QED  BY <1>1, <2>1 DEF V!ReadBlob, V!Goto
<1>2. CASE V!Fail(v) \/ V!Killed(v)
  BY <1>2, SameNames DEF V!Fail, V!Killed, V!Forget
<1>3. QED
  BY <1>1, <1>2 DEF V!Step, V!WriteTempBlob, V!LoadVerifier, V!LoadSignature, V!LoadLegacyBundle,
     V!LoadSigstoreBundle, V!VerifyBlobSignature, V!VerifyNewBundle, V!Return

LEMMA VerifyTypeNext ==
    Inv /\ VerifyInv /\ [PipelineNext]_pipelineVars => VerifyTypeOK'
<1> SUFFICES ASSUME Inv, VerifyInv, [PipelineNext]_pipelineVars PROVE VerifyTypeOK'
  OBVIOUS
<1> VerifyTypeOK
  BY DEF VerifyInv
<1>1. ASSUME NEW v \in Verifications, Begin(v) PROVE VerifyTypeOK'
  <2>1. PICK s \in Supplied(v) : V!ExecuteVerifyBlob(v, s)
    BY <1>1 DEF Begin
  <2>2. s \in Signatures \cup {V!NoSignature, V!Garbage}
    BY SuppliedHeld
  <2>3. evidence' \in [Verifications -> Evidence]
    <3>1. evidence \in [Verifications -> Evidence]
      BY VerifyTypeParts DEF VerifyTypes
    <3>2. [evidence[v] EXCEPT !.sig = s] \in Evidence
      BY <2>2, <3>1 DEF Evidence
    <3>3. evidence' = [evidence EXCEPT ![v] = [evidence[v] EXCEPT !.sig = s]]
      BY <2>1 DEF V!ExecuteVerifyBlob
    <3>4. QED  BY <3>1, <3>2, <3>3
  <2>4. /\ vpc' \in [Verifications -> V!Running \cup {"idle", "returning", "done", "killed"}]
        /\ UNCHANGED <<vcfg, digest, temps, outcome, bundleVerified>>
    BY <2>1, VerifyTypeParts DEF VerifyTypes, V!ExecuteVerifyBlob, V!Goto, V!Running
  <2>5. began' \in [Verifications -> SUBSET Calls]
    BY <1>1, VerifyTypeParts DEF VerifyTypes, Begin, Succeeded
  <2>6. QED
    BY <2>3, <2>4, <2>5, VerifyTypeParts, VerifyTypePartsNext DEF VerifyTypes
<1>2. ASSUME NEW v \in Verifications, Verify(v) PROVE VerifyTypeOK'
  <2>1. /\ evidence' \in [Verifications -> Evidence]
        /\ digest' \in [Verifications -> Contents \cup {NoContent}]
        /\ began' = began
    BY <1>2, EvidenceNext, DigestNext DEF Verify
  <2>2. /\ vpc' \in [Verifications -> V!Running \cup {"idle", "returning", "done", "killed"}]
        /\ vcfg' = vcfg /\ temps' \subseteq Verifications
        /\ outcome' \in [Verifications -> {"none", "verified", "rejected", "failed"}]
        /\ bundleVerified' \in [Verifications -> BOOLEAN]
    <3> USE VerifyTypeParts
    <3> USE DEF VerifyTypes, Verify, V!Step, V!WriteTempBlob, V!ReadBlob, V!LoadVerifier,
            V!LoadSignature, V!LoadLegacyBundle, V!LoadSigstoreBundle, V!VerifyBlobSignature,
            V!VerifyNewBundle, V!Fail, V!Return, V!Killed, V!Goto, V!End, V!Running
    <3>1. vpc' \in [Verifications -> V!Running \cup {"idle", "returning", "done", "killed"}]
      BY <1>2
    <3>2. vcfg' = vcfg /\ temps' \subseteq Verifications
      BY <1>2
    <3>3. outcome' \in [Verifications -> {"none", "verified", "rejected", "failed"}]
      BY <1>2
    <3>4. bundleVerified' \in [Verifications -> BOOLEAN]
      BY <1>2
    <3>5. QED  BY <3>1, <3>2, <3>3, <3>4
  <2>3. QED  BY <2>1, <2>2, VerifyTypeParts, VerifyTypePartsNext DEF VerifyTypes
<1>3. CASE UNCHANGED <<verifying, began>>
  BY <1>3 DEF verifying, VerifyTypeOK, V!TypeOK
<1>4. QED  BY <1>1, <1>2, <1>3 DEF PipelineNext, Sign, pipelineVars
-----------------------------------------------------------------------------
(* The heart of it: what is accepted was made by the pinned signer.        *)
LEMMA AcceptedSigner ==
    ASSUME Inv, VerifyTypeOK, NEW v \in Verifications, digest[v] \in Contents,
           Held(evidence[v].sig), V!SignatureValid(v)
    PROVE  Made(evidence[v].sig) /\ PinnedSigner(v, evidence[v].sig.by)
<1> DEFINE s == evidence[v].sig
<1>1. s.content \in Contents
  BY DEF V!SignatureValid
<1>2. Made(s)
  BY <1>1, NamesAssumption, SameNames DEF Held, V!NoSignature, V!Garbage
<1>3. s.by \in Calls /\ s.key = Signer(s.by)
  BY <1>2 DEF Made, Signatures, SignatureOf
<1>4. cfg[s.by].key \in Keys \cup {Keyless}
  BY <1>3, CallType DEF Inv, SignBlobConfig
<1>5. CASE vcfg[v].key # Keyless
  <2>1. s.key = vcfg[v].key /\ vcfg[v].key \in Keys
    BY <1>5, InputType DEF V!SignatureValid, V!VerifyBlobConfig
  <2>2. QED  BY <1>2, <1>3, <1>4, <1>5, <2>1, KeysAssumption DEF Signer, PinnedSigner
<1>6. CASE vcfg[v].key = Keyless
  <2>1. s.key = V!Certificate(v) /\ V!CertificateTrusted(v)
    BY <1>6 DEF V!SignatureValid
  <2>2. s.key = s.by /\ cfg[s.by].key = Keyless
    BY <1>3, <1>4, <2>1, KeysAssumption DEF Signer, V!CertificateTrusted
  <2>3. Identity[s.by] = vcfg[v].identity /\ Authority[s.by] = V!Anchor(v)
    BY <2>1, <2>2 DEF V!CertificateTrusted
  <2>4. vcfg[v] \in VerifyInputs /\ vcfg[v] \in V!VerifyBlobConfig
    BY InputType DEF VerifyTypeOK, V!TypeOK
  <2>5. PinnedAuthority(vcfg[v], V!Anchor(v))
    BY <2>4, VerifyInputsAssumption DEF V!InputsValid, V!Anchor, PinnedAuthority
  <2>6. QED  BY <1>2, <1>6, <2>2, <2>3, <2>5 DEF PinnedSigner
<1>7. QED  BY <1>5, <1>6

LEMMA AcceptedIsJustified ==
    ASSUME Inv, VerifyTypeOK, NEW v \in Verifications, digest[v] \in Contents,
           Held(evidence[v].sig), V!Accepts(v)
    PROVE  /\ \E c \in Calls : SignedBy(v, c)
           /\ ~vcfg[v].ignoreTlog => \E i \in 1 .. Len(tlog) : LoggedAs(v, i)
<1> DEFINE s == evidence[v].sig
<1>1. V!SignatureValid(v) /\ s.content = digest[v]
  BY DEF V!Accepts, V!SignatureValid
<1>2. Made(s) /\ PinnedSigner(v, s.by)
  BY <1>1, AcceptedSigner
<1>3. s.by \in Calls /\ signed[s.by] = s.content /\ pc[s.by] \notin {"idle", "signer"}
  BY <1>2 DEF Made, Signatures, SignatureOf
<1>4. SignedBy(v, s.by)
  BY <1>1, <1>2, <1>3 DEF SignedBy
<1>5. ASSUME ~vcfg[v].ignoreTlog PROVE \E i \in 1 .. Len(tlog) : LoggedAs(v, i)
  <2>1. PICK i \in 1 .. Len(tlog) : tlog[i] = [sig |-> s, digest |-> digest[v]]
    BY <1>5 DEF V!Accepts, V!EntryFound
  <2>2. tlog[i].sig = s /\ tlog[i].digest = digest[v]
    BY <2>1
  <2>3. QED  BY <1>2, <2>2 DEF LoggedAs
<1>6. QED  BY <1>3, <1>4, <1>5
-----------------------------------------------------------------------------
(* What was signed or logged stays so.                                     *)
LEMMA ConclusionStays ==
    ASSUME Inv, [Next]_vars, NEW v \in Verifications,
           vcfg'[v] = vcfg[v], digest'[v] = digest[v]
    PROVE  /\ \A s : Held(s) => Held(s)'
           /\ \A c \in Calls : SignedBy(v, c) => SignedBy(v, c)'
           /\ \A i \in 1 .. Len(tlog) : LoggedAs(v, i) => i \in 1 .. Len(tlog') /\ LoggedAs(v, i)'
<1>1. cfg' = cfg
  BY DEF Next, Step, ExecuteSignBlob, SignBlob, UploadToRekor, OpenOutput, WriteOutput,
     WriteFails, Return, Fail, EditBlob, local, vars
<1>2. ASSUME NEW c \in Calls, pc[c] \notin {"idle", "signer"}
      PROVE  pc'[c] \notin {"idle", "signer"} /\ signed'[c] = signed[c]
  <2>1. CASE ExecuteSignBlob(c) \/ Step(c)
    BY <1>2, <2>1, OwnSignatureStays DEF Inv
  <2>2. ASSUME NEW e \in Calls, e # c, ExecuteSignBlob(e) \/ Step(e)
        PROVE  pc'[c] = pc[c] /\ signed'[c] = signed[c]
    BY <2>2, OthersStay DEF Inv
  <2>3. CASE UNCHANGED <<pc, signed>>
    BY <1>2, <2>3
  <2>4. QED  BY <1>2, <2>1, <2>2, <2>3 DEF Next, EditBlob, local, vars
<1>3. ASSUME NEW c \in Calls, SignedBy(v, c) PROVE SignedBy(v, c)'
  BY <1>1, <1>2, <1>3 DEF SignedBy, PinnedSigner
<1>4. ASSUME NEW i \in 1 .. Len(tlog), LoggedAs(v, i)
      PROVE  i \in 1 .. Len(tlog') /\ LoggedAs(v, i)'
  BY <1>1, <1>4, LogGrows DEF Inv, LoggedAs, PinnedSigner
<1>5. ASSUME NEW s, Held(s) PROVE Held(s)'
  BY <1>5, MadeStays DEF Inv, Held
<1>6. QED  BY <1>3, <1>4, <1>5

LEMMA JustifiedStays ==
    ASSUME Inv, [Next]_vars, NEW v \in Verifications, Justified(v),
           vpc'[v] = vpc[v], vcfg'[v] = vcfg[v], digest'[v] = digest[v],
           evidence'[v] = evidence[v], outcome'[v] = outcome[v]
    PROVE  Justified(v)'
BY ConclusionStays DEF Justified

(* Another verification is not concerned.                                  *)
LEMMA OtherVerificationsStay ==
    ASSUME VerifyTypeOK, NEW v \in Verifications, NEW w \in Verifications, w # v,
           Begin(w) \/ Verify(w)
    PROVE  /\ vpc'[v] = vpc[v] /\ vcfg'[v] = vcfg[v] /\ digest'[v] = digest[v]
           /\ evidence'[v] = evidence[v] /\ outcome'[v] = outcome[v]
BY VerifyTypeParts
   DEF VerifyTypes, Begin, Verify, V!ExecuteVerifyBlob, V!Step, V!WriteTempBlob, V!ReadBlob,
       V!LoadVerifier, V!LoadSignature, V!LoadLegacyBundle, V!LoadSigstoreBundle, V!VerifyBlobSignature,
       V!VerifyNewBundle, V!Fail, V!Return, V!Killed, V!Goto, V!End, V!Forget

(* A verification takes its evidence from the files.                       *)
LEMMA EvidenceHeld ==
    ASSUME Inv, VerifyInv, NEW v \in Verifications, V!Step(v)
    PROVE  Held(evidence'[v].sig)
<1> DEFINE w == vcfg[v]
<1> evidence \in [Verifications -> Evidence] /\ w \in V!VerifyBlobConfig /\ Held(evidence[v].sig)
  BY VerifyTypeParts, InputType DEF VerifyTypes, VerifyInv, Justified
<1> HIDE DEF w
<1>1. CASE evidence'[v].sig = evidence[v].sig
  BY <1>1
<1>2. ASSUME NEW p \in Paths, files[p].kind \in {"signature", "bundle"}
      PROVE  Held(files[p].sig) /\ files[p] \in Files
  BY <1>2 DEF Inv, TypeOK, FileOK, Signs, Held
<1>3. CASE V!LoadVerifier(v)
  BY <1>3 DEF V!LoadVerifier, Evidence
<1>4. CASE V!LoadSignature(v)
  BY <1>2, <1>4 DEF V!LoadSignature, Evidence, Held
<1>5. CASE V!LoadLegacyBundle(v)
  <2>1. UNCHANGED evidence \/
          /\ w.bundle # V!NoPath /\ files[w.bundle].kind = "bundle"
          /\ evidence'[v] = V!Adopt(evidence[v], files[w.bundle])
    BY <1>5, SameNames DEF V!LoadLegacyBundle, V!ReadsAsLegacy, Absent, w
  <2>2. w.bundle # V!NoPath => w.bundle \in Paths
    BY SameNames DEF V!VerifyBlobConfig
  <2>3. QED  BY <1>1, <1>2, <2>1, <2>2, AdoptType
<1>6. CASE V!LoadSigstoreBundle(v)
  <2>1. w.bundle \in Paths
    BY <1>6, VerifyInputsAssumption, VerifyTypeParts, SameNames
       DEF VerifyTypes, V!LoadSigstoreBundle, V!InputsValid, V!VerifyBlobConfig, VerifyInv, w
  <2>2. \/ UNCHANGED evidence
        \/ files[w.bundle].kind = "bundle" /\ evidence'[v].sig = files[w.bundle].sig
    BY <1>6 DEF V!LoadSigstoreBundle, V!ReadsAsSigstore, Evidence, w
  <2>3. QED  BY <1>1, <1>2, <2>1, <2>2
<1>7. CASE V!Fail(v) \/ V!Killed(v)
  BY <1>7 DEF V!Fail, V!Killed, V!Forget, V!NoEvidence, Held
<1>8. QED
  BY <1>1, <1>3, <1>4, <1>5, <1>6, <1>7
     DEF V!Step, V!WriteTempBlob, V!ReadBlob, V!VerifyBlobSignature, V!VerifyNewBundle, V!Return

LEMMA JustifiedNext ==
    ASSUME Inv, VerifyInv, [PipelineNext]_pipelineVars, NEW v \in Verifications
    PROVE  Justified(v)'
<1> Justified(v) /\ VerifyTypeOK /\ [Next]_vars
  BY StepSigns DEF VerifyInv, pipelineVars
<1> /\ vpc \in [Verifications -> V!Running \cup {"idle", "returning", "done", "killed"}]
    /\ outcome \in [Verifications -> {"none", "verified", "rejected", "failed"}]
    /\ digest \in [Verifications -> Contents \cup {NoContent}]
    /\ evidence \in [Verifications -> Evidence]
  BY VerifyTypeParts DEF VerifyTypes
<1>1. CASE UNCHANGED <<verifying, began>>
  BY <1>1, JustifiedStays DEF verifying
<1>2. ASSUME NEW w \in Verifications, w # v, Begin(w) \/ Verify(w) PROVE Justified(v)'
  BY <1>2, OtherVerificationsStay, JustifiedStays
<1>3. CASE Begin(v)
  <2>1. PICK s \in Supplied(v) : V!ExecuteVerifyBlob(v, s)
    BY <1>3 DEF Begin
  <2>2. Held(s)' /\ evidence'[v].sig = s
    BY <2>1, SuppliedHeld, ConclusionStays DEF V!ExecuteVerifyBlob, Evidence
  <2>3. vpc'[v] = "parsed" /\ outcome'[v] = "none"
    BY <2>1 DEF V!ExecuteVerifyBlob, V!Goto, Justified
  <2>4. QED  BY <2>2, <2>3 DEF Justified, HasRead
<1>4. ASSUME V!Step(v), UNCHANGED local PROVE Justified(v)'
  <2>1. Held(evidence'[v].sig) /\ UNCHANGED vcfg
    BY <1>4, EvidenceHeld
       DEF V!Step, V!WriteTempBlob, V!ReadBlob, V!LoadVerifier, V!LoadSignature,
           V!LoadLegacyBundle, V!LoadSigstoreBundle, V!VerifyBlobSignature, V!VerifyNewBundle,
           V!Fail, V!Return, V!Killed
  <2>2. Held(evidence[v].sig)'
    BY <1>4, <2>1 DEF local, Held, Made, SignatureOf, Signer
  <2>3. CASE V!WriteTempBlob(v)
    BY <2>1, <2>2, <2>3 DEF V!WriteTempBlob, V!Goto, Justified, HasRead
  <2>4. CASE V!ReadBlob(v)
    <3>1. vcfg[v].blob \in Blobs => blobs[vcfg[v].blob] \in Contents
      BY DEF Inv, TypeOK
    <3>2. vpc'[v] = "read" /\ digest'[v] \in Contents /\ outcome'[v] = "none"
      BY <2>4, <3>1 DEF V!ReadBlob, V!Goto, Justified
    <3>3. QED  BY <2>2, <3>2 DEF Justified, HasRead
  <2>5. CASE \/ V!LoadVerifier(v) \/ V!LoadSignature(v)
             \/ V!LoadLegacyBundle(v) \/ V!LoadSigstoreBundle(v)
    <3>1. vpc[v] \in HasRead /\ digest'[v] = digest[v]
      BY <2>5 DEF V!LoadVerifier, V!LoadSignature, V!LoadLegacyBundle, V!LoadSigstoreBundle,
         V!Goto, HasRead
    <3>2. \/ vpc'[v] \in HasRead /\ outcome'[v] = outcome[v]
          \/ vpc'[v] = "returning" /\ outcome'[v] = "rejected"
      BY <2>5 DEF V!LoadVerifier, V!LoadSignature, V!LoadLegacyBundle, V!LoadSigstoreBundle,
         V!Goto, V!End, HasRead
    <3>3. QED  BY <2>2, <3>1, <3>2 DEF Justified, HasRead
  <2>6. CASE V!VerifyBlobSignature(v) \/ V!VerifyNewBundle(v)
    <3>1. /\ vpc[v] = "loaded" /\ digest' = digest /\ UNCHANGED V!world
          /\ vpc'[v] = "returning" /\ outcome'[v] \in {"verified", "rejected"}
          /\ outcome'[v] = "verified" => V!Accepts(v)
      BY <2>6 DEF V!VerifyBlobSignature, V!VerifyNewBundle, V!End
    <3>2. digest[v] \in Contents /\ Held(evidence[v].sig)
      BY <3>1 DEF Justified, HasRead
    <3>3. ASSUME outcome'[v] = "verified"
          PROVE  /\ \E c \in Calls : SignedBy(v, c)'
                 /\ ~vcfg'[v].ignoreTlog => \E i \in 1 .. Len(tlog') : LoggedAs(v, i)'
      BY <2>1, <3>1, <3>2, <3>3, AcceptedIsJustified, ConclusionStays
    <3>4. QED  BY <2>2, <3>1, <3>3 DEF Justified, HasRead
  <2>7. CASE V!Fail(v) \/ V!Killed(v)
    BY <2>2, <2>7 DEF V!Fail, V!Killed, V!End, Justified, HasRead
  <2>8. CASE V!Return(v)
    <3>1. vpc'[v] = "done" /\ outcome' = outcome /\ digest' = digest
      BY <2>8 DEF V!Return, V!Goto
    <3>2. outcome'[v] = "verified" =>
            /\ \E c \in Calls : SignedBy(v, c)'
            /\ ~vcfg'[v].ignoreTlog => \E i \in 1 .. Len(tlog') : LoggedAs(v, i)'
      BY <2>1, <3>1, ConclusionStays DEF Justified
    <3>3. QED  BY <2>2, <3>1, <3>2 DEF Justified, HasRead
  <2>9. QED  BY <1>4, <2>3, <2>4, <2>5, <2>6, <2>7, <2>8 DEF V!Step
<1>5. QED
  BY <1>1, <1>2, <1>3, <1>4 DEF PipelineNext, Sign, Verify, pipelineVars

LEMMA VerifyInvInit == PipelineInit => VerifyInv
<1> SUFFICES ASSUME PipelineInit PROVE VerifyInv
  OBVIOUS
<1>1. V!NoEvidence \in Evidence /\ Held(V!NoEvidence.sig)
  BY SameNames DEF V!NoEvidence, Evidence, Held
<1>2. VerifyTypeOK
  BY <1>1, VerifyTypeParts, SameNames DEF VerifyTypes, PipelineInit, V!Init, V!Running
<1>3. ASSUME NEW v \in Verifications PROVE Justified(v)
  BY <1>1 DEF PipelineInit, V!Init, Justified, HasRead
<1>4. QED  BY <1>2, <1>3 DEF VerifyInv

LEMMA VerifyInvAlways == PipelineSpec => [](Inv /\ VerifyInv)
<1>1. Inv /\ VerifyInv /\ [PipelineNext]_pipelineVars => VerifyInv'
  BY VerifyTypeNext, JustifiedNext DEF VerifyInv
<1>2. QED  BY <1>1, VerifyInvInit, PipelineInv, PTL DEF PipelineSpec
-----------------------------------------------------------------------------
(* Two promises about the call itself.  Once its certificate file is read, *)
(* the certificate is at hand, and on the legacy path nothing replaces it; *)
(* its temporary file exists only while it runs.                           *)
Certified(v) ==
    vcfg[v].certificate # NoPath /\ vcfg[v].format = LegacyFormat =>
        /\ vpc[v] \in {"verifier", "signature", "loaded"} => evidence[v].given \in Calls
        /\ outcome[v] = "verified" => evidence[v].sig.key = evidence[v].given
Tidy(v) == v \in temps => vpc[v] \notin {"idle", "parsed", "done"}

OwnInv == \A v \in Verifications : Certified(v) /\ Tidy(v)

(* Without a conflict the signature is by the given certificate.           *)
LEMMA GivenDecides ==
    ASSUME VerifyTypeOK, NEW v \in Verifications, V!Accepts(v),
           vcfg[v].certificate # NoPath, vcfg[v].format = LegacyFormat,
           evidence[v].given \in Calls
    PROVE  evidence[v].sig.key = evidence[v].given
<1>1. vcfg[v].key = Keyless
  <2>1. vcfg[v] \in VerifyInputs
    BY VerifyTypeParts DEF VerifyTypes
  <2>2. QED  BY <2>1, VerifyInputsAssumption, SameNames DEF V!InputsValid
<1>2. /\ V!Certificate(v) \in {evidence[v].cert, evidence[v].given}
      /\ V!Certificate(v) # evidence[v].given => evidence[v].cert # NoCert
      /\ evidence[v].given # NoCert
  BY NamesAssumption, SameNames DEF V!Certificate, LegacyFormat, SigstoreFormat
<1>3. V!Certificate(v) = evidence[v].given
  BY <1>2, SameNames DEF V!Accepts, V!Conflict
<1>4. QED  BY <1>1, <1>3 DEF V!Accepts, V!SignatureValid

LEMMA OwnInvNext ==
    ASSUME Inv, VerifyInv, OwnInv, [PipelineNext]_pipelineVars, NEW v \in Verifications
    PROVE  Certified(v)' /\ Tidy(v)'
<1> Certified(v) /\ Tidy(v) /\ Justified(v) /\ VerifyTypeOK
  BY DEF OwnInv, VerifyInv
<1> /\ vpc \in [Verifications -> V!Running \cup {"idle", "returning", "done", "killed"}]
    /\ outcome \in [Verifications -> {"none", "verified", "rejected", "failed"}]
    /\ evidence \in [Verifications -> Evidence] /\ temps \subseteq Verifications
    /\ vcfg[v] \in V!VerifyBlobConfig
  BY VerifyTypeParts, InputType DEF VerifyTypes
<1>1. CASE UNCHANGED <<verifying, began>>
  BY <1>1 DEF verifying, Certified, Tidy
<1>2. ASSUME NEW w \in Verifications, w # v, Begin(w) \/ Verify(w)
      PROVE  Certified(v)' /\ Tidy(v)'
  <2>1. v \in temps' <=> v \in temps
    BY <1>2 DEF Begin, Verify, V!ExecuteVerifyBlob, V!Step, V!WriteTempBlob, V!ReadBlob,
       V!LoadVerifier, V!LoadSignature, V!LoadLegacyBundle, V!LoadSigstoreBundle,
       V!VerifyBlobSignature, V!VerifyNewBundle, V!Fail, V!Return, V!Killed
  <2>2. QED  BY <1>2, <2>1, OtherVerificationsStay DEF Certified, Tidy
<1>3. CASE Begin(v)
  BY <1>3 DEF Begin, V!ExecuteVerifyBlob, V!Goto, Certified, Tidy, Justified
<1>4. ASSUME V!Step(v) PROVE Certified(v)' /\ Tidy(v)'
  <2>1. CASE V!WriteTempBlob(v)
    BY <2>1 DEF V!WriteTempBlob, V!Goto, Certified, Tidy, Justified
  <2>2. CASE V!ReadBlob(v)
    BY <2>2 DEF V!ReadBlob, V!Goto, Certified, Tidy, Justified
  <2>3. CASE V!LoadVerifier(v)
    <3>1. ASSUME vcfg[v].certificate # NoPath, files[vcfg[v].certificate].kind = "certificate"
          PROVE  files[vcfg[v].certificate].cert \in Calls
      <4>1. files[vcfg[v].certificate] \in Files
        BY <3>1, SameNames DEF V!VerifyBlobConfig, Inv, TypeOK
      <4>2. QED  BY <3>1, <4>1, FileType
    <3>2. outcome[v] = "none" /\ outcome'[v] \in {"none", "rejected"} /\ vcfg' = vcfg
          /\ temps' = temps /\ vpc'[v] \in {"verifier", "returning"}
      BY <2>3 DEF V!LoadVerifier, V!Goto, V!End, Justified, HasRead
    <3>3. vpc'[v] = "verifier" /\ vcfg[v].certificate # NoPath => evidence'[v].given \in Calls
      <4>1. vpc'[v] = "verifier" /\ vcfg[v].certificate # NoPath =>
              /\ files[vcfg[v].certificate].kind = "certificate"
              /\ evidence' = [evidence EXCEPT ![v] =
                                [@ EXCEPT !.given = files[vcfg[v].certificate].cert]]
        BY <2>3, SameNames DEF V!LoadVerifier, V!Goto, V!End
      <4>2. QED  BY <3>1, <4>1 DEF Evidence
    <3>4. QED  BY <2>3, <3>2, <3>3 DEF Certified, Tidy, V!LoadVerifier
  <2>4. CASE V!LoadSignature(v) \/ V!LoadLegacyBundle(v) \/ V!LoadSigstoreBundle(v)
    <3>1. /\ vpc[v] \in {"verifier", "signature"} /\ outcome[v] = "none" /\ vcfg' = vcfg
          /\ temps' = temps /\ outcome'[v] \in {"none", "rejected"}
          /\ vpc'[v] \notin {"idle", "parsed", "done"}
      BY <2>4 DEF V!LoadSignature, V!LoadLegacyBundle, V!LoadSigstoreBundle, V!Goto, V!End,
         Justified, HasRead
    <3>2. evidence'[v].given = evidence[v].given
      <4>1. CASE V!LoadSignature(v)
        BY <4>1 DEF V!LoadSignature, Evidence
      <4>2. CASE V!LoadLegacyBundle(v)
        <5>1. \A f : V!Adopt(evidence[v], f).given = evidence[v].given
          BY DEF V!Adopt, Evidence
        <5>2. evidence'[v] = evidence[v] \/ \E f : evidence'[v] = V!Adopt(evidence[v], f)
          BY <4>2 DEF V!LoadLegacyBundle
        <5>3. QED  BY <5>1, <5>2
      <4>3. CASE V!LoadSigstoreBundle(v)
        BY <4>3 DEF V!LoadSigstoreBundle, Evidence
      <4>4. QED  BY <2>4, <4>1, <4>2, <4>3
    <3>3. QED  BY <3>1, <3>2 DEF Certified, Tidy
  <2>5. CASE V!VerifyBlobSignature(v) \/ V!VerifyNewBundle(v)
    <3>1. /\ vpc[v] = "loaded" /\ UNCHANGED <<vcfg, evidence, temps>>
          /\ vpc'[v] = "returning" /\ outcome'[v] = "verified" => V!Accepts(v)
      BY <2>5 DEF V!VerifyBlobSignature, V!VerifyNewBundle, V!End
    <3>2. vpc'[v] = "returning"
      BY <2>5 DEF V!VerifyBlobSignature, V!VerifyNewBundle, V!End
    <3>3. QED  BY <3>1, <3>2, GivenDecides DEF Certified, Tidy
  <2>6. CASE V!Fail(v) \/ V!Killed(v)
    BY <2>6 DEF V!Fail, V!Killed, V!End, Certified, Tidy
  <2>7. CASE V!Return(v)
    BY <2>7 DEF V!Return, V!Goto, Certified, Tidy
  <2>8. QED  BY <1>4, <2>1, <2>2, <2>3, <2>4, <2>5, <2>6, <2>7 DEF V!Step
<1>5. QED
  BY <1>1, <1>2, <1>3, <1>4 DEF PipelineNext, Sign, Verify, pipelineVars

LEMMA OwnInvAlways == PipelineSpec => []OwnInv
<1>1. PipelineInit => OwnInv
  BY DEF PipelineInit, V!Init, OwnInv, Certified, Tidy
<1>2. Inv /\ VerifyInv /\ OwnInv /\ [PipelineNext]_pipelineVars => OwnInv'
  BY OwnInvNext DEF OwnInv
<1>3. QED  BY <1>1, <1>2, VerifyInvAlways, PTL DEF PipelineSpec
-----------------------------------------------------------------------------
(* Last, the verification that reads no other files than those that c      *)
(* wrote and nobody else writes, and began when c had returned.            *)
ReadsOutputOf(v, c) ==
    LET w == vcfg[v]  o == cfg[c].out IN
    /\ c \in began[v] /\ Exclusive(c)
    /\ w.signature \in Paths => w.signature = o[Signature]
    /\ w.bundle # NoPath => w.bundle = o[Bundle] /\ w.format = cfg[c].format
    /\ w.certificate # NoPath => w.certificate = o[Certificate]

(* What it has gathered then, stage by stage.  An inline signature is what *)
(* the input brings.                                                       *)
CertificateFrom(v, c) == IF vcfg[v].certificate # NoPath THEN CertificateOf(c) ELSE NoCert
Gathered(v, c) ==
    LET w == vcfg[v]  e == evidence[v] IN
    /\ vpc[v] \in {"parsed", "copied", "read"} => e.given = NoCert
    /\ vpc[v] \in {"verifier", "signature", "loaded"} => e.given = CertificateFrom(v, c)
    /\ vpc[v] \in {"parsed", "copied", "read", "verifier", "signature"} =>
         e.cert = NoCert /\ e.entry = 0
    /\ vpc[v] \in {"parsed", "copied", "read", "verifier"} /\ w.signature # Inline =>
         e.sig = V!NoSignature
    /\ vpc[v] = "signature" =>
         /\ w.signature \in Paths => e.sig = SignatureOf(c)
         /\ w.signature = NoPath => e.sig = V!NoSignature
    /\ vpc[v] = "loaded" =>
         /\ w.signature \in Paths \/ w.format = SigstoreFormat => e.sig = SignatureOf(c)
         /\ w.signature = NoPath /\ w.bundle # NoPath => e.sig = SignatureOf(c)
         /\ w.bundle = NoPath => e.cert = NoCert /\ e.entry = 0
         /\ w.bundle # NoPath => e.cert = CertificateOf(c) /\ e.entry = entry[c]

(* Its entry and the keys of the services behind it can be had.            *)
Supported(v, c) == EntryWithinReach(v, c) /\ ServicesKnown(v, c)

(* And if it refuses them, it is for the blob.                             *)
RefusedForBlob(v, c) ==
    outcome[v] = "rejected" /\ VerifiesOutputOf(v, c) /\ Supported(v, c) =>
        digest[v] # signed[c]

OutputInv ==
    \A v \in Verifications :
        /\ vpc[v] = "idle" => evidence[v] = V!NoEvidence
        /\ \A c \in began[v] : pc[c] = "ok"
        /\ \A c \in Calls : ReadsOutputOf(v, c) => Gathered(v, c) /\ RefusedForBlob(v, c)
-----------------------------------------------------------------------------
(* A call that has returned success has ended.                             *)
LEMMA EndedStays ==
    ASSUME Inv, [Next]_vars
    PROVE  /\ cfg' = cfg
           /\ \A c \in Calls : pc[c] = "ok" =>
                /\ pc'[c] = "ok" /\ signed'[c] = signed[c] /\ entry'[c] = entry[c]
                /\ SignatureOf(c)' = SignatureOf(c)
<1>1. cfg' = cfg
  BY DEF Next, Step, ExecuteSignBlob, SignBlob, UploadToRekor, OpenOutput, WriteOutput,
     WriteFails, Return, Fail, EditBlob, local, vars
<1>2. ASSUME NEW c \in Calls, pc[c] = "ok"
      PROVE  pc'[c] = "ok" /\ signed'[c] = signed[c] /\ entry'[c] = entry[c]
  <2>1. ~ExecuteSignBlob(c) /\ ~Step(c)
    BY <1>2 DEF ExecuteSignBlob, Step, SignBlob, UploadToRekor, OpenOutput, WriteOutput,
       WriteFails, Return, Fail, Ready, Goto
  <2>2. ASSUME NEW e \in Calls, e # c, ExecuteSignBlob(e) \/ Step(e)
        PROVE  pc'[c] = pc[c] /\ signed'[c] = signed[c] /\ entry'[c] = entry[c]
    BY <2>2, OthersStay DEF Inv
  <2>3. QED  BY <1>2, <2>1, <2>2 DEF Next, EditBlob, local, vars
<1>3. QED  BY <1>1, <1>2 DEF SignatureOf, Signer

LEMMA InlineIsNoPath == Inline \notin Paths \cup {NoPath}
BY AuthoritiesAssumption DEF V!AuthoritiesValid, V!Inline, Inline, NoPath

(* What a call has returned is where it was asked to put it.               *)
LEMMA ReturnedOutputs ==
    ASSUME Inv, AllKept, VerifyTypeOK, OutputInv,
           NEW v \in Verifications, NEW c \in Calls, ReadsOutputOf(v, c)
    PROVE  LET w == vcfg[v] IN
           /\ w.signature \in Paths =>
                files[w.signature] = [kind |-> "signature", sig |-> SignatureOf(c)]
           /\ w.certificate # NoPath =>
                files[w.certificate] = [kind |-> "certificate", cert |-> CertificateOf(c)]
           /\ w.bundle # NoPath => LET f == files[w.bundle] IN
                /\ f.kind = "bundle" /\ f.format = w.format /\ f.sig = SignatureOf(c)
                /\ f.cert = CertificateOf(c) /\ f.entry = entry[c]
<1>1. pc[c] = "ok" /\ Exclusive(c) /\ Kept(c)
  BY DEF ReadsOutputOf, OutputInv, AllKept
<1>2. ASSUME NEW o \in Outputs, cfg[c].out[o] # NoPath
      PROVE  files[cfg[c].out[o]] = Contained(c, o)
  BY <1>1, <1>2 DEF Kept, Done, Asked
<1>3. vcfg[v].signature \in Paths =>
        files[vcfg[v].signature] = [kind |-> "signature", sig |-> SignatureOf(c)]
  <2>1. Contained(c, Signature) = [kind |-> "signature", sig |-> SignatureOf(c)]
    BY DEF Contained, Signature, Certificate, Bundle
  <2>2. QED  BY <1>2, <2>1, NamesAssumption DEF ReadsOutputOf, Outputs, Signature
<1>4. vcfg[v].certificate # NoPath =>
        files[vcfg[v].certificate] = [kind |-> "certificate", cert |-> CertificateOf(c)]
  <2>1. Contained(c, Certificate) = [kind |-> "certificate", cert |-> CertificateOf(c)]
    BY DEF Contained, Signature, Certificate, Bundle
  <2>2. QED  BY <1>2, <2>1 DEF ReadsOutputOf, Outputs, Certificate
<1>5. ASSUME vcfg[v].bundle # NoPath
      PROVE  LET f == files[vcfg[v].bundle] IN
             /\ f.kind = "bundle" /\ f.format = vcfg[v].format /\ f.sig = SignatureOf(c)
             /\ f.cert = CertificateOf(c) /\ f.entry = entry[c]
  <2>1. files[vcfg[v].bundle] = Contained(c, Bundle)
    BY <1>2, <1>5 DEF ReadsOutputOf, Outputs, Bundle
  <2>2. Contained(c, Bundle) =
          [kind |-> "bundle", format |-> cfg[c].format, sig |-> SignatureOf(c),
           digest |-> IF cfg[c].format = SigstoreFormat THEN hashed[c] ELSE NoContent,
           cert |-> CertificateOf(c), entry |-> entry[c]]
    BY DEF Contained, Signature, Certificate, Bundle
  <2>3. QED  BY <1>5, <2>1, <2>2 DEF ReadsOutputOf
<1>6. QED  BY <1>3, <1>4, <1>5

LEMMA VerifiesIsReads ==
    ASSUME NEW v \in Verifications, NEW c \in Calls, VerifyTypeOK,
           c \in began[v], Exclusive(c), VerifiesOutputOf(v, c)
    PROVE  ReadsOutputOf(v, c)
BY NamesAssumption, AuthoritiesAssumption, SameNames
   DEF V!AuthoritiesValid, V!Inline, Inline, VerifiesOutputOf, ReadsOutputOf

(* What is gathered from a call is accepted for what the call signed.      *)
LEMMA OutputIsAccepted ==
    ASSUME Inv, VerifyInv, OutputInv, NEW v \in Verifications, NEW c \in Calls,
           ReadsOutputOf(v, c), vpc[v] = "loaded",
           VerifiesOutputOf(v, c), EntryWithinReach(v, c), ServicesKnown(v, c),
           digest[v] = signed[c]
    PROVE  V!Accepts(v) /\ ~V!MayHaveExpired(v)
<1> DEFINE w == vcfg[v]  e == evidence[v]
<1> /\ Gathered(v, c) /\ pc[c] = "ok" /\ Progress(c) /\ cfg[c] \in SignBlobConfig
    /\ w \in VerifyInputs /\ w \in V!VerifyBlobConfig /\ Held(e.sig) /\ TypeOK
  BY CallType, InputType
     DEF ReadsOutputOf, OutputInv, Inv, VerifyInv, Justified, VerifyTypeOK, V!TypeOK
<1>1. e.sig = SignatureOf(c)
  <2>1. CASE w.signature = Inline /\ e.sig.by = c
    <3>1. V!NoSignature.by = NoCert /\ V!Garbage.by = Inline
      BY SameNames DEF V!NoSignature, V!Garbage, V!Inline, Inline
    <3>2. QED  BY <2>1, <3>1, NamesAssumption DEF Held, Made
  <2>2. CASE w.signature # Inline
    <3>1. w.signature \in Paths \/ (w.signature = NoPath /\ w.bundle # NoPath)
      BY <2>2, SameNames DEF V!VerifyBlobConfig, V!Inline, Inline, VerifiesOutputOf
    <3>2. QED  BY <3>1 DEF Gathered
  <2>3. CASE w.signature = Inline /\ e.sig.by # c
    <3>1. cfg[c].out[Signature] # Inline
      BY InlineIsNoPath DEF SignBlobConfig, Outputs, Signature
    <3>2. QED  BY <2>3, <3>1 DEF VerifiesOutputOf, Inline, NoPath
  <2>4. QED  BY <2>1, <2>2, <2>3
<1>2. w.certificate # NoPath => cfg[c].key = Keyless
  BY InputsAssumption DEF TypeOK, VerifiesOutputOf
<1>3. ~V!Conflict(v)
  BY <1>2, SameNames DEF V!Conflict, Gathered, CertificateFrom, CertificateOf
<1>4. V!SignatureValid(v)
  <2>1. e.sig.content = digest[v] /\ e.sig.key = Signer(c)
    BY <1>1 DEF SignatureOf
  <2>2. CASE w.key # Keyless
    BY <2>1, <2>2 DEF V!SignatureValid, VerifiesOutputOf, Signer
  <2>3. CASE w.key = Keyless
    <3>1. cfg[c].key = Keyless /\ Signer(c) = c /\ CertificateOf(c) = c
      BY <2>3 DEF VerifiesOutputOf, Signer, CertificateOf
    <3>2. w.certificate # NoPath \/ w.bundle # NoPath
      BY <2>3, VerifyInputsAssumption, SameNames DEF V!InputsValid
    <3>3. V!Certificate(v) = c
      <4>1. CASE w.bundle # NoPath
        BY <3>1, <4>1, NamesAssumption, SameNames DEF V!Certificate, Gathered
      <4>2. CASE w.bundle = NoPath
        <5>1. w.format # SigstoreFormat
          BY <4>2, VerifyInputsAssumption, SameNames DEF V!InputsValid
        <5>2. QED
          BY <3>1, <3>2, <4>2, <5>1, SameNames DEF V!Certificate, Gathered, CertificateFrom
      <4>3. QED  BY <4>1, <4>2
    <3>4. Authority[c] = V!Anchor(v)
      <4>1. /\ w.format = SigstoreFormat <=> w.trustedRoot # NoOne
            /\ PinnedAuthority(w, Authority[c])
        BY <2>3, VerifyInputsAssumption, SameNames
           DEF V!InputsValid, VerifiesOutputOf, PinnedSigner
      <4>2. QED  BY <4>1, SameNames DEF PinnedAuthority, V!Anchor
    <3>5. Identity[c] = w.identity
      BY <2>3 DEF VerifiesOutputOf, PinnedSigner
    <3>6. V!KeysAtHand(v, Authority[c])
      BY <2>3 DEF ServicesKnown
    <3>7. QED
      BY <2>1, <2>3, <3>1, <3>3, <3>4, <3>5, <3>6
         DEF V!SignatureValid, V!CertificateTrusted
  <2>4. QED  BY <2>2, <2>3
<1>5. ASSUME ~w.ignoreTlog PROVE V!EntryFound(v)
  <2>1. entry[c] \in 1 .. Len(tlog)
        /\ tlog[entry[c]] = [sig |-> e.sig, digest |-> digest[v]]
    BY <1>1, <1>5 DEF EntryWithinReach, Progress
  <2>2. V!KeysAtHand(v, V!Rekor)
    BY <1>5 DEF ServicesKnown
  <2>3. CASE w.bundle # NoPath
    BY <2>1, <2>2, <2>3 DEF V!EntryFound, Gathered
  <2>4. CASE w.bundle = NoPath
    <3>1. w.rekor /\ e.entry = 0
      BY <1>5, <2>4 DEF EntryWithinReach, Gathered
    <3>2. w.format = LegacyFormat
      BY <2>4, VerifyInputsAssumption, SameNames DEF V!InputsValid, V!VerifyBlobConfig, Formats
    <3>3. QED  BY <2>1, <2>2, <3>1, <3>2, SameNames DEF V!EntryFound
  <2>5. QED  BY <2>3, <2>4
<1>6. QED
  BY <1>3, <1>4, <1>5 DEF V!Accepts, V!MayHaveExpired, EntryWithinReach

LEMMA OutputStays ==
    ASSUME Inv, OutputInv, [Next]_vars, NEW v \in Verifications, NEW c \in Calls,
           vpc'[v] = vpc[v], vcfg'[v] = vcfg[v], digest'[v] = digest[v],
           evidence'[v] = evidence[v], outcome'[v] = outcome[v], began'[v] = began[v],
           ReadsOutputOf(v, c)'
    PROVE  Gathered(v, c)' /\ RefusedForBlob(v, c)'
<1>1. cfg' = cfg
  BY EndedStays
<1>2. ReadsOutputOf(v, c)
  BY <1>1 DEF ReadsOutputOf, Exclusive, Asked
<1>3. pc[c] = "ok" /\ Gathered(v, c) /\ RefusedForBlob(v, c)
  BY <1>2 DEF OutputInv, ReadsOutputOf
<1>4. /\ signed'[c] = signed[c] /\ entry'[c] = entry[c]
      /\ SignatureOf(c)' = SignatureOf(c) /\ CertificateOf(c)' = CertificateOf(c)
  BY <1>1, <1>3, EndedStays DEF CertificateOf
<1>5. Gathered(v, c)'
  BY <1>3, <1>4 DEF Gathered, CertificateFrom
<1>6. VerifiesOutputOf(v, c)' <=> VerifiesOutputOf(v, c)
  BY <1>1 DEF VerifiesOutputOf, PinnedSigner
<1>7. Supported(v, c)' <=> Supported(v, c)
  BY <1>1 DEF Supported, EntryWithinReach, ServicesKnown, V!KeysAtHand
<1>8. QED  BY <1>3, <1>4, <1>5, <1>6, <1>7 DEF RefusedForBlob

(* A verification that begins finds in began what had returned.            *)
LEMMA OutputBegins ==
    ASSUME Inv, VerifyInv, OutputInv, NEW v \in Verifications, Begin(v)
    PROVE  /\ vpc'[v] # "idle"
           /\ \A c \in began'[v] : pc'[c] = "ok"
           /\ \A c \in Calls : ReadsOutputOf(v, c)' =>
                Gathered(v, c)' /\ RefusedForBlob(v, c)'
<1>1. PICK s \in Supplied(v) : V!ExecuteVerifyBlob(v, s)
  BY DEF Begin
<1>2. /\ vpc[v] = "idle" /\ vpc'[v] = "parsed" /\ outcome'[v] = "none"
      /\ evidence'[v] = [V!NoEvidence EXCEPT !.sig = s] /\ vcfg' = vcfg
  BY <1>1, VerifyTypeParts
     DEF V!ExecuteVerifyBlob, V!Goto, OutputInv, VerifyInv, Justified, VerifyTypes
<1>3. vcfg[v].signature # Inline => s = V!NoSignature
  BY DEF Supplied
<1>4. ASSUME NEW c \in Calls PROVE Gathered(v, c)' /\ RefusedForBlob(v, c)'
  BY <1>2, <1>3, SameNames DEF Gathered, RefusedForBlob, V!NoEvidence
<1>5. UNCHANGED pc /\ \A c \in began'[v] : pc[c] = "ok"
  BY VerifyTypeParts DEF Begin, local, Succeeded, VerifyInv, VerifyTypes
<1>6. QED  BY <1>2, <1>4, <1>5

(* A reading of a file that c wrote finds what c wrote, and goes on.       *)
LEMMA OutputRead ==
    ASSUME Inv, AllKept, VerifyInv, OutputInv, NEW v \in Verifications, V!Step(v),
           UNCHANGED <<local, began>>, NEW c \in Calls, ReadsOutputOf(v, c)
    PROVE  Gathered(v, c)' /\ RefusedForBlob(v, c)'
<1> DEFINE w == vcfg[v]  e == evidence[v]
<1> /\ Gathered(v, c) /\ RefusedForBlob(v, c) /\ pc[c] = "ok" /\ Justified(v) /\ Held(e.sig)
    /\ w \in VerifyInputs /\ w \in V!VerifyBlobConfig /\ VerifyTypeOK
  BY InputType DEF ReadsOutputOf, OutputInv, VerifyInv, Justified, VerifyTypeOK, V!TypeOK
<1> /\ vpc \in [Verifications -> V!Running \cup {"idle", "returning", "done", "killed"}]
    /\ outcome \in [Verifications -> {"none", "verified", "rejected", "failed"}]
    /\ evidence \in [Verifications -> Evidence]
    /\ digest \in [Verifications -> Contents \cup {NoContent}]
  BY VerifyTypeParts DEF VerifyTypes
<1>1. /\ UNCHANGED <<cfg, signed, entry, vcfg>> /\ SignatureOf(c)' = SignatureOf(c)
      /\ CertificateOf(c)' = CertificateOf(c) /\ CertificateFrom(v, c)' = CertificateFrom(v, c)
  BY DEF V!Step, V!WriteTempBlob, V!ReadBlob, V!LoadVerifier, V!LoadSignature,
     V!LoadLegacyBundle, V!LoadSigstoreBundle, V!VerifyBlobSignature, V!VerifyNewBundle,
     V!Fail, V!Return, V!Killed, local, SignatureOf, Signer, CertificateOf, CertificateFrom
<1>2. Supported(v, c)' = Supported(v, c)
  BY <1>1 DEF Supported, EntryWithinReach, ServicesKnown, V!KeysAtHand
<1>3. CASE V!WriteTempBlob(v) \/ V!ReadBlob(v)
  BY <1>1, <1>3 DEF V!WriteTempBlob, V!ReadBlob, V!Goto, Gathered, RefusedForBlob, Justified
<1>4. CASE V!LoadVerifier(v)
  <2>1. w.certificate # NoPath =>
          files[w.certificate] = [kind |-> "certificate", cert |-> CertificateOf(c)]
    BY ReturnedOutputs
  <2>2. /\ vpc[v] = "read" /\ vpc'[v] = "verifier" /\ outcome' = outcome
        /\ evidence' = IF w.certificate = NoPath THEN evidence
                       ELSE [evidence EXCEPT ![v] = [@ EXCEPT !.given = CertificateOf(c)]]
    BY <1>4, <2>1, SameNames DEF V!LoadVerifier, V!Goto
  <2>3. evidence'[v] = [e EXCEPT !.given = CertificateFrom(v, c)]
    BY <2>2 DEF Gathered, CertificateFrom, Evidence
  <2>4. QED
    BY <1>1, <2>2, <2>3 DEF Gathered, RefusedForBlob, Justified, HasRead, Evidence
<1>5. CASE V!LoadSignature(v)
  <2>1. w.signature \in Paths =>
          files[w.signature] = [kind |-> "signature", sig |-> SignatureOf(c)]
    BY ReturnedOutputs
  <2>2. CASE vpc'[v] = "signature"
    <3>1. /\ vpc[v] = "verifier" /\ outcome' = outcome
          /\ evidence' = IF w.signature \notin Paths THEN evidence
                         ELSE [evidence EXCEPT ![v] = [@ EXCEPT !.sig = SignatureOf(c)]]
      BY <1>5, <2>1, <2>2, SameNames DEF V!LoadSignature, V!Goto, V!End, Absent
    <3>2. /\ w.signature \in Paths => evidence'[v] = [e EXCEPT !.sig = SignatureOf(c)]
          /\ w.signature \notin Paths => evidence'[v] = e
      BY <3>1
    <3>3. w.signature = NoPath => w.signature # Inline /\ w.signature \notin Paths
      BY NamesAssumption DEF NoPath, Inline
    <3>4. QED
      BY <1>1, <2>2, <3>1, <3>2, <3>3
         DEF Gathered, RefusedForBlob, Justified, HasRead, Evidence
  <2>3. CASE vpc'[v] # "signature"
    <3>1. /\ vpc'[v] = "returning" /\ UNCHANGED <<evidence, digest>>
          /\ w.signature = Inline /\ e.sig = V!Garbage
      <4>1. w.signature \in Paths => files[w.signature] # V!Absent
        BY <2>1, SameNames DEF Absent
      <4>2. vpc' # [vpc EXCEPT ![v] = "signature"]
        BY <2>3
      <4>3. w.signature = V!Inline /\ e.sig = V!Garbage /\ V!End(v, "rejected")
            /\ UNCHANGED evidence /\ UNCHANGED digest
        BY <1>5, <4>1, <4>2 DEF V!LoadSignature, V!Goto
      <4>4. QED  BY <4>3, SameNames DEF V!End, V!Inline, Inline
    <3>2. e.sig.by # c
      BY <3>1, NamesAssumption, SameNames DEF V!Garbage, V!Inline, Inline
    <3>3. cfg[c].out[Signature] # Inline
      BY CallType, InlineIsNoPath DEF Inv, SignBlobConfig, Outputs, Signature
    <3>4. ~VerifiesOutputOf(v, c)'
      BY <1>1, <3>1, <3>2, <3>3 DEF VerifiesOutputOf, Inline, NoPath
    <3>5. QED  BY <1>1, <3>1, <3>4 DEF Gathered, RefusedForBlob
  <2>4. QED  BY <2>2, <2>3
<1>6. CASE V!LoadLegacyBundle(v)
  <2>1. w.bundle # NoPath => LET f == files[w.bundle] IN
          /\ f.kind = "bundle" /\ f.format = LegacyFormat /\ f.sig = SignatureOf(c)
          /\ f.cert = CertificateOf(c) /\ f.entry = entry[c]
    BY <1>6, ReturnedOutputs, SameNames DEF V!LoadLegacyBundle
  <2> DEFINE a == IF w.bundle = NoPath THEN e
                  ELSE [e EXCEPT !.sig = IF e.sig = V!NoSignature THEN SignatureOf(c) ELSE e.sig,
                                 !.cert = CertificateOf(c), !.entry = entry[c]]
  <2>2. w.bundle # NoPath => V!Adopt(e, files[w.bundle]) = a
    BY <2>1, SameNames DEF V!Adopt
  <2>3. SignatureOf(c) # V!NoSignature
    BY NamesAssumption, SameNames DEF SignatureOf, V!NoSignature
  <2>4. /\ vpc[v] = "signature"
        /\ \/ vpc'[v] = "loaded" /\ outcome' = outcome /\ evidence'[v] = a
           \/ vpc'[v] = "returning" /\ evidence' = evidence /\ digest' = digest
              /\ a.sig = V!NoSignature
    BY <1>6, <2>1, <2>2, SameNames
       DEF V!LoadLegacyBundle, V!ReadsAsLegacy, V!Goto, V!End, Absent
  <2>5. CASE vpc'[v] = "loaded"
    <3>1. evidence'[v] = a /\ outcome'[v] = "none" /\ w.format # SigstoreFormat
      BY <1>6, <2>4, <2>5, SameNames
         DEF V!LoadLegacyBundle, Justified, HasRead, LegacyFormat, SigstoreFormat
    <3>2. /\ a.given = e.given
          /\ w.signature \in Paths => a.sig = SignatureOf(c)
          /\ w.signature = NoPath /\ w.bundle # NoPath => a.sig = SignatureOf(c)
          /\ w.bundle = NoPath => a.cert = NoCert /\ a.entry = 0
          /\ w.bundle # NoPath => a.cert = CertificateOf(c) /\ a.entry = entry[c]
      BY <2>3, <2>4 DEF Gathered, Evidence
    <3>3. QED  BY <1>1, <2>4, <2>5, <3>1, <3>2 DEF Gathered, RefusedForBlob
  <2>6. CASE vpc'[v] = "returning"
    <3>1. w.bundle = NoPath /\ e.sig = V!NoSignature /\ evidence'[v] = e
      BY <2>3, <2>4, <2>6 DEF Evidence
    <3>2. w.signature \notin Paths /\ e.sig.by # c
      BY <2>3, <2>4, <3>1, NamesAssumption, SameNames DEF Gathered, V!NoSignature
    <3>3. ~VerifiesOutputOf(v, c)
      <4>1. w.signature # NoPath => w.signature = Inline
        BY <3>2, SameNames DEF V!VerifyBlobConfig, V!Inline, Inline
      <4>2. cfg[c] \in SignBlobConfig
        BY CallType DEF Inv
      <4>3. cfg[c].out[Signature] # Inline
        BY <4>2, InlineIsNoPath DEF SignBlobConfig, Outputs, Signature
      <4>4. QED  BY <3>1, <3>2, <4>1, <4>3 DEF VerifiesOutputOf
    <3>4. ~VerifiesOutputOf(v, c)'
      BY <1>1, <3>1, <3>3 DEF VerifiesOutputOf, PinnedSigner
    <3>5. QED  BY <1>1, <2>6, <3>1, <3>4 DEF Gathered, RefusedForBlob
  <2>7. QED  BY <2>4, <2>5, <2>6
<1>7. CASE V!LoadSigstoreBundle(v)
  <2>1. w.format = SigstoreFormat /\ w.bundle # NoPath
    BY <1>7, VerifyInputsAssumption, SameNames DEF V!LoadSigstoreBundle, V!InputsValid
  <2>2. LET f == files[w.bundle] IN
          /\ f.kind = "bundle" /\ f.format = SigstoreFormat /\ f.sig = SignatureOf(c)
          /\ f.cert = CertificateOf(c) /\ f.entry = entry[c]
    BY <2>1, ReturnedOutputs
  <2>3. /\ vpc[v] = "verifier" /\ vpc'[v] = "loaded" /\ outcome' = outcome
        /\ evidence' = [evidence EXCEPT ![v] = [@ EXCEPT !.sig = SignatureOf(c),
                                 !.cert = CertificateOf(c), !.entry = entry[c]]]
    BY <1>7, <2>2, SameNames DEF V!LoadSigstoreBundle, V!ReadsAsSigstore, V!Goto
  <2>4. evidence'[v] = [e EXCEPT !.sig = SignatureOf(c),
                                 !.cert = CertificateOf(c), !.entry = entry[c]]
    BY <2>3
  <2>5. /\ evidence'[v].given = e.given /\ evidence'[v].sig = SignatureOf(c)
        /\ evidence'[v].cert = CertificateOf(c) /\ evidence'[v].entry = entry[c]
    BY <2>4 DEF Evidence
  <2>6. QED
    BY <1>1, <2>1, <2>3, <2>5 DEF Gathered, RefusedForBlob, Justified, HasRead
<1>8. CASE V!VerifyBlobSignature(v) \/ V!VerifyNewBundle(v)
  <2>1. /\ vpc[v] = "loaded" /\ vpc'[v] = "returning" /\ UNCHANGED <<digest, evidence>>
        /\ outcome'[v] = "rejected" => ~V!Accepts(v) \/ V!MayHaveExpired(v)
    BY <1>8 DEF V!VerifyBlobSignature, V!VerifyNewBundle, V!End
  <2>2. VerifiesOutputOf(v, c)' => VerifiesOutputOf(v, c)
    BY <1>1, <2>1 DEF VerifiesOutputOf, PinnedSigner
  <2>3. outcome'[v] = "rejected" /\ VerifiesOutputOf(v, c) /\ Supported(v, c) =>
          digest[v] # signed[c]
    BY <2>1, OutputIsAccepted DEF Supported
  <2>4. QED  BY <1>1, <1>2, <2>1, <2>2, <2>3 DEF Gathered, RefusedForBlob
<1>9. CASE V!Fail(v) \/ V!Killed(v)
  BY <1>9 DEF V!Fail, V!Killed, V!End, Gathered, RefusedForBlob
<1>10. CASE V!Return(v)
  <2>1. /\ vpc[v] = "returning" /\ vpc'[v] = "done"
        /\ UNCHANGED <<digest, evidence, outcome>>
    BY <1>10 DEF V!Return, V!Goto
  <2>2. VerifiesOutputOf(v, c)' => VerifiesOutputOf(v, c)
    BY <1>1, <2>1 DEF VerifiesOutputOf, PinnedSigner
  <2>3. QED  BY <1>1, <1>2, <2>1, <2>2 DEF Gathered, RefusedForBlob
<1>11. QED
  BY <1>3, <1>4, <1>5, <1>6, <1>7, <1>8, <1>9, <1>10 DEF V!Step

LEMMA OutputInvNext ==
    ASSUME Inv, AllKept, VerifyInv, OutputInv, [PipelineNext]_pipelineVars
    PROVE  OutputInv'
<1> [Next]_vars /\ VerifyTypeOK
  BY StepSigns DEF VerifyInv, pipelineVars
<1> SUFFICES ASSUME NEW v \in Verifications
             PROVE  /\ vpc'[v] = "idle" => evidence'[v] = V!NoEvidence
                    /\ \A c \in began'[v] : pc'[c] = "ok"
                    /\ \A c \in Calls : ReadsOutputOf(v, c)' =>
                         Gathered(v, c)' /\ RefusedForBlob(v, c)'
  BY DEF OutputInv, V!NoEvidence, V!NoSignature
<1>1. ASSUME began'[v] = began[v] PROVE \A c \in began'[v] : pc'[c] = "ok"
  BY <1>1, EndedStays, VerifyTypeParts DEF OutputInv, VerifyTypes
<1>2. ASSUME vpc'[v] = vpc[v], vcfg'[v] = vcfg[v], digest'[v] = digest[v],
             evidence'[v] = evidence[v], outcome'[v] = outcome[v], began'[v] = began[v]
      PROVE  /\ vpc'[v] = "idle" => evidence'[v] = V!NoEvidence
             /\ \A c \in began'[v] : pc'[c] = "ok"
             /\ \A c \in Calls : ReadsOutputOf(v, c)' =>
                  Gathered(v, c)' /\ RefusedForBlob(v, c)'
  BY <1>1, <1>2, OutputStays DEF OutputInv
<1>3. CASE UNCHANGED <<verifying, began>>
  BY <1>2, <1>3 DEF verifying
<1>4. ASSUME NEW w \in Verifications, w # v, Begin(w) \/ Verify(w)
      PROVE  /\ vpc'[v] = vpc[v] /\ vcfg'[v] = vcfg[v] /\ digest'[v] = digest[v]
             /\ evidence'[v] = evidence[v] /\ outcome'[v] = outcome[v]
             /\ began'[v] = began[v]
  <2>1. began'[v] = began[v]
    BY <1>4, VerifyTypeParts DEF Begin, Verify, VerifyTypes
  <2>2. QED  BY <1>4, <2>1, OtherVerificationsStay
<1>5. CASE Begin(v)
  BY <1>5, OutputBegins
<1>6. CASE Verify(v)
  <2>1. V!Step(v) /\ UNCHANGED <<local, began>>
    BY <1>6 DEF Verify
  <2>2. vpc'[v] # "idle"
    BY <2>1, VerifyTypeParts
       DEF VerifyTypes, V!Step, V!WriteTempBlob, V!ReadBlob, V!LoadVerifier, V!LoadSignature,
           V!LoadLegacyBundle, V!LoadSigstoreBundle, V!VerifyBlobSignature, V!VerifyNewBundle,
           V!Fail, V!Return, V!Killed, V!Goto, V!End
  <2>3. vcfg' = vcfg
    BY <2>1 DEF V!Step, V!WriteTempBlob, V!ReadBlob, V!LoadVerifier, V!LoadSignature,
       V!LoadLegacyBundle, V!LoadSigstoreBundle, V!VerifyBlobSignature, V!VerifyNewBundle,
       V!Fail, V!Return, V!Killed
  <2>4. \A c \in Calls : ReadsOutputOf(v, c)' => ReadsOutputOf(v, c)
    BY <2>1, <2>3 DEF local, ReadsOutputOf, Exclusive, Asked
  <2>5. QED  BY <1>1, <2>1, <2>2, <2>4, OutputRead
<1>7. QED
  BY <1>2, <1>3, <1>4, <1>5, <1>6 DEF PipelineNext, Sign, pipelineVars

LEMMA OutputInvAlways == PipelineSpec => []OutputInv
<1>1. PipelineInit => OutputInv
  BY DEF PipelineInit, V!Init, OutputInv, ReadsOutputOf
<1>2. Inv /\ AllKept /\ VerifyInv /\ OutputInv /\ [PipelineNext]_pipelineVars => OutputInv'
  BY OutputInvNext
<1>3. PipelineSpec => []AllKept
  BY PipelineSigns, KeptAlways, PTL
<1>4. QED  BY <1>1, <1>2, <1>3, VerifyInvAlways, PTL DEF PipelineSpec
-----------------------------------------------------------------------------
(* verifyblob.go:63-157: every call of verify-blob, and what it has loaded,*)
(* is what it is declared to be.                                           *)
THEOREM VerifyTypeCorrect == PipelineSpec => []VerifyTypeOK
<1>1. VerifyInv => VerifyTypeOK
  BY DEF VerifyInv
<1>2. QED  BY <1>1, VerifyInvAlways, PTL

(* verifyblob.go:63-157: the pinned signer has signed the very bytes whose *)
(* digest verify-blob reports as verified, whoever rewrites the blob, the  *)
(* certificate, the signature and the bundle between the readings.         *)
THEOREM AcceptedWasAlwaysSigned == PipelineSpec => []AcceptedWasSigned
<1>1. VerifyInv => AcceptedWasSigned
  BY DEF VerifyInv, Justified, SignedBy, Verified, AcceptedWasSigned
<1>2. QED  BY <1>1, VerifyInvAlways, PTL

(* verifyblob.go:113-127: and unless ignore_tlog says otherwise, the log   *)
(* has an entry of that digest by that signer.                             *)
THEOREM AcceptedWasAlwaysLogged == PipelineSpec => []AcceptedWasLogged
<1>1. VerifyInv => AcceptedWasLogged
  BY DEF VerifyInv, Justified, LoggedAs, Verified, AcceptedWasLogged
<1>2. QED  BY <1>1, VerifyInvAlways, PTL

(* verifyblob.go:166-172: a certificate that is given decides, though the  *)
(* bundle that is read after it brings its own.                            *)
THEOREM GivenCertificateDecides == PipelineSpec => []AcceptedByGivenCertificate
<1>1. OwnInv => AcceptedByGivenCertificate
  BY SameNames DEF OwnInv, Certified, Verified, AcceptedByGivenCertificate
<1>2. QED  BY <1>1, OwnInvAlways, PTL

(* verifyblob.go:69-76: no call returns and leaves its temporary file.     *)
THEOREM TempsAreAlwaysRemoved == PipelineSpec => []TempsAreRemoved
<1>1. OwnInv /\ VerifyInv => TempsAreRemoved
  BY VerifyTypeParts DEF OwnInv, Tidy, TempsAreRemoved, VerifyInv, VerifyTypes
<1>2. QED  BY <1>1, OwnInvAlways, VerifyInvAlways, PTL

(* README.md:156, 216: what sign-blob wrote, verify-blob accepts: in every *)
(* format, keyless or by key, from files or inline, whatever other calls   *)
(* do meanwhile, it refuses only a blob that is not what was signed, or,   *)
(* on the legacy path, what comes of services whose keys the TUF client    *)
(* does not have (verifyblob.go:120-126, 276-281), whichever the anchors.  *)
THEOREM SignedAlwaysVerifies == PipelineSpec => []SignedThenVerifies
<1>1. ASSUME VerifyInv, OutputInv PROVE SignedThenVerifies
  <2> SUFFICES ASSUME NEW v \in Verifications, NEW c \in Calls,
                      Refused(v, c), ServicesKnown(v, c)
               PROVE  FALSE
    BY DEF SignedThenVerifies
  <2>1. ReadsOutputOf(v, c)
    BY <1>1, VerifiesIsReads DEF VerifyInv, Refused
  <2>2. QED  BY <1>1, <2>1 DEF OutputInv, RefusedForBlob, Refused, Supported
<1>2. QED  BY <1>1, VerifyInvAlways, OutputInvAlways, PTL
=============================================================================
