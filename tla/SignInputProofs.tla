-------------------------- MODULE SignInputProofs ---------------------------
(***************************************************************************)
(* Theorems about the inputs of the operations and their dry runs, for     *)
(* every set of inputs: the runs check each input of one large set, the    *)
(* proofs cover the combinations that set leaves out.                      *)
(***************************************************************************)
EXTENDS SignInput, TLAPS

(* What has been described and parsed is what the functions make of the    *)
(* input the host holds.                                                   *)
Outcome(in) == IF Rejected(in) THEN Failed ELSE Config(in)
DryRun(in)  == IF WhatIfRejected(in) THEN Failed ELSE WhatIf(in)

InputInv ==
    /\ input \in Inputs
    /\ parsed = NoConfig \/ parsed = Outcome(input)
    /\ described = NoConfig \/ described = DryRun(input)

LEMMA InputInvInit == Init => InputInv
BY DEF Init, InputInv

LEMMA InputInvNext == InputInv /\ [Next]_vars => InputInv'
<1> SUFFICES ASSUME InputInv, [Next]_vars PROVE InputInv'
  OBVIOUS
<1>1. CASE DescribeWhatIf
  BY <1>1 DEF DescribeWhatIf, InputInv, DryRun
<1>2. CASE ExecuteProvider
  BY <1>2 DEF ExecuteProvider, InputInv, Outcome
<1>3. CASE UNCHANGED vars
  BY <1>3 DEF vars, InputInv
<1>4. QED  BY <1>1, <1>2, <1>3 DEF Next

LEMMA AlwaysInputInv == Spec => []InputInv
BY InputInvInit, InputInvNext, PTL DEF Spec

(* The files a call writes, those it announces, and the bundle it reads.   *)
Outputs(in)   == {f \in {"output_signature", "output_certificate", "bundle"} : in[f] # ""}
Announced(in) == {f \in {"output_signature", "bundle"} : in[f] # ""}
Bundles(in) == {f \in {"bundle"} : in[f] # ""}

(* The three kinds of inputs, and what each function is on them.           *)
LEMMA Operations ==
    ASSUME InputInv
    PROVE  \/ input.operation = "sign" /\ input \in SignInputs
           \/ input.operation = "sign-blob" /\ input \in SignBlobInputs
           \/ input.operation = "verify-blob" /\ input \in VerifyBlobInputs
BY InputsAssumption DEF InputInv, SignInputs, SignBlobInputs, VerifyBlobInputs

LEMMA OnSign ==
    ASSUME NEW in, in.operation = "sign"
    PROVE  /\ Rejected(in) <=> SignRejected(in)
           /\ WhatIfRejected(in) <=> NotBool(in.id.keyless) \/ NotBool(in.recursive)
           /\ KeyOf(in) = in.id.key
BY DEF Rejected, WhatIfRejected, KeyOf

LEMMA OnSignConfig ==
    ASSUME NEW in, in.operation = "sign"
    PROVE  /\ Config(in).op = "sign"
           /\ Config(in).identity = IF Keyless(in.id) THEN "keyless" ELSE "key"
           /\ Config(in).uploads <=> TlogUpload(in.id)
           /\ Config(in).mode = NormalMode(in.referrers_mode)
           /\ Config(in).recursive = (in.recursive = "true")
           /\ Config(in).files = {}
BY DEF Config, SignConfig

LEMMA OnSignWhatIf ==
    ASSUME NEW in, in.operation = "sign"
    PROVE  /\ WhatIf(in).op = "sign"
           /\ WhatIf(in).identity = IF in.id.key # "" THEN "key" ELSE "keyless"
           /\ WhatIf(in).mode = IF NormalMode(in.referrers_mode) = "legacy"
                               THEN "legacy" ELSE "oci-1-1"
           /\ WhatIf(in).uploads <=> in.id.rekor_url # ""
           /\ WhatIf(in).recursive = (in.recursive = "true")
           /\ WhatIf(in).files = {}
BY DEF WhatIf, WhatIfMode, KeyOf, Announced, Bundles

LEMMA OnSignBlob ==
    ASSUME NEW in, in.operation = "sign-blob"
    PROVE  /\ Rejected(in) <=> SignBlobRejected(in)
           /\ WhatIfRejected(in) <=> NotBool(in.id.keyless) \/ NotBool(in.id.tlog_upload)
           /\ KeyOf(in) = in.id.key
BY DEF Rejected, WhatIfRejected, KeyOf

LEMMA OnSignBlobConfig ==
    ASSUME NEW in, in.operation = "sign-blob"
    PROVE  /\ Config(in).op = "sign-blob"
           /\ Config(in).identity = IF Keyless(in.id) THEN "keyless" ELSE "key"
           /\ Config(in).uploads <=> TlogUpload(in.id)
           /\ Config(in).mode = NormalFormat(in.bundle_format)
           /\ Config(in).recursive = FALSE
           /\ Config(in).files = Outputs(in)
BY DEF Config, SignBlobConfig, Outputs

LEMMA OnSignBlobWhatIf ==
    ASSUME NEW in, in.operation = "sign-blob"
    PROVE  /\ WhatIf(in).op = "sign-blob"
           /\ WhatIf(in).identity = IF in.id.key # "" THEN "key" ELSE "keyless"
           /\ WhatIf(in).mode = IF NormalFormat(in.bundle_format) = "sigstore"
                               THEN "sigstore" ELSE "legacy"
           /\ WhatIf(in).uploads <=> in.id.rekor_url # ""
           /\ WhatIf(in).recursive = FALSE
           /\ WhatIf(in).files = Announced(in)
BY DEF WhatIf, WhatIfMode, KeyOf, Announced, Bundles

LEMMA OnVerifyBlob ==
    ASSUME NEW in, in.operation = "verify-blob"
    PROVE  /\ Rejected(in) <=> VerifyBlobRejected(in)
           /\ WhatIfRejected(in) <=> NotBool(in.ignore_tlog)
           /\ KeyOf(in) = in.key
BY DEF Rejected, WhatIfRejected, KeyOf

LEMMA OnVerifyBlobConfig ==
    ASSUME NEW in, in.operation = "verify-blob"
    PROVE  /\ Config(in).op = "verify-blob"
           /\ Config(in).identity = IF in.key # "" THEN "key" ELSE "keyless"
           /\ ~Config(in).uploads
           /\ Config(in).mode = IF in.ignore_tlog = "true" THEN "unlogged" ELSE "logged"
           /\ Config(in).recursive = FALSE
           /\ Config(in).files = Bundles(in)
BY DEF Config, VerifyBlobConfig, Bundles

LEMMA OnVerifyBlobWhatIf ==
    ASSUME NEW in, in.operation = "verify-blob"
    PROVE  /\ WhatIf(in).op = "verify-blob"
           /\ WhatIf(in).identity = IF in.key # "" THEN "key" ELSE "keyless"
           /\ WhatIf(in).mode = IF in.ignore_tlog = "true" THEN "unlogged" ELSE "logged"
           /\ WhatIf(in).uploads <=> FALSE
           /\ WhatIf(in).recursive = FALSE
           /\ WhatIf(in).files = Bundles(in)
BY DEF WhatIf, WhatIfMode, KeyOf, Announced, Bundles

(* No result of an accepted input is one of the two that stand for none.   *)
LEMMA ConfigsAreProper ==
    ASSUME InputInv
    PROVE  Config(input) \notin {NoConfig, Failed} /\ WhatIf(input) \notin {NoConfig, Failed}
<1>1. Config(input).op = input.operation /\ WhatIf(input).op = input.operation
  BY Operations, OnSignConfig, OnSignBlobConfig, OnVerifyBlobConfig,
     OnSignWhatIf, OnSignBlobWhatIf, OnVerifyBlobWhatIf
<1>2. NoConfig.op = "none" /\ Failed.op = "error"
  BY DEF NoConfig, Failed
<1>3. QED  BY <1>1, <1>2, Operations

LEMMA Running ==
    ASSUME InputInv, Runs
    PROVE  ~Rejected(input) /\ parsed = Config(input)
BY DEF InputInv, Runs, Outcome

LEMMA Describing ==
    ASSUME InputInv, Planned
    PROVE  ~WhatIfRejected(input) /\ described = WhatIf(input)
BY DEF InputInv, Planned, DryRun

-----------------------------------------------------------------------------
(* A key that validateKeyRef lets through goes neither to a program nor to *)
(* a token, whatever its scheme.                                           *)
LEMMA ValidKeysStayInProcess ==
    ASSUME NEW k \in KeyRefs, ValidKeyRef(k)
    PROVE  Resolver(k) \notin {"external program", "hardware token"}
BY DEF KeyRefs, ValidKeyRef, Resolver, Providers, HandledByCosign, HasScheme

(* No operation that runs has sigstore start a program or open a hardware  *)
(* token for its key (kms.go:35-49), whatever the input is.                *)
THEOREM NoOperationShellsOut == Spec => []NeverShellsOut
<1>1. InputInv => NeverShellsOut
  <2> SUFFICES ASSUME InputInv, Runs
               PROVE  Resolver(KeyOf(input)) \notin {"external program", "hardware token"}
    BY DEF NeverShellsOut
  <2>1. ~Rejected(input)
    BY Running
  <2>2. CASE input.operation = "sign" /\ input \in SignInputs
    <3>1. input.id.key \in KeyRefs
      BY <2>2 DEF SignInputs, Identities
    <3>2. ValidKeyRef(input.id.key)
      BY <2>1, <2>2, OnSign DEF SignRejected, IdentityRejected
    <3>3. QED  BY <2>2, <3>1, <3>2, OnSign, ValidKeysStayInProcess
  <2>3. CASE input.operation = "sign-blob" /\ input \in SignBlobInputs
    <3>1. input.id.key \in KeyRefs
      BY <2>3 DEF SignBlobInputs, Identities
    <3>2. ValidKeyRef(input.id.key)
      BY <2>1, <2>3, OnSignBlob DEF SignBlobRejected, IdentityRejected
    <3>3. QED  BY <2>3, <3>1, <3>2, OnSignBlob, ValidKeysStayInProcess
  <2>4. CASE input.operation = "verify-blob" /\ input \in VerifyBlobInputs
    <3>1. input.key \in KeyRefs
      BY <2>4 DEF VerifyBlobInputs
    <3>2. ValidKeyRef(input.key)
      BY <2>1, <2>4, OnVerifyBlob DEF VerifyBlobRejected
    <3>3. QED  BY <2>4, <3>1, <3>2, OnVerifyBlob, ValidKeysStayInProcess
  <2>5. QED  BY <2>2, <2>3, <2>4, Operations
<1>2. QED  BY <1>1, AlwaysInputInv, PTL

(* An operation that uploads to the log has an endpoint, and its dry run   *)
(* said so (sign.go:499-510, provider.go:153-155, 202-204).                *)
THEOREM EveryUploadWasAnnounced == Spec => []UploadsWereAnnounced
<1>1. InputInv => UploadsWereAnnounced
  <2> SUFFICES ASSUME InputInv, Runs, Planned, parsed.uploads
               PROVE  input.id.rekor_url # "" /\ described.uploads
    BY DEF UploadsWereAnnounced
  <2>1. /\ ~Rejected(input) /\ parsed = Config(input) /\ described = WhatIf(input)
    BY Running, Describing
  <2>2. CASE input.operation = "sign"
    <3>1. TlogUpload(input.id) /\ ~IdentityRejected(input.id)
      BY <2>1, <2>2, OnSign, OnSignConfig DEF SignRejected
    <3>2. input.id.rekor_url # ""
      BY <3>1 DEF IdentityRejected
    <3>3. QED  BY <2>1, <2>2, <3>2, OnSignWhatIf
  <2>3. CASE input.operation = "sign-blob"
    <3>1. TlogUpload(input.id) /\ ~IdentityRejected(input.id)
      BY <2>1, <2>3, OnSignBlob, OnSignBlobConfig DEF SignBlobRejected
    <3>2. input.id.rekor_url # ""
      BY <3>1 DEF IdentityRejected
    <3>3. QED  BY <2>1, <2>3, <3>2, OnSignBlobWhatIf
  <2>4. CASE input.operation = "verify-blob"
    BY <2>1, <2>4, OnVerifyBlobConfig
  <2>5. QED  BY <2>2, <2>3, <2>4, Operations
<1>2. QED  BY <1>1, AlwaysInputInv, PTL

(* An accepted identity is keyless exactly when no key is given, which is  *)
(* all that a dry run looks at.                                            *)
LEMMA KeylessMeansNoKey ==
    ASSUME NEW id \in Identities, ~IdentityRejected(id)
    PROVE  Keyless(id) <=> id.key = ""
<1>1. id.keyless \in {"absent", "true", "false", "other"}
  BY DEF Identities, BoolFields
<1>2. QED  BY <1>1 DEF Keyless, IdentityRejected, NotBool

(* The identity, storage and extent that a dry run describes are those of  *)
(* the execution (provider.go:139-168, 180-201, 210-250), and it announces *)
(* each file the execution writes but the certificate (signblob.go:119).   *)
THEOREM DryRunsAgree == Spec => []WhatIfAgrees
<1>1. InputInv => WhatIfAgrees
  <2> SUFFICES ASSUME InputInv, Runs, Planned
               PROVE  /\ described.identity = parsed.identity
                      /\ described.mode = parsed.mode
                      /\ described.recursive = parsed.recursive
                      /\ described.files = parsed.files \ Unannounced
    BY DEF WhatIfAgrees
  <2>1. /\ ~Rejected(input) /\ parsed = Config(input) /\ described = WhatIf(input)
    BY Running, Describing
  <2>2. CASE input.operation = "sign" /\ input \in SignInputs
    <3>1. Keyless(input.id) <=> input.id.key = ""
      BY <2>1, <2>2, OnSign, KeylessMeansNoKey DEF SignRejected, SignInputs
    <3>2. NormalMode(input.referrers_mode) \in {"oci-1-1", "legacy"}
      BY <2>1, <2>2, OnSign DEF SignRejected, NormalMode
    <3>3. Config(input).identity = WhatIf(input).identity
      BY <2>2, <3>1, OnSignConfig, OnSignWhatIf
    <3>4. Config(input).mode = WhatIf(input).mode
      <4>1. Config(input).mode = NormalMode(input.referrers_mode)
        BY <2>2, OnSignConfig
      <4>2. WhatIf(input).mode = IF NormalMode(input.referrers_mode) = "legacy"
                                 THEN "legacy" ELSE "oci-1-1"
        BY <2>2, OnSignWhatIf
      <4>3. QED  BY <3>2, <4>1, <4>2
    <3>5. /\ Config(input).recursive = WhatIf(input).recursive
          /\ WhatIf(input).files = Config(input).files \ Unannounced
      <4>1. Config(input).recursive = (input.recursive = "true") /\ Config(input).files = {}
        BY <2>2, OnSignConfig
      <4>2. WhatIf(input).recursive = (input.recursive = "true") /\ WhatIf(input).files = {}
        BY <2>2, OnSignWhatIf
      <4>3. Config(input).recursive = WhatIf(input).recursive
        BY <4>1, <4>2
      <4>4. WhatIf(input).files = Config(input).files \ Unannounced
        BY <4>1, <4>2
      <4>5. QED  BY <4>3, <4>4
    <3>6. QED  BY <2>1, <3>3, <3>4, <3>5
  <2>3. CASE input.operation = "sign-blob" /\ input \in SignBlobInputs
    <3>1. Keyless(input.id) <=> input.id.key = ""
      BY <2>1, <2>3, OnSignBlob, KeylessMeansNoKey DEF SignBlobRejected, SignBlobInputs
    <3>2. NormalFormat(input.bundle_format) \in {"sigstore", "legacy"}
      BY <2>1, <2>3, OnSignBlob DEF SignBlobRejected, NormalFormat
    <3>3. Announced(input) = Outputs(input) \ Unannounced
      BY DEF Announced, Outputs, Unannounced
    <3>4. Config(input).identity = WhatIf(input).identity
      BY <2>3, <3>1, OnSignBlobConfig, OnSignBlobWhatIf
    <3>5. Config(input).mode = WhatIf(input).mode
      <4>1. Config(input).mode = NormalFormat(input.bundle_format)
        BY <2>3, OnSignBlobConfig
      <4>2. WhatIf(input).mode = IF NormalFormat(input.bundle_format) = "sigstore"
                                 THEN "sigstore" ELSE "legacy"
        BY <2>3, OnSignBlobWhatIf
      <4>3. QED  BY <3>2, <4>1, <4>2
    <3>6. /\ Config(input).recursive = WhatIf(input).recursive
          /\ WhatIf(input).files = Config(input).files \ Unannounced
      <4>1. Config(input).recursive = FALSE /\ Config(input).files = Outputs(input)
        BY <2>3, OnSignBlobConfig
      <4>2. WhatIf(input).recursive = FALSE /\ WhatIf(input).files = Announced(input)
        BY <2>3, OnSignBlobWhatIf
      <4>3. QED  BY <3>3, <4>1, <4>2
    <3>7. QED  BY <2>1, <3>4, <3>5, <3>6
  <2>4. CASE input.operation = "verify-blob" /\ input \in VerifyBlobInputs
    <3>1. /\ Config(input).identity = WhatIf(input).identity
          /\ Config(input).mode = WhatIf(input).mode
      BY <2>4, OnVerifyBlobConfig, OnVerifyBlobWhatIf
    <3>2. Config(input).recursive = WhatIf(input).recursive
      BY <2>4, OnVerifyBlobConfig, OnVerifyBlobWhatIf
    <3>3. WhatIf(input).files = Config(input).files \ Unannounced
      <4>1. Config(input).files = Bundles(input)
        BY <2>4, OnVerifyBlobConfig
      <4>2. Bundles(input) = Bundles(input) \ Unannounced
        BY DEF Bundles, Unannounced
      <4>3. QED  BY <2>4, <4>1, <4>2, OnVerifyBlobWhatIf
    <3>4. QED  BY <2>1, <3>1, <3>2, <3>3
  <2>5. QED  BY <2>2, <2>3, <2>4, Operations
<1>2. QED  BY <1>1, AlwaysInputInv, PTL

-----------------------------------------------------------------------------
(* A dry run refuses nothing that the execution accepts.                   *)
LEMMA DryRunsRefuseLess ==
    ASSUME InputInv, WhatIfRejected(input)
    PROVE  Rejected(input)
<1>1. CASE input.operation = "sign"
  BY <1>1, OnSign DEF SignRejected, IdentityRejected
<1>2. CASE input.operation = "sign-blob"
  BY <1>2, OnSignBlob DEF SignBlobRejected, IdentityRejected
<1>3. CASE input.operation = "verify-blob"
  BY <1>3, OnVerifyBlob DEF VerifyBlobRejected
<1>4. QED  BY <1>1, <1>2, <1>3, Operations

(* Where the dry run has no objection there is nothing to repair.          *)
LEMMA NothingToRepair ==
    ASSUME InputInv, ~WhatIfRejected(input)
    PROVE  Repaired(input) = input
<1>1. CASE input.operation = "sign" /\ input \in SignInputs
  <2>1. Fixed(input.id.keyless) = input.id.keyless /\ Fixed(input.recursive) = input.recursive
    BY <1>1, OnSign DEF Fixed
  <2>2. [input EXCEPT !.id.keyless = input.id.keyless, !.recursive = input.recursive] = input
    BY <1>1 DEF SignInputs, Identities
  <2>3. Repaired(input) = [input EXCEPT !.id.keyless = Fixed(@), !.recursive = Fixed(@)]
    BY <1>1 DEF Repaired
  <2>4. QED  BY <1>1, <2>1, <2>2, <2>3
<1>2. CASE input.operation = "sign-blob" /\ input \in SignBlobInputs
  <2>1. /\ Fixed(input.id.keyless) = input.id.keyless
        /\ Fixed(input.id.tlog_upload) = input.id.tlog_upload
    BY <1>2, OnSignBlob DEF Fixed
  <2>2. [input EXCEPT !.id.keyless = input.id.keyless,
                      !.id.tlog_upload = input.id.tlog_upload] = input
    BY <1>2 DEF SignBlobInputs, Identities
  <2>3. Repaired(input) = [input EXCEPT !.id.keyless = Fixed(@), !.id.tlog_upload = Fixed(@)]
    BY <1>2 DEF Repaired
  <2>4. QED  BY <1>2, <2>1, <2>2, <2>3
<1>3. CASE input.operation = "verify-blob" /\ input \in VerifyBlobInputs
  <2>1. Fixed(input.ignore_tlog) = input.ignore_tlog
    BY <1>3, OnVerifyBlob DEF Fixed
  <2>2. Repaired(input) = [input EXCEPT !.ignore_tlog = Fixed(@)]
    BY <1>3 DEF Repaired
  <2>3. QED  BY <1>3, <2>1, <2>2 DEF VerifyBlobInputs
<1>4. QED  BY <1>1, <1>2, <1>3, Operations

(* A dry run and the execution fail for the same ill-typed booleans, but   *)
(* for the two fields the property names (provider.go:260-261).            *)
THEOREM DryRunErrorsAgree == Spec => []WhatIfErrorsAgree
<1>1. InputInv => WhatIfErrorsAgree
  <2> SUFFICES ASSUME InputInv PROVE WhatIfErrorsAgree
    OBVIOUS
  <2>1. ASSUME described = Failed, parsed # NoConfig PROVE parsed = Failed
    <3>1. WhatIfRejected(input)
      <4>1. NoConfig # Failed
        BY DEF NoConfig, Failed
      <4>2. QED  BY <2>1, <4>1, ConfigsAreProper DEF InputInv, DryRun
    <3>2. QED  BY <2>1, <3>1, DryRunsRefuseLess DEF InputInv, Outcome
  <2>2. ASSUME parsed = Failed, ~Rejected(Repaired(input)) PROVE ~Planned
    <3>1. Rejected(input)
      <4>1. NoConfig # Failed
        BY DEF NoConfig, Failed
      <4>2. QED  BY <2>2, <4>1, ConfigsAreProper DEF InputInv, Outcome
    <3>2. QED  BY <2>2, <3>1, NothingToRepair, Describing
  <2>3. QED  BY <2>1, <2>2 DEF WhatIfErrorsAgree
<1>2. QED  BY <1>1, AlwaysInputInv, PTL

(* A verification that runs has one verifier and what it holds it against  *)
(* (verifyblob.go:454-474).                                                *)
THEOREM EveryVerifierIsPinned == Spec => []VerifyIsPinned
<1>1. InputInv => VerifyIsPinned
  <2> DEFINE Subjects == {"certificate_identity", "certificate_identity_regexp"}
             Issuers  == {"certificate_oidc_issuer", "certificate_oidc_issuer_regexp"}
  <2> SUFFICES ASSUME InputInv, Runs, input.operation = "verify-blob"
               PROVE  IF parsed.identity = "key" THEN input.certificate = "" /\ Pins(input) = {}
                      ELSE /\ input.certificate # "" \/ input.bundle # ""
                           /\ \E i \in Subjects : \E o \in Issuers : {i, o} \subseteq Pins(input)
    BY DEF VerifyIsPinned
  <2>1. ~Rejected(input) /\ parsed = Config(input)
    BY Running
  <2>2. ~VerifyBlobRejected(input)
    BY <2>1, OnVerifyBlob
  <2>3. parsed.identity = IF input.key # "" THEN "key" ELSE "keyless"
    BY <2>1, OnVerifyBlobConfig
  <2>4. CASE input.key # ""
    BY <2>2, <2>3, <2>4 DEF VerifyBlobRejected
  <2>5. CASE input.key = ""
    <3>1. input.certificate # "" \/ input.bundle # ""
      BY <2>2, <2>5 DEF VerifyBlobRejected
    <3>2. Pins(input) \cap Subjects # {} /\ Pins(input) \cap Issuers # {}
      BY <2>2, <2>5 DEF VerifyBlobRejected
    <3>3. QED  BY <2>3, <2>5, <3>1, <3>2
  <2>6. QED  BY <2>4, <2>5
<1>2. QED  BY <1>1, AlwaysInputInv, PTL
=============================================================================
