----------------------------- MODULE SignInput ------------------------------
(***************************************************************************)
(* The inputs of the operations: what the parsers accept and make of them, *)
(* and what DescribeWhatIf says of the same input beforehand               *)
(* (internal/cosign/sign.go, signblob.go, verifyblob.go, kms.go,           *)
(* provider.go).                                                           *)
(*                                                                         *)
(* A field is abstracted to the distinctions the code draws.  A boolean    *)
(* field is absent, a representation of true or of false that toBool       *)
(* accepts, or anything else; a string field is empty or not.              *)
(*                                                                         *)
(* An operator BUG_... is a plausible mistake in the definition after it;  *)
(* nothing uses it here (see README.md, "Seeded bugs").                    *)
(***************************************************************************)
CONSTANTS Inputs   \* the inputs under consideration

BoolFields == {"absent", "true", "false", "other"}
Presence   == {"", "given"}
(* Key references by scheme: none, a plain path, k8s://, a URL (env://,    *)
(* http://, https://), a registered KMS provider, a hardware token, a      *)
(* scheme nobody registered.                                               *)
KeyRefs    == {"", "file", "k8s", "url", "kms", "pkcs11", "unregistered"}
(* referrers_mode and bundle_format: the value, before normalisation.      *)
Modes      == {"", "oci-1-1", "legacy", " Legacy ", "nonsense"}
Formats    == {"", "legacy", "sigstore", " Sigstore ", "nonsense"}

Identities ==
    [key : KeyRefs, keyless : BoolFields, fulcio_url : Presence,
     fulcio_insecure_skip_verify : BoolFields, tlog_upload : BoolFields,
     rekor_url : Presence]
SignInputs ==
    [operation : {"sign"}, id : Identities, ref : Presence, referrers_mode : Modes,
     annotations : {"absent", "map", "other"}, recursive : BoolFields]
SignBlobInputs ==
    [operation : {"sign-blob"}, id : Identities, path : Presence, content : Presence,
     output_signature : Presence, output_certificate : Presence,
     bundle : Presence, bundle_format : Formats]
VerifyBlobInputs ==
    [operation : {"verify-blob"}, path : Presence, content : Presence,
     signature : Presence, signature_path : Presence, bundle : Presence,
     bundle_format : Formats, key : KeyRefs, certificate : KeyRefs,
     certificate_identity : Presence, certificate_identity_regexp : Presence,
     certificate_oidc_issuer : Presence, certificate_oidc_issuer_regexp : Presence,
     trusted_root : Presence, rekor_url : Presence, ignore_tlog : BoolFields]

ASSUME InputsAssumption ==
    Inputs \subseteq SignInputs \cup SignBlobInputs \cup VerifyBlobInputs
-----------------------------------------------------------------------------
(* toBool fails on a field that is present.                                *)
NotBool(v) == v = "other"

(* selfHandledKeyPrefixes, and the providers this build registers.         *)
HandledByCosign == {"k8s", "url"}
Providers       == {"kms"}
HasScheme(k)    == k \in {"k8s", "url", "kms", "unregistered"}

BUG_ValidKeyRef(k) == k = "" \/ k \in Providers \cup HandledByCosign \/ ~HasScheme(k)
(* validateKeyRef: pkcs11: references have no "://", hence the first line. *)
ValidKeyRef(k) ==
    /\ k # "pkcs11"
    /\ k = "" \/ k \in Providers \cup HandledByCosign \/ ~HasScheme(k)

(* What sigstore does with a reference it is given: hardware tokens and    *)
(* k8s:// are taken first; a scheme without a provider goes to an external *)
(* program, for a URL only if somebody has installed one of that name.     *)
Resolver(k) ==
    CASE k = ""             -> "none"
      [] k = "pkcs11"       -> "hardware token"
      [] k = "k8s"          -> "cosign"
      [] k = "kms"          -> "provider"
      [] k = "url"          -> "cosign, after a probe"
      [] k = "unregistered" -> "external program"
      [] k = "file"         -> "file"

Keyless(id) == IF id.keyless = "absent" THEN id.key = "" ELSE id.keyless = "true"

TlogUpload(id) ==
    IF id.tlog_upload = "absent" THEN Keyless(id) \/ id.rekor_url # ""
    ELSE id.tlog_upload = "true"

BUG_NoRekorCheck(id) ==
    \/ ~ValidKeyRef(id.key)
    \/ NotBool(id.keyless)
    \/ id.keyless = "true" /\ id.key # ""
    \/ id.keyless = "false" /\ id.key = ""
    \/ Keyless(id) /\ (id.fulcio_url = "" \/ NotBool(id.fulcio_insecure_skip_verify))
    \/ NotBool(id.tlog_upload)

BUG_KeylessWinsOverKey(id) ==
    \/ ~ValidKeyRef(id.key)
    \/ NotBool(id.keyless)
    \/ id.keyless = "false" /\ id.key = ""
    \/ Keyless(id) /\ (id.fulcio_url = "" \/ NotBool(id.fulcio_insecure_skip_verify))
    \/ NotBool(id.tlog_upload)
    \/ TlogUpload(id) /\ id.rekor_url = ""

(* parseSignIdentity returns an error.  The Fulcio fields of a key-based   *)
(* identity are not looked at.                                             *)
IdentityRejected(id) ==
    \/ ~ValidKeyRef(id.key)
    \/ NotBool(id.keyless)
    \/ id.keyless = "true" /\ id.key # ""
    \/ id.keyless = "false" /\ id.key = ""
    \/ Keyless(id) /\ (id.fulcio_url = "" \/ NotBool(id.fulcio_insecure_skip_verify))
    \/ NotBool(id.tlog_upload)
    \/ TlogUpload(id) /\ id.rekor_url = ""

(* strings.ToLower(strings.TrimSpace(...)) and the default, of either.     *)
NormalMode(m) ==
    CASE m \in {"", "oci-1-1"}        -> "oci-1-1"
      [] m \in {"legacy", " Legacy "} -> "legacy"
      [] OTHER                        -> "invalid"
NormalFormat(f) ==
    CASE f \in {"", "legacy"}             -> "legacy"
      [] f \in {"sigstore", " Sigstore "} -> "sigstore"
      [] OTHER                            -> "invalid"

SignRejected(in) ==
    \/ in.ref = ""
    \/ IdentityRejected(in.id)
    \/ NormalMode(in.referrers_mode) = "invalid"
    \/ in.annotations = "other"
    \/ NotBool(in.recursive)

SignBlobRejected(in) ==
    \/ in.path # "" /\ in.content # ""
    \/ in.path = "" /\ in.content = ""
    \/ NormalFormat(in.bundle_format) = "invalid"
    \/ NormalFormat(in.bundle_format) = "sigstore" /\ in.bundle = ""
    \/ IdentityRejected(in.id)
    \/ in.output_certificate # "" /\ ~Keyless(in.id)

Pins(in) ==
    {f \in {"certificate_identity", "certificate_identity_regexp",
            "certificate_oidc_issuer", "certificate_oidc_issuer_regexp"} : in[f] # ""}

BUG_IdentityWithCertificateOnly(in) ==
    \/ in.path # "" /\ in.content # ""
    \/ in.path = "" /\ in.content = ""
    \/ in.signature # "" /\ in.signature_path # ""
    \/ NormalFormat(in.bundle_format) = "invalid"
    \/ ~ValidKeyRef(in.key) \/ ~ValidKeyRef(in.certificate)
    \/ NotBool(in.ignore_tlog)
    \/ NormalFormat(in.bundle_format) = "sigstore" /\ (in.bundle = "" \/ in.trusted_root = "")
    \/ NormalFormat(in.bundle_format) # "sigstore" /\ in.trusted_root # ""
    \/ in.key = "" /\ in.certificate = "" /\ in.bundle = ""
    \/ in.key # "" /\ (in.certificate # "" \/ Pins(in) # {})
    \/ in.certificate # "" /\ Pins(in) \cap {"certificate_identity", "certificate_identity_regexp"} = {}
    \/ in.certificate # "" /\ Pins(in) \cap {"certificate_oidc_issuer", "certificate_oidc_issuer_regexp"} = {}

(* parseVerifyBlobConfig: everything but a key needs a pinned identity and *)
(* issuer.                                                                 *)
VerifyBlobRejected(in) ==
    \/ in.path # "" /\ in.content # ""
    \/ in.path = "" /\ in.content = ""
    \/ in.signature # "" /\ in.signature_path # ""
    \/ NormalFormat(in.bundle_format) = "invalid"
    \/ ~ValidKeyRef(in.key) \/ ~ValidKeyRef(in.certificate)
    \/ NotBool(in.ignore_tlog)
    \/ NormalFormat(in.bundle_format) = "sigstore" /\ (in.bundle = "" \/ in.trusted_root = "")
    \/ NormalFormat(in.bundle_format) # "sigstore" /\ in.trusted_root # ""
    \/ in.key = "" /\ in.certificate = "" /\ in.bundle = ""
    \/ in.key # "" /\ (in.certificate # "" \/ Pins(in) # {})
    \/ in.key = "" /\ Pins(in) \cap {"certificate_identity", "certificate_identity_regexp"} = {}
    \/ in.key = "" /\ Pins(in) \cap {"certificate_oidc_issuer", "certificate_oidc_issuer_regexp"} = {}

Rejected(in) ==
    CASE in.operation = "sign"        -> SignRejected(in)
      [] in.operation = "sign-blob"   -> SignBlobRejected(in)
      [] in.operation = "verify-blob" -> VerifyBlobRejected(in)

(* signConfig, signBlobConfig and verifyBlobConfig, as far as an accepted  *)
(* input decides what the call will do.                                    *)
NoConfig == [op |-> "none"]
SignConfig(in) ==
    [op |-> "sign", identity |-> IF Keyless(in.id) THEN "keyless" ELSE "key",
     uploads |-> TlogUpload(in.id), mode |-> NormalMode(in.referrers_mode),
     recursive |-> in.recursive = "true", files |-> {}]
SignBlobConfig(in) ==
    [op |-> "sign-blob", identity |-> IF Keyless(in.id) THEN "keyless" ELSE "key",
     uploads |-> TlogUpload(in.id),
     mode |-> NormalFormat(in.bundle_format), recursive |-> FALSE,
     files |-> {f \in {"output_signature", "output_certificate", "bundle"} : in[f] # ""}]
VerifyBlobConfig(in) ==
    [op |-> "verify-blob", identity |-> IF in.key # "" THEN "key" ELSE "keyless",
     uploads |-> FALSE, mode |-> IF in.ignore_tlog = "true" THEN "unlogged" ELSE "logged",
     recursive |-> FALSE, files |-> {f \in {"bundle"} : in[f] # ""}]
Config(in) ==
    CASE in.operation = "sign"        -> SignConfig(in)
      [] in.operation = "sign-blob"   -> SignBlobConfig(in)
      [] in.operation = "verify-blob" -> VerifyBlobConfig(in)
-----------------------------------------------------------------------------
BUG_WhatIfRejected(in) ==
    CASE in.operation = "sign"        -> NotBool(in.id.keyless)
      [] in.operation = "sign-blob"   -> NotBool(in.id.keyless) \/ NotBool(in.id.tlog_upload)
      [] in.operation = "verify-blob" -> NotBool(in.ignore_tlog)

(* DescribeWhatIf: the booleans it checks, and the claims of its text.     *)
WhatIfRejected(in) ==
    CASE in.operation = "sign"        -> NotBool(in.id.keyless) \/ NotBool(in.recursive)
      [] in.operation = "sign-blob"   -> NotBool(in.id.keyless) \/ NotBool(in.id.tlog_upload)
      [] in.operation = "verify-blob" -> NotBool(in.ignore_tlog)

(* referrersModeFromInput, the bundle format, and what is said of the log. *)
WhatIfMode(in) ==
    CASE in.operation = "sign"        -> IF NormalMode(in.referrers_mode) = "legacy"
                                         THEN "legacy" ELSE "oci-1-1"
      [] in.operation = "sign-blob"   -> IF NormalFormat(in.bundle_format) = "sigstore"
                                         THEN "sigstore" ELSE "legacy"
      [] in.operation = "verify-blob" -> IF in.ignore_tlog = "true"
                                         THEN "unlogged" ELSE "logged"

KeyOf(in) == IF in.operation = "verify-blob" THEN in.key ELSE in.id.key

WhatIf(in) ==
    [op |-> in.operation, identity |-> IF KeyOf(in) # "" THEN "key" ELSE "keyless",
     uploads |-> in.operation # "verify-blob" /\ in.id.rekor_url # "",
     mode |-> WhatIfMode(in),
     recursive |-> in.operation = "sign" /\ in.recursive = "true",
     files |-> CASE in.operation = "sign"        -> {}
                 [] in.operation = "sign-blob"   ->
                      {f \in {"output_signature", "bundle"} : in[f] # ""}
                 [] in.operation = "verify-blob" -> {f \in {"bundle"} : in[f] # ""}]
-----------------------------------------------------------------------------
VARIABLES input, described, parsed
vars == <<input, described, parsed>>

Failed == [op |-> "error"]

(* The host holds one input; it may ask for a dry run, and execute it.     *)
Init == input \in Inputs /\ described = NoConfig /\ parsed = NoConfig

DescribeWhatIf ==
    /\ described = NoConfig
    /\ described' = IF WhatIfRejected(input) THEN Failed ELSE WhatIf(input)
    /\ UNCHANGED <<input, parsed>>

(* ExecuteProvider, up to the point where the operation starts its work.   *)
ExecuteProvider ==
    /\ parsed = NoConfig
    /\ parsed' = IF Rejected(input) THEN Failed ELSE Config(input)
    /\ UNCHANGED <<input, described>>

Next == DescribeWhatIf \/ ExecuteProvider
Spec == Init /\ [][Next]_vars

Runs    == parsed \notin {NoConfig, Failed}
Planned == described \notin {NoConfig, Failed}
-----------------------------------------------------------------------------
(* kms.go:35-49: the key of an operation that runs is resolved in-process: *)
(* sigstore neither starts its program for an unknown scheme ("a shell-out *)
(* this provider must never perform") nor looks for a hardware token.  The *)
(* probe for URLs is the residual that kms.go:42-49 accepts.               *)
NeverShellsOut ==
    Runs => Resolver(KeyOf(input)) \notin {"external program", "hardware token"}

(* What runs with nothing public said beforehand: an upload to the log     *)
(* (sign.go:499-510) always has an endpoint, and the dry run named it      *)
(* (provider.go:153-155, 202-204).                                         *)
UploadsWereAnnounced ==
    Runs /\ Planned /\ parsed.uploads => input.id.rekor_url # "" /\ described.uploads

(* provider.go:139-168, 180-201, 210-250: the identity, the storage and    *)
(* the extent that the dry run describes are those of the execution, and   *)
(* so are the files, but for one: the certificate (signblob.go:119-123) is *)
(* written and never announced.                                            *)
Unannounced == {"output_certificate"}
WhatIfAgrees ==
    Runs /\ Planned =>
        /\ described.identity = parsed.identity
        /\ described.mode = parsed.mode
        /\ described.recursive = parsed.recursive
        /\ described.files = parsed.files \ Unannounced

(* The input without what is no boolean in the fields the dry run checks.  *)
Fixed(v) == IF NotBool(v) THEN "absent" ELSE v
Repaired(in) ==
    CASE in.operation = "sign"        -> [in EXCEPT !.id.keyless = Fixed(@), !.recursive = Fixed(@)]
      [] in.operation = "sign-blob"   -> [in EXCEPT !.id.keyless = Fixed(@),
                                                    !.id.tlog_upload = Fixed(@)]
      [] in.operation = "verify-blob" -> [in EXCEPT !.ignore_tlog = Fixed(@)]
(* provider.go:260-261, "dry runs surface the same errors as execution":   *)
(* a dry run fails only where the execution does, and it does not describe *)
(* what the execution refuses for the type of a boolean alone.  Two fields *)
(* it does not look at: tlog_upload of sign, and the Fulcio flag.          *)
WhatIfErrorsAgree ==
    /\ described = Failed /\ parsed # NoConfig => parsed = Failed
    /\ parsed = Failed /\ ~Rejected(Repaired(input)) => ~Planned

(* verifyblob.go:454-474, README.md:180: a verification that runs has one  *)
(* verifier and what it needs: a key and no identity, or a certificate or  *)
(* bundle and both an identity and an issuer to hold it against.  Module   *)
(* VerifyBlob takes this for granted (InputsValid).                        *)
VerifyIsPinned ==
    Runs /\ input.operation = "verify-blob" =>
        IF parsed.identity = "key" THEN input.certificate = "" /\ Pins(input) = {}
        ELSE /\ input.certificate # "" \/ input.bundle # ""
             /\ \E i \in {"certificate_identity", "certificate_identity_regexp"} :
                  \E o \in {"certificate_oidc_issuer", "certificate_oidc_issuer_regexp"} :
                     {i, o} \subseteq Pins(input)
=============================================================================
