----------------------------- MODULE MCSignInput ----------------------------
(* All inputs, but for combinations that no check relates: sign with the   *)
(* reference present, sign-blob with the Fulcio verification flag absent,  *)
(* verify-blob with a path, and with one key of each kind of treatment.    *)
EXTENDS SignInput

MCVerifyBlobInputs ==
    [operation : {"verify-blob"}, path : {"given"}, content : Presence,
     signature : Presence, signature_path : {""}, bundle : Presence,
     bundle_format : {"", "sigstore", " Sigstore ", "nonsense"},
     key : {"", "file", "kms", "pkcs11", "unregistered"}, certificate : {"", "file", "unregistered"},
     certificate_identity : Presence, certificate_identity_regexp : Presence,
     certificate_oidc_issuer : Presence, certificate_oidc_issuer_regexp : Presence,
     trusted_root : Presence, rekor_url : {""}, ignore_tlog : BoolFields]

MCInputs ==
    {in \in SignInputs : in.ref # "" /\ in.annotations # "other"
        /\ in.id.fulcio_insecure_skip_verify \in {"absent", "other"}}
    \cup {in \in SignBlobInputs : in.id.fulcio_insecure_skip_verify = "absent"}
    \cup MCVerifyBlobInputs
=============================================================================
