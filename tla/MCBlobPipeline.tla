--------------------------- MODULE MCBlobPipeline ---------------------------
(* Two signing calls and a verification of the same blob.                  *)
EXTENDS BlobPipeline, TLC

CONSTANTS c1, c2, v1, k1, blob, old, new, fileA, fileB, fileC, fileD,
          alice, bob, private

MCIdentity  == (c1 :> alice) @@ (c2 :> bob)
MCAuthority == [c \in Calls |-> PublicGood]
\* "rekor" is V!Rekor; through V the definition would need Distributed itself
MCDistributed == {PublicGood, "rekor"}

Config(key, upload, sig, cert, bundle, format) ==
    [key |-> key, path |-> blob, tlogUpload |-> upload,
     out |-> (Signature :> sig) @@ (Certificate :> cert) @@ (Bundle :> bundle),
     format |-> format]

(* Keyless with all outputs, and keys with and without the log; files of   *)
(* their own and files that another call writes, too.                      *)
MCInputs ==
    {Config(Keyless, TRUE, fileA, fileB, fileC, LegacyFormat),
     Config(k1, FALSE, fileD, NoPath, NoPath, LegacyFormat),
     Config(k1, TRUE, NoPath, NoPath, fileD, SigstoreFormat)}

Base == [blob |-> blob, signature |-> NoPath, bundle |-> NoPath,
         format |-> LegacyFormat, key |-> Keyless, certificate |-> NoPath,
         identity |-> NoOne, certChain |-> NoOne, caRoots |-> NoOne,
         trustedRoot |-> NoOne, rekor |-> FALSE, ignoreTlog |-> FALSE]

MCVerifyInputs ==
    {\* a key and a signature, from a file or inline, with and without the log
     [Base EXCEPT !.signature = fileD, !.key = k1, !.ignoreTlog = TRUE],
     [Base EXCEPT !.signature = Inline, !.key = k1, !.rekor = TRUE, !.blob = old],
     [Base EXCEPT !.signature = Inline, !.key = k1, !.rekor = TRUE, !.blob = new],
     \* keyless from a legacy bundle, and from three files
     [Base EXCEPT !.bundle = fileC, !.identity = alice],
     [Base EXCEPT !.signature = fileA, !.certificate = fileB, !.bundle = fileC,
                  !.identity = bob, !.certChain = PublicGood, !.caRoots = private],
     \* sigstore bundles
     [Base EXCEPT !.bundle = fileD, !.format = SigstoreFormat, !.key = k1,
                  !.trustedRoot = private]}

(* The log is told to be left alone, by both.                              *)
UnloggedInputs == {Config(k1, FALSE, NoPath, NoPath, fileD, SigstoreFormat)}
UnloggedVerifyInputs ==
    {[Base EXCEPT !.bundle = fileD, !.format = SigstoreFormat, !.key = k1,
                  !.trustedRoot = private, !.ignoreTlog = TRUE]}

(* A private deployment, held against its own authority, given either way. *)
PrivateAuthority == [c \in Calls |-> private]
PrivateInputs    == {Config(Keyless, TRUE, fileA, fileB, fileC, LegacyFormat)}
AnchoredInputs   ==
    {[Base EXCEPT !.bundle = fileC, !.identity = alice, !.caRoots = private],
     [Base EXCEPT !.signature = fileA, !.certificate = fileB, !.bundle = fileC,
                  !.identity = alice, !.certChain = private]}

Symmetry == Permutations({old, new})
(* Inputs that have to do with each other: the signer that a verification  *)
(* pins is one of the calls, and writes a file that the verification reads *)
(* or supplies the inline signature.  With keys the calls differ in        *)
(* nothing, so the first is that signer, and two keyed inputs come in one  *)
(* order.                                                                  *)
FilesOf(c)   == {cfg[c].out[o] : o \in Asked(c)}
FilesRead(v) == {vcfg[v].signature, vcfg[v].certificate, vcfg[v].bundle} \cap Paths
Related ==
    /\ \A v \in Verifications : \E c \in Calls :
         /\ PinnedSigner(v, c)
         /\ FilesRead(v) \cap FilesOf(c) # {} \/ vcfg[v].signature = Inline
         /\ vcfg[v].key # Keyless => c = c1
    /\ ~(cfg[c1].format = SigstoreFormat /\ cfg[c2].key # Keyless /\ ~cfg[c2].tlogUpload)

(* What signing does after the verification it can do before it begins.    *)
VerificationAhead == \E v \in Verifications : vpc[v] \notin {"done", "killed"}
=============================================================================
