----------------------------- MODULE BlobFiles ------------------------------
(***************************************************************************)
(* What sign-blob leaves behind and verify-blob finds: blobs, signatures,  *)
(* output files and log entries.  A blob is abstracted to its content, a   *)
(* digest to the content it is the digest of.                              *)
(***************************************************************************)
EXTENDS Naturals, Sequences

CONSTANTS
    Calls,      \* executeSignBlob invocations
    Keys,       \* key references that load
    Keyless,    \* stands for "no key"
    Contents,   \* what a blob may hold
    Blobs,      \* paths of blobs
    Paths       \* paths of output files

NoPath    == "no path"
Inline    == "inline"     \* in place of a path: the input holds the signature
NoContent == "no content"
NoCert    == "no certificate"

ASSUME NamesAssumption ==
    /\ NoPath \notin Paths /\ NoContent \notin Contents
    /\ NoCert \notin Calls /\ Inline \notin Calls
(* A keyless call has an ephemeral key that nobody else has: the call.     *)
ASSUME KeysAssumption == Calls \cap Keys = {} /\ Keyless \notin Keys

LegacyFormat   == "legacy"
SigstoreFormat == "sigstore"
Formats == {LegacyFormat, SigstoreFormat}

(* A signature; a key signs the same content differently each time, so the *)
(* call that made it is part of it.                                        *)
Signatures == [key : Keys \cup Calls, content : Contents, by : Calls]
(* A log entry names the signature and the digest it was submitted with.   *)
Entries    == [sig : Signatures, digest : Contents]

(* A file: missing, truncated, a mixture or a part of something, or one of *)
(* the outputs of sign-blob.  The certificate of a call is its ephemeral   *)
(* key.  Only the sigstore bundle has a digest of its own; entry 0 is a    *)
(* bundle without a log entry.                                             *)
Absent == [kind |-> "absent"]
Empty  == [kind |-> "empty"]
Torn   == [kind |-> "torn"]
Files ==
    {Absent, Empty, Torn}
    \cup [kind : {"signature"}, sig : Signatures]
    \cup [kind : {"certificate"}, cert : Calls]
    \cup [kind : {"bundle"}, format : Formats, sig : Signatures,
          digest : Contents \cup {NoContent}, cert : Calls \cup {NoCert}, entry : Nat]
=============================================================================
