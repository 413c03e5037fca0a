------------------------------ MODULE SignBlob ------------------------------
(***************************************************************************)
(* The sign-blob operation (internal/cosign/signblob.go): concurrent       *)
(* executeSignBlob calls that share a file system and a transparency log,  *)
(* while somebody else rewrites the blobs.  os.WriteFile is two steps,     *)
(* truncating and writing, either of which may fail; so may the process    *)
(* stop between any two steps (Fail: nothing but files is kept).           *)
(*                                                                         *)
(* An operator BUG_... is a plausible mistake in the definition after it;  *)
(* nothing uses it here (see README.md, "Seeded bugs").                    *)
(***************************************************************************)
EXTENDS BlobFiles

CONSTANTS Inputs   \* the validated inputs the host may send

(* The optional output files, in the order the code writes them.           *)
Outputs   == 1 .. 3
Signature == 1
Certificate == 2
Bundle    == 3

SignBlobConfig ==
    [key : Keys \cup {Keyless}, path : Blobs, tlogUpload : BOOLEAN,
     out : [Outputs -> Paths \cup {NoPath}], format : Formats]

(* parseSignBlobConfig: a key-based signature has no certificate.          *)
ASSUME InputsAssumption ==
    /\ Inputs \subseteq SignBlobConfig
    /\ \A in \in Inputs : in.out[Certificate] # NoPath => in.key = Keyless

VARIABLES
    pc,      \* how far each call has come
    cfg,     \* its signBlobConfig
    signed,  \* content its signature is over
    hashed,  \* content its digest is of
    entry,   \* its log index, 0 when none
    left,    \* output files it has still to write
    blobs,   \* file system: the blobs
    files,   \* file system: the output files
    tlog     \* Rekor: the entries logged so far

local == <<pc, cfg, signed, hashed, entry, left>>
vars  == <<pc, cfg, signed, hashed, entry, left, blobs, files, tlog>>

Signer(c) == IF cfg[c].key = Keyless THEN c ELSE cfg[c].key
SignatureOf(c)   == [key |-> Signer(c), content |-> signed[c], by |-> c]
CertificateOf(c) == IF cfg[c].key = Keyless THEN c ELSE NoCert

BUG_BundleWithoutEntry(c, o) ==
    CASE o = Signature   -> [kind |-> "signature", sig |-> SignatureOf(c)]
      [] o = Certificate -> [kind |-> "certificate", cert |-> CertificateOf(c)]
      [] o = Bundle      ->
           [kind |-> "bundle", format |-> cfg[c].format, sig |-> SignatureOf(c),
            digest |-> IF cfg[c].format = SigstoreFormat THEN hashed[c] ELSE NoContent,
            cert |-> CertificateOf(c),
            entry |-> IF cfg[c].format = SigstoreFormat THEN 0 ELSE entry[c]]

(* What each output holds: the signature; the certificate; a bundle of the *)
(* signature, the certificate if any and the entry if any.                 *)
Contained(c, o) ==
    CASE o = Signature   -> [kind |-> "signature", sig |-> SignatureOf(c)]
      [] o = Certificate -> [kind |-> "certificate", cert |-> CertificateOf(c)]
      [] o = Bundle      ->
           [kind |-> "bundle", format |-> cfg[c].format, sig |-> SignatureOf(c),
            digest |-> IF cfg[c].format = SigstoreFormat THEN hashed[c] ELSE NoContent,
            cert |-> CertificateOf(c), entry |-> entry[c]]
-----------------------------------------------------------------------------
Init ==
    /\ pc = [c \in Calls |-> "idle"]
    /\ cfg \in [Calls -> Inputs]
    /\ signed = [c \in Calls |-> NoContent]
    /\ hashed = [c \in Calls |-> NoContent]
    /\ entry = [c \in Calls |-> 0]
    /\ left = [c \in Calls |-> {o \in Outputs : cfg[c].out[o] # NoPath}]
    /\ blobs \in [Blobs -> Contents]
    /\ files = [p \in Paths |-> Absent]
    /\ tlog = <<>>

Goto(c, from, to) == pc[c] = from /\ pc' = [pc EXCEPT ![c] = to]

(* The call is made, parseSignBlobConfig accepts its input and buildSigner *)
(* gets it a key, or a certificate from Fulcio.                            *)
ExecuteSignBlob(c) ==
    /\ Goto(c, "idle", "signer")
    /\ UNCHANGED <<cfg, signed, hashed, entry, left, blobs, files, tlog>>

BUG_SignBlobHashedFirst(c) ==
    /\ \/ Goto(c, "signer", "signer") /\ hashed[c] = NoContent
          /\ hashed' = [hashed EXCEPT ![c] = blobs[cfg[c].path]] /\ UNCHANGED signed
       \/ Goto(c, "signer", "signed") /\ hashed[c] # NoContent
          /\ signed' = [signed EXCEPT ![c] = blobs[cfg[c].path]] /\ UNCHANGED hashed
    /\ UNCHANGED <<cfg, entry, left, blobs, files, tlog>>

(* The blob is streamed once through the hash and the signer.              *)
SignBlob(c) ==
    /\ Goto(c, "signer", "signed")
    /\ signed' = [signed EXCEPT ![c] = blobs[cfg[c].path]]
    /\ hashed' = [hashed EXCEPT ![c] = blobs[cfg[c].path]]
    /\ UNCHANGED <<cfg, entry, left, blobs, files, tlog>>

BUG_UploadUnsigned(c) ==
    /\ cfg[c].tlogUpload
    /\ Goto(c, "signer", "ready")
    /\ tlog' = Append(tlog, [sig |-> SignatureOf(c), digest |-> hashed[c]])
    /\ entry' = [entry EXCEPT ![c] = Len(tlog')]
    /\ UNCHANGED <<cfg, signed, hashed, left, blobs, files>>

(* The upload, when there is one; its answer may be lost.                  *)
UploadToRekor(c) ==
    /\ cfg[c].tlogUpload
    /\ Goto(c, "signed", "ready") \/ Goto(c, "signed", "failed")
    /\ tlog' = Append(tlog, [sig |-> SignatureOf(c), digest |-> hashed[c]])
    /\ entry' = [entry EXCEPT ![c] = Len(tlog')]
    /\ UNCHANGED <<cfg, signed, hashed, left, blobs, files>>

BUG_ReadyWithoutUpload(c) == pc[c] \in {"ready", "signed"}
(* Everything that precedes the output files is done.                      *)
Ready(c) == pc[c] = "ready" \/ (pc[c] = "signed" /\ ~cfg[c].tlogUpload)

BUG_CurrentBundleFirst(c) == CHOOSE o \in left[c] : \A n \in left[c] : n <= o
Current(c)  == CHOOSE o \in left[c] : \A n \in left[c] : o <= n
PathOf(c)   == cfg[c].out[Current(c)]

(* os.WriteFile opens the file with O_TRUNC ...                            *)
OpenOutput(c) ==
    /\ Ready(c) /\ left[c] # {}
    /\ pc' = [pc EXCEPT ![c] = "writing"]
    /\ files' = [files EXCEPT ![PathOf(c)] = Empty]
    /\ UNCHANGED <<cfg, signed, hashed, entry, left, blobs, tlog>>

BUG_ErrorIgnored(c) ==
    /\ Goto(c, "writing", "ready")
    /\ \E f \in {Contained(c, Current(c)), Torn} :
         files' = [files EXCEPT ![PathOf(c)] = f]
    /\ left' = [left EXCEPT ![c] = @ \ {Current(c)}]
    /\ UNCHANGED <<cfg, signed, hashed, entry, blobs, tlog>>

(* ... and writes from its beginning: over what another call, which opened *)
(* it too, has written there meanwhile, of which a longer end may remain.  *)
WriteOutput(c) ==
    /\ Goto(c, "writing", "ready")
    /\ \E f \in IF files[PathOf(c)] = Empty THEN {Contained(c, Current(c))}
               ELSE {Contained(c, Current(c)), Torn} :
         files' = [files EXCEPT ![PathOf(c)] = f]
    /\ left' = [left EXCEPT ![c] = @ \ {Current(c)}]
    /\ UNCHANGED <<cfg, signed, hashed, entry, blobs, tlog>>

(* A write that fails leaves some of it behind, or (Fail) nothing of it.   *)
WriteFails(c) ==
    /\ Goto(c, "writing", "failed")
    /\ files' = [files EXCEPT ![PathOf(c)] = Torn]
    /\ UNCHANGED <<cfg, signed, hashed, entry, left, blobs, tlog>>

Return(c) ==
    /\ Ready(c) /\ left[c] = {}
    /\ pc' = [pc EXCEPT ![c] = "ok"]
    /\ UNCHANGED <<cfg, signed, hashed, entry, left, blobs, files, tlog>>

Fail(c) ==
    /\ pc[c] \notin {"idle", "ok", "failed"}
    /\ ~(Ready(c) /\ left[c] = {})
    /\ pc' = [pc EXCEPT ![c] = "failed"]
    /\ UNCHANGED <<cfg, signed, hashed, entry, left, blobs, files, tlog>>

(* Somebody rewrites a blob.                                               *)
EditBlob(b, d) ==
    /\ blobs' = [blobs EXCEPT ![b] = d]
    /\ UNCHANGED <<local, files, tlog>>

Step(c) ==
    \/ SignBlob(c) \/ UploadToRekor(c)
    \/ OpenOutput(c) \/ WriteOutput(c) \/ WriteFails(c)
    \/ Return(c) \/ Fail(c)

Next ==
    \/ \E c \in Calls : ExecuteSignBlob(c) \/ Step(c)
    \/ \E b \in Blobs, d \in Contents : EditBlob(b, d)

Spec == Init /\ [][Next]_vars
-----------------------------------------------------------------------------
TypeOK ==
    /\ pc \in [Calls -> {"idle", "signer", "signed", "ready", "writing",
                         "ok", "failed"}]
    /\ cfg \in [Calls -> Inputs]
    /\ signed \in [Calls -> Contents \cup {NoContent}]
    /\ hashed \in [Calls -> Contents \cup {NoContent}]
    /\ entry \in [Calls -> Nat]
    /\ left \in [Calls -> SUBSET Outputs]
    /\ blobs \in [Blobs -> Contents]
    /\ files \in [Paths -> Files]
    /\ tlog \in Seq(Entries)

Asked(c) == {o \in Outputs : cfg[c].out[o] # NoPath}
(* No output file of c is an output file twice.                            *)
Exclusive(c) ==
    \A o \in Asked(c), e \in Calls : \A n \in Asked(e) :
        cfg[e].out[n] = cfg[c].out[o] => e = c /\ n = o

(* signblob.go:114-128: a call that returned success has all its output    *)
(* files complete, of one signature, if nobody else writes to their paths. *)
SuccessIsComplete ==
    \A c \in Calls : pc[c] = "ok" /\ Exclusive(c) =>
        \A o \in Asked(c) : files[cfg[c].out[o]] = Contained(c, o)

(* signblob.go:114-128: a call that failed leaves no bundle or certificate *)
(* of its own without the output files that precede it.                    *)
FailureLeavesPrefix ==
    \A c \in Calls : Exclusive(c) =>
        \A o \in Asked(c) : files[cfg[c].out[o]] = Contained(c, o) =>
            \A n \in Asked(c) : n < o => files[cfg[c].out[n]] = Contained(c, n)

(* signblob.go:80-94: the digest a call reports, logs and bundles is that  *)
(* of the bytes it signed, though the blob is rewritten meanwhile.         *)
DigestIsOfSignedBytes ==
    /\ \A c \in Calls : pc[c] = "ok" => hashed[c] = signed[c]
    /\ \A i \in 1 .. Len(tlog) : tlog[i].digest = tlog[i].sig.content
    /\ \A p \in Paths : files[p].kind = "bundle" /\ files[p].format = SigstoreFormat =>
         files[p].digest = files[p].sig.content

(* signblob.go:104-128: no file holds a signature that ought to be logged  *)
(* and is not, and a bundle carries the entry of its own signature.        *)
LoggedBeforeWritten ==
    \A p \in Paths : files[p].kind \in {"signature", "bundle"} =>
        LET s == files[p].sig IN
        /\ cfg[s.by].tlogUpload => \E i \in 1 .. Len(tlog) : tlog[i].sig = s
        /\ files[p].kind = "bundle" /\ files[p].entry # 0 => tlog[files[p].entry].sig = s
        /\ files[p].kind = "bundle" /\ cfg[s.by].tlogUpload => files[p].entry # 0
=============================================================================
