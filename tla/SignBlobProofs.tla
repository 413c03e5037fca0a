--------------------------- MODULE SignBlobProofs ---------------------------
(***************************************************************************)
(* Theorems about the sign-blob operation, for any number of calls, blobs, *)
(* output files and inputs.  The invariant is that everything that is      *)
(* visible outside a call, in a file or in the log, is of a signature that *)
(* some call has made and will not make again.                             *)
(***************************************************************************)
EXTENDS SignBlob, TLAPS

PCs == {"idle", "signer", "signed", "ready", "writing", "ok", "failed"}

(* s is what the call s.by has signed; it has passed that point.           *)
Made(s) ==
    /\ s \in Signatures
    /\ s = SignatureOf(s.by)
    /\ pc[s.by] \notin {"idle", "signer"}

(* What a call has of its own: the digest is of the bytes it signed, what  *)
(* it has still to write it was asked to, its entry is its own.            *)
Progress(c) ==
    /\ hashed[c] = signed[c]
    /\ pc[c] \in {"signed", "ready", "writing", "ok"} => signed[c] \in Contents
    /\ left[c] \subseteq Asked(c)
    /\ pc[c] = "writing" => left[c] # {}
    /\ pc[c] \in {"idle", "signer", "signed"} => entry[c] = 0
    /\ pc[c] \in {"ready", "writing", "ok"} /\ cfg[c].tlogUpload => entry[c] # 0
    /\ entry[c] # 0 => /\ entry[c] \in 1 .. Len(tlog)
                       /\ tlog[entry[c]] = [sig |-> SignatureOf(c), digest |-> hashed[c]]

EntryOK(n) == Made(tlog[n].sig) /\ tlog[n].digest = tlog[n].sig.content

Signs(f)  == f.kind \in {"signature", "bundle"}
FileOK(f) ==
    Signs(f) =>
        /\ Made(f.sig)
        /\ cfg[f.sig.by].tlogUpload => \E i \in 1 .. Len(tlog) : tlog[i].sig = f.sig
        /\ f.kind = "bundle" =>
             /\ f.entry # 0 => f.entry \in 1 .. Len(tlog) /\ tlog[f.entry].sig = f.sig
             /\ cfg[f.sig.by].tlogUpload => f.entry # 0
             /\ f.format = SigstoreFormat => f.digest = f.sig.content

Inv ==
    /\ TypeOK
    /\ \A c \in Calls : Progress(c)
    /\ \A n \in 1 .. Len(tlog) : EntryOK(n)
    /\ \A p \in Paths : FileOK(files[p])
-----------------------------------------------------------------------------
LEMMA CallType ==
    ASSUME TypeOK, NEW c \in Calls
    PROVE  /\ cfg[c] \in SignBlobConfig
           /\ Signer(c) \in Keys \cup Calls
           /\ CertificateOf(c) \in Calls \cup {NoCert}
           /\ signed[c] \in Contents => SignatureOf(c) \in Signatures
BY InputsAssumption
   DEF TypeOK, SignBlobConfig, Signer, CertificateOf, SignatureOf, Signatures

(* The next output file is the first of those that are left.               *)
LEMMA CurrentIsFirst ==
    ASSUME NEW c \in Calls, left[c] \subseteq 1 .. 3, left[c] # {}
    PROVE  Current(c) \in left[c] /\ \A o \in left[c] : Current(c) <= o
<1>1. \E o \in left[c] : \A n \in left[c] : o <= n
  <2>1. CASE 1 \in left[c]
    BY <2>1
  <2>2. CASE 1 \notin left[c] /\ 2 \in left[c]
    BY <2>2
  <2>3. CASE 1 \notin left[c] /\ 2 \notin left[c]
    BY <2>3
  <2>4. QED  BY <2>1, <2>2, <2>3
<1>2. QED  BY <1>1 DEF Current

LEMMA CurrentType ==
    ASSUME TypeOK, NEW c \in Calls, Progress(c), left[c] # {}
    PROVE  Current(c) \in left[c] /\ PathOf(c) \in Paths
<1>1. Current(c) \in left[c]
  BY CurrentIsFirst DEF TypeOK, Outputs
<1>2. QED
  BY <1>1, CallType DEF Progress, Asked, PathOf, SignBlobConfig

LEMMA ContainedType ==
    ASSUME TypeOK, NEW c \in Calls, NEW o \in Asked(c), signed[c] \in Contents
    PROVE  Contained(c, o) \in Files
<1>1. CASE o = Signature
  <2>1. Contained(c, o) = [kind |-> "signature", sig |-> SignatureOf(c)]
    BY <1>1 DEF Contained, Signature, Certificate, Bundle
  <2>2. QED  BY <2>1, CallType DEF Files
<1>2. CASE o = Certificate
  <2>1. CertificateOf(c) \in Calls
    BY <1>2, InputsAssumption DEF TypeOK, Asked, CertificateOf
  <2>2. Contained(c, o) = [kind |-> "certificate", cert |-> CertificateOf(c)]
    BY <1>2 DEF Contained, Signature, Certificate, Bundle
  <2>3. QED  BY <2>1, <2>2 DEF Files
<1>3. CASE o = Bundle
  <2>1. Contained(c, o) =
          [kind |-> "bundle", format |-> cfg[c].format, sig |-> SignatureOf(c),
           digest |-> IF cfg[c].format = SigstoreFormat THEN hashed[c] ELSE NoContent,
           cert |-> CertificateOf(c), entry |-> entry[c]]
    BY <1>3 DEF Contained, Signature, Certificate, Bundle
  <2>2. QED  BY <2>1, CallType DEF TypeOK, Files, SignBlobConfig
<1>4. QED  BY <1>1, <1>2, <1>3 DEF Asked, Outputs, Signature, Certificate, Bundle
-----------------------------------------------------------------------------
(* A step of one call leaves the others where they are, and nobody's       *)
(* signature changes once it is made.                                      *)
LEMMA OthersStay ==
    ASSUME TypeOK, NEW c \in Calls, NEW e \in Calls, e # c, ExecuteSignBlob(e) \/ Step(e)
    PROVE  /\ pc'[c] = pc[c] /\ signed'[c] = signed[c] /\ hashed'[c] = hashed[c]
           /\ entry'[c] = entry[c] /\ left'[c] = left[c] /\ cfg' = cfg
BY DEF TypeOK, Step, ExecuteSignBlob, SignBlob, UploadToRekor, OpenOutput, WriteOutput,
       WriteFails, Return, Fail, Goto

LEMMA OwnSignatureStays ==
    ASSUME TypeOK, NEW c \in Calls, ExecuteSignBlob(c) \/ Step(c),
           pc[c] \notin {"idle", "signer"}
    PROVE  /\ pc'[c] \notin {"idle", "signer"}
           /\ signed'[c] = signed[c] /\ hashed'[c] = hashed[c] /\ cfg' = cfg
BY DEF TypeOK, Step, ExecuteSignBlob, SignBlob, UploadToRekor, OpenOutput, WriteOutput,
       WriteFails, Return, Fail, Goto

LEMMA MadeStays ==
    ASSUME TypeOK, [Next]_vars, NEW s, Made(s)
    PROVE  Made(s)' /\ cfg' = cfg
<1>1. ASSUME NEW e \in Calls, ExecuteSignBlob(e) \/ Step(e) PROVE Made(s)' /\ cfg' = cfg
  <2>1. CASE s.by = e
    BY <1>1, <2>1, OwnSignatureStays DEF Made, SignatureOf, Signer
  <2>2. CASE s.by # e
    BY <1>1, <2>2, OthersStay DEF Made, SignatureOf, Signer, Signatures
  <2>3. QED  BY <2>1, <2>2
<1>2. ASSUME NEW b \in Blobs, NEW d \in Contents, EditBlob(b, d) PROVE Made(s)' /\ cfg' = cfg
  BY <1>2 DEF EditBlob, local, Made, SignatureOf, Signer
<1>3. CASE UNCHANGED vars
  BY <1>3 DEF vars, Made, SignatureOf, Signer
<1>4. QED  BY <1>1, <1>2, <1>3 DEF Next

(* The log only grows.                                                     *)
LEMMA LogGrows ==
    ASSUME TypeOK, [Next]_vars
    PROVE  /\ Len(tlog) <= Len(tlog') /\ Len(tlog') \in Nat /\ Len(tlog) \in Nat
           /\ \A n \in 1 .. Len(tlog) : tlog'[n] = tlog[n]
<1>1. ASSUME NEW e \in Calls, UploadToRekor(e)
      PROVE  /\ Len(tlog) <= Len(tlog') /\ Len(tlog') \in Nat /\ Len(tlog) \in Nat
             /\ \A n \in 1 .. Len(tlog) : tlog'[n] = tlog[n]
  BY <1>1 DEF TypeOK, UploadToRekor
<1>2. ASSUME UNCHANGED tlog
      PROVE  /\ Len(tlog) <= Len(tlog') /\ Len(tlog') \in Nat /\ Len(tlog) \in Nat
             /\ \A n \in 1 .. Len(tlog) : tlog'[n] = tlog[n]
  BY <1>2 DEF TypeOK
<1>3. QED
  BY <1>1, <1>2 DEF Next, Step, ExecuteSignBlob, SignBlob, OpenOutput, WriteOutput,
     WriteFails, Return, Fail, EditBlob, vars

LEMMA FileStays ==
    ASSUME TypeOK, [Next]_vars, NEW f, FileOK(f)
    PROVE  FileOK(f)'
BY MadeStays, LogGrows DEF FileOK, Signs
-----------------------------------------------------------------------------
(* The invariant holds initially, and every step keeps it.                 *)
LEMMA InvInit == Init => Inv
<1> SUFFICES ASSUME Init PROVE Inv
  OBVIOUS
<1>1. TypeOK
  BY DEF Init, TypeOK, Files, Outputs, Entries
<1>2. ASSUME NEW c \in Calls PROVE Progress(c)
  BY DEF Init, Progress, Asked
<1>3. QED  BY <1>1, <1>2 DEF Init, Inv, EntryOK, FileOK, Signs, Absent

LEMMA TypeNext == Inv /\ [Next]_vars => TypeOK'
<1> SUFFICES ASSUME Inv, [Next]_vars PROVE TypeOK'
  OBVIOUS
<1> USE DEF Inv
<1>1. ASSUME NEW c \in Calls, ExecuteSignBlob(c) PROVE TypeOK'
  BY <1>1 DEF ExecuteSignBlob, Goto, TypeOK
<1>2. ASSUME NEW c \in Calls, SignBlob(c) PROVE TypeOK'
  BY <1>2, CallType DEF SignBlob, Goto, TypeOK, SignBlobConfig
<1>3. ASSUME NEW c \in Calls, UploadToRekor(c) PROVE TypeOK'
  <2>1. [sig |-> SignatureOf(c), digest |-> hashed[c]] \in Entries
    BY <1>3, CallType DEF UploadToRekor, Goto, Progress, Entries
  <2>2. tlog' \in Seq(Entries) /\ entry' \in [Calls -> Nat]
    BY <1>3, <2>1 DEF UploadToRekor, TypeOK
  <2>3. QED  BY <1>3, <2>2 DEF UploadToRekor, Goto, TypeOK
<1>4. ASSUME NEW c \in Calls, OpenOutput(c) PROVE TypeOK'
  BY <1>4, CurrentType DEF OpenOutput, TypeOK, Files
<1>5. ASSUME NEW c \in Calls, WriteOutput(c) PROVE TypeOK'
  <2>1. signed[c] \in Contents /\ left[c] # {} /\ Current(c) \in Asked(c) /\ PathOf(c) \in Paths
    BY <1>5, CurrentType DEF WriteOutput, Goto, Progress
  <2>2. files' \in [Paths -> Files]
    BY <1>5, <2>1, ContainedType DEF WriteOutput, TypeOK, Files
  <2>3. QED  BY <1>5, <2>2 DEF WriteOutput, Goto, TypeOK
<1>6. ASSUME NEW c \in Calls, WriteFails(c) PROVE TypeOK'
  BY <1>6, CurrentType DEF WriteFails, Goto, TypeOK, Files
<1>7. ASSUME NEW c \in Calls, Return(c) PROVE TypeOK'
  BY <1>7 DEF Return, TypeOK
<1>8. ASSUME NEW c \in Calls, Fail(c) PROVE TypeOK'
  BY <1>8 DEF Fail, TypeOK
<1>9. ASSUME NEW b \in Blobs, NEW d \in Contents, EditBlob(b, d) PROVE TypeOK'
  BY <1>9 DEF EditBlob, local, TypeOK
<1>10. CASE UNCHANGED vars
  BY <1>10 DEF vars, TypeOK
<1>11. QED
  BY <1>1, <1>2, <1>3, <1>4, <1>5, <1>6, <1>7, <1>8, <1>9, <1>10 DEF Next, Step

LEMMA ProgressNext == ASSUME Inv, [Next]_vars, NEW c \in Calls PROVE Progress(c)'
<1> USE DEF Inv
<1>1. ASSUME NEW e \in Calls, e # c, ExecuteSignBlob(e) \/ Step(e) PROVE Progress(c)'
  BY <1>1, OthersStay, LogGrows DEF Progress, Asked, SignatureOf, Signer, Next
<1>2. CASE ExecuteSignBlob(c)
  BY <1>2 DEF ExecuteSignBlob, Goto, TypeOK, Progress, Asked, SignatureOf, Signer
<1>3. CASE SignBlob(c)
  <2>1. blobs[cfg[c].path] \in Contents
    BY CallType DEF TypeOK, SignBlobConfig
  <2>2. QED
    BY <1>3, <2>1 DEF SignBlob, Goto, TypeOK, Progress, Asked
<1>4. CASE UploadToRekor(c)
  <2>1. entry'[c] = Len(tlog) + 1 /\ Len(tlog') = Len(tlog) + 1 /\ Len(tlog) \in Nat
    BY <1>4 DEF UploadToRekor, TypeOK
  <2>2. tlog'[entry'[c]] = [sig |-> SignatureOf(c), digest |-> hashed[c]]
    BY <1>4, <2>1 DEF UploadToRekor, TypeOK
  <2>3. SignatureOf(c)' = SignatureOf(c) /\ hashed' = hashed
    BY <1>4 DEF UploadToRekor, SignatureOf, Signer
  <2>4. QED
    BY <1>4, <2>1, <2>2, <2>3 DEF UploadToRekor, Goto, TypeOK, Progress, Asked
<1>5. CASE OpenOutput(c)
  BY <1>5 DEF OpenOutput, Ready, TypeOK, Progress, Asked, SignatureOf, Signer
<1>6. CASE WriteOutput(c)
  BY <1>6 DEF WriteOutput, Goto, TypeOK, Progress, Asked, SignatureOf, Signer
<1>7. CASE WriteFails(c)
  BY <1>7 DEF WriteFails, Goto, TypeOK, Progress, Asked, SignatureOf, Signer
<1>8. CASE Return(c)
  BY <1>8 DEF Return, Ready, TypeOK, Progress, Asked, SignatureOf, Signer
<1>9. CASE Fail(c)
  BY <1>9 DEF Fail, TypeOK, Progress, Asked, SignatureOf, Signer
<1>10. ASSUME NEW b \in Blobs, NEW d \in Contents, EditBlob(b, d) PROVE Progress(c)'
  BY <1>10 DEF EditBlob, local, Progress, Asked, SignatureOf, Signer
<1>11. CASE UNCHANGED vars
  BY <1>11 DEF vars, Progress, Asked, SignatureOf, Signer
<1>12. QED
  BY <1>1, <1>2, <1>3, <1>4, <1>5, <1>6, <1>7, <1>8, <1>9, <1>10, <1>11 DEF Next, Step

LEMMA LogNext == ASSUME Inv, [Next]_vars, NEW n \in 1 .. Len(tlog') PROVE EntryOK(n)'
<1> USE DEF Inv
<1>1. CASE n \in 1 .. Len(tlog)
  BY <1>1, MadeStays, LogGrows DEF EntryOK
<1>2. ASSUME NEW c \in Calls, UploadToRekor(c), n \notin 1 .. Len(tlog) PROVE EntryOK(n)'
  <2>1. tlog'[n] = [sig |-> SignatureOf(c), digest |-> hashed[c]]
    BY <1>2 DEF UploadToRekor, TypeOK
  <2>2. Made(SignatureOf(c)) /\ hashed[c] = SignatureOf(c).content
    BY <1>2, CallType DEF UploadToRekor, Goto, Progress, Made, SignatureOf
  <2>3. QED  BY <2>1, <2>2, MadeStays DEF EntryOK
<1>3. CASE UNCHANGED tlog
  BY <1>1, <1>3
<1>4. QED
  BY <1>1, <1>2, <1>3 DEF Next, Step, ExecuteSignBlob, SignBlob, OpenOutput, WriteOutput,
     WriteFails, Return, Fail, EditBlob, vars

(* What a call writes is of its signature, which is logged if need be.     *)
LEMMA ContainedOK ==
    ASSUME Inv, NEW c \in Calls, NEW o \in Asked(c), pc[c] = "writing"
    PROVE  FileOK(Contained(c, o))
<1>1. /\ Made(SignatureOf(c)) /\ SignatureOf(c).by = c /\ SignatureOf(c).content = signed[c]
      /\ hashed[c] = signed[c]
  BY CallType DEF Inv, Progress, Made, SignatureOf
<1>2. /\ cfg[c].tlogUpload => entry[c] # 0
      /\ entry[c] # 0 => entry[c] \in 1 .. Len(tlog) /\ tlog[entry[c]].sig = SignatureOf(c)
  <2>1. Progress(c)
    BY DEF Inv
  <2>2. [sig |-> SignatureOf(c), digest |-> hashed[c]].sig = SignatureOf(c)
    OBVIOUS
  <2>3. QED  BY <2>1, <2>2 DEF Progress
<1>3. CASE o = Signature
  <2>1. Contained(c, o) = [kind |-> "signature", sig |-> SignatureOf(c)]
    BY <1>3 DEF Contained, Signature, Certificate, Bundle
  <2>2. QED  BY <2>1, <1>1, <1>2 DEF FileOK, Signs
<1>4. CASE o = Certificate
  <2>1. Contained(c, o) = [kind |-> "certificate", cert |-> CertificateOf(c)]
    BY <1>4 DEF Contained, Signature, Certificate, Bundle
  <2>2. QED  BY <2>1 DEF FileOK, Signs
<1>5. CASE o = Bundle
  <2>1. Contained(c, o) =
          [kind |-> "bundle", format |-> cfg[c].format, sig |-> SignatureOf(c),
           digest |-> IF cfg[c].format = SigstoreFormat THEN hashed[c] ELSE NoContent,
           cert |-> CertificateOf(c), entry |-> entry[c]]
    BY <1>5 DEF Contained, Signature, Certificate, Bundle
  <2>2. QED  BY <2>1, <1>1, <1>2 DEF FileOK, Signs
<1>6. QED  BY <1>3, <1>4, <1>5 DEF Asked, Outputs, Signature, Certificate, Bundle

LEMMA FilesNext == ASSUME Inv, [Next]_vars, NEW p \in Paths PROVE FileOK(files[p])'
<1> USE DEF Inv
<1>1. CASE files'[p] = files[p]
  BY <1>1, FileStays
<1>2. CASE files'[p] \in {Empty, Torn}
  BY <1>2 DEF Empty, Torn, FileOK, Signs
<1>3. ASSUME NEW c \in Calls, WriteOutput(c), files'[p] = Contained(c, Current(c))
      PROVE  FileOK(files[p])'
  <2>1. Current(c) \in Asked(c) /\ pc[c] = "writing"
    BY <1>3, CurrentType DEF WriteOutput, Goto, Progress
  <2>2. FileOK(Contained(c, Current(c)))
    BY <2>1, ContainedOK
  <2>3. QED  BY <1>3, <2>2, FileStays
<1>4. ASSUME NEW c \in Calls, OpenOutput(c) PROVE files'[p] \in {files[p], Empty}
  BY <1>4 DEF OpenOutput, TypeOK
<1>5. ASSUME NEW c \in Calls, WriteFails(c) PROVE files'[p] \in {files[p], Torn}
  BY <1>5 DEF WriteFails, TypeOK
<1>6. ASSUME NEW c \in Calls, WriteOutput(c)
      PROVE  files'[p] \in {files[p], Torn, Contained(c, Current(c))}
  BY <1>6 DEF WriteOutput, TypeOK
<1>7. CASE UNCHANGED files
  BY <1>1, <1>7
<1>8. QED
  BY <1>1, <1>2, <1>3, <1>4, <1>5, <1>6, <1>7
     DEF Next, Step, ExecuteSignBlob, SignBlob, UploadToRekor, Return, Fail, EditBlob, vars

LEMMA InvNext == Inv /\ [Next]_vars => Inv'
BY TypeNext, ProgressNext, LogNext, FilesNext DEF Inv

LEMMA InvAlways == Spec => []Inv
BY InvInit, InvNext, PTL DEF Spec
-----------------------------------------------------------------------------
(* What a call with files of its own keeps to: the outputs it has written  *)
(* are there, they precede those it has not, and of those nothing is there *)
(* but what a write begins with or breaks off at.                          *)
Unwritten == {Absent, Empty, Torn}
Done(c)   == Asked(c) \ left[c]
Kept(c) ==
    Exclusive(c) =>
        /\ \A o \in Done(c) : files[cfg[c].out[o]] = Contained(c, o)
        /\ \A o \in left[c] : files[cfg[c].out[o]] \in Unwritten
        /\ \A n \in Done(c), o \in left[c] : n < o
        /\ pc[c] = "writing" => files[PathOf(c)] = Empty
        /\ pc[c] = "ok" => left[c] = {}
        /\ pc[c] \in {"idle", "signer", "signed"} => Done(c) = {}

AllKept == \A c \in Calls : Kept(c)
-----------------------------------------------------------------------------

(* An output is asked for, and so has a path.                              *)
LEMMA AskedType ==
    ASSUME TypeOK, NEW c \in Calls, NEW o \in Asked(c)
    PROVE  o \in 1 .. 3 /\ cfg[c].out[o] \in Paths
BY CallType DEF Asked, Outputs, SignBlobConfig

(* What a call touches is one of its outputs, so that it leaves those of a *)
(* call alone that shares none with it.                                    *)
LEMMA OthersOutputsStay ==
    ASSUME Inv, NEW c \in Calls, NEW e \in Calls, e # c, ExecuteSignBlob(e) \/ Step(e),
           Exclusive(c), NEW o \in Asked(c)
    PROVE  files'[cfg[c].out[o]] = files[cfg[c].out[o]]
<1>1. ASSUME left[e] # {} PROVE PathOf(e) # cfg[c].out[o]
  <2>1. Current(e) \in Asked(e)
    BY <1>1, CurrentType DEF Inv, Progress
  <2>2. QED  BY <2>1 DEF Exclusive, PathOf
<1>2. OpenOutput(e) \/ WriteOutput(e) \/ WriteFails(e) => left[e] # {}
  BY DEF Inv, Progress, OpenOutput, WriteOutput, WriteFails, Goto
<1>3. cfg[c].out[o] \in Paths /\ files \in [Paths -> Files]
  BY AskedType DEF Inv, TypeOK
<1>4. CASE OpenOutput(e) \/ WriteOutput(e) \/ WriteFails(e)
  BY <1>1, <1>2, <1>3, <1>4 DEF OpenOutput, WriteOutput, WriteFails
<1>5. QED
  BY <1>4 DEF Step, ExecuteSignBlob, SignBlob, UploadToRekor, Return, Fail

(* Two outputs of a call with files of its own have different paths.       *)
LEMMA OwnOutputsDiffer ==
    ASSUME TypeOK, NEW c \in Calls, Exclusive(c), NEW o \in Asked(c), NEW n \in Asked(c), o # n
    PROVE  cfg[c].out[o] # cfg[c].out[n]
BY DEF Exclusive

LEMMA KeptByOthers ==
    ASSUME Inv, NEW c \in Calls, Kept(c),
           \/ \E e \in Calls : e # c /\ (ExecuteSignBlob(e) \/ Step(e))
           \/ \E b \in Blobs, d \in Contents : EditBlob(b, d)
           \/ UNCHANGED vars
    PROVE  Kept(c)'
<1>1. /\ pc'[c] = pc[c] /\ signed'[c] = signed[c] /\ hashed'[c] = hashed[c]
      /\ entry'[c] = entry[c] /\ left'[c] = left[c] /\ cfg' = cfg
  BY OthersStay DEF Inv, EditBlob, local, vars
<1>2. ASSUME Exclusive(c), NEW o \in Asked(c)
      PROVE  files'[cfg[c].out[o]] = files[cfg[c].out[o]]
  BY <1>2, OthersOutputsStay DEF EditBlob, vars
<1>3. Exclusive(c)' <=> Exclusive(c)
  BY <1>1 DEF Exclusive, Asked
<1>4. /\ Asked(c)' = Asked(c) /\ Done(c)' = Done(c)
      /\ \A o : Contained(c, o)' = Contained(c, o)
  BY <1>1 DEF Asked, Done, Contained, SignatureOf, CertificateOf, Signer
<1>5. PathOf(c)' = PathOf(c)
  BY <1>1 DEF PathOf, Current
<1>6. left[c] \subseteq Asked(c) /\ Done(c) \subseteq Asked(c)
  BY DEF Inv, Progress, Done
<1>7. pc[c] = "writing" => Current(c) \in Asked(c)
  BY CurrentType DEF Inv, Progress
<1>8. SUFFICES ASSUME Exclusive(c) PROVE Kept(c)'
  BY <1>3 DEF Kept
<1>9. pc[c] = "writing" => files'[PathOf(c)] = files[PathOf(c)]
  BY <1>2, <1>7, <1>8 DEF PathOf
<1>10. /\ \A o \in Done(c) : files'[cfg[c].out[o]] = Contained(c, o)
       /\ \A o \in left[c] : files'[cfg[c].out[o]] \in Unwritten
  BY <1>2, <1>6, <1>8 DEF Kept
<1>11. QED
  BY <1>1, <1>4, <1>5, <1>8, <1>9, <1>10 DEF Kept, Unwritten, Absent, Empty, Torn

(* The steps of the call itself.                                           *)
LEMMA KeptByItself ==
    ASSUME Inv, NEW c \in Calls, Kept(c), ExecuteSignBlob(c) \/ Step(c)
    PROVE  Kept(c)'
<1> USE DEF Inv
<1>1. cfg' = cfg /\ Asked(c)' = Asked(c) /\ (Exclusive(c)' <=> Exclusive(c))
  BY DEF Step, ExecuteSignBlob, SignBlob, UploadToRekor, OpenOutput, WriteOutput,
     WriteFails, Return, Fail, Asked, Exclusive
<1>2. left[c] \subseteq Asked(c) /\ files \in [Paths -> Files]
  BY DEF Progress, TypeOK
<1>3. \A o \in Asked(c) : o \in 1 .. 3 /\ cfg[c].out[o] \in Paths
  BY AskedType
<1> SUFFICES ASSUME Exclusive(c) PROVE Kept(c)'
  BY <1>1 DEF Kept
<1>4. ASSUME UNCHANGED <<files, left>>, signed'[c] = signed[c], hashed'[c] = hashed[c],
             entry'[c] = entry[c], pc'[c] # "writing",
             pc'[c] = "ok" => left[c] = {},
             pc'[c] \in {"idle", "signer", "signed"} => pc[c] \in {"idle", "signer", "signed"}
      PROVE  Kept(c)'
  <2>1. /\ Done(c)' = Done(c)
        /\ \A o : Contained(c, o)' = Contained(c, o)
    BY <1>1, <1>4 DEF Done, Contained, SignatureOf, CertificateOf, Signer
  <2>2. QED
    BY <1>1, <1>4, <2>1 DEF Kept, Unwritten, Absent, Empty, Torn
(* Before the first output nothing is written that could change.           *)
<1>5. ASSUME UNCHANGED <<files, left>>, pc[c] \in {"idle", "signer", "signed"},
             pc'[c] \notin {"writing", "ok"}
      PROVE  Kept(c)'
  <2>1. Done(c) = {} /\ Done(c)' = {}
    BY <1>1, <1>5 DEF Kept, Done
  <2>2. QED
    BY <1>1, <1>5, <2>1 DEF Kept, Unwritten, Absent, Empty, Torn
<1>6. CASE ExecuteSignBlob(c)
  BY <1>5, <1>6 DEF ExecuteSignBlob, Goto, TypeOK
<1>7. CASE SignBlob(c)
  BY <1>5, <1>7 DEF SignBlob, Goto, TypeOK
<1>8. CASE UploadToRekor(c)
  BY <1>5, <1>8 DEF UploadToRekor, Goto, TypeOK
<1>9. CASE OpenOutput(c)
  <2>1. Current(c) \in left[c] /\ PathOf(c) = cfg[c].out[Current(c)]
    BY <1>9, CurrentType DEF OpenOutput, PathOf
  <2>2. /\ left' = left /\ pc'[c] = "writing"
        /\ files' = [files EXCEPT ![PathOf(c)] = Empty]
    BY <1>9 DEF OpenOutput, TypeOK
  <2>3. /\ Done(c)' = Done(c) /\ PathOf(c)' = PathOf(c)
        /\ \A o : Contained(c, o)' = Contained(c, o)
    BY <1>1, <1>9
       DEF OpenOutput, Done, PathOf, Current, Contained, SignatureOf, CertificateOf, Signer
  <2>4. \A o \in Done(c) : files'[cfg[c].out[o]] = Contained(c, o)
    <3>1. ASSUME NEW o \in Done(c) PROVE cfg[c].out[o] # PathOf(c)
      BY <1>2, <2>1, OwnOutputsDiffer DEF Done
    <3>2. QED  BY <1>2, <1>3, <2>2, <3>1 DEF Kept, Done
  <2>5. \A o \in left[c] : files'[cfg[c].out[o]] \in Unwritten
    BY <1>2, <1>3, <2>2 DEF Kept, Unwritten
  <2>6. files'[PathOf(c)] = Empty
    BY <1>2, <1>3, <2>1, <2>2
  <2>7. QED
    BY <1>1, <2>2, <2>3, <2>4, <2>5, <2>6 DEF Kept, Unwritten, Absent, Empty, Torn
<1>10. CASE WriteOutput(c)
  <2>1. /\ pc[c] = "writing" /\ left[c] # {} /\ files[PathOf(c)] = Empty
        /\ Current(c) \in left[c] /\ PathOf(c) = cfg[c].out[Current(c)]
    BY <1>10, CurrentType DEF WriteOutput, Goto, Progress, PathOf, Kept
  <2>2. /\ pc'[c] = "ready" /\ left'[c] = left[c] \ {Current(c)}
        /\ files' = [files EXCEPT ![PathOf(c)] = Contained(c, Current(c))]
    BY <1>10, <2>1 DEF WriteOutput, Goto, TypeOK
  <2>3. /\ Done(c)' = Done(c) \cup {Current(c)}
        /\ \A o : Contained(c, o)' = Contained(c, o)
    BY <1>1, <1>2, <1>10, <2>1, <2>2
       DEF WriteOutput, Done, Contained, SignatureOf, CertificateOf, Signer
  <2>4. ASSUME NEW o \in Asked(c), o # Current(c)
        PROVE  files'[cfg[c].out[o]] = files[cfg[c].out[o]]
    BY <1>2, <1>3, <2>1, <2>2, <2>4, OwnOutputsDiffer
  <2>5. \A o \in Done(c)' : files'[cfg[c].out[o]] = Contained(c, o)
    BY <1>2, <1>3, <2>1, <2>2, <2>3, <2>4 DEF Kept, Done
  <2>6. \A o \in left'[c] : files'[cfg[c].out[o]] \in Unwritten
    BY <1>2, <2>2, <2>4 DEF Kept
  <2>7. \A n \in Done(c)', o \in left'[c] : n < o
    <3>1. \A o \in left[c] : o # Current(c) => Current(c) < o
      <4>1. \A o \in left[c] : Current(c) <= o
        BY <1>2, <1>3, <2>1, CurrentIsFirst
      <4>2. QED  BY <1>2, <1>3, <2>1, <4>1
    <3>2. QED  BY <2>2, <2>3, <3>1 DEF Kept
  <2>8. QED
    BY <1>1, <2>2, <2>3, <2>5, <2>6, <2>7 DEF Kept, Unwritten, Absent, Empty, Torn
<1>11. CASE WriteFails(c)
  <2>1. /\ left[c] # {} /\ Current(c) \in left[c] /\ PathOf(c) = cfg[c].out[Current(c)]
    BY <1>11, CurrentType DEF WriteFails, Goto, Progress, PathOf
  <2>2. /\ left' = left /\ pc'[c] = "failed"
        /\ files' = [files EXCEPT ![PathOf(c)] = Torn]
    BY <1>11 DEF WriteFails, Goto, TypeOK
  <2>3. /\ Done(c)' = Done(c)
        /\ \A o : Contained(c, o)' = Contained(c, o)
    BY <1>1, <1>11 DEF WriteFails, Done, Contained, SignatureOf, CertificateOf, Signer
  <2>4. \A o \in Done(c) : files'[cfg[c].out[o]] = Contained(c, o)
    <3>1. ASSUME NEW o \in Done(c) PROVE cfg[c].out[o] # PathOf(c)
      BY <1>2, <2>1, OwnOutputsDiffer DEF Done
    <3>2. QED  BY <1>2, <1>3, <2>2, <3>1 DEF Kept, Done
  <2>5. \A o \in left[c] : files'[cfg[c].out[o]] \in Unwritten
    BY <1>2, <1>3, <2>2 DEF Kept, Unwritten
  <2>6. QED
    BY <1>1, <2>2, <2>3, <2>4, <2>5 DEF Kept, Unwritten, Absent, Empty, Torn
<1>12. CASE Return(c)
  BY <1>4, <1>12 DEF Return, TypeOK
<1>13. CASE Fail(c)
  BY <1>4, <1>13 DEF Fail, TypeOK
<1>14. QED
  BY <1>6, <1>7, <1>8, <1>9, <1>10, <1>11, <1>12, <1>13 DEF Step

LEMMA KeptAlways == Spec => []AllKept
<1>1. Init => AllKept
  <2> SUFFICES ASSUME Init, NEW c \in Calls PROVE Kept(c)
    BY DEF AllKept
  <2>1. \A o \in Asked(c) : cfg[c].out[o] \in Paths
    BY InvInit, AskedType DEF Inv
  <2>2. pc[c] = "idle" /\ left[c] = Asked(c) /\ files = [p \in Paths |-> Absent]
    BY DEF Init, Asked
  <2>3. QED  BY <2>1, <2>2 DEF Kept, Done, Unwritten
<1>2. Inv /\ AllKept /\ [Next]_vars => AllKept'
  <2> SUFFICES ASSUME Inv, AllKept, [Next]_vars, NEW c \in Calls PROVE Kept(c)'
    BY DEF AllKept
  <2> Kept(c)
    BY DEF AllKept
  <2> QED  BY KeptByOthers, KeptByItself DEF Next
<1>3. QED  BY <1>1, <1>2, InvAlways, PTL DEF Spec
-----------------------------------------------------------------------------
(* signblob.go:60-157: a call, its files and the log stay what they are    *)
(* declared to be, whatever the interleaving.                              *)
THEOREM TypeCorrect == Spec => []TypeOK
<1>1. Inv => TypeOK
  BY DEF Inv
<1>2. QED  BY <1>1, InvAlways, PTL

(* signblob.go:80-94: one reading of the blob serves hash and signature,   *)
(* so what is reported, logged and bundled is the digest of what is signed.*)
THEOREM DigestIsAlwaysOfSignedBytes == Spec => []DigestIsOfSignedBytes
<1>1. Inv => DigestIsOfSignedBytes
  BY DEF Inv, Progress, EntryOK, FileOK, Signs, DigestIsOfSignedBytes
<1>2. QED  BY <1>1, InvAlways, PTL

(* signblob.go:104-128: no file holds a signature that was to be logged    *)
(* and is not.                                                             *)
THEOREM AlwaysLoggedBeforeWritten == Spec => []LoggedBeforeWritten
<1>1. Inv => LoggedBeforeWritten
  BY DEF Inv, FileOK, Signs, LoggedBeforeWritten
<1>2. QED  BY <1>1, InvAlways, PTL

(* signblob.go:114-128: success means that all output files are there, and *)
(* of one signature, unless another call writes to their paths.            *)
THEOREM SuccessIsAlwaysComplete == Spec => []SuccessIsComplete
<1>1. AllKept => SuccessIsComplete
  BY DEF AllKept, Kept, Done, SuccessIsComplete
<1>2. QED  BY <1>1, KeptAlways, PTL

(* signblob.go:114-128: and wherever a call ends or dies, what it leaves   *)
(* is a prefix of its outputs, in the order of the code.                   *)
THEOREM FailureAlwaysLeavesPrefix == Spec => []FailureLeavesPrefix
<1>1. ASSUME Inv, AllKept PROVE FailureLeavesPrefix
  <2> SUFFICES ASSUME NEW c \in Calls, Exclusive(c), NEW o \in Asked(c),
                      files[cfg[c].out[o]] = Contained(c, o), NEW n \in Asked(c), n < o
               PROVE  files[cfg[c].out[n]] = Contained(c, n)
    BY DEF FailureLeavesPrefix
  <2>1. Kept(c) /\ o \in 1 .. 3 /\ n \in 1 .. 3
    BY <1>1, AskedType DEF AllKept, Inv
  <2>2. Contained(c, o) \notin Unwritten
    BY <2>1 DEF Contained, Signature, Certificate, Bundle, Unwritten, Absent, Empty, Torn
  <2>3. o \in Done(c)
    BY <2>1, <2>2 DEF Kept, Done
  <2>4. n \in Done(c)
    BY <2>1, <2>3 DEF Kept, Done
  <2>5. QED  BY <2>1, <2>4 DEF Kept
<1>2. QED  BY <1>1, InvAlways, KeptAlways, PTL
=============================================================================
