----------------------------- MODULE SignProofs -----------------------------
(***************************************************************************)
(* Theorems about the sign operation, for any number of calls, keys,       *)
(* manifests and inputs.                                                   *)
(***************************************************************************)
EXTENDS SignProperties, TLAPS

(* A call that is signing a manifest has one to sign; before the walk      *)
(* starts nothing is signed; a call that returned has signed them all.     *)
InWork == {"logged", "based", "written"}
Progress(c) ==
    /\ pc[c] \in InWork => Pending(c)
    /\ pc[c] \in {"idle", "parsed", "signer", "resolved"} => results[c] = <<>>
    /\ pc[c] = "ok" => ~Pending(c)
TypeInv == TypeOK /\ \A c \in Calls : Progress(c)

-----------------------------------------------------------------------------
(* The operators of one call return values of their types.                 *)

LEMMA SignerType ==
    ASSUME TypeOK, NEW c \in Calls
    PROVE  Signer(c) \in Signers /\ cfg[c] \in SignConfig
BY InputsAssumption DEF TypeOK, Signer, Signers, SignConfig

LEMMA PayloadType ==
    ASSUME TypeOK, NEW c \in Calls, NEW d \in Digests
    PROVE  PayloadFor(c, d) \in Payloads
BY SignerType DEF SignConfig, PayloadFor, Payloads

LEMMA OrdinalType ==
    ASSUME TypeOK, NEW c \in Calls
    PROVE  /\ Ordinal(c) \in Nat \ {0}
           /\ SigId(c) \in SigIds
           /\ Pending(c) => Subject(c) \in Digests
BY DEF TypeOK, Ordinal, SigId, SigIds, Pending, Subject

LEMMA TargetType ==
    ASSUME TypeOK, NEW c \in Calls
    PROVE  /\ Target(cfg[c].ref) \in Digests
           /\ Walk(c, Target(cfg[c].ref)) \in Seq(Digests)
<1>1. Target(cfg[c].ref) \in Digests
  BY SignerType DEF TypeOK, SignConfig, Target
<1>2. QED  BY <1>1, PreorderAssumption DEF Walk

LEMMA AttachedType ==
    ASSUME TypeOK, NEW c \in Calls, Pending(c)
    PROVE  /\ NewSignature(c) \in Signatures
           /\ Attached(c) \in SUBSET Signatures
<1>1. NewSignature(c) \in Signatures
  BY SignerType, OrdinalType, PayloadType
     DEF TypeOK, NewSignature, Signatures
<1>2. QED  BY <1>1 DEF TypeOK, Attached

LEMMA CandidatesType ==
    ASSUME TypeOK, NEW c \in Calls, Pending(c), NEW m \in Candidates(c)
    PROVE  m \in SUBSET Signatures
BY OrdinalType DEF TypeOK, Candidates

(* What every move of the program counter does.                            *)
LEMMA GotoEffect ==
    ASSUME TypeOK, NEW c \in Calls, NEW from, NEW to \in PCs, Goto(c, from, to)
    PROVE  /\ pc' \in [Calls -> PCs]
           /\ pc[c] = from /\ pc'[c] = to
           /\ \A e \in Calls : e # c => pc'[e] = pc[e]
BY DEF TypeOK, Goto

(* A step of one call leaves the others where they are.                    *)
LEMMA OthersStay ==
    ASSUME TypeOK, NEW c \in Calls, NEW e \in Calls, e # c, ExecuteSign(e) \/ Step(e)
    PROVE  /\ pc'[c] = pc[c] /\ subjects'[c] = subjects[c]
           /\ results'[c] = results[c] /\ entry'[c] = entry[c]
BY DEF TypeOK, Step, ExecuteSign, BuildSigner, Resolve, FetchEntity, UploadToRekor,
       ReadSignatures, WriteSignatures, WriteReferrer, LookupSignature, Return, Fail,
       AfterPut, Goto

LEMMA AfterPutEffect ==
    ASSUME TypeOK, NEW c \in Calls, AfterPut(c)
    PROVE  /\ pc' \in [Calls -> PCs]
           /\ pc[c] = "based" /\ pc'[c] \in {"based", "written", "failed"}
           /\ \A e \in Calls : e # c => pc'[e] = pc[e]
           /\ attempt' \in [Calls -> 0 .. MaxAttempts - 1]
<1>1. attempt' \in [Calls -> 0 .. MaxAttempts - 1]
  <2>1. CASE UNCHANGED attempt
    BY <2>1 DEF TypeOK
  <2>2. CASE /\ attempt[c] + 1 < MaxAttempts
             /\ attempt' = [attempt EXCEPT ![c] = @ + 1]
    <3>1. attempt[c] + 1 \in 0 .. MaxAttempts - 1
      BY <2>2, AttemptsAssumption DEF TypeOK
    <3>2. QED  BY <2>2, <3>1 DEF TypeOK
  <2>3. QED  BY <2>1, <2>2 DEF AfterPut
<1>2. \E to \in {"based", "written", "failed"} : Goto(c, "based", to)
  BY DEF AfterPut
<1>3. QED  BY <1>1, <1>2, GotoEffect DEF PCs

-----------------------------------------------------------------------------
(* The types, and the shape of a call's progress, are kept by every step.  *)
LEMMA TypeInvInit == Init => TypeInv
<1> SUFFICES ASSUME Init PROVE TypeInv
  OBVIOUS
<1>1. TypeOK
  BY AttemptsAssumption DEF Init, TypeOK, PCs, Results, Entries
<1>2. QED  BY <1>1 DEF Init, TypeInv, Progress, InWork

LEMMA TypeInvNext == TypeInv /\ [Next]_vars => TypeInv'
<1> SUFFICES ASSUME TypeInv, [Next]_vars PROVE TypeInv'
  OBVIOUS
<1> USE DEF TypeInv
<1>1. ASSUME NEW c \in Calls, ExecuteSign(c) PROVE TypeInv'
  BY <1>1 DEF ExecuteSign, registry, Goto, TypeOK, PCs, Progress, InWork, Pending, Ordinal
<1>2. ASSUME NEW c \in Calls, BuildSigner(c) PROVE TypeInv'
  BY <1>2 DEF BuildSigner, registry, Goto, TypeOK, PCs, Progress, InWork, Pending, Ordinal
<1>3. ASSUME NEW c \in Calls, Resolve(c) PROVE TypeInv'
  BY <1>3, TargetType DEF Resolve, registry, Goto, TypeOK, PCs, Progress, InWork, Pending, Ordinal
<1>4. ASSUME NEW c \in Calls, FetchEntity(c) PROVE TypeInv'
  BY <1>4, TargetType DEF FetchEntity, registry, Goto, TypeOK, PCs, Progress, InWork, Pending, Ordinal
<1>5. ASSUME NEW c \in Calls, UploadToRekor(c) PROVE TypeInv'
  <2>1. [key |-> Signer(c), sig |-> SigId(c),
         payload |-> PayloadFor(c, Subject(c))] \in Entries
    BY <1>5, SignerType, OrdinalType, PayloadType DEF UploadToRekor, Entries
  <2>2. tlog' \in Seq(Entries) /\ entry' \in [Calls -> Nat]
    BY <1>5, <2>1 DEF UploadToRekor, TypeOK
  <2>3. QED
    BY <1>5, <2>2 DEF UploadToRekor, registry, Goto, TypeOK, PCs, Progress, InWork, Pending, Ordinal
<1>6. ASSUME NEW c \in Calls, ReadSignatures(c) PROVE TypeInv'
  <2>1. Pending(c) /\ Subject(c) \in Digests
    BY <1>6, OrdinalType DEF ReadSignatures, Goto, Progress, InWork
  <2>2. base' \in [Calls -> SUBSET Signatures] /\ attempt' \in [Calls -> 0 .. MaxAttempts - 1]
    BY <1>6, <2>1, AttemptsAssumption DEF ReadSignatures, TypeOK
  <2>3. QED
    BY <1>6, <2>1, <2>2 DEF ReadSignatures, registry, Goto, TypeOK, PCs, Progress, InWork, Pending, Ordinal
<1>7. ASSUME NEW c \in Calls, WriteSignatures(c) PROVE TypeInv'
  <2>1. Pending(c) /\ Subject(c) \in Digests /\ Attached(c) \in SUBSET Signatures
    BY <1>7, AfterPutEffect, OrdinalType, AttachedType DEF WriteSignatures, Progress, InWork
  <2>2. sigTag' \in [Digests -> SUBSET Signatures]
    BY <1>7, <2>1 DEF WriteSignatures, TypeOK
  <2>3. TypeOK'
    BY <1>7, <2>2, AfterPutEffect DEF WriteSignatures, TypeOK
  <2>4. QED
    BY <1>7, <2>1, <2>3, AfterPutEffect DEF WriteSignatures, Progress, InWork, Pending, Ordinal
<1>8. ASSUME NEW c \in Calls, WriteReferrer(c) PROVE TypeInv'
  <2>1. Pending(c) /\ Subject(c) \in Digests /\ Attached(c) \in SUBSET Signatures
    BY <1>8, AfterPutEffect, OrdinalType, AttachedType DEF WriteReferrer, Progress, InWork
  <2>2. referrers' \in [Digests -> SUBSET SUBSET Signatures]
    BY <1>8, <2>1 DEF WriteReferrer, TypeOK
  <2>3. TypeOK'
    BY <1>8, <2>2, AfterPutEffect DEF WriteReferrer, TypeOK
  <2>4. QED
    BY <1>8, <2>1, <2>3, AfterPutEffect DEF WriteReferrer, Progress, InWork, Pending, Ordinal
<1>9. ASSUME NEW c \in Calls, LookupSignature(c) PROVE TypeInv'
  <2>1. Pending(c) /\ Subject(c) \in Digests
    BY <1>9, OrdinalType DEF LookupSignature, Goto, Progress, InWork
  <2>2. PICK m \in Candidates(c) :
          results' = [results EXCEPT ![c] =
             Append(@, [digest |-> Subject(c), signatureDigest |-> m,
                        tlogIndex |-> entry[c]])]
    BY <1>9 DEF LookupSignature
  <2>3. [digest |-> Subject(c), signatureDigest |-> m, tlogIndex |-> entry[c]] \in Results
    BY <2>1, CandidatesType DEF TypeOK, Results
  <2>4. results' \in [Calls -> Seq(Results)]
    BY <2>2, <2>3 DEF TypeOK
  <2>5. TypeOK'
    BY <1>9, <2>4 DEF LookupSignature, registry, Goto, TypeOK, PCs
  <2>6. ASSUME NEW e \in Calls PROVE Progress(e)'
    <3>1. CASE e = c
      <4>1. pc'[c] = "walking"
        BY <1>9, GotoEffect DEF LookupSignature, PCs
      <4>2. QED  BY <3>1, <4>1 DEF Progress, InWork
    <3>2. CASE e # c
      <4>1. pc'[e] = pc[e] /\ subjects'[e] = subjects[e] /\ results'[e] = results[e]
        BY <1>9, <3>2, OthersStay DEF Step
      <4>2. QED  BY <4>1 DEF Progress, Pending, Ordinal
    <3>3. QED  BY <3>1, <3>2
  <2>7. QED  BY <2>5, <2>6
<1>10. ASSUME NEW c \in Calls, Return(c) PROVE TypeInv'
  BY <1>10 DEF Return, registry, Goto, TypeOK, PCs, Progress, InWork, Pending, Ordinal
<1>11. ASSUME NEW c \in Calls, Fail(c) PROVE TypeInv'
  BY <1>11 DEF Fail, registry, TypeOK, PCs, Ended, Progress, InWork, Pending, Ordinal
<1>12. ASSUME NEW t \in Tags, NEW d \in Digests, PushTag(t, d) PROVE TypeInv'
  BY <1>12 DEF PushTag, local, TypeOK, Progress, InWork, Pending, Ordinal
<1>13. CASE UNCHANGED vars
  BY <1>13 DEF vars, TypeOK, Progress, InWork, Pending, Ordinal
<1>14. QED
  BY <1>1, <1>2, <1>3, <1>4, <1>5, <1>6, <1>7, <1>8, <1>9, <1>10, <1>11, <1>12, <1>13
     DEF Next, Step

(* Every reachable state is well typed (all of SignOp).                    *)
THEOREM TypeCorrect == Spec => []TypeOK
<1>1. TypeInv => TypeOK
  BY DEF TypeInv
<1>2. QED  BY <1>1, TypeInvInit, TypeInvNext, PTL DEF Spec

-----------------------------------------------------------------------------
(* A successful oci-1-1 call is signed.  What makes it inductive: up to    *)
(* the manifest it is at, a call has signed all of them, and a signature   *)
(* referrer, once put, stays.                                              *)
SignedSoFar(c) ==
    cfg[c].mode = OCI11 =>
        /\ \A i \in 1 .. Len(subjects[c]) :
             i < Ordinal(c) => Signed(c, subjects[c][i])
        /\ pc[c] = "written" => Signed(c, Subject(c))
SignedInv == TypeInv /\ \A c \in Calls : SignedSoFar(c)

(* Whatever step is taken, inputs stay and referrers are only added.       *)
LEMMA ReferrersGrow ==
    ASSUME TypeInv, [Next]_vars
    PROVE  /\ cfg' = cfg
           /\ \A d \in Digests : referrers[d] \subseteq referrers'[d]
<1>1. CASE \E c \in Calls : WriteReferrer(c)
  BY <1>1 DEF TypeInv, TypeOK, WriteReferrer
<1>2. CASE ~ \E c \in Calls : WriteReferrer(c)
  BY <1>2 DEF Next, Step, ExecuteSign, BuildSigner, Resolve, FetchEntity, UploadToRekor,
              ReadSignatures, WriteSignatures, LookupSignature, Return, Fail, PushTag,
              registry, local, vars
<1>3. QED  BY <1>1, <1>2

(* So an oci-1-1 call that has signed a manifest has signed it for good.   *)
LEMMA SignedStays ==
    ASSUME TypeInv, [Next]_vars, NEW c \in Calls, cfg[c].mode = OCI11,
           NEW d \in Digests, Signed(c, d)
    PROVE  Signed(c, d)'
<1>1. PICK s \in UNION referrers[d] : s.key = Signer(c) /\ s.payload = PayloadFor(c, d)
  BY DEF Signed, Stored, OCI11, Legacy
<1>2. s \in (UNION referrers[d])'
  BY ReferrersGrow
<1>3. Signer(c)' = Signer(c) /\ PayloadFor(c, d)' = PayloadFor(c, d) /\ cfg'[c].mode = OCI11
  BY ReferrersGrow DEF Signer, PayloadFor
<1>4. QED  BY <1>1, <1>2, <1>3 DEF Signed, Stored, OCI11, Legacy

(* What is written always holds a signature of the payload by the key.     *)
LEMMA AttachedIsSigned ==
    ASSUME NEW c \in Calls
    PROVE  \E s \in Attached(c) :
              s.key = Signer(c) /\ s.payload = PayloadFor(c, Subject(c))
<1>1. CASE Duplicates(base[c], NewSignature(c)) # {}
  BY <1>1 DEF Attached, Duplicates, NewSignature
<1>2. CASE Duplicates(base[c], NewSignature(c)) = {}
  BY <1>2 DEF Attached, NewSignature
<1>3. QED  BY <1>1, <1>2

LEMMA SignedInvInit == Init => SignedInv
<1> SUFFICES ASSUME Init PROVE SignedInv
  OBVIOUS
<1>1. \A c \in Calls : subjects[c] = <<>> /\ pc[c] # "written"
  BY DEF Init
<1>2. QED  BY <1>1, TypeInvInit DEF SignedInv, SignedSoFar

LEMMA SignedInvNext == SignedInv /\ [Next]_vars => SignedInv'
<1> SUFFICES ASSUME SignedInv, [Next]_vars PROVE SignedInv'
  OBVIOUS
<1>1. TypeInv /\ TypeInv' /\ TypeOK /\ TypeOK' /\ cfg' = cfg
  BY TypeInvNext, ReferrersGrow DEF SignedInv, TypeInv
<1> SUFFICES ASSUME NEW c \in Calls, cfg[c].mode = OCI11 PROVE SignedSoFar(c)'
  BY <1>1 DEF SignedInv, SignedSoFar
(* A step that leaves c's place in the walk alone signs nothing away.      *)
<1>2. ASSUME subjects'[c] = subjects[c], results'[c] = results[c],
             pc'[c] = "written" => pc[c] = "written"
      PROVE  SignedSoFar(c)'
  <2>1. Ordinal(c)' = Ordinal(c) /\ Subject(c)' = Subject(c)
    BY <1>2 DEF Ordinal, Subject
  <2>2. pc'[c] = "written" => Signed(c, Subject(c))'
    <3> SUFFICES ASSUME pc'[c] = "written" PROVE Signed(c, Subject(c))'
      OBVIOUS
    <3>1. Pending(c) /\ Signed(c, Subject(c))
      BY <1>1, <1>2 DEF SignedInv, SignedSoFar, TypeInv, Progress, InWork
    <3>2. Subject(c) \in Digests
      BY <1>1, <3>1, OrdinalType
    <3>3. Signed(c, Subject(c))'
      BY <1>1, <2>1, <3>1, <3>2, SignedStays DEF Signed, PayloadFor
    <3>4. QED  BY <3>3
  <2>3. ASSUME NEW i \in 1 .. Len(subjects[c]), i < Ordinal(c)
        PROVE  Signed(c, subjects[c][i])'
    <3>1. subjects[c][i] \in Digests
      BY <1>1 DEF TypeOK
    <3>2. QED  BY <1>1, <1>2, <2>3, <3>1, SignedStays DEF SignedInv, SignedSoFar
  <2>4. QED  BY <1>2, <2>1, <2>2, <2>3 DEF SignedSoFar
<1>3. CASE FetchEntity(c)
  <2>1. results'[c] = <<>> /\ pc'[c] = "walking"
    BY <1>1, <1>3, GotoEffect DEF FetchEntity, TypeInv, Progress, PCs
  <2>2. QED  BY <2>1 DEF SignedSoFar, Ordinal
<1>4. CASE WriteReferrer(c)
  <2>1. Pending(c) /\ Subject(c) \in Digests
    BY <1>1, <1>4, AfterPutEffect, OrdinalType DEF WriteReferrer, TypeInv, Progress, InWork
  <2>2. Attached(c) \in referrers'[Subject(c)]
    BY <1>1, <1>4, <2>1 DEF WriteReferrer, TypeOK
  <2>3. PICK s \in Attached(c) :
          s.key = Signer(c) /\ s.payload = PayloadFor(c, Subject(c))
    BY AttachedIsSigned
  <2>4. subjects' = subjects /\ results' = results /\ Subject(c)' = Subject(c)
    BY <1>4 DEF WriteReferrer, Subject, Ordinal
  <2>5. Signed(c, Subject(c))'
    BY <1>1, <2>2, <2>3, <2>4 DEF Signed, Stored, Signer, PayloadFor, OCI11, Legacy
  <2>6. ASSUME NEW i \in 1 .. Len(subjects[c]), i < Ordinal(c)
        PROVE  Signed(c, subjects[c][i])'
    <3>1. subjects[c][i] \in Digests
      BY <1>1 DEF TypeOK
    <3>2. QED  BY <1>1, <2>4, <2>6, <3>1, SignedStays DEF SignedInv, SignedSoFar
  <2>7. QED  BY <2>4, <2>5, <2>6 DEF SignedSoFar, Ordinal
<1>5. CASE LookupSignature(c)
  <2>1. /\ pc[c] = "written" /\ pc'[c] = "walking" /\ subjects' = subjects
        /\ Len(results'[c]) = Len(results[c]) + 1
    BY <1>1, <1>5, GotoEffect DEF LookupSignature, TypeOK, PCs
  <2>2. Signed(c, Subject(c)) /\ Pending(c)
    BY <1>1, <2>1 DEF SignedInv, SignedSoFar, TypeInv, Progress, InWork
  <2>3. ASSUME NEW i \in 1 .. Len(subjects[c]), i < Ordinal(c) + 1
        PROVE  Signed(c, subjects[c][i])'
    <3>1. subjects[c][i] \in Digests /\ Ordinal(c) \in Nat
      BY <1>1, OrdinalType DEF TypeOK
    <3>2. Signed(c, subjects[c][i])
      BY <2>2, <2>3, <3>1 DEF SignedInv, SignedSoFar, Subject
    <3>3. QED  BY <1>1, <2>1, <3>1, <3>2, SignedStays
  <2>4. QED  BY <2>1, <2>3 DEF SignedSoFar, Ordinal
<1>6. CASE ~(FetchEntity(c) \/ WriteReferrer(c) \/ LookupSignature(c))
  <2> DEFINE Still == /\ subjects'[c] = subjects[c]
                      /\ results'[c] = results[c]
                      /\ pc'[c] = "written" => pc[c] = "written"
  <2>1. ASSUME NEW e \in Calls, e # c, ExecuteSign(e) \/ Step(e) PROVE Still
    BY <1>1, <2>1, OthersStay
  <2>2. ASSUME ExecuteSign(c) \/ Step(c) PROVE Still
    BY <1>1, <1>6, <2>2
       DEF TypeOK, Step, ExecuteSign, BuildSigner, Resolve, UploadToRekor,
           ReadSignatures, WriteSignatures, Return, Fail, AfterPut, Goto, OCI11, Legacy
  <2>3. ASSUME (\E t \in Tags, d \in Digests : PushTag(t, d)) \/ UNCHANGED vars PROVE Still
    BY <2>3 DEF PushTag, local, vars
  <2>4. Still
    BY <2>1, <2>2, <2>3 DEF Next
  <2>5. QED  BY <1>2, <2>4
<1>7. QED  BY <1>3, <1>4, <1>5, <1>6

(* An oci-1-1 call that returned success has its signature in the registry *)
(* for every digest it reports as signed, for good (sign.go:186-211).      *)
THEOREM SuccessIsSignedAlways == Spec => []SuccessIsSigned
<1>1. ASSUME SignedInv PROVE SuccessIsSigned
  <2> SUFFICES ASSUME NEW c \in Calls, pc[c] = "ok", cfg[c].mode = OCI11,
                      NEW i \in 1 .. Len(subjects[c])
               PROVE  Signed(c, subjects[c][i])
    BY DEF SuccessIsSigned
  <2>1. i < Ordinal(c)
    BY <1>1, OrdinalType DEF SignedInv, TypeInv, TypeOK, Progress, Pending
  <2>2. QED  BY <1>1, <2>1 DEF SignedInv, SignedSoFar
<1>2. QED  BY <1>1, SignedInvInit, SignedInvNext, PTL DEF Spec

-----------------------------------------------------------------------------
(* The .sig image never stacks signatures.  A write replaces the image by  *)
(* what the call read earlier plus its own signature, so what has to be    *)
(* free of repetitions is every image a call has read, too.                *)
Unstacked(m) ==
    \A s, t \in m :
        s.key = t.key /\ s.payload = t.payload /\ s.entry = 0 /\ t.entry = 0 => s = t
StackInv ==
    /\ TypeInv
    /\ \A d \in Digests : Unstacked(sigTag[d])
    /\ \A c \in Calls : Unstacked(base[c])

LEMMA AttachedUnstacked ==
    ASSUME NEW c \in Calls, Unstacked(base[c])
    PROVE  Unstacked(Attached(c))
<1>1. CASE Duplicates(base[c], NewSignature(c)) # {}
  BY <1>1 DEF Attached
<1>2. CASE Duplicates(base[c], NewSignature(c)) = {}
  <2>1. Attached(c) = base[c] \cup {NewSignature(c)}
    BY <1>2 DEF Attached
  <2>2. \A t \in base[c] :
          ~ (/\ t.key = NewSignature(c).key
             /\ t.payload = NewSignature(c).payload
             /\ NewSignature(c).entry = 0)
    BY <1>2 DEF Duplicates
  <2>3. QED  BY <2>1, <2>2, Zenon DEF Unstacked
<1>3. QED  BY <1>1, <1>2

LEMMA StackInvNext == StackInv /\ [Next]_vars => StackInv'
<1> SUFFICES ASSUME StackInv, [Next]_vars PROVE StackInv'
  OBVIOUS
<1>1. TypeInv' /\ TypeOK
  BY TypeInvNext DEF StackInv, TypeInv
<1>2. ASSUME NEW c \in Calls, ReadSignatures(c) PROVE StackInv'
  <2>1. Subject(c) \in Digests
    BY <1>1, <1>2, OrdinalType DEF ReadSignatures, Goto, StackInv, TypeInv, Progress, InWork
  <2>2. sigTag' = sigTag /\ \A e \in Calls : base'[e] \in {base[e], sigTag[Subject(c)]}
    BY <1>1, <1>2 DEF ReadSignatures, registry, TypeOK
  <2>3. QED  BY <1>1, <2>1, <2>2 DEF StackInv
<1>3. ASSUME NEW c \in Calls, WriteSignatures(c) PROVE StackInv'
  <2>1. base' = base /\ \A d \in Digests : sigTag'[d] \in {sigTag[d], Attached(c)}
    BY <1>1, <1>3 DEF WriteSignatures, TypeOK
  <2>2. QED  BY <1>1, <2>1, AttachedUnstacked DEF StackInv
<1>4. CASE ~ \E c \in Calls : ReadSignatures(c) \/ WriteSignatures(c)
  <2>1. base' = base /\ sigTag' = sigTag
    BY <1>4 DEF Next, Step, ExecuteSign, BuildSigner, Resolve, FetchEntity, UploadToRekor,
                WriteReferrer, LookupSignature, Return, Fail, PushTag, registry, local, vars
  <2>2. QED  BY <1>1, <2>1 DEF StackInv
<1>5. QED  BY <1>2, <1>3, <1>4

(* Re-signing the same payload with the same key, from however many calls  *)
(* at once, leaves one signature in the .sig image (sign.go:158-160).      *)
THEOREM NeverStacked == Spec => []NoStackedSignatures
<1>1. Init => StackInv
  BY TypeInvInit DEF Init, StackInv, Unstacked
<1>2. StackInv => NoStackedSignatures
  BY DEF StackInv, Unstacked, NoStackedSignatures
<1>3. QED  BY <1>1, <1>2, StackInvNext, PTL DEF Spec

-----------------------------------------------------------------------------
(* Nothing unlogged becomes visible.  The signatures at risk are those in  *)
(* the registry, those read from it to be written again, and the one a     *)
(* call is about to write.                                                 *)
LogInv ==
    /\ TypeInv
    /\ \A d \in Digests : \A s \in sigTag[d] : Logged(s)
    /\ \A d \in Digests : \A m \in referrers[d] : \A s \in m : Logged(s)
    /\ \A c \in Calls : \A s \in base[c] : Logged(s)
    /\ \A c \in Calls : pc[c] \in {"logged", "based"} => Logged(NewSignature(c))
    /\ \A c \in Calls : ~cfg[c].tlogUpload => entry[c] = 0

(* The log only grows, so what it vouches for it vouches for for good.     *)
LEMMA LoggedStays ==
    ASSUME TypeInv, [Next]_vars, NEW s \in Signatures, Logged(s)
    PROVE  Logged(s)'
<1>1. cfg' = cfg
  BY ReferrersGrow
<1>2. CASE \E c \in Calls : UploadToRekor(c)
  <2>1. PICK e \in Entries : tlog' = Append(tlog, e)
    <3>1. PICK c \in Calls : UploadToRekor(c)
      BY <1>2
    <3>2. [key |-> Signer(c), sig |-> SigId(c),
           payload |-> PayloadFor(c, Subject(c))] \in Entries
      BY <3>1, SignerType, OrdinalType, PayloadType DEF UploadToRekor, Entries, TypeInv
    <3>3. QED  BY <3>1, <3>2 DEF UploadToRekor
  <2>2. QED  BY <1>1, <2>1 DEF Logged, TypeInv, TypeOK, Signatures
<1>3. CASE ~ \E c \in Calls : UploadToRekor(c)
  <2>1. tlog' = tlog
    BY <1>3 DEF Next, Step, ExecuteSign, BuildSigner, Resolve, FetchEntity, ReadSignatures,
                WriteSignatures, WriteReferrer, LookupSignature, Return, Fail, PushTag, vars
  <2>2. QED  BY <1>1, <2>1 DEF Logged
<1>4. QED  BY <1>2, <1>3

LEMMA LogInvNext == LogInv /\ [Next]_vars => LogInv'
<1> SUFFICES ASSUME LogInv, [Next]_vars PROVE LogInv'
  OBVIOUS
<1>1. TypeInv /\ TypeInv' /\ TypeOK /\ TypeOK' /\ cfg' = cfg
  BY TypeInvNext, ReferrersGrow DEF LogInv, TypeInv
<1>2. ASSUME NEW c \in Calls, pc[c] = "based", NEW s \in Attached(c) PROVE Logged(s)'
  <2>1. Pending(c)
    BY <1>1, <1>2 DEF TypeInv, Progress, InWork
  <2>2. s \in Signatures
    BY <1>1, <1>2, <2>1, AttachedType
  <2>3. Logged(s)
    BY <1>2 DEF LogInv, Attached
  <2>4. QED  BY <1>1, <2>2, <2>3, LoggedStays
<1>3. ASSUME NEW d \in Digests, NEW s \in sigTag'[d] PROVE Logged(s)'
  <2>1. CASE s \in sigTag[d]
    BY <1>1, <2>1, LoggedStays DEF LogInv, TypeOK
  <2>2. CASE s \notin sigTag[d]
    <3>1. PICK c \in Calls : WriteSignatures(c)
      BY <1>3, <2>2
         DEF Next, Step, ExecuteSign, BuildSigner, Resolve, FetchEntity, UploadToRekor,
             ReadSignatures, WriteReferrer, LookupSignature, Return, Fail, PushTag,
             registry, vars
    <3>2. s \in Attached(c) /\ pc[c] = "based"
      BY <1>1, <1>3, <2>2, <3>1, AfterPutEffect DEF WriteSignatures, TypeOK
    <3>3. QED  BY <1>2, <3>2
  <2>3. QED  BY <2>1, <2>2
<1>4. ASSUME NEW d \in Digests, NEW m \in referrers'[d], NEW s \in m PROVE Logged(s)'
  <2>1. CASE m \in referrers[d]
    BY <1>1, <1>4, <2>1, LoggedStays DEF LogInv, TypeOK
  <2>2. CASE m \notin referrers[d]
    <3>1. PICK c \in Calls : WriteReferrer(c)
      BY <1>4, <2>2
         DEF Next, Step, ExecuteSign, BuildSigner, Resolve, FetchEntity, UploadToRekor,
             ReadSignatures, WriteSignatures, LookupSignature, Return, Fail, PushTag,
             registry, vars
    <3>2. m = Attached(c) /\ pc[c] = "based"
      BY <1>1, <1>4, <2>2, <3>1, AfterPutEffect DEF WriteReferrer, TypeOK
    <3>3. QED  BY <1>2, <1>4, <3>2
  <2>3. QED  BY <2>1, <2>2
<1>5. ASSUME NEW c \in Calls, NEW s \in base'[c] PROVE Logged(s)'
  <2>1. CASE s \in base[c]
    BY <1>1, <2>1, LoggedStays DEF LogInv, TypeOK
  <2>2. CASE s \notin base[c]
    <3>1. PICK e \in Calls : ReadSignatures(e)
      BY <1>5, <2>2
         DEF Next, Step, ExecuteSign, BuildSigner, Resolve, FetchEntity, UploadToRekor,
             WriteSignatures, WriteReferrer, LookupSignature, Return, Fail, PushTag,
             local, vars
    <3>2. Subject(e) \in Digests
      BY <1>1, <3>1, OrdinalType DEF ReadSignatures, Goto, TypeInv, Progress, InWork
    <3>3. s \in sigTag[Subject(e)]
      BY <1>1, <1>5, <2>2, <3>1 DEF ReadSignatures, TypeOK
    <3>4. QED  BY <1>1, <3>2, <3>3, LoggedStays DEF LogInv, TypeOK
  <2>3. QED  BY <2>1, <2>2
<1>6. ASSUME NEW c \in Calls, pc'[c] \in {"logged", "based"} PROVE Logged(NewSignature(c))'
  <2>1. CASE UploadToRekor(c)
    <3>1. [key |-> Signer(c), sig |-> SigId(c),
           payload |-> PayloadFor(c, Subject(c))] \in Entries
      BY <1>1, <2>1, SignerType, OrdinalType, PayloadType DEF UploadToRekor, Entries
    <3>2. /\ entry'[c] = Len(tlog) + 1 /\ Len(tlog') = Len(tlog) + 1
          /\ tlog'[Len(tlog) + 1] = [key |-> Signer(c), sig |-> SigId(c),
                                     payload |-> PayloadFor(c, Subject(c))]
      BY <1>1, <2>1, <3>1 DEF UploadToRekor, TypeOK
    <3>3. /\ NewSignature(c)' = [key |-> Signer(c), payload |-> PayloadFor(c, Subject(c)),
                                 sig |-> SigId(c), entry |-> Len(tlog) + 1]
      BY <1>1, <2>1, <3>2 DEF UploadToRekor, NewSignature, Signer, PayloadFor, Subject, SigId, Ordinal
    <3>4. QED  BY <1>1, <3>2, <3>3 DEF Logged, TypeOK
  <2>2. CASE ReadSignatures(c) /\ pc[c] = "walking"
    <3>1. ~cfg[c].tlogUpload /\ entry'[c] = 0
      BY <2>2 DEF ReadSignatures, Goto, LogInv
    <3>2. QED  BY <1>1, <3>1 DEF Logged, NewSignature, SigId
  <2>3. CASE pc[c] \in {"logged", "based"} /\ ~UploadToRekor(c)
    <3>1. Pending(c) /\ Logged(NewSignature(c)) /\ NewSignature(c) \in Signatures
      BY <1>1, <2>3, AttachedType DEF LogInv, TypeInv, Progress, InWork
    <3>2. subjects'[c] = subjects[c] /\ results'[c] = results[c] /\ entry'[c] = entry[c]
      <4> DEFINE Same == /\ subjects'[c] = subjects[c] /\ results'[c] = results[c]
                         /\ entry'[c] = entry[c]
      <4>1. ASSUME NEW e \in Calls, e # c, ExecuteSign(e) \/ Step(e) PROVE Same
        BY <1>1, <4>1, OthersStay
      <4>2. ASSUME ExecuteSign(c) \/ Step(c) PROVE Same
        BY <2>3, <4>2
           DEF Step, ExecuteSign, BuildSigner, Resolve, FetchEntity, ReadSignatures,
               WriteSignatures, WriteReferrer, LookupSignature, Return, Fail, Goto
      <4>3. ASSUME (\E t \in Tags, d \in Digests : PushTag(t, d)) \/ UNCHANGED vars PROVE Same
        BY <4>3 DEF PushTag, local, vars
      <4>4. QED  BY <1>1, <4>1, <4>2, <4>3 DEF Next
    <3>3. NewSignature(c)' = NewSignature(c)
      BY <1>1, <3>2 DEF NewSignature, Signer, PayloadFor, Subject, SigId, Ordinal
    <3>4. QED  BY <1>1, <3>1, <3>3, LoggedStays
  <2>4. \/ UploadToRekor(c)
        \/ ReadSignatures(c) /\ pc[c] = "walking"
        \/ pc[c] \in {"logged", "based"} /\ ~UploadToRekor(c)
    <3> DEFINE Cases == \/ UploadToRekor(c)
                        \/ ReadSignatures(c) /\ pc[c] = "walking"
                        \/ pc[c] \in {"logged", "based"} /\ ~UploadToRekor(c)
    <3>1. ASSUME NEW e \in Calls, e # c, ExecuteSign(e) \/ Step(e) PROVE Cases
      <4>1. pc'[c] = pc[c]
        BY <1>1, <3>1, OthersStay
      <4>2. QED  BY <1>6, <4>1
    <3>2. ASSUME WriteSignatures(c) \/ WriteReferrer(c) PROVE Cases
      BY <1>1, <3>2, AfterPutEffect DEF WriteSignatures, WriteReferrer
    <3>3. ASSUME ExecuteSign(c) \/ Step(c), ~(WriteSignatures(c) \/ WriteReferrer(c)) PROVE Cases
      BY <1>1, <1>6, <3>3
         DEF TypeOK, Step, ExecuteSign, BuildSigner, Resolve, FetchEntity, ReadSignatures,
             LookupSignature, Return, Fail, Goto
    <3>4. ASSUME (\E t \in Tags, d \in Digests : PushTag(t, d)) \/ UNCHANGED vars PROVE Cases
      BY <1>6, <3>4 DEF PushTag, local, vars
    <3>5. QED  BY <1>1, <3>1, <3>2, <3>3, <3>4 DEF Next
  <2>5. QED  BY <2>1, <2>2, <2>3, <2>4
<1>7. ASSUME NEW c \in Calls, ~cfg[c].tlogUpload PROVE entry'[c] = 0
  BY <1>1, <1>7
     DEF LogInv, TypeOK, Next, Step, ExecuteSign, BuildSigner, Resolve, FetchEntity,
         UploadToRekor, ReadSignatures, WriteSignatures, WriteReferrer, LookupSignature,
         Return, Fail, PushTag, local, vars
<1>8. QED  BY <1>1, <1>3, <1>4, <1>5, <1>6, <1>7 DEF LogInv

(* No signature of a call that logs to Rekor is ever in the registry       *)
(* without its own log entry (sign.go:255-293).                            *)
THEOREM AlwaysLoggedFirst == Spec => []LoggedBeforeStored
<1>1. Init => LogInv
  BY TypeInvInit DEF Init, LogInv
<1>2. LogInv => LoggedBeforeStored
  BY DEF LogInv, LoggedBeforeStored, Stored
<1>3. QED  BY <1>1, <1>2, LogInvNext, PTL DEF Spec
=============================================================================
