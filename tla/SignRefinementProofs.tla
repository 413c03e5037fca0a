------------------------ MODULE SignRefinementProofs ------------------------
(***************************************************************************)
(* The default mode implements Attestation, for any number of calls, keys  *)
(* and manifests.                                                          *)
(***************************************************************************)
EXTENDS SignRefinement, SignProofs

Fetched == {"walking", "logged", "based", "written", "ok"}

(* Without legacy calls there is nothing in the .sig images to read; and a *)
(* call has its manifests from the moment the entity is fetched.           *)
RefInv ==
    /\ SignedInv
    /\ \A d \in Digests : sigTag[d] = {}
    /\ \A c \in Calls :
         /\ base[c] = {}
         /\ pc[c] \in Fetched => Len(subjects[c]) > 0
         /\ pc[c] \in {"idle", "parsed", "signer", "resolved"} => subjects[c] = <<>>

LEMMA AllReferrers == ASSUME TypeOK, NEW c \in Calls PROVE cfg[c].mode = OCI11
BY ReferrersOnly DEF TypeOK

LEMMA RefInvInit == Init => RefInv
BY SignedInvInit DEF Init, RefInv, Fetched

LEMMA RefInvNext == RefInv /\ [Next]_vars => RefInv'
<1> SUFFICES ASSUME RefInv, [Next]_vars PROVE RefInv'
  OBVIOUS
<1>1. SignedInv' /\ TypeInv /\ TypeOK /\ TypeOK'
  BY SignedInvNext DEF RefInv, SignedInv, TypeInv
<1>2. sigTag' = sigTag
  BY <1>1, AllReferrers
     DEF Next, Step, ExecuteSign, BuildSigner, Resolve, FetchEntity, UploadToRekor,
         ReadSignatures, WriteSignatures, WriteReferrer, LookupSignature, Return, Fail,
         PushTag, registry, vars, OCI11, Legacy
<1>3. ASSUME NEW c \in Calls PROVE base'[c] = {}
  <2>1. CASE \E e \in Calls : ReadSignatures(e)
    <3>1. PICK e \in Calls : ReadSignatures(e)
      BY <2>1
    <3>2. Subject(e) \in Digests
      BY <1>1, <3>1, OrdinalType DEF ReadSignatures, Goto, TypeInv, Progress, InWork
    <3>3. QED  BY <1>1, <3>1, <3>2 DEF ReadSignatures, RefInv, TypeOK
  <2>2. CASE ~ \E e \in Calls : ReadSignatures(e)
    BY <2>2
       DEF RefInv, Next, Step, ExecuteSign, BuildSigner, Resolve, FetchEntity, UploadToRekor,
           WriteSignatures, WriteReferrer, LookupSignature, Return, Fail, PushTag,
           local, vars
  <2>3. QED  BY <2>1, <2>2
<1>4. ASSUME NEW c \in Calls
      PROVE  /\ pc'[c] \in Fetched => Len(subjects'[c]) > 0
             /\ pc'[c] \in {"idle", "parsed", "signer", "resolved"} => subjects'[c] = <<>>
  <2>1. CASE FetchEntity(c)
    <3>1. Len(Walk(c, Target(cfg[c].ref))) > 0
      BY <1>1, TargetType, PreorderAssumption DEF Walk
    <3>2. subjects'[c] = Walk(c, Target(cfg[c].ref)) /\ pc'[c] = "walking"
      BY <1>1, <2>1 DEF FetchEntity, Goto, TypeOK
    <3>3. QED  BY <3>1, <3>2
  <2>2. CASE ~FetchEntity(c)
    <3>1. subjects'[c] = subjects[c]
      BY <1>1, <2>2
         DEF TypeOK, Next, Step, ExecuteSign, BuildSigner, Resolve, FetchEntity, UploadToRekor,
             ReadSignatures, WriteSignatures, WriteReferrer, LookupSignature, Return, Fail,
             PushTag, local, vars
    <3>2. /\ pc'[c] \in Fetched => pc[c] \in Fetched
          /\ pc'[c] \in {"idle", "parsed", "signer", "resolved"} =>
               pc[c] \in {"idle", "parsed", "signer", "resolved"}
      <4> DEFINE Phase == /\ pc'[c] \in Fetched => pc[c] \in Fetched
                          /\ pc'[c] \in {"idle", "parsed", "signer", "resolved"} =>
                               pc[c] \in {"idle", "parsed", "signer", "resolved"}
      <4>1. ASSUME NEW e \in Calls, e # c, ExecuteSign(e) \/ Step(e) PROVE Phase
        BY <1>1, <4>1, OthersStay
      <4>2. ASSUME WriteSignatures(c) \/ WriteReferrer(c) PROVE Phase
        BY <1>1, <4>2, AfterPutEffect DEF WriteSignatures, WriteReferrer, Fetched
      <4>3. ASSUME ExecuteSign(c) \/ Step(c), ~(WriteSignatures(c) \/ WriteReferrer(c)) PROVE Phase
        BY <1>1, <2>2, <4>3
           DEF TypeOK, Step, ExecuteSign, BuildSigner, Resolve, UploadToRekor,
               ReadSignatures, LookupSignature, Return, Fail, Goto, Ended, Fetched
      <4>4. ASSUME (\E t \in Tags, d \in Digests : PushTag(t, d)) \/ UNCHANGED vars PROVE Phase
        BY <4>4 DEF PushTag, local, vars
      <4>5. QED  BY <4>1, <4>2, <4>3, <4>4 DEF Next
    <3>3. QED  BY <3>1, <3>2 DEF RefInv
  <2>3. QED  BY <2>1, <2>2
<1>5. QED  BY <1>1, <1>2, <1>3, <1>4 DEF RefInv

-----------------------------------------------------------------------------
(* The claims of a call are claims, and only FetchEntity changes them.     *)
LEMMA OwedType ==
    ASSUME TypeOK, NEW c \in Calls
    PROVE  /\ owedBar[c] \in Seq([key : Signers, payload : Payloads])
           /\ Len(owedBar[c]) = Len(subjects[c])
           /\ \A i \in 1 .. Len(subjects[c]) :
                owedBar[c][i] = [key |-> Signer(c), payload |-> PayloadFor(c, subjects[c][i])]
<1> DEFINE claim(i) == [key |-> Signer(c), payload |-> PayloadFor(c, subjects[c][i])]
<1>1. \A i \in 1 .. Len(subjects[c]) : claim(i) \in [key : Signers, payload : Payloads]
  BY SignerType, PayloadType DEF TypeOK
<1>2. owedBar[c] = [i \in 1 .. Len(subjects[c]) |-> claim(i)]
  BY DEF owedBar
<1>3. Len(subjects[c]) \in Nat
  BY DEF TypeOK
<1> HIDE DEF claim
<1>4. owedBar[c] \in [1 .. Len(subjects[c]) -> [key : Signers, payload : Payloads]]
  BY <1>1, <1>2
<1>5. QED  BY <1>2, <1>3, <1>4 DEF claim

(* A manifest counts as signed exactly when the claim about it is made.    *)
LEMMA Lengths ==
    ASSUME TypeOK, NEW c \in Calls
    PROVE  /\ Len(subjects[c]) \in Nat /\ Len(owedBar[c]) = Len(subjects[c])
           /\ Ordinal(c) \in Nat \ {0}
<1>1. Len(subjects[c]) \in Nat
  BY DEF TypeOK
<1>2. QED  BY <1>1, OwedType, OrdinalType

LEMMA SignedIsMade ==
    ASSUME TypeOK, NEW c \in Calls, NEW d \in Digests, Signed(c, d)
    PROVE  [key |-> Signer(c), payload |-> PayloadFor(c, d)] \in madeBar
BY AllReferrers DEF Signed, Stored, madeBar, ClaimOf, OCI11, Legacy

LEMMA RefinementInit == Init => Abstract!Init
<1> SUFFICES ASSUME Init PROVE Abstract!Init
  OBVIOUS
<1>1. statusBar = [c \in Calls |-> "idle"]
  BY DEF Init, statusBar, Ended
<1>2. owedBar = [c \in Calls |-> <<>>]
  <2>1. ASSUME NEW c \in Calls PROVE owedBar[c] = <<>>
    <3>1. TypeOK /\ Len(subjects[c]) = 0
      BY TypeInvInit DEF Init, TypeInv
    <3>2. owedBar[c] \in Seq([key : Signers, payload : Payloads]) /\ Len(owedBar[c]) = 0
      BY <3>1, OwedType
    <3>3. QED  BY <3>2
  <2>2. QED  BY <2>1 DEF owedBar
<1>3. madeBar = {}
  BY DEF Init, madeBar
<1>4. QED  BY <1>1, <1>2, <1>3 DEF Abstract!Init

(* Each step is a step of Attestation or changes nothing it can see.       *)
LEMMA RefinementNext ==
    RefInv /\ RefInv' /\ [Next]_vars => [Abstract!Next]_(Abstract!vars)
<1> SUFFICES ASSUME RefInv, RefInv', [Next]_vars
             PROVE  [Abstract!Next]_(Abstract!vars)
  OBVIOUS
<1>1. TypeInv /\ TypeOK /\ TypeOK' /\ cfg' = cfg
  BY ReferrersGrow DEF RefInv, SignedInv, TypeInv
<1>2. ASSUME NEW c \in Calls, NEW to \in PCs, Goto(c, pc[c], to)
      PROVE  statusBar' = [statusBar EXCEPT ![c] = IF to \in Ended \cup {"idle"} THEN to ELSE "running"]
  BY <1>1, <1>2 DEF statusBar, Goto, TypeOK
<1>3. ASSUME subjects' = subjects PROVE owedBar' = owedBar
  BY <1>1, <1>3 DEF owedBar, Signer, PayloadFor
<1>4. ASSUME referrers' = referrers PROVE madeBar' = madeBar
  BY <1>4 DEF madeBar
<1>5. \A c \in Calls : statusBar[c] = IF pc[c] \in Ended \cup {"idle"} THEN pc[c] ELSE "running"
  BY DEF statusBar
<1>a. statusBar = [c \in Calls |-> statusBar[c]]
  BY DEF statusBar
<1>6. ASSUME NEW c \in Calls, ExecuteSign(c) PROVE Abstract!Begin(c)
  <2>1. Goto(c, pc[c], "parsed") /\ pc[c] = "idle"
    BY <1>6 DEF ExecuteSign, Goto
  <2>2. statusBar' = [statusBar EXCEPT ![c] = "running"] /\ statusBar[c] = "idle"
    BY <1>2, <1>5, <2>1 DEF PCs, Ended
  <2>3. owedBar' = owedBar /\ madeBar' = madeBar
    BY <1>3, <1>4, <1>6 DEF ExecuteSign, registry
  <2>4. QED  BY <2>2, <2>3 DEF Abstract!Begin, Abstract!Goto
<1>7. ASSUME NEW c \in Calls, NEW to \in PCs \ (Ended \cup {"idle"}),
             pc[c] \notin Ended \cup {"idle"}, Goto(c, pc[c], to),
             subjects' = subjects, referrers' = referrers
      PROVE  UNCHANGED Abstract!vars
  <2>1. statusBar' = [statusBar EXCEPT ![c] = "running"] /\ statusBar[c] = "running"
    BY <1>2, <1>5, <1>7
  <2>2. statusBar' = statusBar
    BY <1>a, <2>1
  <2>3. QED  BY <1>3, <1>4, <1>7, <2>2 DEF Abstract!vars
<1>8. ASSUME NEW c \in Calls, pc[c] \notin Ended \cup {"idle"}, Goto(c, pc[c], "failed"),
             subjects' = subjects, referrers' = referrers
      PROVE  Abstract!Fail(c)
  <2>1. statusBar' = [statusBar EXCEPT ![c] = "failed"] /\ statusBar[c] = "running"
    BY <1>2, <1>5, <1>8 DEF PCs, Ended
  <2>2. QED  BY <1>3, <1>4, <1>8, <2>1 DEF Abstract!Fail, Abstract!Goto
<1>9. ASSUME NEW c \in Calls, FetchEntity(c) PROVE Abstract!Commit(c)
  <2>1. Goto(c, pc[c], "walking") /\ pc[c] = "resolved" /\ pc'[c] = "walking"
    BY <1>1, <1>9 DEF FetchEntity, Goto, TypeOK
  <2>2. statusBar' = [statusBar EXCEPT ![c] = "running"] /\ statusBar[c] = "running"
    BY <1>2, <1>5, <2>1 DEF PCs, Ended
  <2>3. Len(owedBar[c]) = 0
    <3>1. subjects[c] = <<>>
      BY <2>1 DEF RefInv
    <3>2. QED  BY <1>1, <3>1, OwedType
  <2>4. owedBar'[c] \in Seq([key : Signers, payload : Payloads]) /\ Len(owedBar'[c]) > 0
    <3>1. Len(subjects'[c]) > 0
      BY <2>1 DEF RefInv, Fetched
    <3>2. owedBar'[c] \in Seq([key : Signers, payload : Payloads]) /\ Len(owedBar'[c]) = Len(subjects'[c])
      <4>1. (owedBar[c] \in Seq([key : Signers, payload : Payloads]) /\ Len(owedBar[c]) = Len(subjects[c]))'
        BY <1>1, OwedType, PTL
      <4>2. QED  BY <4>1
    <3>3. QED  BY <3>1, <3>2
  <2>5. owedBar' = [owedBar EXCEPT ![c] = owedBar'[c]]
    <3>1. \A e \in Calls : e # c => owedBar'[e] = owedBar[e]
      BY <1>1, <1>9 DEF FetchEntity, owedBar, Signer, PayloadFor, TypeOK
    <3>2. owedBar = [e \in Calls |-> owedBar[e]] /\ owedBar' = [e \in Calls |-> owedBar'[e]]
      BY DEF owedBar
    <3>3. QED  BY <3>1, <3>2
  <2>6. madeBar' = madeBar
    BY <1>4, <1>9 DEF FetchEntity, registry
  <2>7. QED  BY <2>2, <2>3, <2>4, <2>5, <2>6 DEF Abstract!Commit, Abstract!Goto
<1>10. ASSUME NEW c \in Calls, WriteReferrer(c) PROVE Abstract!Make(c)
  <2>1. PICK to \in {"based", "written", "failed"} : Goto(c, pc[c], to)
    BY <1>10 DEF WriteReferrer, AfterPut, Goto
  <2>2. pc[c] = "based" /\ Pending(c) /\ Subject(c) \in Digests
    BY <1>1, <1>10, AfterPutEffect, OrdinalType DEF WriteReferrer, TypeInv, Progress, InWork
  <2>3. \/ statusBar[c] = "running" /\ statusBar' = [statusBar EXCEPT ![c] = "running"]
        \/ statusBar[c] = "running" /\ statusBar' = [statusBar EXCEPT ![c] = "failed"]
    BY <1>2, <1>5, <2>1, <2>2 DEF PCs, Ended
  <2>4. Attached(c) = {NewSignature(c)}
    BY DEF RefInv, Attached, Duplicates
  <2>5. ClaimOf(NewSignature(c)) = owedBar[c][Ordinal(c)] /\ Ordinal(c) \in 1 .. Len(owedBar[c])
    BY <1>1, <2>2, OwedType, OrdinalType DEF Pending, Subject, ClaimOf, NewSignature
  <2>6. madeBar' = madeBar \cup {owedBar[c][Ordinal(c)]}
    <3>1. UNION {UNION referrers'[d] : d \in Digests} =
            (UNION {UNION referrers[d] : d \in Digests}) \cup {NewSignature(c)}
      <4>1. \A d \in Digests : referrers'[d] =
              IF d = Subject(c) THEN referrers[d] \cup {{NewSignature(c)}} ELSE referrers[d]
        BY <1>1, <1>10, <2>2, <2>4 DEF WriteReferrer, TypeOK
      <4>2. \A d \in Digests : UNION referrers'[d] =
              IF d = Subject(c) THEN (UNION referrers[d]) \cup {NewSignature(c)} ELSE UNION referrers[d]
        BY <4>1
      <4> DEFINE old(d) == UNION referrers[d]
                 new(d) == UNION referrers'[d]
      <4>3. \A d \in Digests : new(d) =
              IF d = Subject(c) THEN old(d) \cup {NewSignature(c)} ELSE old(d)
        BY <4>2
      <4> HIDE DEF old, new
      <4>4. UNION {new(d) : d \in Digests} = (UNION {old(d) : d \in Digests}) \cup {NewSignature(c)}
        BY <2>2, <4>3
      <4>5. QED  BY <4>4 DEF old, new
    <3> DEFINE Before == UNION {UNION referrers[d] : d \in Digests}
               After  == UNION {UNION referrers'[d] : d \in Digests}
    <3>2. madeBar = {ClaimOf(s) : s \in Before} /\ madeBar' = {ClaimOf(s) : s \in After}
      BY DEF madeBar, ClaimOf
    <3>3. After = Before \cup {NewSignature(c)}
      BY <3>1
    <3> HIDE DEF Before, After
    <3>4. QED  BY <2>5, <3>2, <3>3
  <2>7. \A j \in 1 .. Ordinal(c) - 1 : owedBar[c][j] \in madeBar
    <3> SUFFICES ASSUME NEW j \in 1 .. Ordinal(c) - 1 PROVE owedBar[c][j] \in madeBar
      OBVIOUS
    <3>1. j \in 1 .. Len(subjects[c]) /\ j < Ordinal(c)
      BY <1>1, <2>2, Lengths DEF Pending
    <3>2. subjects[c][j] \in Digests
      BY <1>1, <3>1 DEF TypeOK
    <3>3. Signed(c, subjects[c][j])
      BY <1>1, <3>1, AllReferrers DEF RefInv, SignedInv, SignedSoFar
    <3>4. QED  BY <1>1, <3>1, <3>2, <3>3, SignedIsMade, OwedType
  <2>8. owedBar' = owedBar
    BY <1>3, <1>10 DEF WriteReferrer
  <2>9. QED  BY <2>3, <2>5, <2>6, <2>7, <2>8 DEF Abstract!Make, Abstract!Goto
<1>11. ASSUME NEW c \in Calls, Return(c) PROVE Abstract!Succeed(c)
  <2>1. Goto(c, pc[c], "ok") /\ pc[c] = "walking" /\ ~Pending(c)
    BY <1>11 DEF Return, Goto
  <2>2. statusBar' = [statusBar EXCEPT ![c] = "ok"] /\ statusBar[c] = "running"
    BY <1>2, <1>5, <2>1 DEF PCs, Ended
  <2>3. Len(owedBar[c]) > 0
    BY <1>1, <2>1, OwedType DEF RefInv, Fetched
  <2>4. \A i \in 1 .. Len(owedBar[c]) : owedBar[c][i] \in madeBar
    <3> SUFFICES ASSUME NEW i \in 1 .. Len(owedBar[c]) PROVE owedBar[c][i] \in madeBar
      OBVIOUS
    <3>0. Len(subjects[c]) \in Nat /\ Len(owedBar[c]) = Len(subjects[c]) /\ Ordinal(c) \in Nat
      BY <1>1, Lengths
    <3>1. i \in 1 .. Len(subjects[c]) /\ i < Ordinal(c)
      BY <2>1, <3>0 DEF Pending
    <3>2. subjects[c][i] \in Digests /\ Signed(c, subjects[c][i])
      BY <1>1, <3>1, AllReferrers DEF RefInv, SignedInv, SignedSoFar, TypeOK
    <3>3. QED  BY <1>1, <3>1, <3>2, SignedIsMade, OwedType
  <2>5. owedBar' = owedBar /\ madeBar' = madeBar
    BY <1>3, <1>4, <1>11 DEF Return, registry
  <2>6. QED  BY <2>2, <2>3, <2>4, <2>5 DEF Abstract!Succeed, Abstract!Goto
<1>12. ASSUME NEW c \in Calls, Step(c), ~FetchEntity(c), ~WriteReferrer(c), ~Return(c)
       PROVE  Abstract!Fail(c) \/ UNCHANGED Abstract!vars
  <2>1. subjects' = subjects /\ referrers' = referrers
    BY <1>12 DEF Step, BuildSigner, Resolve, UploadToRekor, ReadSignatures, WriteSignatures,
                 LookupSignature, Fail, registry
  <2>2. ~WriteSignatures(c)
    BY <1>1, AllReferrers DEF WriteSignatures, OCI11, Legacy
  <2>3. /\ pc[c] \notin Ended \cup {"idle"}
        /\ \E to \in (PCs \ (Ended \cup {"idle"})) \cup {"failed"} : Goto(c, pc[c], to)
    BY <1>1, <1>12, <2>2
       DEF Step, BuildSigner, Resolve, UploadToRekor, ReadSignatures, LookupSignature, Fail,
           Goto, PCs, Ended
  <2>4. QED  BY <1>7, <1>8, <2>1, <2>3
<1>13. ASSUME (\E t \in Tags, d \in Digests : PushTag(t, d)) \/ UNCHANGED vars
       PROVE  UNCHANGED Abstract!vars
  <2>1. pc' = pc /\ subjects' = subjects /\ referrers' = referrers
    BY <1>13 DEF PushTag, local, vars
  <2>2. QED  BY <1>3, <1>4, <2>1 DEF statusBar, Abstract!vars
<1>14. QED
  BY <1>6, <1>9, <1>10, <1>11, <1>12, <1>13 DEF Next, Abstract!Next

(* In its default mode, executeSign (sign.go:120-221) implements the       *)
(* abstract specification: claims made in order, never unmade, all made    *)
(* when the call reports success.                                          *)
THEOREM SignImplementsAttestation == Spec => ImplementsAttestation
<1>1. Spec => []RefInv
  BY RefInvInit, RefInvNext, PTL DEF Spec
<1>2. QED
  BY <1>1, RefinementInit, RefinementNext, PTL
     DEF Spec, ImplementsAttestation, Abstract!Spec
=============================================================================
