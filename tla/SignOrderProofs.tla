-------------------------- MODULE SignOrderProofs --------------------------
(***************************************************************************)
(* Theorems about what the registry says of a sign call: where in the walk *)
(* its signatures are, and what its results point to.                      *)
(***************************************************************************)
EXTENDS SignProofs

-----------------------------------------------------------------------------
(* The results of a call point to referrers that carry its payload.        *)
Reported(refs, c, r) ==
    /\ r.signatureDigest \in refs[r.digest]
    /\ \E s \in r.signatureDigest : s.payload = PayloadFor(c, r.digest)
ReportInv == TypeInv /\ ReportedIsReferrer

LEMMA ReportInvNext == ReportInv /\ [Next]_vars => ReportInv'
<1> SUFFICES ASSUME ReportInv, [Next]_vars PROVE ReportInv'
  OBVIOUS
<1>1. TypeInv /\ TypeInv' /\ TypeOK /\ TypeOK' /\ cfg' = cfg
  BY TypeInvNext, ReferrersGrow DEF ReportInv, TypeInv
<1>2. ASSUME NEW c \in Calls, NEW r \in Results, Reported(referrers, c, r)
      PROVE  Reported(referrers', c, r)
  <2>1. r.digest \in Digests
    BY DEF Results
  <2>2. r.signatureDigest \in referrers'[r.digest]
    BY <1>1, <1>2, <2>1, ReferrersGrow DEF Reported
  <2>3. QED  BY <1>2, <2>2 DEF Reported
<1> SUFFICES ASSUME NEW c \in Calls, cfg[c].mode = OCI11,
                    NEW i \in 1 .. Len(results'[c])
             PROVE  Reported(referrers', c, results'[c][i])
  BY <1>1 DEF ReportInv, ReportedIsReferrer, Reported, PayloadFor
<1>3. CASE results'[c] = results[c]
  <2>1. i \in 1 .. Len(results[c]) /\ results[c][i] \in Results
    BY <1>1, <1>3 DEF TypeOK
  <2>2. Reported(referrers, c, results[c][i])
    BY <2>1 DEF ReportInv, ReportedIsReferrer, Reported
  <2>3. Reported(referrers', c, results[c][i])
    BY <1>2, <2>1, <2>2
  <2>4. QED  BY <1>3, <2>3
<1>4. CASE LookupSignature(c)
  <2>1. Pending(c) /\ Subject(c) \in Digests
    BY <1>1, <1>4, OrdinalType DEF LookupSignature, Goto, TypeInv, Progress, InWork
  <2>2. PICK m \in Candidates(c) :
          results' = [results EXCEPT ![c] =
             Append(@, [digest |-> Subject(c), signatureDigest |-> m,
                        tlogIndex |-> entry[c]])]
    BY <1>4 DEF LookupSignature
  <2> DEFINE r == [digest |-> Subject(c), signatureDigest |-> m, tlogIndex |-> entry[c]]
  <2>3. r \in Results
    BY <1>1, <2>1, CandidatesType DEF TypeOK, Results
  <2>4. m \in referrers[Subject(c)] /\ \E s \in m : s.payload = PayloadFor(c, Subject(c))
    BY <2>2 DEF Candidates, ContainsPayload, OCI11, Legacy
  <2>5. Reported(referrers, c, r)
    BY <2>4 DEF Reported
  <2>6. results'[c] = Append(results[c], r) /\ results[c] \in Seq(Results)
    BY <1>1, <2>2 DEF TypeOK
  <2>7. CASE i = Len(results[c]) + 1
    <3>1. results'[c][i] = r
      BY <2>3, <2>6, <2>7
    <3>2. Reported(referrers', c, r)
      BY <1>2, <2>3, <2>5
    <3>3. QED  BY <3>1, <3>2
  <2>8. CASE i # Len(results[c]) + 1
    <3>1. /\ i \in 1 .. Len(results[c]) /\ results[c][i] \in Results
          /\ results'[c][i] = results[c][i]
      BY <2>3, <2>6, <2>8
    <3>2. Reported(referrers, c, results[c][i])
      BY <3>1 DEF ReportInv, ReportedIsReferrer, Reported
    <3>3. Reported(referrers', c, results[c][i])
      BY <1>2, <3>1, <3>2
    <3>4. QED  BY <3>1, <3>3
  <2>9. QED  BY <2>7, <2>8
<1>5. CASE results'[c] # results[c] /\ ~LookupSignature(c)
  <2>1. ASSUME NEW e \in Calls, e # c, ExecuteSign(e) \/ Step(e) PROVE FALSE
    BY <1>1, <1>5, <2>1, OthersStay
  <2>2. ~ (ExecuteSign(c) \/ Step(c))
    BY <1>5
       DEF Step, ExecuteSign, BuildSigner, Resolve, FetchEntity, UploadToRekor,
           ReadSignatures, WriteSignatures, WriteReferrer, Return, Fail
  <2>3. ~ ((\E t \in Tags, d \in Digests : PushTag(t, d)) \/ UNCHANGED vars)
    BY <1>5 DEF PushTag, local, vars
  <2>4. QED  BY <2>1, <2>2, <2>3 DEF Next
<1>6. QED  BY <1>3, <1>4, <1>5

(* What an oci-1-1 result points to is, and stays, a referrer of the       *)
(* signed manifest with the call's payload in it (sign.go:320-344).        *)
THEOREM ReportedIsAlwaysReferrer == Spec => []ReportedIsReferrer
<1>1. Init => ReportInv
  <2> SUFFICES ASSUME Init PROVE ReportInv
    OBVIOUS
  <2>1. \A c \in Calls : Len(results[c]) = 0
    BY DEF Init
  <2>2. QED  BY <2>1, TypeInvInit DEF ReportInv, ReportedIsReferrer
<1>2. ReportInv => ReportedIsReferrer
  BY DEF ReportInv
<1>3. QED  BY <1>1, <1>2, ReportInvNext, PTL DEF Spec

-----------------------------------------------------------------------------
(* A signature is where the walk of its call was when it was made, and     *)
(* that walk has not come back since: the ordinal in the signature is that *)
(* of a manifest up to the current one, and the signature is stored there. *)
(* A write copies what was read, so what a call has read is covered, too.  *)
BeforeWalk == {"idle", "parsed", "signer", "resolved"}
Placed(s, d) ==
    LET c == s.sig[1]  n == s.sig[2] IN
    /\ n <= Ordinal(c) /\ n <= Len(subjects[c])
    /\ subjects[c][n] = d
PlacedInv ==
    /\ TypeInv
    /\ \A c \in Calls : pc[c] \in BeforeWalk => subjects[c] = <<>>
    /\ \A d \in Digests : \A s \in sigTag[d] : Placed(s, d)
    /\ \A d \in Digests : \A m \in referrers[d] : \A s \in m : Placed(s, d)
    /\ \A c \in Calls : pc[c] = "based" => \A s \in base[c] : Placed(s, Subject(c))

(* A walk is planned once, and only goes forward.                          *)
LEMMA WalkStays ==
    ASSUME PlacedInv, [Next]_vars, NEW c \in Calls
    PROVE  /\ subjects[c] = <<>> \/ subjects'[c] = subjects[c]
           /\ Len(results[c]) <= Len(results'[c])
           /\ pc'[c] \in BeforeWalk => subjects'[c] = <<>>
<1> DEFINE Goal == /\ subjects[c] = <<>> \/ subjects'[c] = subjects[c]
                   /\ Len(results[c]) <= Len(results'[c])
                   /\ pc'[c] \in BeforeWalk => subjects'[c] = <<>>
<1>1. TypeInv /\ TypeOK /\ Len(results[c]) \in Nat
      /\ (pc[c] \in BeforeWalk => subjects[c] = <<>>)
  BY DEF PlacedInv, TypeInv, TypeOK
<1>2. ASSUME NEW e \in Calls, e # c, ExecuteSign(e) \/ Step(e) PROVE Goal
  BY <1>1, <1>2, OthersStay
<1>3. CASE FetchEntity(c)
  BY <1>1, <1>3 DEF FetchEntity, Goto, TypeOK, BeforeWalk
<1>4. CASE LookupSignature(c)
  <2>1. PICK r : results' = [results EXCEPT ![c] = Append(@, r)]
    BY <1>4 DEF LookupSignature
  <2>2. Len(results'[c]) = Len(results[c]) + 1
    BY <1>1, <2>1 DEF TypeOK
  <2>3. pc'[c] = "walking" /\ subjects' = subjects
    BY <1>1, <1>4 DEF LookupSignature, Goto, TypeOK
  <2>4. QED  BY <1>1, <2>2, <2>3 DEF BeforeWalk
<1>5. CASE WriteSignatures(c) \/ WriteReferrer(c)
  <2>1. subjects' = subjects /\ results' = results
    BY <1>5 DEF WriteSignatures, WriteReferrer
  <2>2. pc'[c] \in {"based", "written", "failed"}
    BY <1>1, <1>5, AfterPutEffect DEF WriteSignatures, WriteReferrer
  <2>3. QED  BY <1>1, <2>1, <2>2 DEF BeforeWalk
<1>6. CASE ExecuteSign(c) \/ BuildSigner(c) \/ Resolve(c) \/ UploadToRekor(c)
           \/ ReadSignatures(c) \/ Return(c) \/ Fail(c)
  <2>1. subjects' = subjects /\ results' = results
    BY <1>6 DEF ExecuteSign, BuildSigner, Resolve, UploadToRekor, ReadSignatures, Return, Fail
  <2>2. pc'[c] \in BeforeWalk => pc[c] \in BeforeWalk
    BY <1>1, <1>6
       DEF ExecuteSign, BuildSigner, Resolve, UploadToRekor, ReadSignatures, Return, Fail,
           Goto, TypeOK, BeforeWalk, Ended
  <2>3. QED  BY <1>1, <2>1, <2>2
<1>7. ASSUME (\E t \in Tags, d \in Digests : PushTag(t, d)) \/ UNCHANGED vars PROVE Goal
  <2>1. pc' = pc /\ subjects' = subjects /\ results' = results
    BY <1>7 DEF PushTag, local, vars
  <2>2. QED  BY <1>1, <2>1
<1>8. QED  BY <1>2, <1>3, <1>4, <1>5, <1>6, <1>7 DEF Next, Step

LEMMA PlacedStays ==
    ASSUME PlacedInv, [Next]_vars, NEW s \in Signatures, NEW d \in Digests, Placed(s, d)
    PROVE  Placed(s, d)'
<1>1. PICK c \in Calls, n \in Nat \ {0} : s.sig[1] = c /\ s.sig[2] = n
  BY DEF Signatures, SigIds
<1>2. n <= Len(subjects[c]) /\ n <= Ordinal(c) /\ subjects[c][n] = d
  BY <1>1 DEF Placed
<1>3. subjects[c] # <<>>
  BY <1>1, <1>2
<1>4. subjects'[c] = subjects[c] /\ Len(results[c]) <= Len(results'[c])
  BY <1>1, <1>3, WalkStays
<1>5. Len(results[c]) \in Nat /\ Len(results'[c]) \in Nat
  BY <1>1, TypeInvNext DEF PlacedInv, TypeInv, TypeOK
<1>6. n <= Len(results'[c]) + 1
  BY <1>1, <1>2, <1>4, <1>5 DEF Ordinal
<1>7. QED  BY <1>1, <1>2, <1>4, <1>6 DEF Placed, Ordinal

(* What a call writes for a manifest belongs to that manifest.             *)
LEMMA AttachedPlaced ==
    ASSUME PlacedInv, NEW c \in Calls, pc[c] = "based", NEW s \in Attached(c)
    PROVE  Placed(s, Subject(c)) /\ s \in Signatures /\ Subject(c) \in Digests
<1>1. TypeOK /\ Pending(c)
  BY DEF PlacedInv, TypeInv, Progress, InWork
<1>2. s \in Signatures /\ Subject(c) \in Digests /\ Ordinal(c) \in Nat \ {0}
  BY <1>1, AttachedType, OrdinalType
<1>3. Placed(NewSignature(c), Subject(c))
  BY <1>1, <1>2 DEF Placed, NewSignature, SigId, Pending, Subject
<1>4. QED  BY <1>2, <1>3 DEF Attached, PlacedInv

LEMMA PlacedInvNext == PlacedInv /\ [Next]_vars => PlacedInv'
<1> SUFFICES ASSUME PlacedInv, [Next]_vars PROVE PlacedInv'
  OBVIOUS
<1>1. TypeInv /\ TypeInv' /\ TypeOK /\ TypeOK'
  BY TypeInvNext DEF PlacedInv, TypeInv
<1>2. ASSUME NEW d \in Digests, NEW s \in sigTag'[d] PROVE Placed(s, d)'
  <2>1. CASE s \in sigTag[d]
    BY <1>1, <2>1, PlacedStays DEF PlacedInv, TypeOK
  <2>2. CASE s \notin sigTag[d]
    <3>1. PICK c \in Calls : WriteSignatures(c)
      BY <1>2, <2>2
         DEF Next, Step, ExecuteSign, BuildSigner, Resolve, FetchEntity, UploadToRekor,
             ReadSignatures, WriteReferrer, LookupSignature, Return, Fail, PushTag,
             registry, vars
    <3>2. s \in Attached(c) /\ pc[c] = "based" /\ d = Subject(c)
      BY <1>1, <1>2, <2>2, <3>1, AfterPutEffect DEF WriteSignatures, TypeOK
    <3>3. Placed(s, d) /\ s \in Signatures
      BY <3>2, AttachedPlaced
    <3>4. QED  BY <3>3, PlacedStays
  <2>3. QED  BY <2>1, <2>2
<1>3. ASSUME NEW d \in Digests, NEW m \in referrers'[d], NEW s \in m PROVE Placed(s, d)'
  <2>1. CASE m \in referrers[d]
    BY <1>1, <1>3, <2>1, PlacedStays DEF PlacedInv, TypeOK
  <2>2. CASE m \notin referrers[d]
    <3>1. PICK c \in Calls : WriteReferrer(c)
      BY <1>3, <2>2
         DEF Next, Step, ExecuteSign, BuildSigner, Resolve, FetchEntity, UploadToRekor,
             ReadSignatures, WriteSignatures, LookupSignature, Return, Fail, PushTag,
             registry, vars
    <3>2. m = Attached(c) /\ pc[c] = "based" /\ d = Subject(c)
      BY <1>1, <1>3, <2>2, <3>1, AfterPutEffect DEF WriteReferrer, TypeOK
    <3>3. Placed(s, d) /\ s \in Signatures
      BY <1>3, <3>2, AttachedPlaced
    <3>4. QED  BY <3>3, PlacedStays
  <2>3. QED  BY <2>1, <2>2
<1>4. ASSUME NEW c \in Calls, pc'[c] = "based", NEW s \in base'[c]
      PROVE  Placed(s, Subject(c))'
  <2>1. CASE ReadSignatures(c)
    <3>1. Pending(c) /\ Subject(c) \in Digests
      BY <1>1, <2>1, OrdinalType DEF ReadSignatures, Goto, TypeInv, Progress, InWork
    <3>2. base'[c] = sigTag[Subject(c)] /\ Subject(c)' = Subject(c)
      BY <1>1, <2>1 DEF ReadSignatures, TypeOK, Subject, Ordinal
    <3>3. Placed(s, Subject(c)) /\ s \in Signatures
      BY <1>1, <1>4, <3>1, <3>2 DEF PlacedInv, TypeOK
    <3>4. QED  BY <3>1, <3>2, <3>3, PlacedStays
  <2>2. CASE pc[c] = "based" /\ base'[c] = base[c] /\ Subject(c)' = Subject(c)
    <3>1. Pending(c) /\ Subject(c) \in Digests
      BY <1>1, <2>2, OrdinalType DEF TypeInv, Progress, InWork
    <3>2. Placed(s, Subject(c)) /\ s \in Signatures
      BY <1>1, <1>4, <2>2 DEF PlacedInv, TypeOK
    <3>3. QED  BY <2>2, <3>1, <3>2, PlacedStays
  <2>3. ReadSignatures(c) \/ (pc[c] = "based" /\ base'[c] = base[c] /\ Subject(c)' = Subject(c))
    <3> DEFINE Kept == pc[c] = "based" /\ base'[c] = base[c] /\ Subject(c)' = Subject(c)
    <3>1. ASSUME NEW e \in Calls, e # c, ExecuteSign(e) \/ Step(e) PROVE Kept
      <4>1. pc'[c] = pc[c] /\ subjects'[c] = subjects[c] /\ results'[c] = results[c]
        BY <1>1, <3>1, OthersStay
      <4>2. base'[c] = base[c]
        BY <1>1, <3>1
           DEF TypeOK, Step, ExecuteSign, BuildSigner, Resolve, FetchEntity, UploadToRekor,
               ReadSignatures, WriteSignatures, WriteReferrer, LookupSignature, Return, Fail
      <4>3. QED  BY <1>4, <4>1, <4>2 DEF Subject, Ordinal
    <3>2. ASSUME WriteSignatures(c) \/ WriteReferrer(c) PROVE Kept
      <4>1. pc[c] = "based"
        BY <1>1, <3>2, AfterPutEffect DEF WriteSignatures, WriteReferrer
      <4>2. QED  BY <3>2, <4>1 DEF WriteSignatures, WriteReferrer, Subject, Ordinal
    <3>3. ASSUME ExecuteSign(c) \/ BuildSigner(c) \/ Resolve(c) \/ FetchEntity(c)
                 \/ UploadToRekor(c) \/ LookupSignature(c) \/ Return(c) \/ Fail(c)
          PROVE FALSE
      BY <1>1, <1>4, <3>3
         DEF ExecuteSign, BuildSigner, Resolve, FetchEntity, UploadToRekor,
             LookupSignature, Return, Fail, Goto, TypeOK
    <3>4. ASSUME (\E t \in Tags, d \in Digests : PushTag(t, d)) \/ UNCHANGED vars PROVE Kept
      BY <1>4, <3>4 DEF PushTag, local, vars, Subject, Ordinal
    <3>5. QED  BY <3>1, <3>2, <3>3, <3>4 DEF Next, Step
  <2>4. QED  BY <2>1, <2>2, <2>3
<1>5. ASSUME NEW c \in Calls, pc'[c] \in BeforeWalk PROVE subjects'[c] = <<>>
  BY <1>5, WalkStays
<1>6. QED  BY <1>1, <1>2, <1>3, <1>4, <1>5 DEF PlacedInv

(* An oci-1-1 call has signed a manifest only if it has signed those       *)
(* before it in the walk, so what it leaves when it fails is a prefix      *)
(* (sign.go:174-192).                                                      *)
THEOREM AlwaysSignedInOrder == Spec => []SignedInOrder
<1>1. Init => PlacedInv
  BY TypeInvInit DEF Init, PlacedInv
<1>2. ASSUME PlacedInv, SignedInv PROVE SignedInOrder
  <2> SUFFICES ASSUME NEW c \in Calls, cfg[c].mode = OCI11,
                      NEW j \in 1 .. Len(subjects[c]),
                      NEW s \in Stored(OCI11, subjects[c][j]), s.sig[1] = c,
                      \A i \in 1 .. j - 1 : subjects[c][i] # subjects[c][j],
                      NEW i \in 1 .. j - 1
               PROVE  Signed(c, subjects[c][i])
    BY DEF SignedInOrder
  <2>1. subjects[c] \in Seq(Digests) /\ subjects[c][j] \in Digests
    BY <1>2 DEF PlacedInv, TypeInv, TypeOK
  <2>2. PICK m \in referrers[subjects[c][j]] : s \in m
    BY DEF Stored, OCI11, Legacy
  <2>3. s \in Signatures /\ Placed(s, subjects[c][j])
    BY <1>2, <2>1, <2>2 DEF PlacedInv, TypeInv, TypeOK
  <2>4. /\ s.sig[2] \in Nat \ {0} /\ s.sig[2] <= Ordinal(c)
        /\ s.sig[2] <= Len(subjects[c]) /\ subjects[c][s.sig[2]] = subjects[c][j]
    BY <2>3 DEF Placed, Signatures, SigIds
  <2>5. Ordinal(c) \in Nat \ {0}
    BY <1>2, OrdinalType DEF PlacedInv, TypeInv
  <2>6. s.sig[2] >= j
    BY <2>1, <2>4
  <2>7. i \in 1 .. Len(subjects[c]) /\ i < Ordinal(c)
    BY <2>1, <2>4, <2>5, <2>6
  <2>8. QED  BY <1>2, <2>7 DEF SignedInv, SignedSoFar
<1>3. QED  BY <1>1, <1>2, PlacedInvNext, SignedInvInit, SignedInvNext, PTL DEF Spec

-----------------------------------------------------------------------------
(* A log entry is stored before its call moves on.  The entry of the       *)
(* current manifest is the one the call holds, until the write has put it  *)
(* into a referrer, be it as a new signature or, since an older one with   *)
(* the same entry is the same signature, as one that was read.             *)
EntryStored(refs, e, i) ==
    \E m \in refs[e.payload.subject] : \E s \in m : s.sig = e.sig /\ s.entry = i
UploadedBy(c, i) ==
    LET n == tlog[i].sig[2] IN
    /\ n <= Ordinal(c)
    /\ n < Ordinal(c) => EntryStored(referrers, tlog[i], i)
    /\ n = Ordinal(c) =>
         /\ pc[c] \in InWork \cup {"failed"}
         /\ pc[c] \in InWork =>
              entry[c] = i /\ tlog[i].payload = PayloadFor(c, Subject(c))
         /\ pc[c] = "written" => EntryStored(referrers, tlog[i], i)
UploadInv ==
    /\ LogInv
    /\ \A c \in Calls, i \in 1 .. Len(tlog) :
         tlog[i].sig[1] = c /\ cfg[c].mode = OCI11 => UploadedBy(c, i)

LEMMA EntryStoredStays ==
    ASSUME TypeInv, [Next]_vars, NEW e \in Entries, NEW i \in Nat,
           EntryStored(referrers, e, i)
    PROVE  EntryStored(referrers', e, i)
<1>1. e.payload.subject \in Digests
  BY DEF Entries, Payloads
<1>2. referrers[e.payload.subject] \subseteq referrers'[e.payload.subject]
  BY <1>1, ReferrersGrow
<1>3. QED  BY <1>2 DEF EntryStored

(* The log is only appended to, by an upload.                              *)
LEMMA TlogGrows ==
    ASSUME TypeInv, [Next]_vars
    PROVE  /\ Len(tlog) <= Len(tlog')
           /\ \A i \in 1 .. Len(tlog) : tlog'[i] = tlog[i]
           /\ \A i \in 1 .. Len(tlog') : i \notin 1 .. Len(tlog) =>
                \E c \in Calls :
                    /\ UploadToRekor(c) /\ i = Len(tlog')
                    /\ tlog'[i] = [key |-> Signer(c), sig |-> SigId(c),
                                   payload |-> PayloadFor(c, Subject(c))]
<1>1. TypeOK
  BY DEF TypeInv
<1>2. ASSUME NEW c \in Calls, UploadToRekor(c)
      PROVE  /\ Len(tlog') = Len(tlog) + 1
             /\ \A i \in 1 .. Len(tlog) : tlog'[i] = tlog[i]
             /\ tlog'[Len(tlog) + 1] = [key |-> Signer(c), sig |-> SigId(c),
                                        payload |-> PayloadFor(c, Subject(c))]
  <2>1. [key |-> Signer(c), sig |-> SigId(c),
         payload |-> PayloadFor(c, Subject(c))] \in Entries
    BY <1>1, <1>2, SignerType, OrdinalType, PayloadType DEF UploadToRekor, Entries
  <2>2. QED  BY <1>1, <1>2, <2>1 DEF UploadToRekor, TypeOK
<1>3. CASE \E c \in Calls : UploadToRekor(c)
  <2>1. PICK c \in Calls : UploadToRekor(c)
    BY <1>3
  <2>2. Len(tlog) \in Nat
    BY <1>1 DEF TypeOK
  <2>3. /\ Len(tlog') = Len(tlog) + 1
        /\ \A i \in 1 .. Len(tlog) : tlog'[i] = tlog[i]
        /\ tlog'[Len(tlog) + 1] = [key |-> Signer(c), sig |-> SigId(c),
                                   payload |-> PayloadFor(c, Subject(c))]
    BY <1>2, <2>1
  <2>4. \A i \in 1 .. Len(tlog') : i \notin 1 .. Len(tlog) => i = Len(tlog) + 1
    BY <2>2, <2>3
  <2>5. QED  BY <2>1, <2>2, <2>3, <2>4
<1>4. CASE ~ \E c \in Calls : UploadToRekor(c)
  <2>1. tlog' = tlog
    BY <1>4 DEF Next, Step, ExecuteSign, BuildSigner, Resolve, FetchEntity, ReadSignatures,
                WriteSignatures, WriteReferrer, LookupSignature, Return, Fail, PushTag, vars
  <2>2. QED  BY <1>1, <2>1 DEF TypeOK
<1>5. QED  BY <1>3, <1>4

(* A referrer that is put holds the log entry the call has of the manifest.*)
LEMMA AttachedHoldsEntry ==
    ASSUME UploadInv, NEW c \in Calls, WriteReferrer(c), NEW i \in 1 .. Len(tlog),
           entry[c] = i, tlog[i].sig = SigId(c),
           tlog[i].payload = PayloadFor(c, Subject(c))
    PROVE  EntryStored(referrers', tlog[i], i)
<1>1. TypeOK /\ Pending(c) /\ Subject(c) \in Digests
  BY AfterPutEffect, OrdinalType
     DEF WriteReferrer, UploadInv, LogInv, TypeInv, Progress, InWork
<1>2. Attached(c) \in referrers'[Subject(c)]
  BY <1>1 DEF WriteReferrer, TypeOK
<1>3. \E s \in Attached(c) : s.sig = tlog[i].sig /\ s.entry = i
  <2>1. CASE Duplicates(base[c], NewSignature(c)) # {}
    <3>1. PICK t \in base[c] : t.entry = entry[c]
      BY <2>1 DEF Duplicates, NewSignature
    <3>2. Logged(t) /\ t.entry = i /\ i # 0
      BY <3>1 DEF UploadInv, LogInv
    <3>3. tlog[i] = [key |-> t.key, payload |-> t.payload, sig |-> t.sig]
      BY <3>2 DEF Logged
    <3>4. QED  BY <2>1, <3>2, <3>3 DEF Attached
  <2>2. CASE Duplicates(base[c], NewSignature(c)) = {}
    BY <2>2 DEF Attached, NewSignature
  <2>3. QED  BY <2>1, <2>2
<1>4. tlog[i].payload.subject = Subject(c)
  BY DEF PayloadFor
<1>5. QED  BY <1>2, <1>3, <1>4 DEF EntryStored

LEMMA UploadInvNext == UploadInv /\ [Next]_vars => UploadInv'
<1> SUFFICES ASSUME UploadInv, [Next]_vars PROVE UploadInv'
  OBVIOUS
<1>1. /\ LogInv /\ LogInv' /\ TypeInv /\ TypeInv' /\ TypeOK /\ TypeOK' /\ cfg' = cfg
      /\ \A c \in Calls : Ordinal(c) \in Nat \ {0}
  BY LogInvNext, ReferrersGrow, OrdinalType DEF UploadInv, LogInv, TypeInv
<1> SUFFICES ASSUME NEW c \in Calls, NEW i \in 1 .. Len(tlog'),
                    tlog'[i].sig[1] = c, cfg[c].mode = OCI11
             PROVE  UploadedBy(c, i)'
  BY <1>1 DEF UploadInv
<1>2. CASE i \notin 1 .. Len(tlog)
  <2>1. PICK e \in Calls :
          /\ UploadToRekor(e) /\ i = Len(tlog')
          /\ tlog'[i] = [key |-> Signer(e), sig |-> SigId(e),
                         payload |-> PayloadFor(e, Subject(e))]
    BY <1>1, <1>2, TlogGrows
  <2>2. e = c /\ tlog'[i].sig[2] = Ordinal(c) /\ tlog'[i].payload = PayloadFor(c, Subject(c))
    BY <2>1 DEF SigId
  <2>3. /\ results' = results /\ subjects' = subjects /\ entry'[c] = i
        /\ pc'[c] \in {"logged", "failed"}
    BY <1>1, <2>1, <2>2 DEF UploadToRekor, Goto, TypeOK
  <2>4. Ordinal(c)' = Ordinal(c) /\ PayloadFor(c, Subject(c))' = PayloadFor(c, Subject(c))
    BY <1>1, <2>3 DEF Ordinal, Subject, PayloadFor
  <2>5. QED  BY <1>1, <2>2, <2>3, <2>4 DEF UploadedBy, InWork
<1>3. CASE i \in 1 .. Len(tlog)
  <2>1. /\ tlog'[i] = tlog[i] /\ tlog[i] \in Entries /\ UploadedBy(c, i)
        /\ tlog[i].sig[1] = c /\ tlog[i].sig[2] \in Nat \ {0}
    <3>1. tlog'[i] = tlog[i]
      BY <1>1, <1>3, TlogGrows
    <3>2. tlog[i] \in Entries /\ tlog[i].sig[1] = c
      BY <1>1, <1>3, <3>1 DEF TypeOK
    <3>3. tlog[i].sig[2] \in Nat \ {0}
      BY <3>2 DEF Entries, SigIds
    <3>4. QED  BY <1>3, <3>1, <3>2, <3>3 DEF UploadInv
  <2>2. EntryStored(referrers, tlog[i], i) => EntryStored(referrers', tlog[i], i)
    BY <1>1, <1>3, <2>1, EntryStoredStays
  <2> DEFINE Still == /\ subjects'[c] = subjects[c] /\ results'[c] = results[c]
                      /\ entry'[c] = entry[c]
  <2>3. CASE /\ Still
             /\ pc[c] \in InWork \cup {"failed"} => pc'[c] \in InWork \cup {"failed"}
             /\ pc'[c] \in InWork /\ pc[c] \notin InWork =>
                  tlog[i].sig[2] # Ordinal(c)
             /\ pc'[c] = "written" => pc[c] = "written"
    <3>1. Ordinal(c)' = Ordinal(c) /\ PayloadFor(c, Subject(c))' = PayloadFor(c, Subject(c))
      BY <1>1, <2>3 DEF Ordinal, Subject, PayloadFor
    <3>2. QED  BY <1>1, <2>1, <2>2, <2>3, <3>1 DEF UploadedBy
  <2>4. CASE WriteReferrer(c)
    <3>1. /\ pc[c] = "based" /\ pc'[c] \in {"based", "written", "failed"}
          /\ entry' = entry /\ subjects' = subjects /\ results' = results
      BY <1>1, <2>4, AfterPutEffect DEF WriteReferrer
    <3>2. Ordinal(c)' = Ordinal(c) /\ PayloadFor(c, Subject(c))' = PayloadFor(c, Subject(c))
      BY <1>1, <3>1 DEF Ordinal, Subject, PayloadFor
    <3>3. ASSUME tlog[i].sig[2] = Ordinal(c) PROVE EntryStored(referrers', tlog[i], i)
      <4>1. entry[c] = i /\ tlog[i].payload = PayloadFor(c, Subject(c))
        BY <2>1, <3>1, <3>3 DEF UploadedBy, InWork
      <4>2. tlog[i].sig = SigId(c)
        BY <2>1, <3>3 DEF SigId, Entries, SigIds
      <4>3. QED  BY <1>3, <2>4, <4>1, <4>2, AttachedHoldsEntry
    <3>4. QED  BY <1>1, <2>1, <2>2, <3>1, <3>2, <3>3 DEF UploadedBy, InWork
  <2>5. CASE LookupSignature(c)
    <3>1. /\ pc[c] = "written" /\ Len(results'[c]) = Len(results[c]) + 1
      BY <1>1, <2>5 DEF LookupSignature, Goto, TypeOK
    <3>2. Ordinal(c)' = Ordinal(c) + 1
      BY <3>1 DEF Ordinal
    <3>3. EntryStored(referrers, tlog[i], i) /\ tlog[i].sig[2] <= Ordinal(c)
      BY <1>1, <2>1, <3>1 DEF UploadedBy
    <3>4. QED  BY <1>1, <2>1, <2>2, <3>2, <3>3 DEF UploadedBy
  <2>6. CASE UploadToRekor(c)
    <3>1. /\ pc[c] = "walking" /\ subjects' = subjects /\ results' = results
      BY <2>6 DEF UploadToRekor, Goto
    <3>2. Ordinal(c)' = Ordinal(c) /\ tlog[i].sig[2] < Ordinal(c)
      BY <1>1, <2>1, <3>1 DEF UploadedBy, InWork, Ordinal
    <3>3. QED  BY <1>1, <2>1, <2>2, <3>2 DEF UploadedBy
  <2>7. ASSUME NEW e \in Calls, e # c, ExecuteSign(e) \/ Step(e) PROVE UploadedBy(c, i)'
    BY <1>1, <2>3, <2>7, OthersStay
  <2>8. ASSUME ExecuteSign(c) \/ BuildSigner(c) \/ Resolve(c) \/ FetchEntity(c)
               \/ ReadSignatures(c) \/ Return(c) \/ Fail(c)
        PROVE  UploadedBy(c, i)'
    <3>1. CASE FetchEntity(c)
      <4>1. results[c] = <<>> /\ pc[c] = "resolved" /\ results' = results
        BY <1>1, <3>1 DEF FetchEntity, Goto, TypeInv, Progress
      <4>2. FALSE
        BY <1>1, <2>1, <4>1 DEF UploadedBy, InWork, Ordinal
      <4>3. QED  BY <4>2
    <3>2. CASE ~FetchEntity(c)
      <4>1. Still
        BY <2>8, <3>2 DEF ExecuteSign, BuildSigner, Resolve, ReadSignatures, Return, Fail
      <4>2. /\ pc[c] \in InWork \cup {"failed"} => pc'[c] \in InWork \cup {"failed"}
            /\ pc'[c] = "written" => pc[c] = "written"
        BY <1>1, <2>8, <3>2
           DEF ExecuteSign, BuildSigner, Resolve, ReadSignatures, Return, Fail, Goto,
               TypeOK, InWork, Ended
      <4>3. ASSUME pc'[c] \in InWork, pc[c] \notin InWork PROVE tlog[i].sig[2] # Ordinal(c)
        <5>1. pc[c] = "walking"
          BY <1>1, <2>8, <3>2, <4>3
             DEF ExecuteSign, BuildSigner, Resolve, ReadSignatures, Return, Fail, Goto,
                 TypeOK, InWork, Ended
        <5>2. QED  BY <2>1, <5>1 DEF UploadedBy, InWork
      <4>4. QED  BY <2>3, <4>1, <4>2, <4>3
    <3>3. QED  BY <3>1, <3>2
  <2>9. ~WriteSignatures(c)
    BY DEF WriteSignatures, OCI11, Legacy
  <2>10. ASSUME (\E t \in Tags, d \in Digests : PushTag(t, d)) \/ UNCHANGED vars
         PROVE  UploadedBy(c, i)'
    <3>1. Still /\ pc' = pc
      BY <2>10 DEF PushTag, local, vars
    <3>2. QED  BY <2>3, <3>1
  <2>11. QED
    BY <2>4, <2>5, <2>6, <2>7, <2>8, <2>9, <2>10 DEF Next, Step
<1>4. QED  BY <1>2, <1>3

(* A failed oci-1-1 call leaves at most one log entry without a stored     *)
(* signature, that of the manifest it failed on (sign.go:255-262, 193).    *)
THEOREM LoggedIsAlwaysStored == Spec => []LoggedIsStored
<1>1. Init => UploadInv
  <2> SUFFICES ASSUME Init PROVE UploadInv
    OBVIOUS
  <2>1. LogInv
    BY TypeInvInit DEF Init, LogInv
  <2>2. Len(tlog) = 0
    BY DEF Init
  <2>3. QED  BY <2>1, <2>2 DEF UploadInv
<1>2. ASSUME UploadInv PROVE LoggedIsStored
  <2> SUFFICES ASSUME NEW i \in 1 .. Len(tlog),
                      cfg[tlog[i].sig[1]].mode = OCI11,
                      tlog[i].sig[2] # Ordinal(tlog[i].sig[1])
               PROVE  \E s \in Stored(OCI11, tlog[i].payload.subject) :
                          s.sig = tlog[i].sig /\ s.entry = i
    BY DEF LoggedIsStored
  <2>1. TypeOK /\ tlog[i] \in Entries
    BY <1>2 DEF UploadInv, LogInv, TypeInv, TypeOK
  <2>2. PICK c \in Calls, n \in Nat \ {0} : tlog[i].sig[1] = c /\ tlog[i].sig[2] = n
    BY <2>1 DEF Entries, SigIds
  <2>3. Ordinal(c) \in Nat \ {0} /\ UploadedBy(c, i)
    BY <1>2, <2>1, <2>2, OrdinalType DEF UploadInv
  <2>4. n < Ordinal(c)
    BY <2>2, <2>3 DEF UploadedBy
  <2>5. EntryStored(referrers, tlog[i], i)
    BY <2>2, <2>3, <2>4 DEF UploadedBy
  <2>6. QED  BY <2>5 DEF EntryStored, Stored, OCI11, Legacy
<1>3. QED  BY <1>1, <1>2, UploadInvNext, PTL DEF Spec
=============================================================================
