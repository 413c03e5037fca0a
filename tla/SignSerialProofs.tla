-------------------------- MODULE SignSerialProofs --------------------------
(***************************************************************************)
(* Theorems about a host that runs one sign operation at a time: what the  *)
(* legacy mode, which replaces an image it read earlier, then keeps.       *)
(***************************************************************************)
EXTENDS SignProofs

(* Between reading the .sig image and replacing it, nobody else writes, so *)
(* whatever is in the image is in what the call puts there.                *)
SerialInv ==
    /\ TypeInv
    /\ OneAtATime
    /\ \A c \in Calls : pc[c] = "based" => sigTag[Subject(c)] \subseteq Attached(c)

(* While a call is under way, a step is its own, or touches no call.       *)
LEMMA OthersWait ==
    ASSUME SerialInv, OneAtATime', [Next]_vars, NEW c \in Calls, Active(c), Active(c)'
    PROVE  \/ Step(c)
           \/ \E t \in Tags, d \in Digests : PushTag(t, d)
           \/ UNCHANGED vars
<1>1. ASSUME NEW e \in Calls, Step(e) PROVE e = c
  <2>1. Active(e)
    BY <1>1, AfterPutEffect
       DEF Step, BuildSigner, Resolve, FetchEntity, UploadToRekor, ReadSignatures,
           WriteSignatures, WriteReferrer, LookupSignature, Return, Fail, Goto, Active,
           Ended, SerialInv, TypeInv
  <2>2. QED  BY <2>1 DEF SerialInv, OneAtATime
<1>2. ASSUME NEW e \in Calls, ExecuteSign(e) PROVE FALSE
  <2>1. pc[e] = "idle" /\ pc'[e] = "parsed"
    BY <1>2 DEF ExecuteSign, Goto, SerialInv, TypeInv, TypeOK
  <2>2. Active(e)' /\ ~Active(e)
    BY <2>1 DEF Active, Ended
  <2>3. QED  BY <2>2 DEF OneAtATime
<1>3. QED  BY <1>1, <1>2 DEF Next

LEMMA TagGrows ==
    ASSUME SerialInv, [Next]_vars, NEW d \in Digests
    PROVE  sigTag[d] \subseteq sigTag'[d]
<1>1. ASSUME NEW c \in Calls, WriteSignatures(c) PROVE sigTag[d] \subseteq sigTag'[d]
  <2>1. pc[c] = "based" /\ TypeOK
    BY <1>1, AfterPutEffect DEF WriteSignatures, SerialInv, TypeInv
  <2>2. QED  BY <1>1, <2>1 DEF SerialInv, WriteSignatures, TypeOK
<1>2. CASE ~ \E c \in Calls : WriteSignatures(c)
  BY <1>2
     DEF Next, Step, ExecuteSign, BuildSigner, Resolve, FetchEntity, UploadToRekor,
         ReadSignatures, WriteReferrer, LookupSignature, Return, Fail, PushTag,
         registry, vars
<1>3. QED  BY <1>1, <1>2

LEMMA SerialInvNext == SerialInv /\ [Next /\ OneAtATime']_vars => SerialInv'
<1> SUFFICES ASSUME SerialInv, [Next /\ OneAtATime']_vars PROVE SerialInv'
  OBVIOUS
<1>1. /\ [Next]_vars /\ TypeInv /\ TypeInv' /\ TypeOK /\ TypeOK' /\ cfg' = cfg
  BY TypeInvNext, ReferrersGrow DEF SerialInv, TypeInv
<1>2. OneAtATime'
  BY DEF SerialInv, OneAtATime, Active, vars
<1> SUFFICES ASSUME NEW c \in Calls, pc'[c] = "based"
             PROVE  (sigTag[Subject(c)] \subseteq Attached(c))'
  BY <1>1, <1>2 DEF SerialInv
<1> DEFINE Same == /\ pc[c] = "based" /\ base'[c] = base[c] /\ entry'[c] = entry[c]
                   /\ subjects'[c] = subjects[c] /\ results'[c] = results[c]
<1>3. ASSUME subjects'[c] = subjects[c], results'[c] = results[c], base'[c] = base[c],
             entry'[c] = entry[c]
      PROVE  Subject(c)' = Subject(c) /\ Attached(c)' = Attached(c)
  BY <1>1, <1>3
     DEF Subject, Ordinal, Attached, Duplicates, NewSignature, Signer, PayloadFor, SigId
<1>4. CASE ReadSignatures(c)
  <2>1. /\ Pending(c) /\ Subject(c) \in Digests
    BY <1>1, <1>4, OrdinalType DEF ReadSignatures, Goto, TypeInv, Progress, InWork
  <2>2. base'[c] = sigTag[Subject(c)] /\ sigTag' = sigTag /\ Subject(c)' = Subject(c)
    BY <1>1, <1>4 DEF ReadSignatures, registry, TypeOK, Subject, Ordinal
  <2>3. (base[c] \subseteq Attached(c))'
    BY DEF Attached
  <2>4. QED  BY <2>2, <2>3
<1>5. CASE Same /\ sigTag' = sigTag
  BY <1>3, <1>5 DEF SerialInv
<1>6. CASE WriteSignatures(c)
  <2>1. pc[c] = "based" /\ Pending(c) /\ Subject(c) \in Digests
    BY <1>1, <1>6, AfterPutEffect, OrdinalType DEF WriteSignatures, TypeInv, Progress, InWork
  <2>2. sigTag'[Subject(c)] = Attached(c) /\ Same
    BY <1>1, <1>6, <2>1 DEF WriteSignatures, TypeOK
  <2>3. QED  BY <1>3, <2>2
<1>7. CASE ~ReadSignatures(c) /\ ~WriteSignatures(c)
  <2>1. ASSUME Step(c) PROVE Same /\ sigTag' = sigTag
    <3>1. WriteReferrer(c)
      BY <1>1, <1>7, <2>1
         DEF Step, BuildSigner, Resolve, FetchEntity, UploadToRekor, LookupSignature,
             Return, Fail, Goto, TypeOK
    <3>2. QED  BY <1>1, <3>1, AfterPutEffect DEF WriteReferrer
  <2>2. ASSUME (\E t \in Tags, d \in Digests : PushTag(t, d)) \/ UNCHANGED vars
        PROVE  Same /\ sigTag' = sigTag
    BY <2>2 DEF PushTag, local, vars
  <2>3. Active(c)'
    BY DEF Active, Ended
  <2>4. CASE Active(c)
    BY <1>1, <1>2, <1>5, <2>1, <2>2, <2>3, <2>4, OthersWait
  <2>5. CASE ~Active(c)
    <3>1. pc[c] \in Ended \cup {"idle"}
      BY <2>5 DEF Active
    <3>2. ASSUME NEW e \in Calls, e # c, ExecuteSign(e) \/ Step(e) PROVE pc'[c] = pc[c]
      BY <1>1, <3>2, OthersStay
    <3>3. ~Step(c)
      BY <1>1, <1>7, <3>1, AfterPutEffect
         DEF Step, BuildSigner, Resolve, FetchEntity, UploadToRekor, WriteReferrer,
             LookupSignature, Return, Fail, Goto, Ended
    <3>4. ~ExecuteSign(c)
      BY <1>1 DEF ExecuteSign, Goto, TypeOK
    <3>5. pc'[c] = pc[c]
      BY <1>1, <2>2, <3>2, <3>3, <3>4 DEF Next, PushTag, local, vars
    <3>6. QED  BY <3>1, <3>5 DEF Ended
  <2>6. QED  BY <2>4, <2>5
<1>8. QED  BY <1>4, <1>6, <1>7

LEMMA SerialInvInit == Init => SerialInv
<1> SUFFICES ASSUME Init PROVE SerialInv
  OBVIOUS
<1>1. \A c \in Calls : pc[c] = "idle"
  BY DEF Init
<1>2. QED  BY <1>1, TypeInvInit DEF SerialInv, OneAtATime, Active

(* Of calls that do not overlap, none takes a signature out of a .sig      *)
(* image (sign.go:281).                                                    *)
THEOREM LegacyTagAlwaysGrows == SerialSpec => LegacyTagOnlyGrows
<1>1. SerialInv /\ [Next /\ OneAtATime']_vars
      => [\A d \in Digests : sigTag[d] \subseteq sigTag'[d]]_vars
  BY TagGrows
<1>2. QED  BY <1>1, SerialInvInit, SerialInvNext, PTL DEF SerialSpec, LegacyTagOnlyGrows

-----------------------------------------------------------------------------
(* So a legacy call stays signed, and what it read back is its own.        *)
ReadBack(c) ==
    \A i \in 1 .. Len(results[c]) :
        \E s \in results[c][i].signatureDigest :
            s.key = Signer(c) /\ s.payload = PayloadFor(c, results[c][i].digest)
LegacySoFar(c) ==
    cfg[c].mode = Legacy =>
        /\ \A i \in 1 .. Len(subjects[c]) :
             i < Ordinal(c) => Signed(c, subjects[c][i])
        /\ pc[c] = "written" => Signed(c, Subject(c))
        /\ ReadBack(c)
LegacyInv == SerialInv /\ \A c \in Calls : LegacySoFar(c)

LEMMA LegacySignedStays ==
    ASSUME SerialInv, [Next]_vars, NEW c \in Calls, cfg[c].mode = Legacy,
           NEW d \in Digests, Signed(c, d)
    PROVE  Signed(c, d)'
<1>1. cfg' = cfg /\ sigTag[d] \subseteq sigTag'[d]
  BY TagGrows, ReferrersGrow DEF SerialInv
<1>2. QED  BY <1>1 DEF Signed, Stored, Signer, PayloadFor

LEMMA LegacyInvNext == LegacyInv /\ [Next /\ OneAtATime']_vars => LegacyInv'
<1> SUFFICES ASSUME LegacyInv, [Next /\ OneAtATime']_vars PROVE LegacyInv'
  OBVIOUS
<1>1. /\ SerialInv /\ SerialInv' /\ [Next]_vars /\ TypeInv /\ TypeInv' /\ TypeOK /\ TypeOK'
      /\ cfg' = cfg
  BY SerialInvNext, ReferrersGrow DEF LegacyInv, SerialInv, TypeInv
<1> SUFFICES ASSUME NEW c \in Calls, cfg[c].mode = Legacy PROVE LegacySoFar(c)'
  BY <1>1 DEF LegacyInv, LegacySoFar
<1>2. LegacySoFar(c) /\ Ordinal(c) \in Nat \ {0}
  BY <1>1, OrdinalType DEF LegacyInv
<1>3. ASSUME NEW i \in 1 .. Len(subjects[c]), i < Ordinal(c),
             subjects'[c] = subjects[c]
      PROVE  Signed(c, subjects[c][i])'
  <2>1. subjects[c][i] \in Digests
    BY <1>1 DEF TypeOK
  <2>2. QED  BY <1>1, <1>2, <1>3, <2>1, LegacySignedStays DEF LegacySoFar
<1> DEFINE Still == subjects'[c] = subjects[c] /\ results'[c] = results[c]
<1>4. ASSUME Still PROVE /\ Ordinal(c)' = Ordinal(c) /\ Subject(c)' = Subject(c)
                         /\ Signer(c)' = Signer(c)
                         /\ \A d \in Digests : PayloadFor(c, d)' = PayloadFor(c, d)
  BY <1>1, <1>4 DEF Ordinal, Subject, Signer, PayloadFor
<1>5. CASE Still /\ (pc'[c] = "written" => pc[c] = "written")
  <2>1. pc'[c] = "written" => Signed(c, Subject(c))'
    <3> SUFFICES ASSUME pc'[c] = "written" PROVE Signed(c, Subject(c))'
      OBVIOUS
    <3>1. Signed(c, Subject(c)) /\ Subject(c) \in Digests
      BY <1>1, <1>2, <1>5, OrdinalType DEF LegacySoFar, TypeInv, Progress, InWork
    <3>2. PICK d \in Digests : d = Subject(c)
      BY <3>1
    <3>3. Signed(c, d)'
      BY <1>1, <3>1, <3>2, LegacySignedStays
    <3>4. Subject(c)' = d
      BY <1>4, <1>5, <3>2
    <3>5. QED  BY <3>3, <3>4 DEF Signed, PayloadFor
  <2>3. \A i \in 1 .. Len(subjects[c]) : i < Ordinal(c) => Signed(c, subjects[c][i])'
    BY <1>3, <1>5
  <2>4. ReadBack(c)'
    BY <1>1, <1>2, <1>5 DEF LegacySoFar, ReadBack, PayloadFor, Signer
  <2>5. QED  BY <1>4, <1>5, <2>1, <2>3, <2>4 DEF LegacySoFar, Signed
<1>6. CASE FetchEntity(c)
  <2>1. results'[c] = <<>> /\ pc'[c] = "walking"
    BY <1>1, <1>6, GotoEffect DEF FetchEntity, TypeInv, Progress, PCs
  <2>2. Len(results'[c]) = 0 /\ Ordinal(c)' = 1
    BY <2>1 DEF Ordinal
  <2>3. QED  BY <2>1, <2>2 DEF LegacySoFar, ReadBack
<1>7. CASE WriteSignatures(c)
  <2>1. Pending(c) /\ Subject(c) \in Digests /\ Still
    BY <1>1, <1>7, AfterPutEffect, OrdinalType DEF WriteSignatures, TypeInv, Progress, InWork
  <2>2. sigTag'[Subject(c)] = Attached(c)
    BY <1>1, <1>7, <2>1 DEF WriteSignatures, TypeOK
  <2>3. PICK s \in Attached(c) :
          s.key = Signer(c) /\ s.payload = PayloadFor(c, Subject(c))
    BY AttachedIsSigned
  <2>4. Signed(c, Subject(c))'
    BY <1>1, <1>4, <2>1, <2>2, <2>3 DEF Signed, Stored, Signer, PayloadFor
  <2>6. \A i \in 1 .. Len(subjects[c]) : i < Ordinal(c) => Signed(c, subjects[c][i])'
    BY <1>3, <2>1
  <2>7. ReadBack(c)'
    BY <1>1, <1>2, <2>1 DEF LegacySoFar, ReadBack, PayloadFor, Signer
  <2>8. QED  BY <1>4, <2>1, <2>4, <2>6, <2>7 DEF LegacySoFar, Signed
<1>8. CASE LookupSignature(c)
  <2>1. /\ pc[c] = "written" /\ pc'[c] = "walking" /\ subjects' = subjects
        /\ Pending(c) /\ Subject(c) \in Digests
    BY <1>1, <1>8, GotoEffect, OrdinalType
       DEF LookupSignature, PCs, TypeInv, Progress, InWork
  <2>2. PICK m \in Candidates(c) :
          results' = [results EXCEPT ![c] =
             Append(@, [digest |-> Subject(c), signatureDigest |-> m,
                        tlogIndex |-> entry[c]])]
    BY <1>8 DEF LookupSignature
  <2> DEFINE r == [digest |-> Subject(c), signatureDigest |-> m, tlogIndex |-> entry[c]]
  <2>3. r \in Results
    BY <1>1, <2>1, CandidatesType DEF TypeOK, Results
  <2>4. results[c] \in Seq(Results) /\ results'[c] = Append(results[c], r)
    BY <1>1, <2>2 DEF TypeOK
  <2>5. /\ Len(results'[c]) = Len(results[c]) + 1
        /\ \A i \in 1 .. Len(results[c]) : results'[c][i] = results[c][i]
        /\ results'[c][Len(results[c]) + 1] = r
    BY <2>3, <2>4
  <2>6. Signed(c, Subject(c)) /\ m = sigTag[Subject(c)]
    BY <1>2, <2>1 DEF LegacySoFar, Candidates
  <2>7. \E s \in m : s.key = Signer(c) /\ s.payload = PayloadFor(c, Subject(c))
    BY <2>6 DEF Signed, Stored
  <2>8. ASSUME NEW i \in 1 .. Len(results'[c])
        PROVE  \E s \in results'[c][i].signatureDigest :
                  s.key = Signer(c) /\ s.payload = PayloadFor(c, results'[c][i].digest)
    <3>1. CASE i = Len(results[c]) + 1
      BY <2>5, <2>7, <3>1
    <3>2. CASE i # Len(results[c]) + 1
      <4>1. Len(results[c]) \in Nat
        BY <2>4
      <4>2. i \in 1 .. Len(results[c]) /\ results'[c][i] = results[c][i]
        BY <2>5, <3>2, <4>1
      <4>3. QED  BY <1>2, <4>2 DEF LegacySoFar, ReadBack
    <3>3. QED  BY <3>1, <3>2
  <2>9. ASSUME NEW i \in 1 .. Len(subjects[c]), i < Ordinal(c) + 1
        PROVE  Signed(c, subjects[c][i])'
    <3>1. subjects[c][i] \in Digests
      BY <1>1 DEF TypeOK
    <3>2. Signed(c, subjects[c][i])
      BY <1>2, <2>6, <2>9 DEF LegacySoFar, Subject
    <3>3. QED  BY <1>1, <2>1, <3>1, <3>2, LegacySignedStays DEF Signed, PayloadFor
  <2>10. Ordinal(c)' = Ordinal(c) + 1
    BY <2>5 DEF Ordinal
  <2>11. ReadBack(c)'
    BY <1>1, <2>8 DEF ReadBack, Signer, PayloadFor
  <2>12. QED  BY <2>1, <2>9, <2>10, <2>11 DEF LegacySoFar, Signed
<1>9. CASE ~(FetchEntity(c) \/ WriteSignatures(c) \/ LookupSignature(c))
  <2> DEFINE Goal == Still /\ (pc'[c] = "written" => pc[c] = "written")
  <2>1. ASSUME NEW e \in Calls, e # c, ExecuteSign(e) \/ Step(e) PROVE Goal
    BY <1>1, <2>1, OthersStay
  <2>2. ASSUME ExecuteSign(c) \/ Step(c) PROVE Goal
    BY <1>1, <1>9, <2>2
       DEF TypeOK, Step, ExecuteSign, BuildSigner, Resolve, UploadToRekor,
           ReadSignatures, WriteReferrer, Return, Fail, Goto, OCI11, Legacy
  <2>3. ASSUME (\E t \in Tags, d \in Digests : PushTag(t, d)) \/ UNCHANGED vars PROVE Goal
    BY <2>3 DEF PushTag, local, vars
  <2>4. QED  BY <1>1, <1>5, <2>1, <2>2, <2>3 DEF Next
<1>10. QED  BY <1>6, <1>7, <1>8, <1>9

LEMMA LegacyInvInit == Init => LegacyInv
<1> SUFFICES ASSUME Init PROVE LegacyInv
  OBVIOUS
<1>1. \A c \in Calls : Len(subjects[c]) = 0 /\ Len(results[c]) = 0 /\ pc[c] # "written"
  BY DEF Init
<1>2. QED  BY <1>1, SerialInvInit DEF LegacyInv, LegacySoFar, ReadBack

(* A legacy call that returned success is signed, for good, when calls do  *)
(* not overlap (sign.go:186-211, 280-281).                                 *)
THEOREM LegacySuccessIsSignedAlways == SerialSpec => []LegacySuccessIsSigned
<1>1. ASSUME LegacyInv PROVE LegacySuccessIsSigned
  <2> SUFFICES ASSUME NEW c \in Calls, pc[c] = "ok", cfg[c].mode = Legacy,
                      NEW i \in 1 .. Len(subjects[c])
               PROVE  Signed(c, subjects[c][i])
    BY DEF LegacySuccessIsSigned
  <2>1. i < Ordinal(c)
    BY <1>1, OrdinalType DEF LegacyInv, SerialInv, TypeInv, TypeOK, Progress, Pending
  <2>2. QED  BY <1>1, <2>1 DEF LegacyInv, LegacySoFar
<1>2. QED  BY <1>1, LegacyInvInit, LegacyInvNext, PTL DEF SerialSpec

(* Where every call is legacy and none overlap, the image a result points  *)
(* to holds a signature by the call's own key (sign.go:346-347).           *)
THEOREM LegacyReadBackIsOwn ==
    ASSUME \A x \in Inputs : x.mode = Legacy
    PROVE  SerialSpec => []ReadBackIsOwn
<1>1. LegacyInv => ReadBackIsOwn
  <2> SUFFICES ASSUME LegacyInv, NEW c \in Calls PROVE cfg[c].mode = Legacy
    BY DEF LegacyInv, LegacySoFar, ReadBack, ReadBackIsOwn
  <2>1. cfg[c] \in Inputs
    BY DEF LegacyInv, SerialInv, TypeInv, TypeOK
  <2>2. QED  BY <2>1
<1>2. QED  BY <1>1, LegacyInvInit, LegacyInvNext, PTL DEF SerialSpec
=============================================================================
