------------------------------- MODULE SignOp -------------------------------
(***************************************************************************)
(* The sign operation (internal/cosign/sign.go): any number of executeSign *)
(* calls running in one plugin process (or in several, the code shares     *)
(* nothing between them) against one registry and one transparency log,    *)
(* while somebody else moves the tags of the repository.                   *)
(*                                                                         *)
(* One action is one exchange with a service; the local computation that   *)
(* follows an exchange is part of it.  A digest is abstracted to the       *)
(* content it names: two artifacts have the same digest iff they are       *)
(* equal.  A signature is [key, payload, sig, entry], where sig, the call  *)
(* and the ordinal of the subject in it, stands for the bytes of a         *)
(* randomised (ECDSA) signature: no two runs of SignMessage agree on it.   *)
(*                                                                         *)
(* An operator BUG_... is a plausible mistake in the definition after it;  *)
(* nothing uses it here (see README.md, "Seeded bugs").                    *)
(***************************************************************************)
EXTENDS Naturals, Sequences

CONSTANTS
    Calls,        \* executeSign invocations
    Keys,         \* key references that load (the "key" input)
    Keyless,      \* stands for "no key": an ephemeral key certified by Fulcio
    Digests,      \* manifests of the repository, images and indexes
    Tags,         \* mutable tags of the repository
    Annotations,  \* possible values of the "annotations" input
    Preorder,     \* the manifests below each manifest, itself first
    Inputs,       \* the validated inputs the host may send
    MaxAttempts   \* attempts of one registry request (parseRetry)

NoDigest == "no digest"
OCI11  == "oci-1-1"
Legacy == "legacy"

SignConfig ==
    [key : Keys \cup {Keyless}, ref : Digests \cup Tags, mode : {OCI11, Legacy},
     annotations : Annotations, recursive : BOOLEAN, tlogUpload : BOOLEAN]

(* The walk below a manifest starts at the manifest and ends.              *)
ASSUME PreorderAssumption ==
    /\ Preorder \in [Digests -> Seq(Digests)]
    /\ \A d \in Digests : Len(Preorder[d]) > 0 /\ Preorder[d][1] = d
ASSUME InputsAssumption == Inputs \subseteq SignConfig
ASSUME AttemptsAssumption == MaxAttempts \in Nat \ {0}
(* An ephemeral key belongs to one call and to nobody else.                *)
ASSUME KeysAssumption == Calls \cap Keys = {} /\ Keyless \notin Keys
ASSUME NoDigestAssumption == NoDigest \notin Digests
(* A tag and a digest reference are told apart by their syntax.            *)
ASSUME RefAssumption == Tags \cap Digests = {}

VARIABLES
    pc,         \* how far each call has come
    cfg,        \* its signConfig
    desc,       \* digest that remote.Get resolved the reference to
    subjects,   \* manifests the walk of the fetched entity visits, in order
    results,    \* one signResult per manifest already signed
    entry,      \* log index for the manifest being signed, 0 when none
    base,       \* signatures read from the signature tag before a write
    attempt,    \* failed attempts at the current write
    tags,       \* registry: the manifest each tag points to
    sigTag,     \* registry: signatures in each manifest's .sig image
    referrers,  \* registry: signature manifests that refer to each manifest
    tlog        \* Rekor: the entries logged so far, in order

local    == <<pc, cfg, desc, subjects, results, entry, base, attempt>>
registry == <<tags, sigTag, referrers>>
vars     == <<pc, cfg, desc, subjects, results, entry, base, attempt,
              tags, sigTag, referrers, tlog>>

Payloads   == [subject : Digests, annotations : Annotations]
Signers    == Keys \cup Calls
SigIds     == Calls \X (Nat \ {0})
Signatures == [key : Signers, payload : Payloads, sig : SigIds, entry : Nat]
Entries    == [key : Signers, payload : Payloads, sig : SigIds]
Results    == [digest : Digests, signatureDigest : SUBSET Signatures, tlogIndex : Nat]
PCs        == {"idle", "parsed", "signer", "resolved", "walking", "logged",
               "based", "written", "ok", "failed"}
Ended      == {"ok", "failed"}
-----------------------------------------------------------------------------
(* Parts of one call.                                                      *)

(* buildSigner: the key the call signs with; a keyless call makes its own. *)
Signer(c) == IF cfg[c].key = Keyless THEN c ELSE cfg[c].key

Target(ref) == IF ref \in Tags THEN tags[ref] ELSE ref

(* walk.SignedEntity, cut short by ErrSkipChildren unless recursive.       *)
Walk(c, d) == IF cfg[c].recursive THEN Preorder[d] ELSE <<d>>

Ordinal(c) == Len(results[c]) + 1
Pending(c) == Ordinal(c) <= Len(subjects[c])
BUG_SubjectChildrenFirst(c) == subjects[c][Len(subjects[c]) + 1 - Ordinal(c)]
Subject(c) == subjects[c][Ordinal(c)]

(* The payload names the subject and the annotations, not the key.         *)
PayloadFor(c, d) == [subject |-> d, annotations |-> cfg[c].annotations]
SigId(c)         == <<c, Ordinal(c)>>
NewSignature(c) ==
    [key |-> Signer(c), payload |-> PayloadFor(c, Subject(c)),
     sig |-> SigId(c), entry |-> entry[c]]

BUG_DuplicatesUnseen(sigs, s)   == {}
BUG_DuplicatesAnyKey(sigs, s) ==
    {t \in sigs : t.payload = s.payload /\ (s.entry # 0 => t.entry = s.entry)}

(* cosign's dupe detector: a signature of the same payload that the same   *)
(* key verifies and that carries every annotation of the new one; a new    *)
(* log bundle is never found on an older signature.                        *)
Duplicates(sigs, s) ==
    {t \in sigs : /\ t.key = s.key
                  /\ t.payload = s.payload
                  /\ s.entry # 0 => t.entry = s.entry}

(* AttachSignatureToEntity: the signatures of the entity to be written.    *)
Attached(c) ==
    IF Duplicates(base[c], NewSignature(c)) # {} THEN base[c]
    ELSE base[c] \cup {NewSignature(c)}

BUG_ContainsAnything(m, p) == m # {}

(* containsLayer: an image or a referrer is recognised by the payload.     *)
ContainsPayload(m, p) == \E s \in m : s.payload = p
-----------------------------------------------------------------------------
Init ==
    /\ pc = [c \in Calls |-> "idle"]
    /\ cfg \in [Calls -> Inputs]
    /\ desc = [c \in Calls |-> NoDigest]
    /\ subjects = [c \in Calls |-> <<>>]
    /\ results = [c \in Calls |-> <<>>]
    /\ entry = [c \in Calls |-> 0]
    /\ base = [c \in Calls |-> {}]
    /\ attempt = [c \in Calls |-> 0]
    /\ tags \in [Tags -> Digests]
    /\ sigTag = [d \in Digests |-> {}]
    /\ referrers = [d \in Digests |-> {}]
    /\ tlog = <<>>

Goto(c, from, to) == pc[c] = from /\ pc' = [pc EXCEPT ![c] = to]

(* The host calls sign with an input that parseSignConfig, parseRetry and  *)
(* parseReference accept.                                                  *)
ExecuteSign(c) ==
    /\ Goto(c, "idle", "parsed")
    /\ UNCHANGED <<cfg, desc, subjects, results, entry, base, attempt, registry, tlog>>

(* buildSigner succeeds: a key is loaded, or Fulcio certifies a new one.   *)
BuildSigner(c) ==
    /\ Goto(c, "parsed", "signer")
    /\ UNCHANGED <<cfg, desc, subjects, results, entry, base, attempt, registry, tlog>>

(* remote.Get(ref): resolves a tag to the digest that will be reported.    *)
Resolve(c) ==
    /\ Goto(c, "signer", "resolved")
    /\ desc' = [desc EXCEPT ![c] = Target(cfg[c].ref)]
    /\ UNCHANGED <<cfg, subjects, results, entry, base, attempt, registry, tlog>>

(* ociremote.SignedEntity(ref): a second request for the same reference;   *)
(* then the Rekor client, and the walk of the entity that came back.       *)
FetchEntity(c) ==
    /\ Goto(c, "resolved", "walking")
    /\ subjects' = [subjects EXCEPT ![c] = Walk(c, Target(cfg[c].ref))]
    /\ UNCHANGED <<cfg, desc, results, entry, base, attempt, registry, tlog>>

BUG_UploadAgainWhenLost(c) ==
    /\ Pending(c) /\ cfg[c].tlogUpload /\ Len(tlog) < 4
    /\ Goto(c, "walking", "logged") \/ Goto(c, "walking", "walking")
    /\ tlog' = Append(tlog, [key |-> Signer(c), sig |-> SigId(c),
                             payload |-> PayloadFor(c, Subject(c))])
    /\ entry' = [entry EXCEPT ![c] = Len(tlog')]
    /\ UNCHANGED <<cfg, desc, subjects, results, base, attempt, registry>>

BUG_UploadIndexBefore(c) ==
    /\ Pending(c) /\ cfg[c].tlogUpload
    /\ Goto(c, "walking", "logged")
    /\ tlog' = Append(tlog, [key |-> Signer(c), sig |-> SigId(c),
                             payload |-> PayloadFor(c, Subject(c))])
    /\ entry' = [entry EXCEPT ![c] = Len(tlog)]
    /\ UNCHANGED <<cfg, desc, subjects, results, base, attempt, registry>>

(* signOne, with a Rekor client: sign the payload and log the signature.   *)
(* An answer that is lost fails the call and leaves the entry in the log.  *)
UploadToRekor(c) ==
    /\ Pending(c) /\ cfg[c].tlogUpload
    /\ Goto(c, "walking", "logged") \/ Goto(c, "walking", "failed")
    /\ tlog' = Append(tlog, [key |-> Signer(c), sig |-> SigId(c),
                             payload |-> PayloadFor(c, Subject(c))])
    /\ entry' = [entry EXCEPT ![c] = Len(tlog')]
    /\ UNCHANGED <<cfg, desc, subjects, results, base, attempt, registry>>

BUG_ReadWithoutUpload(c) ==
    /\ Pending(c)
    /\ Goto(c, "logged", "based") \/ Goto(c, "walking", "based")
    /\ base' = [base EXCEPT ![c] = sigTag[Subject(c)]]
    /\ attempt' = [attempt EXCEPT ![c] = 0]
    /\ UNCHANGED <<cfg, desc, subjects, results, entry, registry, tlog>>

BUG_ReadDigestOnlyStub(c) ==
    /\ \/ Goto(c, "logged", "based")
       \/ Pending(c) /\ ~cfg[c].tlogUpload /\ Goto(c, "walking", "based")
    /\ base' = [base EXCEPT ![c] = {}]
    /\ attempt' = [attempt EXCEPT ![c] = 0]
    /\ UNCHANGED <<cfg, desc, subjects, results, entry, registry, tlog>>

(* signOne: sign the payload if that is not done yet and, as the first     *)
(* part of either write, fetch the entity's signatures from its .sig tag.  *)
ReadSignatures(c) ==
    /\ \/ Goto(c, "logged", "based")
       \/ Pending(c) /\ ~cfg[c].tlogUpload /\ Goto(c, "walking", "based")
    /\ base' = [base EXCEPT ![c] = sigTag[Subject(c)]]
    /\ attempt' = [attempt EXCEPT ![c] = 0]
    /\ UNCHANGED <<cfg, desc, subjects, results, entry, registry, tlog>>

BUG_AfterPutOneTooMany(c) ==
    \/ Goto(c, "based", "written") /\ UNCHANGED attempt
    \/ Goto(c, "based", "failed") /\ UNCHANGED attempt
    \/ /\ Goto(c, "based", "based")
       /\ attempt[c] < MaxAttempts
       /\ attempt' = [attempt EXCEPT ![c] = @ + 1]

(* What a call learns of a PUT that reached the registry: the answer, or   *)
(* an error, in which case the client sends the same content again until   *)
(* the attempts are used up.                                               *)
AfterPut(c) ==
    \/ Goto(c, "based", "written") /\ UNCHANGED attempt
    \/ Goto(c, "based", "failed") /\ UNCHANGED attempt
    \/ /\ Goto(c, "based", "based")
       /\ attempt[c] + 1 < MaxAttempts
       /\ attempt' = [attempt EXCEPT ![c] = @ + 1]

(* WriteSignatures: replaces the .sig image by the one that was read plus  *)
(* the new signature.                                                      *)
WriteSignatures(c) ==
    /\ cfg[c].mode = Legacy
    /\ AfterPut(c)
    /\ sigTag' = [sigTag EXCEPT ![Subject(c)] = Attached(c)]
    /\ UNCHANGED <<cfg, desc, subjects, results, entry, base, tags, referrers, tlog>>

BUG_WriteReferrerReplaces(c) ==
    /\ cfg[c].mode = OCI11
    /\ AfterPut(c)
    /\ referrers' = [referrers EXCEPT ![Subject(c)] = {Attached(c)}]
    /\ UNCHANGED <<cfg, desc, subjects, results, entry, base, tags, sigTag, tlog>>

(* WriteSignaturesExperimentalOCI: puts a manifest whose subject is the    *)
(* signed manifest; it is stored under its own digest.                     *)
WriteReferrer(c) ==
    /\ cfg[c].mode = OCI11
    /\ AfterPut(c)
    /\ referrers' = [referrers EXCEPT ![Subject(c)] = @ \cup {Attached(c)}]
    /\ UNCHANGED <<cfg, desc, subjects, results, entry, base, tags, sigTag, tlog>>

(* The signatures image the lookups may answer with.  The referrers lookup *)
(* takes the first manifest of the listing that carries the payload,       *)
(* skipping those it cannot fetch; the registry orders the listing.        *)
Candidates(c) ==
    {m \in IF cfg[c].mode = Legacy THEN {sigTag[Subject(c)]} ELSE referrers[Subject(c)] :
        ContainsPayload(m, PayloadFor(c, Subject(c)))}

(* lookupReferrerSignatureDigest, lookupLegacySignatureDigest: reads back  *)
(* the artifact's digest, which completes signOne.                         *)
LookupSignature(c) ==
    /\ Goto(c, "written", "walking")
    /\ \E m \in Candidates(c) :
         results' = [results EXCEPT ![c] =
             Append(@, [digest |-> Subject(c), signatureDigest |-> m,
                        tlogIndex |-> entry[c]])]
    /\ entry' = [entry EXCEPT ![c] = 0]
    /\ UNCHANGED <<cfg, desc, subjects, base, attempt, registry, tlog>>

(* The walk is over: the call returns its output.                          *)
Return(c) ==
    /\ ~Pending(c)
    /\ Goto(c, "walking", "ok")
    /\ UNCHANGED <<cfg, desc, subjects, results, entry, base, attempt, registry, tlog>>

BUG_FailNeverAfterWrite(c) ==
    /\ pc[c] \notin Ended \cup {"idle", "written"}
    /\ pc[c] = "walking" => Pending(c)
    /\ pc' = [pc EXCEPT ![c] = "failed"]
    /\ UNCHANGED <<cfg, desc, subjects, results, entry, base, attempt, registry, tlog>>

(* Any exchange before that may fail without effect, be it a refusal, a    *)
(* timeout or a cancelled context; the call then returns only the error.   *)
Fail(c) ==
    /\ pc[c] \notin Ended \cup {"idle"}
    /\ pc[c] = "walking" => Pending(c)
    /\ pc' = [pc EXCEPT ![c] = "failed"]
    /\ UNCHANGED <<cfg, desc, subjects, results, entry, base, attempt, registry, tlog>>

(* Somebody pushes another image under a tag.                              *)
PushTag(t, d) ==
    /\ tags' = [tags EXCEPT ![t] = d]
    /\ UNCHANGED <<local, sigTag, referrers, tlog>>

Step(c) ==
    \/ BuildSigner(c) \/ Resolve(c) \/ FetchEntity(c)
    \/ UploadToRekor(c) \/ ReadSignatures(c)
    \/ WriteSignatures(c) \/ WriteReferrer(c)
    \/ LookupSignature(c) \/ Return(c) \/ Fail(c)

Next ==
    \/ \E c \in Calls : ExecuteSign(c) \/ Step(c)
    \/ \E t \in Tags, d \in Digests : PushTag(t, d)

Spec == Init /\ [][Next]_vars

(* Every exchange of a started call comes to an end: the transport and the *)
(* host's context bound it.  Nothing makes the host call or anyone push.   *)
FairSpec == Spec /\ \A c \in Calls : WF_vars(Step(c))
=============================================================================
