--------------------------- MODULE SignProperties ---------------------------
(***************************************************************************)
(* What the sign operation promises, stated over the shared state of       *)
(* SignOp: the registry, the log and the outputs of the calls.             *)
(***************************************************************************)
EXTENDS SignOp

(* Every variable has its type; a failed or successful call keeps its      *)
(* local state, which no step reads any more.                              *)
TypeOK ==
    /\ pc \in [Calls -> PCs]
    /\ cfg \in [Calls -> Inputs]
    /\ desc \in [Calls -> Digests \cup {NoDigest}]
    /\ subjects \in [Calls -> Seq(Digests)]
    /\ results \in [Calls -> Seq(Results)]
    /\ entry \in [Calls -> Nat]
    /\ base \in [Calls -> SUBSET Signatures]
    /\ attempt \in [Calls -> 0 .. MaxAttempts - 1]
    /\ tags \in [Tags -> Digests]
    /\ sigTag \in [Digests -> SUBSET Signatures]
    /\ referrers \in [Digests -> SUBSET SUBSET Signatures]
    /\ tlog \in Seq(Entries)

(* What the registry stores for a manifest: its .sig image (legacy) or all *)
(* of its signature referrers (oci-1-1).                                   *)
Stored(mode, d) == IF mode = Legacy THEN sigTag[d] ELSE UNION referrers[d]

(* Call c has signed the manifest: some stored signature of the payload    *)
(* was made with c's key (c's own, or an older one the new one repeated).  *)
Signed(c, d) ==
    \E s \in Stored(cfg[c].mode, d) :
        s.key = Signer(c) /\ s.payload = PayloadFor(c, d)

(* sign.go:186-192, 203-211: an oci-1-1 call that reports success has its  *)
(* signature in the registry for every digest in signed_digests, whatever  *)
(* other calls wrote meanwhile or afterwards.                              *)
SuccessIsSigned ==
    \A c \in Calls : pc[c] = "ok" /\ cfg[c].mode = OCI11 =>
        \A i \in 1 .. Len(subjects[c]) : Signed(c, subjects[c][i])

(* The same of a legacy call.  It holds when the host runs the calls one   *)
(* at a time, and only then: see ReadBackIsOwn.                            *)
LegacySuccessIsSigned ==
    \A c \in Calls : pc[c] = "ok" /\ cfg[c].mode = Legacy =>
        \A i \in 1 .. Len(subjects[c]) : Signed(c, subjects[c][i])

(* The log vouches for a signature: that of a call that logs to Rekor has  *)
(* an entry, and an entry is that of the signature itself.                 *)
Logged(s) ==
    /\ cfg[s.sig[1]].tlogUpload => s.entry # 0
    /\ s.entry # 0 =>
         /\ s.entry <= Len(tlog)
         /\ tlog[s.entry] = [key |-> s.key, payload |-> s.payload, sig |-> s.sig]

(* sign.go:255-273 before 280-293: no signature of a call that logs to     *)
(* Rekor is ever visible in the registry without the bundle of its own     *)
(* entry, one made with the same key over the same payload.                *)
LoggedBeforeStored ==
    \A d \in Digests, mode \in {OCI11, Legacy} :
        \A s \in Stored(mode, d) : Logged(s)

(* sign.go:174-192: the walk stops at the first error, so what a call that *)
(* failed half way leaves behind is a prefix of the walk: an oci-1-1 call  *)
(* has signed a manifest only if those before it in the walk, the index    *)
(* above it first, have its signature.                                     *)
SignedInOrder ==
    \A c \in Calls : cfg[c].mode = OCI11 =>
        \A j \in 1 .. Len(subjects[c]) :
            /\ \E s \in Stored(OCI11, subjects[c][j]) : s.sig[1] = c
            /\ \A i \in 1 .. j - 1 : subjects[c][i] # subjects[c][j]
            => \A i \in 1 .. j - 1 : Signed(c, subjects[c][i])

(* sign.go:255-262, 193: a failed oci-1-1 call leaves at most one log      *)
(* entry without a stored signature, that of the manifest it failed on.    *)
LoggedIsStored ==
    \A i \in 1 .. Len(tlog) :
        LET c == tlog[i].sig[1]  n == tlog[i].sig[2] IN
        cfg[c].mode = OCI11 /\ n # Ordinal(c) =>
            \E s \in Stored(OCI11, tlog[i].payload.subject) :
                s.sig = tlog[i].sig /\ s.entry = i

(* sign.go:158-160 and README.md:214: signing the same payload again with  *)
(* the same key does not stack signatures in the .sig image, not even when *)
(* calls overlap.  (A signature that carries a log bundle is a new one.)   *)
NoStackedSignatures ==
    \A d \in Digests : \A s, t \in sigTag[d] :
        s.key = t.key /\ s.payload = t.payload /\ s.entry = 0 /\ t.entry = 0
        => s = t

(* sign.go:320-344: the artifact an oci-1-1 result points to is, and stays,*)
(* a referrer of the signed manifest that carries the call's payload.      *)
ReportedIsReferrer ==
    \A c \in Calls : cfg[c].mode = OCI11 =>
        \A i \in 1 .. Len(results[c]) :
            LET r == results[c][i] IN
            /\ r.signatureDigest \in referrers[r.digest]
            /\ \E s \in r.signatureDigest : s.payload = PayloadFor(c, r.digest)

(* The artifact a result points to holds a signature by the call's key.    *)
(* The comments ask it of both lookups: "Matching on the payload blob      *)
(* digest ... keeps this correct when re-signing with additional keys"     *)
(* (sign.go:322-323) and "the signature image the legacy write just        *)
(* updated, verifying our payload layer is present" (sign.go:346-347).     *)
ReadBackIsOwn ==
    \A c \in Calls : \A i \in 1 .. Len(results[c]) :
        \E s \in results[c][i].signatureDigest :
            s.key = Signer(c) /\ s.payload = PayloadFor(c, results[c][i].digest)

(* sign.go:146-147, README.md:85: "a tag ref is resolved to its digest     *)
(* here, and the digest is what gets signed": the digest in the output is  *)
(* the first of signed_digests.                                            *)
OutputDigestIsSigned ==
    \A c \in Calls : pc[c] = "ok" => desc[c] = results[c][1].digest

(* sign.go:281: a legacy write replaces the .sig image by one that holds   *)
(* all of its signatures.  It holds when calls do not overlap.             *)
LegacyTagOnlyGrows == [][\A d \in Digests : sigTag[d] \subseteq sigTag'[d]]_vars

(* Nothing the plugin waits for makes a call wait forever: a call that was *)
(* made returns an output or an error.                                     *)
EveryCallReturns == \A c \in Calls : pc[c] = "parsed" ~> pc[c] \in Ended

(* A host that runs one sign operation at a time.                          *)
Active(c)  == pc[c] \notin Ended \cup {"idle"}
OneAtATime == \A c, d \in Calls : Active(c) /\ Active(d) => c = d
SerialSpec == Init /\ [][Next /\ OneAtATime']_vars
=============================================================================
