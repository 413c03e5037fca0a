--------------------------- MODULE SignRefinement ---------------------------
(***************************************************************************)
(* The sign operation in its default mode implements Attestation: a claim  *)
(* is "this key signed this payload", and it is made when a signature      *)
(* referrer that holds such a signature is in the registry.  The legacy    *)
(* mode implements nothing of the kind: its claims can be unmade.          *)
(***************************************************************************)
EXTENDS SignProperties

ASSUME ReferrersOnly == \A in \in Inputs : in.mode = OCI11

ClaimOf(s) == [key |-> s.key, payload |-> s.payload]

statusBar ==
    [c \in Calls |-> IF pc[c] \in Ended \cup {"idle"} THEN pc[c] ELSE "running"]
owedBar ==
    [c \in Calls |-> [i \in 1 .. Len(subjects[c]) |->
        [key |-> Signer(c), payload |-> PayloadFor(c, subjects[c][i])]]]
madeBar == {ClaimOf(s) : s \in UNION {UNION referrers[d] : d \in Digests}}

Abstract == INSTANCE Attestation WITH
    Claims <- [key : Signers, payload : Payloads],
    status <- statusBar, owed <- owedBar, made <- madeBar

(* README.md:23 and sign.go:115-221: every behaviour of the sign operation *)
(* is one of Attestation: claims are made in the order of the walk, they   *)
(* survive whatever other calls do, and success means that all are made.   *)
ImplementsAttestation == Abstract!Spec
=============================================================================
