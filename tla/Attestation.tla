---------------------------- MODULE Attestation -----------------------------
(***************************************************************************)
(* What signing promises, with neither registry nor log: a call commits to *)
(* a list of claims, makes them in order, and reports success only when it *)
(* has made them all.  A claim once made is never unmade, by any call.     *)
(***************************************************************************)
EXTENDS Naturals, Sequences

CONSTANTS Calls, Claims

VARIABLES status, owed, made
vars == <<status, owed, made>>

Init ==
    /\ status = [c \in Calls |-> "idle"]
    /\ owed = [c \in Calls |-> <<>>]
    /\ made = {}

Goto(c, from, to) == status[c] = from /\ status' = [status EXCEPT ![c] = to]

Begin(c) == Goto(c, "idle", "running") /\ UNCHANGED <<owed, made>>

(* The call fixes what it will claim, once.                                *)
Commit(c) ==
    /\ Goto(c, "running", "running")
    /\ Len(owed[c]) = 0
    /\ owed'[c] \in Seq(Claims) /\ Len(owed'[c]) > 0
    /\ owed' = [owed EXCEPT ![c] = owed'[c]]
    /\ UNCHANGED made

(* It makes a claim whose predecessors are made; it may fail all the same, *)
(* not knowing that it did.                                                *)
Make(c) ==
    /\ Goto(c, "running", "running") \/ Goto(c, "running", "failed")
    /\ \E i \in 1 .. Len(owed[c]) :
         /\ \A j \in 1 .. i - 1 : owed[c][j] \in made
         /\ made' = made \cup {owed[c][i]}
    /\ UNCHANGED owed

Succeed(c) ==
    /\ Goto(c, "running", "ok")
    /\ Len(owed[c]) > 0
    /\ \A i \in 1 .. Len(owed[c]) : owed[c][i] \in made
    /\ UNCHANGED <<owed, made>>

Fail(c) == Goto(c, "running", "failed") /\ UNCHANGED <<owed, made>>

Next == \E c \in Calls : Begin(c) \/ Commit(c) \/ Make(c) \/ Succeed(c) \/ Fail(c)

Spec == Init /\ [][Next]_vars
=============================================================================
