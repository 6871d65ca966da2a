----------------------------- MODULE MatchLedger -----------------------------
(***************************************************************************)
(* What matching promises, without requests, jobs, workers or clocks: a    *)
(* couple is proposed at most once, only while both its users are free; it *)
(* is confirmed or closed; and a closed couple sets its users free at the  *)
(* very step that closes it.  Matching implements this specification.      *)
(***************************************************************************)
CONSTANTS Users, Couples,
          Members     \* the set of users of each couple

VARIABLES stage,      \* where each couple stands
          seat        \* the couples each user is committed to

vars == <<stage, seat>>

Open == {"proposed", "confirmed"}

Init ==
    /\ stage = [c \in Couples |-> "free"]
    /\ seat = [u \in Users |-> {}]

Propose(c) ==
    /\ stage[c] = "free"
    /\ \A u \in Members[c] : seat[u] = {}
    /\ stage' = [stage EXCEPT ![c] = "proposed"]
    /\ seat' = [u \in Users |-> IF u \in Members[c] THEN {c} ELSE seat[u]]

Confirm(c) ==
    /\ stage[c] = "proposed"
    /\ stage' = [stage EXCEPT ![c] = "confirmed"]
    /\ UNCHANGED seat

\* The schedulers close several couples in one transaction.
Close(S) ==
    /\ S # {}
    /\ \A c \in S : stage[c] \in Open
    /\ stage' = [c \in Couples |-> IF c \in S THEN "closed" ELSE stage[c]]
    /\ seat' = [u \in Users |-> seat[u] \ S]

Next ==
    \/ \E c \in Couples : Propose(c) \/ Confirm(c)
    \/ \E S \in SUBSET Couples : Close(S)

Spec == Init /\ [][Next]_vars
=============================================================================
