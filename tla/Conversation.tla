---------------------------- MODULE Conversation ----------------------------
(***************************************************************************)
(* What the room promises its two participants: one conversation, which    *)
(* starts at most once, may be lengthened once while it runs, and ends at  *)
(* most once, with one result that never changes afterwards.  Session      *)
(* implements this specification.                                          *)
(***************************************************************************)
CONSTANTS Results, NoResult

VARIABLES phase, extended, result

Init ==
    /\ phase = "scheduled"
    /\ extended = FALSE
    /\ result = NoResult

Begin ==
    /\ phase = "scheduled"
    /\ phase' = "talking"
    /\ UNCHANGED <<extended, result>>

Lengthen ==
    /\ phase = "talking" /\ ~extended
    /\ extended' = TRUE
    /\ UNCHANGED <<phase, result>>

Finish ==
    /\ phase = "talking"
    /\ phase' = "over"
    /\ result' \in Results
    /\ UNCHANGED extended

Next == Begin \/ Lengthen \/ Finish

Spec == Init /\ [][Next]_<<phase, extended, result>>
=============================================================================
