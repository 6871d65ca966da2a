----------------------------- MODULE MCMatching -----------------------------
(* Small instances of the matching core.                                   *)
EXTENDS Matching, TLC

CONSTANTS u1, u2, u3, r1, r2, r3, w1, w2

\* Who files which request.
MCOneEach == (r1 :> u1) @@ (r2 :> u2) @@ (r3 :> u3)
MCTwoUsers == (r1 :> u1) @@ (r2 :> u2)
MCReturningUser == (r1 :> u1) @@ (r2 :> u2) @@ (r3 :> u1)

MCAnyone == {Users}
MCNobodyOrAnyone == {{}, Users}
MCNoCouples == {}
MCOneCouple == {{u1, u2}}

\* With one request per user, named after the user, no user differs from another
\* and no worker from another.
MCNamedAfterUser == [u \in Users |-> u]
MCSymmetry == Permutations(Users) \cup Permutations(Workers)
=============================================================================
