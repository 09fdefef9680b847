----------------------------- MODULE MCServices -----------------------------
(***************************************************************************)
(* Two requests or three, two students, sections or semesters: one service *)
(* moves at a time, so the same values serve them all, and may be swapped. *)
(***************************************************************************)
EXTENDS CampusServices

CONSTANTS p1, p2, u1, u2, b1, b2

OfScope(s, p, l, f, a) == [sessions |-> s, passwords |-> p, links |-> l, failures |-> f, admin |-> a]

MCScope == {
  OfScope(2, 1, 0, 3, FALSE),   \* the lock
  OfScope(3, 2, 0, 0, FALSE),   \* sessions and a change of the password
  OfScope(2, 2, 1, 0, FALSE),   \* a link
  OfScope(2, 2, 0, 0, TRUE)}    \* an administrator

MCTermOf == b1 :> u1 @@ b2 :> u2

(* MCTermOf tells u1 from u2 by their bills: they change places together.   *)
BothWays == u1 :> u2 @@ u2 :> u1 @@ b1 :> b2 @@ b2 :> b1

Swaps == Permutations({p1, p2}) \cup {BothWays}
=============================================================================
