------------------------------ MODULE MCShadow ------------------------------
(* ShadowSync with two curricula, of which core-api knows one, and rows    *)
(* that differ in both columns.                                            *)
EXTENDS ShadowSync

CONSTANTS u1, k1, k2

Users == {u1}
Curricula == {k1, k2}
Legacy == {k1}
Rows == {[user |-> u1, curriculum |-> k1, year |-> 1], [user |-> u1, curriculum |-> k2, year |-> 2]}
=============================================================================
