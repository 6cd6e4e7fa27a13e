----------------------------- MODULE MCProgram ------------------------------
(***************************************************************************)
(* An instance of Program: two users in two desktop sessions, and the      *)
(* processes of the SCM in session 0.                                      *)
(***************************************************************************)
EXTENDS Program

CONSTANTS u1, u2, s1, s2

TwoUsers == {u1, u2}
OneUser == {u1}
TwoServices == {s1, s2}
Sessions == [p \in Procs |-> IF p = u1 THEN 1 ELSE IF p = u2 THEN 2 ELSE 0]
=============================================================================
