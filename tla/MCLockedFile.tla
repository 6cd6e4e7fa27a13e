---------------------------- MODULE MCLockedFile ----------------------------
(***************************************************************************)
(* An instance of LockedFile: three processes of one session and two       *)
(* slots, so that a third reader finds too many readers and a slot in the  *)
(* middle can be free.                                                     *)
(***************************************************************************)
EXTENDS LockedFile

CONSTANTS p1, p2, p3

ThreeProcs == {p1, p2, p3}
OneSession == [p \in Procs |-> 0]
SomeFailures == {"create", "wait"}
=============================================================================
