---------------------------- MODULE MCLocalPeer -----------------------------
(***************************************************************************)
(* Instances of LocalPeer: three processes that start, crash and exit, or  *)
(* a running instance and the clients that talk to it.                     *)
(***************************************************************************)
EXTENDS LocalPeer, TLC

CONSTANTS p1, p2, p3

ThreeProcs == {p1, p2, p3}
TwoProcs == {p1, p2}

\* One talkative process, one that may be client and server, one that may serve.
Unequal == p1 :> 2 @@ p2 :> 1 @@ p3 :> 0
OneEach == [p \in Procs |-> 1]

Nothing == {}
Nobody == {}
Talkative == {p1}
Everything == Adversities
=============================================================================
