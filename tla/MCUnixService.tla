--------------------------- MODULE MCUnixService ----------------------------
(***************************************************************************)
(* An instance of UnixService: a service, programs that are started while  *)
(* it starts or ends, and a client that calls again after it was killed,   *)
(* with its first command still on the way.  One program may die, or find *)
(* no socket to bind.                                                      *)
(***************************************************************************)
EXTENDS UnixService

CONSTANTS p1, p2, p3, c1

ThreePrograms == {p1, p2, p3}
OneClient == {c1}
OneOfEach == {p1, c1}
OneProgram == {p1}
NoFlags == {}
StopPauseStart == {"terminate", "pause", "start"}
EveryArgument == {"", "-i", "-u", "-e"}
=============================================================================
