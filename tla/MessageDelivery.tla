-------------------------- MODULE MessageDelivery ---------------------------
(***************************************************************************)
(* What QtSingleApplication keeps of the promise of sendMessage(): a       *)
(* message is emitted once at most, those of a sender in the order of the  *)
(* calls, and one whose call returned true is not emitted truncated.  A    *)
(* message may be lost, although its call returned true: the instance that *)
(* has it may end before it emits it.                                      *)
(*                                                                         *)
(* The call and the signal are independent: a message may be emitted whole *)
(* after its call has returned false, or before the call returns at all.   *)
(***************************************************************************)
EXTENDS Naturals, Sequences

CONSTANT Senders

VARIABLES
    sent,      \* sendMessage() calls of each sender
    returned,  \* the messages whose call returned true
    emitted    \* the messages of messageReceived(), in order

vars == <<sent, returned, emitted>>

\* A message is known by its sender and the number of the call.
Message(p, n) == [from |-> p, n |-> n]

Init == sent = [p \in Senders |-> 0] /\ returned = {} /\ emitted = << >>

SendMessage(p) ==
    /\ sent' = [sent EXCEPT ![p] = @ + 1]
    /\ UNCHANGED <<returned, emitted>>

\* The call under way returns true.
ReturnsTrue(p) ==
    LET m == Message(p, sent[p]) IN
    /\ sent[p] > 0
    /\ returned' = returned \cup {m}
    /\ \A i \in DOMAIN emitted : emitted[i].msg = m => emitted[i].whole
    /\ UNCHANGED <<sent, emitted>>

Emit(p, n, whole) ==
    /\ emitted' = Append(emitted, [msg |-> Message(p, n), whole |-> whole])
    /\ \A i \in DOMAIN emitted : emitted[i].msg.from = p => emitted[i].msg.n < n
    /\ Message(p, n) \in returned => whole
    /\ UNCHANGED <<sent, returned>>

Next == \E p \in Senders :
    \/ SendMessage(p) \/ ReturnsTrue(p)
    \/ \E n \in 1..sent[p], whole \in BOOLEAN : Emit(p, n, whole)

Spec == Init /\ [][Next]_vars
=============================================================================
