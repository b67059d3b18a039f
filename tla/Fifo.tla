---------------------------------- MODULE Fifo ----------------------------------
(***************************************************************************)
(* What a message channel promises its users: a bounded queue that hands   *)
(* every accepted message to one receiver, in order, until it is stopped;  *)
(* stopping it throws away what is queued and refuses everything after.    *)
(* Blocking, wake-ups and the ring of slots are left to the               *)
(* implementation, MessageChannel.                                         *)
(***************************************************************************)
EXTENDS Naturals, Sequences

CONSTANTS Threads, Messages, Capacity

VARIABLES
    queue,      \* the accepted messages that are not delivered yet
    stopped,
    outcome     \* how the last finished call of each thread ended

fifoVars == <<queue, stopped, outcome>>

Init ==
    /\ queue = << >>
    /\ stopped = FALSE
    /\ outcome = [t \in Threads |-> "none"]

Accept(t, m) ==
    /\ ~ stopped /\ Len(queue) < Capacity
    /\ queue' = Append(queue, m)
    /\ outcome' = [outcome EXCEPT ![t] = "sent"]
    /\ UNCHANGED stopped

Deliver(t) ==
    /\ ~ stopped /\ queue # << >>
    /\ queue' = Tail(queue)
    /\ outcome' = [outcome EXCEPT ![t] = Head(queue)]
    /\ UNCHANGED stopped

\* The call has no effect, and its caller knows.
Refuse(t) ==
    /\ outcome' = [outcome EXCEPT ![t] = "refused"]
    /\ UNCHANGED <<queue, stopped>>

\* A call that waits for the queue to run empty ends when it is.
SeeEmpty(t) ==
    /\ queue = << >>
    /\ outcome' = [outcome EXCEPT ![t] = "empty"]
    /\ UNCHANGED <<queue, stopped>>

Stop ==
    /\ stopped' = TRUE
    /\ queue' = << >>
    /\ UNCHANGED outcome

Next ==
    \/ Stop
    \/ \E t \in Threads :
          \/ Deliver(t) \/ Refuse(t) \/ SeeEmpty(t)
          \/ \E m \in Messages : Accept(t, m)

Spec == Init /\ [][Next]_fifoVars

=============================================================================
