----------------------------- MODULE MessageChannel -----------------------------
(***************************************************************************)
(* android::base::MessageChannel: a bounded queue between threads on one   *)
(* lock and two condition variables.  A call holds mLock except while it   *)
(* waits, so what it does between two waits is one step.  A thread inside  *)
(* a call is blocked on a condition variable (a member of mCanRead or      *)
(* mCanWrite) or contends for mLock; a signal wakes an arbitrary blocked   *)
(* thread, which then contends with all others and tests its condition     *)
(* again.                                                                  *)
(***************************************************************************)
EXTENDS Integers, FiniteSets

CONSTANTS
    Threads,
    Messages,
    Capacity,       \* the template argument CAPACITY
    Ops,            \* the operations the threads of this channel use
    NoMessage       \* what is in a slot that holds no message

AllOps == {"send", "trySend", "receive", "tryReceive", "timedReceive", "waitForEmpty"}

ASSUME ChannelAssumption ==
    /\ IsFiniteSet(Threads)
    /\ Capacity \in Nat \ {0}
    /\ Ops \subseteq AllOps
    /\ NoMessage \notin Messages

VARIABLES
    mItems, mPos, mCount, mStopped,
    mCanRead, mCanWrite,    \* the threads blocked on each condition variable
    call,                   \* the call each thread is in
    outcome                 \* how its last finished call ended

ring == <<mItems, mPos, mCount>>
cvs  == <<mCanRead, mCanWrite>>
vars == <<ring, mStopped, cvs, call, outcome>>

NoCall == [op |-> "none", msg |-> NoMessage]

Slots == 0..Capacity - 1

Init ==
    /\ mItems = [i \in Slots |-> NoMessage]
    /\ mPos = 0
    /\ mCount = 0
    /\ mStopped = FALSE
    /\ mCanRead = {}
    /\ mCanWrite = {}
    /\ call = [t \in Threads |-> NoCall]
    /\ outcome = [t \in Threads |-> "none"]

-----------------------------------------------------------------------------

\* t is in one of these operations and not blocked: it will take mLock next.
Ready(t, ops) == call[t].op \in ops /\ t \notin mCanRead \cup mCanWrite

Return(t, r) ==
    /\ call' = [call EXCEPT ![t] = NoCall]
    /\ outcome' = [outcome EXCEPT ![t] = r]

\* Mutant: the signal is forgotten.
SignalledNone(cv) == {cv}

\* The threads that may be left blocked after a signal.
Signalled(cv) == IF cv = {} THEN {cv} ELSE {cv \ {u} : u \in cv}

\* Mutant: messages are written over the oldest one once the ring wraps.
SlotFirst(k) == IF mPos + k >= Capacity THEN mPos ELSE mPos + k

\* The slot k places after the oldest message.
Slot(k) == IF mPos + k >= Capacity THEN mPos + k - Capacity ELSE mPos + k

\* Mutant: the wrap comes one slot late.
NextPosLate == IF mPos = Capacity THEN 0 ELSE mPos + 1

\* The slot of the second oldest message.
NextPos == IF mPos + 1 = Capacity THEN 0 ELSE mPos + 1

-----------------------------------------------------------------------------

\* A thread calls an operation; only senders bring a message.
Call(t, op, m) ==
    /\ call[t] = NoCall
    /\ m = NoMessage <=> op \notin {"send", "trySend"}
    /\ call' = [call EXCEPT ![t] = [op |-> op, msg |-> m]]
    /\ UNCHANGED <<ring, mStopped, cvs, outcome>>

\* send finds no slot.
SendWait(t) ==
    /\ Ready(t, {"send"}) /\ mCount >= Capacity /\ ~ mStopped
    /\ mCanWrite' = mCanWrite \cup {t}
    /\ UNCHANGED <<ring, mStopped, mCanRead, call, outcome>>

Write(t) ==
    /\ Ready(t, {"send", "trySend"}) /\ mCount < Capacity /\ ~ mStopped
    /\ mItems' = [mItems EXCEPT ![Slot(mCount)] = call[t].msg]
    /\ mCount' = mCount + 1
    /\ mCanRead' \in Signalled(mCanRead)
    /\ Return(t, "sent")
    /\ UNCHANGED <<mPos, mStopped, mCanWrite>>

\* The channel is stopped, or trySend finds no slot.  It signals all the same.
WriteFails(t) ==
    /\ \/ Ready(t, {"send", "trySend"}) /\ mStopped
       \/ Ready(t, {"trySend"}) /\ mCount >= Capacity
    /\ mCanRead' \in Signalled(mCanRead)
    /\ Return(t, "refused")
    /\ UNCHANGED <<ring, mStopped, mCanWrite>>

\* receive or timedReceive finds no message.
ReceiveWait(t) ==
    /\ Ready(t, {"receive", "timedReceive"}) /\ mCount = 0 /\ ~ mStopped
    /\ mCanRead' = mCanRead \cup {t}
    /\ UNCHANGED <<ring, mStopped, mCanWrite, call, outcome>>

Read(t) ==
    /\ Ready(t, {"receive", "tryReceive", "timedReceive"}) /\ mCount > 0 /\ ~ mStopped
    /\ mItems' = [mItems EXCEPT ![mPos] = NoMessage]
    /\ mPos' = NextPos
    /\ mCount' = mCount - 1
    /\ mCanWrite' \in Signalled(mCanWrite)
    /\ Return(t, mItems[mPos])
    /\ UNCHANGED <<mStopped, mCanRead>>

\* The channel is stopped, or tryReceive finds no message.
ReadFails(t) ==
    /\ \/ Ready(t, {"receive", "tryReceive", "timedReceive"}) /\ mStopped
       \/ Ready(t, {"tryReceive"}) /\ mCount = 0
    /\ mCanWrite' \in Signalled(mCanWrite)
    /\ Return(t, "refused")
    /\ UNCHANGED <<ring, mStopped, mCanRead>>

\* The time of a timedReceive runs out before it is woken.
TimedOut(t) ==
    /\ t \in mCanRead /\ call[t].op = "timedReceive"
    /\ mCanRead' = mCanRead \ {t}
    /\ mCanWrite' \in Signalled(mCanWrite)
    /\ Return(t, "refused")
    /\ UNCHANGED <<ring, mStopped>>

\* waitForEmpty waits on the senders' condition variable, ...
EmptyWait(t) ==
    /\ Ready(t, {"waitForEmpty"}) /\ mCount > 0
    /\ mCanWrite' = mCanWrite \cup {t}
    /\ UNCHANGED <<ring, mStopped, mCanRead, call, outcome>>

\* ... and returns without passing the signal on.
EmptyDone(t) ==
    /\ Ready(t, {"waitForEmpty"}) /\ mCount = 0
    /\ Return(t, "empty")
    /\ UNCHANGED <<ring, mStopped, cvs>>

\* Mutant: only one thread of each kind is woken.
StopSignal ==
    /\ ~ mStopped
    /\ mStopped' = TRUE
    /\ mCount' = 0
    /\ mCanRead' \in Signalled(mCanRead)
    /\ mCanWrite' \in Signalled(mCanWrite)
    /\ UNCHANGED <<mItems, mPos, call, outcome>>

Stop ==
    /\ ~ mStopped
    /\ mStopped' = TRUE
    /\ mCount' = 0
    /\ mCanRead' = {}
    /\ mCanWrite' = {}
    /\ UNCHANGED <<mItems, mPos, call, outcome>>

\* A condition variable may wake a thread without a signal.
WakeUp(t) ==
    /\ t \in mCanRead \cup mCanWrite
    /\ mCanRead' = mCanRead \ {t}
    /\ mCanWrite' = mCanWrite \ {t}
    /\ UNCHANGED <<ring, mStopped, call, outcome>>

\* What a thread inside a call does once it gets mLock.
Step(t) ==
    \/ SendWait(t) \/ Write(t) \/ WriteFails(t)
    \/ ReceiveWait(t) \/ Read(t) \/ ReadFails(t) \/ TimedOut(t)
    \/ EmptyWait(t) \/ EmptyDone(t)

Next ==
    \/ Stop
    \/ \E t \in Threads :
          \/ Step(t) \/ WakeUp(t)
          \/ \E op \in Ops, m \in Messages \cup {NoMessage} : Call(t, op, m)

\* Every thread that contends for mLock gets it in the end, and time passes.
Fairness == \A t \in Threads : WF_vars(Step(t))

Spec == Init /\ [][Next]_vars /\ Fairness

-----------------------------------------------------------------------------
(* Properties. *)

\* The ring never holds more messages than slots, the next slot is one of them,
\* and a thread is blocked only inside a call that waits there.
TypeOK ==
    /\ mItems \in [Slots -> Messages \cup {NoMessage}]
    /\ mPos \in Slots
    /\ mCount \in 0..Capacity
    /\ mStopped \in BOOLEAN
    /\ mCanRead \subseteq {t \in Threads : call[t].op \in {"receive", "timedReceive"}}
    /\ mCanWrite \subseteq {t \in Threads : call[t].op \in {"send", "waitForEmpty"}}
    /\ call \in [Threads -> {NoCall} \cup [op : AllOps, msg : Messages \cup {NoMessage}]]
    /\ \A t \in Threads : call[t].op \in {"send", "trySend"} => call[t].msg \in Messages

\* The messages from the oldest to the newest.
Queue == [i \in 1..mCount |-> mItems[Slot(i - 1)]]

F == INSTANCE Fifo WITH queue <- Queue, stopped <- mStopped

\* The ring of slots implements a FIFO queue: no message is lost, duplicated,
\* reordered or overwritten by afterWrite and afterRead, whatever threads use it,
\* and a stopped channel delivers nothing.
ImplementsFifo == F!Spec

Readers == {t \in Threads : Ready(t, {"receive", "timedReceive"})}
Writers == {t \in Threads : Ready(t, {"send"})}

\* No wake-up is lost on the receivers' side: while a receiver is blocked, there
\* is an awake one for every message in the channel.  (send signals once for each
\* message, and a timeout or a failed call must not swallow the signal.)
ReadersAwake == mCanRead # {} => Cardinality(Readers) >= mCount

\* The same on the senders' side, for a channel nobody calls waitForEmpty on:
\* while a sender is blocked there is an awake one for every free slot.
WritersAwake == mCanWrite # {} => Cardinality(Writers) >= Capacity - mCount

\* Stopping the channel ends every pending operation.
StopReleases ==
    \A t \in Threads : mStopped /\ call[t].op # "none" ~> call[t].op = "none"

=============================================================================
