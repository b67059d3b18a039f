----------------------------- MODULE WorkerThread -----------------------------
(***************************************************************************)
(* android::base::WorkerThread: a thread that processes the items of a     *)
(* queue in order, and sync points by which a caller waits for the items   *)
(* it has put there.  The module holds the state and the steps; a module   *)
(* that extends it says which items there are and what processing one does.*)
(*                                                                         *)
(* mLock is held for one access to the queue, so each access is one step.  *)
(* The sync point of a wait lives on the stack of its caller: a caller has *)
(* one at a time, and it carries the caller's name.                        *)
(***************************************************************************)
EXTENDS Naturals, Sequences

CONSTANTS
    Callers,       \* the threads that use the worker
    StartMayFail   \* whether pthread_create may fail

ASSUME WorkerAssumption == StartMayFail \in BOOLEAN

VARIABLES
    mStarted,   \* WorkerThread::mStarted
    mFinished,  \* WorkerThread::mFinished
    thread,     \* the pthread: not created, running, asleep on mCv, or gone
    mQueue,     \* the commands that wait
    todo,       \* the commands the worker has taken and not yet processed
    signaled    \* SyncPoint::signaled of each caller

workerVars == <<mStarted, mFinished, thread, mQueue, todo, signaled>>

Sync == "Sync"

SyncPoint(c) == [op |-> Sync, by |-> c]

WorkerInit ==
    /\ mStarted = FALSE
    /\ mFinished = FALSE
    /\ thread = "none"
    /\ mQueue = <<>>
    /\ todo = <<>>
    /\ signaled = [c \in Callers |-> FALSE]

-----------------------------------------------------------------------------
(* What callers do.                                                         *)

\* The first half of start: from now on isStarted() holds.
start ==
    /\ mStarted' = TRUE
    /\ UNCHANGED <<mFinished, thread, mQueue, todo, signaled>>

\* The second half.  Thread::start refuses a second call; WorkerThread::start
\* takes any refusal for a thread that will never run.
startThread ==
    /\ \/ /\ thread = "none"
          /\ thread' = "running"
          /\ UNCHANGED mFinished
       \/ /\ thread # "none" \/ StartMayFail
          /\ thread' = IF thread = "none" THEN "gone" ELSE thread
          /\ mFinished' = TRUE
    /\ UNCHANGED <<mStarted, mQueue, todo, signaled>>

\* Mutant: the thread is woken when the queue gets its second command.
NotifiedLate ==
    IF mQueue # <<>> /\ thread = "asleep" THEN "running" ELSE thread

\* A thread that sleeps on the condition variable hears of the first command
\* of an empty queue only.
Notified ==
    IF mQueue = <<>> /\ thread = "asleep" THEN "running" ELSE thread

enqueueImpl(command) ==
    /\ mQueue' = Append(mQueue, command)
    /\ thread' = Notified
    /\ UNCHANGED <<mStarted, mFinished, todo>>

\* Mutant: an empty queue is taken to mean that all is done.
MustWaitQueued == mStarted /\ ~mFinished /\ mQueue # <<>>

\* The test at the start of waitQueuedItems.
MustWait == mStarted /\ ~mFinished

\* waitQueuedItems by c up to its wait, ...
EnqueueSync(c) ==
    /\ enqueueImpl(SyncPoint(c))
    /\ UNCHANGED signaled

\* ... and its end.
Release(c) ==
    /\ signaled[c]
    /\ signaled' = [signaled EXCEPT ![c] = FALSE]
    /\ UNCHANGED <<mStarted, mFinished, thread, mQueue, todo>>

-----------------------------------------------------------------------------
(* What the thread does: worker().                                          *)

Idle == thread = "running" /\ todo = <<>>

Sleep ==
    /\ Idle /\ mQueue = <<>>
    /\ thread' = "asleep"
    /\ UNCHANGED <<mStarted, mFinished, mQueue, todo, signaled>>

\* A condition variable may wake its waiter for no reason.
WakeUp ==
    /\ thread = "asleep"
    /\ thread' = "running"
    /\ UNCHANGED <<mStarted, mFinished, mQueue, todo, signaled>>

Take ==
    /\ Idle /\ mQueue # <<>>
    /\ todo' = mQueue
    /\ mQueue' = <<>>
    /\ UNCHANGED <<mStarted, mFinished, thread, signaled>>

\* The command the worker is at.
At(op) == thread = "running" /\ todo # <<>> /\ Head(todo).op = op

Signal ==
    /\ At(Sync)
    /\ signaled' = [signaled EXCEPT ![Head(todo).by] = TRUE]
    /\ todo' = Tail(todo)
    /\ UNCHANGED <<mStarted, mFinished, thread, mQueue>>

\* The processor returned Continue.
Processed ==
    /\ todo' = Tail(todo)
    /\ UNCHANGED <<mStarted, mFinished, thread, mQueue, signaled>>

\* The processor returned Stop: worker() returns past the assignment of
\* mFinished and forgets what it had taken.
Stopped ==
    /\ thread' = "gone"
    /\ todo' = <<>>
    /\ UNCHANGED <<mStarted, mFinished, mQueue, signaled>>

=============================================================================
