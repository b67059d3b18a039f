------------------------------ MODULE ChannelProofs ------------------------------
(***************************************************************************)
(* Proofs about MessageChannel, for any number of threads and any          *)
(* capacity: it is type correct, it implements Fifo, and no wake-up of a   *)
(* receiver, or of a sender where nobody calls waitForEmpty, is lost.      *)
(***************************************************************************)
EXTENDS MessageChannel, Sequences, FiniteSetTheorems, SequenceTheorems, TLAPS

-----------------------------------------------------------------------------
(* Type correctness. *)

\* A signal leaves a subset blocked, and wakes one thread if there is one.
LEMMA SignalledFacts ==
  ASSUME NEW cv, NEW rest \in Signalled(cv)
  PROVE  /\ rest \subseteq cv
         /\ cv # {} => \E u \in cv : rest = cv \ {u}
  BY DEF Signalled

\* The slots of the ring are slots.
LEMMA SlotType ==
  ASSUME TypeOK, NEW k \in Nat, k < Capacity
  PROVE  Slot(k) \in Slots
  BY ChannelAssumption DEF TypeOK, Slot, Slots

\* A thread that returns is in no call, and blocked on nothing if it was not.
LEMMA ReturnType ==
  ASSUME TypeOK, NEW t \in Threads, NEW r, Return(t, r),
         mCanRead' \subseteq mCanRead \ {t}, mCanWrite' \subseteq mCanWrite \ {t}
  PROVE  /\ mCanRead' \subseteq {u \in Threads : call'[u].op \in {"receive", "timedReceive"}}
         /\ mCanWrite' \subseteq {u \in Threads : call'[u].op \in {"send", "waitForEmpty"}}
         /\ call' \in [Threads -> {NoCall} \cup [op : AllOps, msg : Messages \cup {NoMessage}]]
         /\ \A u \in Threads : call'[u].op \in {"send", "trySend"} => call'[u].msg \in Messages
  <1>1. /\ call'[t] = NoCall
        /\ \A u \in Threads \ {t} : call'[u] = call[u]
        /\ DOMAIN call' = Threads
        /\ call' = [call EXCEPT ![t] = NoCall]
    BY DEF TypeOK, Return
  <1>2. NoCall.op = "none"
    BY DEF NoCall
  <1> QED
    BY <1>1, <1>2 DEF TypeOK

\* Init is type correct.
LEMMA TypeInit == Init => TypeOK
  <1> SUFFICES ASSUME Init PROVE TypeOK
    OBVIOUS
  <1>1. NoCall.op = "none"
    BY DEF NoCall
  <1>2. /\ call \in [Threads -> {NoCall} \cup [op : AllOps, msg : Messages \cup {NoMessage}]]
        /\ \A t \in Threads : call[t].op \in {"send", "trySend"} => call[t].msg \in Messages
    BY <1>1 DEF Init
  <1>3. mItems \in [Slots -> Messages \cup {NoMessage}] /\ mPos \in Slots /\ mCount \in 0..Capacity
    BY ChannelAssumption DEF Init, Slots
  <1> QED
    BY <1>2, <1>3 DEF Init, TypeOK

\* Every step keeps TypeOK.
LEMMA TypeStep == TypeOK /\ [Next]_vars => TypeOK'
<1> SUFFICES ASSUME TypeOK, [Next]_vars PROVE TypeOK'
  OBVIOUS
<1> USE DEF ring, cvs
<1>n. NoCall.op = "none" /\ "none" \notin AllOps
  BY DEF NoCall, AllOps
<1>1. CASE UNCHANGED vars
  BY <1>1 DEF vars, TypeOK
<1>2. CASE Stop
  BY <1>2, ChannelAssumption DEF Stop, TypeOK
<1>3. ASSUME NEW t \in Threads, NEW op \in Ops, NEW m \in Messages \cup {NoMessage},
             Call(t, op, m)
      PROVE  TypeOK'
  <2>1. op \in AllOps
    BY ChannelAssumption
  <2>2. t \notin mCanRead /\ t \notin mCanWrite
    BY <1>3, <1>n DEF Call, TypeOK
  <2>3. /\ call'[t] = [op |-> op, msg |-> m]
        /\ \A u \in Threads \ {t} : call'[u] = call[u]
        /\ call' \in [Threads -> {NoCall} \cup [op : AllOps, msg : Messages \cup {NoMessage}]]
    BY <1>3, <2>1 DEF Call, TypeOK
  <2>4. \A u \in Threads : call'[u].op \in {"send", "trySend"} => call'[u].msg \in Messages
    BY <1>3, <2>3, ChannelAssumption DEF Call, TypeOK
  <2> QED
    BY <1>3, <2>2, <2>3, <2>4 DEF Call, TypeOK
<1>4. ASSUME NEW t \in Threads, SendWait(t) \/ ReceiveWait(t) \/ EmptyWait(t) PROVE TypeOK'
  BY <1>4 DEF SendWait, ReceiveWait, EmptyWait, Ready, TypeOK
<1>5. ASSUME NEW t \in Threads, Write(t) PROVE TypeOK'
  <2>1. Slot(mCount) \in Slots
    BY <1>5, SlotType DEF Write, TypeOK
  <2>2. call[t].msg \in Messages
    BY <1>5 DEF Write, Ready, TypeOK
  <2>3. mItems' \in [Slots -> Messages \cup {NoMessage}] /\ mCount' \in 0..Capacity
    BY <1>5, <2>1, <2>2, ChannelAssumption DEF Write, TypeOK
  <2>4. mCanRead' \subseteq mCanRead \ {t} /\ mCanWrite' \subseteq mCanWrite \ {t}
    BY <1>5, SignalledFacts DEF Write, Ready
  <2>5. Return(t, "sent") /\ UNCHANGED <<mPos, mStopped>>
    BY <1>5 DEF Write
  <2> QED
    BY <2>3, <2>4, <2>5, ReturnType DEF TypeOK
<1>6. ASSUME NEW t \in Threads, Read(t) PROVE TypeOK'
  <2>1. /\ mItems' \in [Slots -> Messages \cup {NoMessage}]
        /\ mPos' \in Slots /\ mCount' \in 0..Capacity
    BY <1>6, ChannelAssumption DEF Read, NextPos, TypeOK, Slots
  <2>2. mCanRead' \subseteq mCanRead \ {t} /\ mCanWrite' \subseteq mCanWrite \ {t}
    BY <1>6, SignalledFacts DEF Read, Ready
  <2>3. Return(t, mItems[mPos]) /\ UNCHANGED mStopped
    BY <1>6 DEF Read
  <2> QED
    BY <2>1, <2>2, <2>3, ReturnType DEF TypeOK
<1>7. ASSUME NEW t \in Threads, WriteFails(t) \/ ReadFails(t) \/ TimedOut(t) PROVE TypeOK'
  <2>1. mCanRead' \subseteq mCanRead \ {t} /\ mCanWrite' \subseteq mCanWrite \ {t}
    BY <1>7, SignalledFacts DEF WriteFails, ReadFails, TimedOut, Ready, TypeOK
  <2>2. Return(t, "refused") /\ UNCHANGED <<ring, mStopped>>
    BY <1>7 DEF WriteFails, ReadFails, TimedOut
  <2> QED
    BY <2>1, <2>2, ReturnType DEF TypeOK
<1>8. ASSUME NEW t \in Threads, EmptyDone(t) PROVE TypeOK'
  <2>1. mCanRead' \subseteq mCanRead \ {t} /\ mCanWrite' \subseteq mCanWrite \ {t}
    BY <1>8 DEF EmptyDone, Ready
  <2>2. Return(t, "empty") /\ UNCHANGED <<ring, mStopped>>
    BY <1>8 DEF EmptyDone
  <2> QED
    BY <2>1, <2>2, ReturnType DEF TypeOK
<1>9. ASSUME NEW t \in Threads, WakeUp(t) PROVE TypeOK'
  BY <1>9 DEF WakeUp, TypeOK
<1> QED
  BY <1>1, <1>2, <1>3, <1>4, <1>5, <1>6, <1>7, <1>8, <1>9 DEF Next, Step

\* The ring stays within its bounds and threads are blocked only where their
\* calls can wait (beforeWrite, beforeRead, waitForEmpty).
THEOREM ChannelTypeCorrect == Spec => []TypeOK
  BY TypeInit, TypeStep, PTL DEF Spec

-----------------------------------------------------------------------------
(* The ring implements a FIFO queue. *)

Items == Messages \cup {NoMessage}

QueueOK == Queue \in Seq(Items) /\ Len(Queue) = mCount /\ DOMAIN Queue = 1..mCount

\* The queue is a sequence of as many messages as the ring counts.
LEMMA QueueType == TypeOK => QueueOK
  <1> SUFFICES ASSUME TypeOK PROVE QueueOK
    OBVIOUS
  <1>1. \A i \in 1..mCount : mItems[Slot(i - 1)] \in Items
    <2> SUFFICES ASSUME NEW i \in 1..mCount PROVE mItems[Slot(i - 1)] \in Items
      OBVIOUS
    <2>1. i - 1 \in Nat /\ i - 1 < Capacity
      BY ChannelAssumption DEF TypeOK
    <2> QED
      BY <2>1, SlotType DEF TypeOK, Items
  <1>2. mCount \in Nat
    BY ChannelAssumption DEF TypeOK
  <1> QED
    BY <1>1, <1>2 DEF Queue, QueueOK

\* The same after a step.
LEMMA QueueTypeNext == TypeOK' => QueueOK'
  BY QueueType, PTL

\* The initial channel is the empty queue.
LEMMA FifoInit == Init => F!Init
  <1> SUFFICES ASSUME Init PROVE F!Init
    OBVIOUS
  <1>1. TypeOK
    BY TypeInit
  <1>2. Len(Queue) = 0 /\ Queue \in Seq(Items)
    BY <1>1, QueueType DEF Init, QueueOK
  <1>3. Queue = << >>
    BY <1>2
  <1> QED
    BY <1>3 DEF Init, F!Init

\* afterWrite(true) appends to the queue.
LEMMA WriteIsAccept ==
  ASSUME TypeOK, TypeOK', NEW t \in Threads, Write(t)
  PROVE  F!Accept(t, call[t].msg) /\ call[t].msg \in Messages
  <1> DEFINE m == call[t].msg
  <1>1. m \in Messages
    BY DEF Write, Ready, TypeOK
  <1>2. /\ ~ mStopped /\ mCount \in Nat /\ mCount < Capacity
        /\ mItems' = [mItems EXCEPT ![Slot(mCount)] = m]
        /\ mCount' = mCount + 1 /\ mPos' = mPos /\ mStopped' = mStopped
        /\ outcome' = [outcome EXCEPT ![t] = "sent"]
    BY ChannelAssumption DEF Write, Return, TypeOK
  <1>3. /\ Queue \in Seq(Items) /\ Len(Queue) = mCount /\ DOMAIN Queue = 1..mCount
        /\ Queue' \in Seq(Items) /\ Len(Queue') = mCount + 1 /\ DOMAIN Queue' = 1..mCount + 1
    BY <1>2, QueueType, QueueTypeNext DEF QueueOK
  <1>4. ASSUME NEW i \in 1..mCount + 1
        PROVE  Queue'[i] = IF i = mCount + 1 THEN m ELSE Queue[i]
    <2>1. i - 1 \in Nat /\ i - 1 < Capacity /\ i - 1 \in 0..mCount
      BY <1>2, ChannelAssumption
    <2>2. Slot(i - 1) \in Slots /\ Slot(mCount) \in Slots
      BY <1>2, <2>1, SlotType
    <2>3. i - 1 # mCount => Slot(i - 1) # Slot(mCount)
      BY <1>2, <2>1, ChannelAssumption DEF Slot, TypeOK, Slots
    <2>4. Queue'[i] = mItems'[Slot(i - 1)]
      BY <1>2 DEF Queue, Slot
    <2>5. mItems'[Slot(i - 1)] = IF i - 1 = mCount THEN m ELSE mItems[Slot(i - 1)]
      BY <1>2, <2>2, <2>3 DEF TypeOK
    <2>6. i # mCount + 1 => Queue[i] = mItems[Slot(i - 1)]
      BY <1>2 DEF Queue
    <2> QED
      BY <1>2, <2>4, <2>5, <2>6
  <1>5. Queue' = Append(Queue, m)
    <2>1. Append(Queue, m) \in Seq(Items) /\ Len(Append(Queue, m)) = mCount + 1
      BY <1>1, <1>3 DEF Items
    <2>2. \A i \in 1..mCount + 1 : Append(Queue, m)[i] = Queue'[i]
      BY <1>3, <1>4
    <2> QED
      BY <1>3, <2>1, <2>2, SeqEqual
  <1> QED
    BY <1>1, <1>2, <1>3, <1>5 DEF F!Accept

\* afterRead(true) takes the head of the queue.
LEMMA ReadIsDeliver ==
  ASSUME TypeOK, TypeOK', NEW t \in Threads, Read(t)
  PROVE  F!Deliver(t)
  <1>1. /\ ~ mStopped /\ mCount \in Nat /\ mCount > 0 /\ mPos \in Slots
        /\ mItems' = [mItems EXCEPT ![mPos] = NoMessage]
        /\ mCount' = mCount - 1 /\ mPos' = NextPos /\ mStopped' = mStopped
        /\ outcome' = [outcome EXCEPT ![t] = mItems[mPos]]
    BY ChannelAssumption DEF Read, Return, TypeOK
  <1>2. /\ Queue \in Seq(Items) /\ Len(Queue) = mCount /\ DOMAIN Queue = 1..mCount
        /\ Queue' \in Seq(Items) /\ Len(Queue') = mCount - 1 /\ DOMAIN Queue' = 1..mCount - 1
    BY <1>1, QueueType, QueueTypeNext DEF QueueOK
  <1>3. Queue # << >> /\ Head(Queue) = mItems[mPos]
    <2>1. Slot(0) = mPos /\ 1 \in 1..mCount
      BY <1>1, ChannelAssumption DEF Slot, Slots
    <2>2. Queue[1] = mItems[Slot(1 - 1)]
      BY <2>1 DEF Queue
    <2> QED
      BY <1>1, <1>2, <2>1, <2>2
  <1>4. ASSUME NEW i \in 1..mCount - 1 PROVE Queue'[i] = Queue[i + 1]
    <2>1. i \in Nat /\ i < Capacity /\ i # 0 /\ i + 1 \in 1..mCount
      BY <1>1, ChannelAssumption DEF TypeOK
    <2>2. Slot(i) \in Slots /\ Slot(i) # mPos
      BY <1>1, <2>1, SlotType, ChannelAssumption DEF Slot, Slots
    <2>3. Slot(i - 1)' = Slot(i)
      BY <1>1, <2>1, ChannelAssumption DEF Slot, NextPos, Slots
    <2>4. Queue'[i] = mItems'[Slot(i - 1)']
      BY <1>1 DEF Queue
    <2>5. Queue[i + 1] = mItems[Slot((i + 1) - 1)] /\ (i + 1) - 1 = i
      BY <2>1 DEF Queue
    <2> QED
      BY <1>1, <2>2, <2>3, <2>4, <2>5 DEF TypeOK
  <1>5. Queue' = Tail(Queue)
    <2>1. /\ Tail(Queue) \in Seq(Items) /\ Len(Tail(Queue)) = mCount - 1
          /\ \A i \in 1..mCount - 1 : Tail(Queue)[i] = Queue[i + 1]
      BY <1>1, <1>2, <1>3
    <2> QED
      BY <1>1, <1>2, <1>4, <2>1, SeqEqual
  <1> QED
    BY <1>1, <1>2, <1>3, <1>5 DEF F!Deliver

\* Every step of the channel is a step of the queue, or none of its business.
LEMMA FifoStep == TypeOK /\ TypeOK' /\ [Next]_vars => [F!Next]_(F!fifoVars)
<1> SUFFICES ASSUME TypeOK, TypeOK', [Next]_vars PROVE [F!Next]_(F!fifoVars)
  OBVIOUS
<1> USE DEF ring, cvs
<1>1. ASSUME UNCHANGED <<mItems, mPos, mCount>> PROVE Queue' = Queue
  BY <1>1 DEF Queue, Slot
<1>2. CASE UNCHANGED vars
  BY <1>1, <1>2 DEF vars, F!fifoVars
<1>3. CASE Stop
  <2>1. mCount' = 0 /\ Queue' \in Seq(Items) /\ Len(Queue') = mCount'
    BY <1>3, QueueTypeNext DEF Stop, QueueOK
  <2>2. Queue' = << >>
    BY <2>1
  <2>3. F!Stop
    BY <1>3, <2>2 DEF Stop, F!Stop
  <2> QED
    BY <2>3 DEF F!Next
<1>4. ASSUME NEW t \in Threads, NEW op \in Ops, NEW m \in Messages \cup {NoMessage}, Call(t, op, m)
      PROVE  UNCHANGED F!fifoVars
  BY <1>1, <1>4 DEF Call, F!fifoVars
<1>5. ASSUME NEW t \in Threads, SendWait(t) \/ ReceiveWait(t) \/ EmptyWait(t) \/ WakeUp(t)
      PROVE  UNCHANGED F!fifoVars
  BY <1>1, <1>5 DEF SendWait, ReceiveWait, EmptyWait, WakeUp, F!fifoVars
<1>6. ASSUME NEW t \in Threads, Write(t) PROVE F!Next
  BY <1>6, WriteIsAccept DEF F!Next
<1>7. ASSUME NEW t \in Threads, Read(t) PROVE F!Next
  BY <1>7, ReadIsDeliver DEF F!Next
<1>8. ASSUME NEW t \in Threads, WriteFails(t) \/ ReadFails(t) \/ TimedOut(t) PROVE F!Next
  <2>1. F!Refuse(t)
    BY <1>1, <1>8 DEF WriteFails, ReadFails, TimedOut, Return, F!Refuse
  <2> QED
    BY <2>1 DEF F!Next
<1>9. ASSUME NEW t \in Threads, EmptyDone(t) PROVE F!Next
  <2>1. Queue \in Seq(Items) /\ Len(Queue) = 0
    BY <1>9, QueueType DEF EmptyDone, QueueOK
  <2>2. Queue = << >>
    BY <2>1
  <2>3. F!SeeEmpty(t)
    BY <1>1, <1>9, <2>2 DEF EmptyDone, Return, F!SeeEmpty
  <2> QED
    BY <2>3 DEF F!Next
<1> QED
  BY <1>2, <1>3, <1>4, <1>5, <1>6, <1>7, <1>8, <1>9 DEF Next, Step

\* send and receive on the ring of slots (mPos, mCount, mItems) behave like a
\* bounded FIFO queue, for any capacity, threads and mix of operations.
THEOREM ChannelImplementsFifo == Spec => ImplementsFifo
  BY ChannelTypeCorrect, FifoInit, FifoStep, PTL DEF Spec, ImplementsFifo, F!Spec

-----------------------------------------------------------------------------
(* No receiver sleeps while there is a message nobody is awake for. *)

\* A stopped channel holds nothing, so failed calls wake nobody in vain.
AwakeInv == ReadersAwake /\ (mStopped => mCount = 0)

\* The awake receivers are finitely many.
LEMMA ReadersFinite == IsFiniteSet(Readers) /\ IsFiniteSet(Readers')
  <1>1. Readers \subseteq Threads /\ Readers' \subseteq Threads
    BY DEF Readers
  <1> QED
    BY <1>1, ChannelAssumption, FS_Subset

\* A step that puts no awake receiver to sleep or to rest, and adds no message,
\* keeps the invariant.
LEMMA MoreReaders ==
  ASSUME TypeOK, AwakeInv, Readers \subseteq Readers', mCount' = mCount,
         mCanRead' \subseteq mCanRead, mStopped' = mStopped
  PROVE  AwakeInv'
  <1>1. Cardinality(Readers) <= Cardinality(Readers') /\ Cardinality(Readers) \in Nat
        /\ Cardinality(Readers') \in Nat
    BY ReadersFinite, FS_Subset, FS_CardinalityType
  <1> QED
    BY <1>1 DEF AwakeInv, ReadersAwake, TypeOK

\* A call that is not a receive returns without touching the receivers.
LEMMA ReturnReaders ==
  ASSUME TypeOK, NEW t \in Threads, NEW r, Return(t, r), t \notin Readers,
         mCanRead' \subseteq mCanRead, mCanWrite' \subseteq mCanWrite
  PROVE  Readers \subseteq Readers'
  <1>1. \A u \in Threads \ {t} : call'[u] = call[u]
    BY DEF Return, TypeOK
  <1> QED
    BY <1>1 DEF Readers, Ready

\* Every step keeps the invariant.
LEMMA AwakeStep == TypeOK /\ AwakeInv /\ [Next]_vars => AwakeInv'
<1> SUFFICES ASSUME TypeOK, AwakeInv, [Next]_vars PROVE AwakeInv'
  OBVIOUS
<1> USE DEF ring, cvs
<1>c. Cardinality(Readers) \in Nat /\ Cardinality(Readers') \in Nat
  BY ReadersFinite, FS_CardinalityType
<1>n. NoCall.op = "none"
  BY DEF NoCall
<1>1. CASE UNCHANGED vars
  BY <1>1, MoreReaders DEF vars, Readers, Ready
<1>2. CASE Stop
  BY <1>2 DEF Stop, AwakeInv, ReadersAwake
<1>3. ASSUME NEW t \in Threads, NEW op \in Ops, NEW m \in Messages \cup {NoMessage}, Call(t, op, m)
      PROVE  AwakeInv'
  <2>1. t \notin Readers
    BY <1>3, <1>n DEF Call, Readers, Ready
  <2>2. \A u \in Threads \ {t} : call'[u] = call[u]
    BY <1>3 DEF Call, TypeOK
  <2>3. Readers \subseteq Readers'
    BY <1>3, <2>1, <2>2 DEF Call, Readers, Ready
  <2> QED
    BY <1>3, <2>3, MoreReaders DEF Call
<1>4. ASSUME NEW t \in Threads, SendWait(t) \/ EmptyWait(t) PROVE AwakeInv'
  <2>1. Readers \subseteq Readers'
    BY <1>4 DEF SendWait, EmptyWait, Readers, Ready
  <2> QED
    BY <1>4, <2>1, MoreReaders DEF SendWait, EmptyWait
<1>5. ASSUME NEW t \in Threads, ReceiveWait(t) PROVE AwakeInv'
  BY <1>5, <1>c DEF ReceiveWait, AwakeInv, ReadersAwake
<1>6. ASSUME NEW t \in Threads, Write(t) PROVE AwakeInv'
  <2>1. t \notin Readers /\ t \notin mCanRead /\ Return(t, "sent")
    BY <1>6 DEF Write, Readers, Ready
  <2>2. SUFFICES ASSUME mCanRead' # {} PROVE Cardinality(Readers') >= mCount'
    BY <1>6 DEF Write, AwakeInv, ReadersAwake
  <2>3. mCanRead # {} /\ mCanRead' \subseteq mCanRead
    BY <1>6, <2>2, SignalledFacts DEF Write
  <2>4. PICK u \in mCanRead : mCanRead' = mCanRead \ {u}
    BY <1>6, <2>3, SignalledFacts DEF Write
  <2>5. u \in Readers' /\ u \notin Readers
    <3>1. u \in Threads /\ u # t /\ call[u].op \in {"receive", "timedReceive"}
      BY <2>1, <2>4 DEF TypeOK
    <3>2. call'[u] = call[u] /\ u \notin mCanWrite
      BY <2>1, <3>1 DEF Return, TypeOK
    <3> QED
      BY <1>6, <2>4, <3>1, <3>2 DEF Write, Readers, Ready
  <2>6. Readers \cup {u} \subseteq Readers'
    BY <1>6, <2>1, <2>3, <2>5, ReturnReaders DEF Write
  <2>7. Cardinality(Readers \cup {u}) = Cardinality(Readers) + 1
    BY <2>5, ReadersFinite, FS_AddElement
  <2>8. Cardinality(Readers \cup {u}) <= Cardinality(Readers')
    BY <2>6, ReadersFinite, FS_Subset
  <2>9. Cardinality(Readers) >= mCount /\ mCount' = mCount + 1 /\ mCount \in Nat
    BY <1>6, <2>3, ChannelAssumption DEF Write, AwakeInv, ReadersAwake, TypeOK
  <2> QED
    BY <1>c, <2>7, <2>8, <2>9
<1>7. ASSUME NEW t \in Threads, Read(t) PROVE AwakeInv'
  <2>1. /\ mCount' = mCount - 1 /\ mCount \in Nat /\ ~ mStopped /\ mStopped' = mStopped
        /\ mCanRead' = mCanRead /\ mCanWrite' \subseteq mCanWrite
    BY <1>7, SignalledFacts, ChannelAssumption DEF Read, TypeOK
  <2>2. \A u \in Threads \ {t} : call'[u] = call[u]
    BY <1>7 DEF Read, Return, TypeOK
  <2>3. Readers \ {t} \subseteq Readers'
    BY <2>1, <2>2 DEF Readers, Ready
  <2>4. Cardinality(Readers \ {t}) <= Cardinality(Readers')
    BY <2>3, ReadersFinite, FS_Subset
  <2>5. Cardinality(Readers \ {t}) >= Cardinality(Readers) - 1 /\ Cardinality(Readers \ {t}) \in Nat
    <3>1. /\ IsFiniteSet(Readers \ {t})
          /\ Cardinality(Readers \ {t}) =
                IF t \in Readers THEN Cardinality(Readers) - 1 ELSE Cardinality(Readers)
      BY ReadersFinite, FS_RemoveElement
    <3>2. Cardinality(Readers \ {t}) \in Nat
      BY <3>1, FS_CardinalityType
    <3> QED
      BY <1>c, <3>1, <3>2
  <2> QED
    BY <1>c, <2>1, <2>4, <2>5 DEF AwakeInv, ReadersAwake
<1>8. ASSUME NEW t \in Threads, WriteFails(t) PROVE AwakeInv'
  <2>1. /\ t \notin Readers /\ Return(t, "refused") /\ mCanRead' \subseteq mCanRead
        /\ UNCHANGED <<mCanWrite, mCount, mStopped>>
    BY <1>8, SignalledFacts DEF WriteFails, Readers, Ready
  <2> QED
    BY <2>1, ReturnReaders, MoreReaders
<1>9. ASSUME NEW t \in Threads, ReadFails(t) PROVE AwakeInv'
  <2>1. /\ Return(t, "refused") /\ mCanWrite' \subseteq mCanWrite
        /\ UNCHANGED <<mCanRead, mCount, mStopped>>
    BY <1>9, SignalledFacts DEF ReadFails
  <2>2. CASE mStopped
    BY <1>c, <2>1, <2>2 DEF AwakeInv, ReadersAwake
  <2>3. CASE ~ mStopped
    <3>1. t \notin Readers
      BY <1>9, <2>3 DEF ReadFails, Readers, Ready
    <3> QED
      BY <2>1, <3>1, ReturnReaders, MoreReaders
  <2> QED
    BY <2>2, <2>3
<1>10. ASSUME NEW t \in Threads, TimedOut(t) PROVE AwakeInv'
  <2>1. /\ t \notin Readers /\ Return(t, "refused") /\ mCanRead' \subseteq mCanRead
        /\ mCanWrite' \subseteq mCanWrite /\ UNCHANGED <<mCount, mStopped>>
    BY <1>10, SignalledFacts DEF TimedOut, Readers, Ready
  <2> QED
    BY <2>1, ReturnReaders, MoreReaders
<1>11. ASSUME NEW t \in Threads, EmptyDone(t) PROVE AwakeInv'
  <2>1. t \notin Readers /\ Return(t, "empty") /\ UNCHANGED <<mCanRead, mCanWrite, mCount, mStopped>>
    BY <1>11 DEF EmptyDone, Readers, Ready
  <2> QED
    BY <2>1, ReturnReaders, MoreReaders
<1>12. ASSUME NEW t \in Threads, WakeUp(t) PROVE AwakeInv'
  <2>1. Readers \subseteq Readers'
    BY <1>12 DEF WakeUp, Readers, Ready
  <2> QED
    BY <1>12, <2>1, MoreReaders DEF WakeUp
<1> QED
  BY <1>1, <1>2, <1>3, <1>4, <1>5, <1>6, <1>7, <1>8, <1>9, <1>10, <1>11, <1>12 DEF Next, Step

\* No wake-up of a receiver is lost: one signal for each message (afterWrite)
\* is enough, even with timeouts, failed calls and spurious wake-ups.
THEOREM NoLostReader == Spec => []ReadersAwake
<1>1. Init => AwakeInv
  BY DEF Init, AwakeInv, ReadersAwake
<1>2. AwakeInv => ReadersAwake
  BY DEF AwakeInv
<1> QED
  BY <1>1, <1>2, AwakeStep, ChannelTypeCorrect, PTL DEF Spec

-----------------------------------------------------------------------------
(* No sender sleeps while there is a slot nobody is awake for.              *)

\* Nobody waits for an empty channel, and stopping it has woken all senders.
WriteInv ==
    /\ WritersAwake
    /\ mStopped => mCanWrite = {}
    /\ \A t \in Threads : call[t].op # "waitForEmpty"

\* The awake senders are finitely many.
LEMMA WritersFinite == IsFiniteSet(Writers) /\ IsFiniteSet(Writers')
  <1>1. Writers \subseteq Threads /\ Writers' \subseteq Threads
    BY DEF Writers
  <1> QED
    BY <1>1, ChannelAssumption, FS_Subset

\* No thread begins to wait for an empty channel.
LEMMA NoEmptyWaits ==
  ASSUME TypeOK, "waitForEmpty" \notin Ops, [Next]_vars,
         \A t \in Threads : call[t].op # "waitForEmpty"
  PROVE  \A t \in Threads : call'[t].op # "waitForEmpty"
<1>0. NoCall.op = "none" /\ DOMAIN call = Threads
  BY DEF NoCall, TypeOK
<1>1. CASE UNCHANGED call
  BY <1>1
<1>2. ASSUME NEW t \in Threads, NEW r, Return(t, r)
      PROVE  \A u \in Threads : call'[u].op # "waitForEmpty"
  BY <1>0, <1>2 DEF Return
<1>3. ASSUME NEW t \in Threads, NEW op \in Ops, NEW m, Call(t, op, m)
      PROVE  \A u \in Threads : call'[u].op # "waitForEmpty"
  BY <1>0, <1>3 DEF Call
<1> QED
  BY <1>1, <1>2, <1>3 DEF Next, Step, Stop, SendWait, Write, WriteFails, ReceiveWait, Read, ReadFails,
     TimedOut, EmptyWait, EmptyDone, WakeUp, vars

\* A step that puts no awake sender to sleep or to rest, and frees no slot.
LEMMA MoreWriters ==
  ASSUME TypeOK, WritersAwake, Writers \subseteq Writers', mCount' = mCount, mCanWrite' \subseteq mCanWrite
  PROVE  WritersAwake'
  <1>1. Cardinality(Writers) <= Cardinality(Writers') /\ Cardinality(Writers) \in Nat
        /\ Cardinality(Writers') \in Nat
    BY WritersFinite, FS_Subset, FS_CardinalityType
  <1> QED
    BY <1>1, ChannelAssumption DEF WritersAwake, TypeOK

\* A call that is not a send returns without touching the senders.
LEMMA ReturnWriters ==
  ASSUME TypeOK, NEW t \in Threads, NEW r, Return(t, r),
         mCanRead' \subseteq mCanRead, mCanWrite' \subseteq mCanWrite
  PROVE  Writers \ {t} \subseteq Writers'
  <1>1. \A u \in Threads \ {t} : call'[u] = call[u]
    BY DEF Return, TypeOK
  <1> QED
    BY <1>1 DEF Writers, Ready

\* Every step keeps the senders awake.
LEMMA WritersStep ==
  ASSUME TypeOK, WriteInv, [Next]_vars
  PROVE  WritersAwake' /\ (mStopped' => mCanWrite' = {})
<1> USE DEF ring, cvs
<1> DEFINE Goal == WritersAwake' /\ (mStopped' => mCanWrite' = {})
<1> SUFFICES Goal
  OBVIOUS
<1>c. Cardinality(Writers) \in Nat /\ Cardinality(Writers') \in Nat
  BY WritersFinite, FS_CardinalityType
<1>n. NoCall.op = "none" /\ mCount \in Nat /\ mCount <= Capacity /\ Capacity \in Nat
  BY ChannelAssumption DEF NoCall, TypeOK
<1>k. ASSUME Writers \subseteq Writers', mCount' = mCount, mCanWrite' \subseteq mCanWrite, mStopped' = mStopped
      PROVE  Goal
  <2>1. WritersAwake'
    BY <1>k, MoreWriters DEF WriteInv
  <2> QED
    BY <1>k, <2>1 DEF WriteInv
<1> HIDE DEF Goal
<1>r. ASSUME NEW t \in Threads, t \notin Writers, NEW r, Return(t, r), mCount' = mCount, mStopped' = mStopped,
             mCanRead' \subseteq mCanRead, mCanWrite' \subseteq mCanWrite
      PROVE  Goal
  <2>1. Writers \ {t} \subseteq Writers'
    BY <1>r, ReturnWriters
  <2> QED
    BY <1>k, <1>r, <2>1
<1>1. CASE UNCHANGED vars
  BY <1>1, <1>k DEF vars, Writers, Ready
<1>2. CASE Stop
  BY <1>2 DEF Stop, WritersAwake, Goal
<1>3. ASSUME NEW t \in Threads, NEW op \in Ops, NEW m \in Messages \cup {NoMessage}, Call(t, op, m)
      PROVE  Goal
  <2>1. t \notin Writers
    BY <1>3, <1>n DEF Call, Writers, Ready
  <2>2. \A u \in Threads \ {t} : call'[u] = call[u]
    BY <1>3 DEF Call, TypeOK
  <2>3. Writers \subseteq Writers'
    BY <1>3, <2>1, <2>2 DEF Call, Writers, Ready
  <2> QED
    BY <1>3, <1>k, <2>3 DEF Call
<1>4. ASSUME NEW t \in Threads, SendWait(t) PROVE Goal
  BY <1>4, <1>c, <1>n DEF SendWait, WritersAwake, Goal
<1>5. ASSUME NEW t \in Threads, ReceiveWait(t) PROVE Goal
  <2>1. Writers \subseteq Writers'
    BY <1>5 DEF ReceiveWait, Writers, Ready
  <2> QED
    BY <1>5, <1>k, <2>1 DEF ReceiveWait
<1>6. ASSUME NEW t \in Threads, EmptyWait(t) \/ EmptyDone(t) PROVE Goal
  BY <1>6 DEF EmptyWait, EmptyDone, Ready, WriteInv
<1>7. ASSUME NEW t \in Threads, Write(t) PROVE Goal
  <2>1. /\ mCount' = mCount + 1 /\ ~ mStopped /\ mStopped' = mStopped
        /\ mCanWrite' = mCanWrite /\ mCanRead' \subseteq mCanRead /\ Return(t, "sent")
    BY <1>7, SignalledFacts DEF Write
  <2>2. Writers \ {t} \subseteq Writers'
    BY <2>1, ReturnWriters
  <2>3. Cardinality(Writers \ {t}) <= Cardinality(Writers')
    BY <2>2, WritersFinite, FS_Subset
  <2>4. Cardinality(Writers \ {t}) >= Cardinality(Writers) - 1 /\ Cardinality(Writers \ {t}) \in Nat
    <3>1. /\ IsFiniteSet(Writers \ {t})
          /\ Cardinality(Writers \ {t}) =
                IF t \in Writers THEN Cardinality(Writers) - 1 ELSE Cardinality(Writers)
      BY WritersFinite, FS_RemoveElement
    <3>2. Cardinality(Writers \ {t}) \in Nat
      BY <3>1, FS_CardinalityType
    <3> QED
      BY <1>c, <3>1, <3>2
  <2> QED
    BY <1>c, <1>n, <2>1, <2>3, <2>4 DEF WriteInv, WritersAwake, Goal
<1>8. ASSUME NEW t \in Threads, Read(t) PROVE Goal
  <2>1. /\ t \notin Writers /\ t \notin mCanWrite /\ Return(t, mItems[mPos]) /\ mCanRead' = mCanRead
        /\ mCount' = mCount - 1 /\ ~ mStopped /\ mStopped' = mStopped
    BY <1>8 DEF Read, Writers, Ready
  <2>2. SUFFICES ASSUME mCanWrite' # {} PROVE Cardinality(Writers') >= Capacity - mCount'
    BY <2>1 DEF WritersAwake, Goal
  <2>3. mCanWrite # {} /\ mCanWrite' \subseteq mCanWrite
    BY <1>8, <2>2, SignalledFacts DEF Read
  <2>4. PICK u \in mCanWrite : mCanWrite' = mCanWrite \ {u}
    BY <1>8, <2>3, SignalledFacts DEF Read
  <2>5. u \in Writers' /\ u \notin Writers
    <3>1. u \in Threads /\ u # t /\ call[u].op = "send"
      BY <2>1, <2>4 DEF TypeOK, WriteInv
    <3>2. call'[u] = call[u] /\ u \notin mCanRead
      BY <2>1, <3>1 DEF Return, TypeOK
    <3> QED
      BY <2>1, <2>4, <3>1, <3>2 DEF Writers, Ready
  <2>6. Writers \ {t} \subseteq Writers'
    BY <2>1, <2>3, ReturnWriters
  <2>7. Writers \cup {u} \subseteq Writers'
    BY <2>1, <2>5, <2>6
  <2>8. Cardinality(Writers \cup {u}) = Cardinality(Writers) + 1
    BY <2>5, WritersFinite, FS_AddElement
  <2>9. Cardinality(Writers \cup {u}) <= Cardinality(Writers')
    BY <2>7, WritersFinite, FS_Subset
  <2>10. Cardinality(Writers) >= Capacity - mCount
    BY <2>3 DEF WriteInv, WritersAwake
  <2> QED
    BY <1>c, <1>n, <2>1, <2>8, <2>9, <2>10
<1>9. ASSUME NEW t \in Threads, WriteFails(t) PROVE Goal
  <2>1. /\ Return(t, "refused") /\ mCanRead' \subseteq mCanRead
        /\ UNCHANGED <<mCanWrite, mCount, mStopped>>
    BY <1>9, SignalledFacts DEF WriteFails
  <2>2. CASE mStopped
    BY <2>1, <2>2 DEF WriteInv, WritersAwake, Goal
  <2>3. CASE ~ mStopped
    <3>1. t \notin Writers
      BY <1>9, <2>3 DEF WriteFails, Writers, Ready
    <3> QED
      BY <1>r, <2>1, <3>1
  <2> QED
    BY <2>2, <2>3
<1>10. ASSUME NEW t \in Threads, ReadFails(t) \/ TimedOut(t) PROVE Goal
  <2>1. /\ t \notin Writers /\ Return(t, "refused") /\ mCanWrite' \subseteq mCanWrite
        /\ mCanRead' \subseteq mCanRead /\ UNCHANGED <<mCount, mStopped>>
    BY <1>10, SignalledFacts DEF ReadFails, TimedOut, Writers, Ready
  <2> QED
    BY <1>r, <2>1
<1>11. ASSUME NEW t \in Threads, WakeUp(t) PROVE Goal
  <2>1. Writers \subseteq Writers'
    BY <1>11 DEF WakeUp, Writers, Ready
  <2> QED
    BY <1>11, <1>k, <2>1 DEF WakeUp
<1> QED
  BY <1>1, <1>2, <1>3, <1>4, <1>5, <1>6, <1>7, <1>8, <1>9, <1>10, <1>11 DEF Next, Step

\* No wake-up of a sender is lost either, as long as nobody calls waitForEmpty: that
\* waits on the senders' condition variable and does not pass a signal on.
THEOREM NoLostWriter ==
  ASSUME "waitForEmpty" \notin Ops
  PROVE  Spec => []WritersAwake
<1>1. Init => WriteInv
  BY DEF Init, WriteInv, WritersAwake, NoCall
<1>2. TypeOK /\ WriteInv /\ [Next]_vars => WriteInv'
  BY WritersStep, NoEmptyWaits DEF WriteInv
<1>3. WriteInv => WritersAwake
  BY DEF WriteInv
<1> QED
  BY <1>1, <1>2, <1>3, ChannelTypeCorrect, PTL DEF Spec

=============================================================================
