------------------------------ MODULE WorkerProofs ------------------------------
(***************************************************************************)
(* What WorkerThread's queue and sync points guarantee its users, whatever *)
(* items they put there.  A user module knows which of its callers may     *)
(* still have commands with the worker, and which of them wait at a sync   *)
(* point; the lemmas say how those sets follow the queue.                  *)
(***************************************************************************)
EXTENDS WorkerThread, SequenceTheorems, TLAPS

\* All commands the worker has yet to process, in order.
Line == todo \o mQueue

\* Of the commands in L, those of the callers in H, a sync point is the last of its
\* caller and belongs to one in S; a caller that was signaled has none left.
Ordered(L, sg, H, S) ==
    /\ \A c \in S : c \in H
    /\ \A c \in Callers : sg[c] => c \in S /\ \A i \in 1..Len(L) : L[i].by # c
    /\ \A i, j \in 1..Len(L) : i < j /\ L[i].by = L[j].by => L[i].op # Sync
    /\ \A i \in 1..Len(L) : L[i].op = Sync => L[i].by \in S /\ ~sg[L[i].by]
    /\ \A i \in 1..Len(L) : L[i].by \in Callers => L[i].by \in H

-----------------------------------------------------------------------------
(* What the steps of WorkerThread do to the line of commands.               *)

\* A command is put at the end.
LEMMA LineEnqueue ==
  ASSUME NEW C, todo \in Seq(C), mQueue \in Seq(C), NEW x \in C, enqueueImpl(x)
  PROVE  Line \in Seq(C) /\ Line' = Append(Line, x)
BY DEF enqueueImpl, Line

\* Taking the queue changes nothing.
LEMMA LineTake ==
  ASSUME NEW C, todo \in Seq(C), mQueue \in Seq(C), Take
  PROVE  Line' = Line
BY DEF Take, Line, Idle

\* A command that was processed was the first.
LEMMA LineProcessed ==
  ASSUME NEW C, todo \in Seq(C), mQueue \in Seq(C), todo # <<>>,
         todo' = Tail(todo), mQueue' = mQueue
  PROVE  /\ Line \in Seq(C) /\ Line # <<>> /\ Head(Line) = Head(todo) /\ Line' = Tail(Line)
BY DEF Line

\* The commands in the worker's hands, as a set.
LEMMA LineItems ==
  ASSUME NEW C, todo \in Seq(C), mQueue \in Seq(C)
  PROVE  /\ Line \in Seq(C)
         /\ \A x : x \in {mQueue[i] : i \in DOMAIN mQueue} \cup {todo[i] : i \in DOMAIN todo}
                   <=> \E i \in 1..Len(Line) : x = Line[i]
<1> DEFINE k == Len(todo)
           n == Len(mQueue)
<1>1. k \in Nat /\ n \in Nat /\ Len(Line) = k + n /\ DOMAIN todo = 1..k /\ DOMAIN mQueue = 1..n
  BY DEF Line
<1>2. \A i \in 1..k : Line[i] = todo[i]
  BY DEF Line
<1>3. \A i \in 1..n : Line[k + i] = mQueue[i]
  BY DEF Line
<1>4. Line \in Seq(C)
  BY DEF Line
<1> HIDE DEF k, n
<1>5. \A i \in 1..Len(Line) : i \in 1..k \/ (i - k \in 1..n /\ k + (i - k) = i)
  BY <1>1
<1>6. \A i \in 1..n : k + i \in 1..Len(Line)
  BY <1>1
<1>7. \A i \in 1..k : i \in 1..Len(Line)
  BY <1>1
<1>8. ASSUME NEW i \in 1..Len(Line)
      PROVE  Line[i] \in {mQueue[j] : j \in DOMAIN mQueue} \cup {todo[j] : j \in DOMAIN todo}
  <2>1. CASE i \in 1..k
    BY <1>1, <1>2, <2>1
  <2>2. CASE i - k \in 1..n /\ k + (i - k) = i
    BY <1>1, <1>3, <2>2
  <2> QED
    BY <1>5, <2>1, <2>2
<1>9. ASSUME NEW i \in DOMAIN mQueue PROVE \E j \in 1..Len(Line) : mQueue[i] = Line[j]
  BY <1>1, <1>3, <1>6
<1>10. ASSUME NEW i \in DOMAIN todo PROVE \E j \in 1..Len(Line) : todo[i] = Line[j]
  BY <1>1, <1>2, <1>7
<1>11. ASSUME NEW x, x \in {mQueue[i] : i \in DOMAIN mQueue} \cup {todo[i] : i \in DOMAIN todo}
       PROVE  \E i \in 1..Len(Line) : x = Line[i]
  <2>1. (\E i \in DOMAIN mQueue : x = mQueue[i]) \/ (\E i \in DOMAIN todo : x = todo[i])
    BY <1>11
  <2> QED
    BY <2>1, <1>9, <1>10
<1> QED
  BY <1>4, <1>8, <1>11

-----------------------------------------------------------------------------
(* What they do to its order.  sg stands for signaled.                      *)

\* The sets may grow as long as those that wait are among those that have commands.
LEMMA OrdShift ==
  ASSUME NEW L, NEW sg, NEW H, NEW S, Ordered(L, sg, H, S),
         NEW H2, NEW S2, H \subseteq H2, S \subseteq S2, S2 \subseteq H2
  PROVE  Ordered(L, sg, H2, S2)
BY DEF Ordered

\* A caller that does not wait puts a command at the end; at a sync point it waits.
LEMMA OrdAppend ==
  ASSUME NEW C, NEW L \in Seq(C), NEW x \in C, NEW sg, NEW H, NEW S, Ordered(L, sg, H, S),
         NEW H2, NEW S2, H \subseteq H2, S \subseteq S2, S2 \subseteq H2,
         S2 \subseteq S \cup {x.by}, x.by \notin S, x.by \in Callers => x.by \in H2,
         x.op = Sync => x.by \in Callers /\ x.by \in S2
  PROVE  Ordered(Append(L, x), sg, H2, S2)
<1> DEFINE M == Append(L, x)
           n == Len(L)
<1>1. /\ n \in Nat /\ Len(M) = n + 1 /\ M[n + 1] = x
      /\ \A i \in 1..n : M[i] = L[i]
  OBVIOUS
<1> HIDE DEF M, n
<1>2. \A i \in 1..Len(M) : i \in 1..n \/ i = n + 1
  BY <1>1
<1>3. /\ \A c \in S : c \in H
      /\ \A c \in Callers : sg[c] => c \in S /\ \A i \in 1..n : L[i].by # c
      /\ \A i, j \in 1..n : i < j /\ L[i].by = L[j].by => L[i].op # Sync
      /\ \A i \in 1..n : L[i].op = Sync => L[i].by \in S /\ ~sg[L[i].by]
      /\ \A i \in 1..n : L[i].by \in Callers => L[i].by \in H
  BY DEF Ordered, n
<1>4. x.by \in Callers => ~sg[x.by]
  BY <1>3
<1>5. \A c \in Callers : sg[c] => c \in S2 /\ \A i \in 1..Len(M) : M[i].by # c
  BY <1>1, <1>2, <1>3, <1>4
<1>6. \A i, j \in 1..Len(M) : i < j /\ M[i].by = M[j].by => M[i].op # Sync
  <2> SUFFICES ASSUME NEW i \in 1..Len(M), NEW j \in 1..Len(M), i < j, M[i].by = M[j].by
               PROVE  M[i].op # Sync
    OBVIOUS
  <2>1. i \in 1..n /\ M[i] = L[i]
    BY <1>1
  <2>2. CASE j \in 1..n
    BY <1>1, <1>3, <2>1, <2>2
  <2>3. CASE j = n + 1
    BY <1>1, <1>3, <2>1, <2>3
  <2> QED
    BY <1>2, <2>2, <2>3
<1>7. \A i \in 1..Len(M) : M[i].op = Sync => M[i].by \in S2 /\ ~sg[M[i].by]
  BY <1>1, <1>2, <1>3, <1>4
<1>8. \A i \in 1..Len(M) : M[i].by \in Callers => M[i].by \in H2
  BY <1>1, <1>2, <1>3
<1>9. Ordered(M, sg, H2, S2)
  BY <1>5, <1>6, <1>7, <1>8 DEF Ordered
<1> QED
  BY <1>9 DEF M

\* The first command is processed.
LEMMA OrdTail ==
  ASSUME NEW C, NEW L \in Seq(C), L # <<>>, NEW sg, NEW H, NEW S, Ordered(L, sg, H, S)
  PROVE  Ordered(Tail(L), sg, H, S)
<1> DEFINE M == Tail(L)
<1>1. Len(L) \in Nat /\ Len(M) \in Nat /\ Len(M) = Len(L) - 1
  OBVIOUS
<1>2. \A i \in 1..Len(M) : M[i] = L[i + 1]
  OBVIOUS
<1> HIDE DEF M
<1>3. \A i \in 1..Len(M) : i + 1 \in 1..Len(L)
  BY <1>1
<1>4. \A i, j \in 1..Len(M) : i < j => i + 1 < j + 1
  BY <1>1
<1>5. \A c \in Callers : sg[c] => c \in S /\ \A i \in 1..Len(M) : M[i].by # c
  BY <1>2, <1>3 DEF Ordered
<1>6. \A i, j \in 1..Len(M) : i < j /\ M[i].by = M[j].by => M[i].op # Sync
  BY <1>2, <1>3, <1>4 DEF Ordered
<1>7. \A i \in 1..Len(M) :
        /\ M[i].op = Sync => M[i].by \in S /\ ~sg[M[i].by]
        /\ M[i].by \in Callers => M[i].by \in H
  BY <1>2, <1>3 DEF Ordered
<1>8. Ordered(M, sg, H, S)
  BY <1>5, <1>6, <1>7 DEF Ordered
<1> QED
  BY <1>8 DEF M

\* The first command is a sync point, and its caller is signaled.
LEMMA OrdSignal ==
  ASSUME NEW C, NEW L \in Seq(C), L # <<>>, NEW sg, DOMAIN sg = Callers, NEW H, NEW S,
         Ordered(L, sg, H, S), Head(L).op = Sync,
         NEW sg2, sg2 = [sg EXCEPT ![Head(L).by] = TRUE]
  PROVE  Ordered(Tail(L), sg2, H, S)
<1> DEFINE M == Tail(L)
           b == Head(L).by
<1>1. Len(L) \in Nat /\ Len(M) \in Nat /\ Len(M) = Len(L) - 1 /\ 1 \in 1..Len(L)
  OBVIOUS
<1>2. \A i \in 1..Len(M) : M[i] = L[i + 1]
  OBVIOUS
<1>3. L[1].by = b /\ L[1].op = Sync
  OBVIOUS
<1>0. Ordered(M, sg, H, S)
  BY OrdTail
<1> HIDE DEF M, b
<1>4. \A i \in 1..Len(M) : i + 1 \in 1..Len(L) /\ 1 < i + 1
  BY <1>1
<1>5. b \in S /\ \A i \in 1..Len(M) : M[i].by # b
  BY <1>1, <1>2, <1>3, <1>4 DEF Ordered
<1>6. \A c : c # b => sg2[c] = sg[c] \/ c \notin Callers
  BY DEF b
<1>7. \A c \in Callers : sg2[c] => c \in S /\ \A i \in 1..Len(M) : M[i].by # c
  BY <1>0, <1>5, <1>6 DEF Ordered
<1>8. \A i \in 1..Len(M) : M[i].op = Sync => M[i].by \in S /\ ~sg2[M[i].by]
  BY <1>0, <1>5 DEF Ordered, b
<1>9. Ordered(M, sg2, H, S)
  BY <1>0, <1>7, <1>8 DEF Ordered
<1> QED
  BY <1>9 DEF M

\* A caller that was signaled goes on: none of its commands is left.
LEMMA OrdRelease ==
  ASSUME NEW L, NEW sg, DOMAIN sg = Callers, NEW H, NEW S, Ordered(L, sg, H, S),
         NEW c \in Callers, sg[c], NEW sg2, sg2 = [sg EXCEPT ![c] = FALSE]
  PROVE  /\ Ordered(L, sg2, H \ {c}, S \ {c})
         /\ \A i \in 1..Len(L) : L[i].by # c
<1>1. \A i \in 1..Len(L) : L[i].by # c
  BY DEF Ordered
<1>2. ~sg2[c] /\ \A d : d # c => sg2[d] = sg[d] \/ d \notin Callers
  OBVIOUS
<1>3. \A d \in Callers : sg2[d] => d \in S \ {c} /\ \A i \in 1..Len(L) : L[i].by # d
  BY <1>2 DEF Ordered
<1>4. \A i \in 1..Len(L) : L[i].op = Sync => L[i].by \in S \ {c} /\ ~sg2[L[i].by]
  BY <1>1 DEF Ordered
<1>5. Ordered(L, sg2, H \ {c}, S \ {c})
  BY <1>1, <1>3, <1>4 DEF Ordered
<1> QED
  BY <1>1, <1>5

\* What was taken is forgotten.
LEMMA OrdSuffix ==
  ASSUME NEW C, NEW K \in Seq(C), NEW L \in Seq(C), NEW sg, NEW H, NEW S,
         Ordered(K \o L, sg, H, S)
  PROVE  Ordered(L, sg, H, S)
<1> DEFINE M == K \o L
           k == Len(K)
<1>1. k \in Nat /\ Len(L) \in Nat /\ Len(M) = k + Len(L)
  OBVIOUS
<1>2. \A i \in 1..Len(L) : M[k + i] = L[i]
  OBVIOUS
<1>0. Ordered(M, sg, H, S)
  OBVIOUS
<1> HIDE DEF M, k
<1>3. \A i \in 1..Len(L) : k + i \in 1..Len(M)
  BY <1>1
<1>4. \A i, j \in 1..Len(L) : i < j => k + i < k + j
  BY <1>1
<1>5. \A c \in Callers : sg[c] => c \in S /\ \A i \in 1..Len(L) : L[i].by # c
  BY <1>0, <1>2, <1>3 DEF Ordered
<1>6. \A i, j \in 1..Len(L) : i < j /\ L[i].by = L[j].by => L[i].op # Sync
  BY <1>0, <1>2, <1>3, <1>4 DEF Ordered
<1>7. \A i \in 1..Len(L) :
        /\ L[i].op = Sync => L[i].by \in S /\ ~sg[L[i].by]
        /\ L[i].by \in Callers => L[i].by \in H
  BY <1>0, <1>2, <1>3 DEF Ordered
<1> QED
  BY <1>0, <1>5, <1>6, <1>7 DEF Ordered

\* Whatever the thread does, it keeps the order.
LEMMA OrdWorker ==
  ASSUME NEW C, todo \in Seq(C), mQueue \in Seq(C), DOMAIN signaled = Callers,
         NEW H, NEW S, Ordered(Line, signaled, H, S),
         \/ UNCHANGED workerVars \/ Sleep \/ WakeUp \/ Take \/ Signal
         \/ todo # <<>> /\ Processed
         \/ Stopped
  PROVE  Ordered(Line', signaled', H, S)
<1>1. CASE UNCHANGED workerVars \/ Sleep \/ WakeUp
  <2>1. Line' = Line /\ signaled' = signaled
    BY <1>1 DEF Line, workerVars, Sleep, WakeUp
  <2> QED
    BY <2>1
<1>2. CASE Take
  <2>1. Line' = Line /\ signaled' = signaled
    BY <1>2, LineTake DEF Take
  <2> QED
    BY <2>1
<1>3. CASE todo # <<>> /\ Processed
  <2>1. Line \in Seq(C) /\ Line # <<>> /\ Line' = Tail(Line)
    BY <1>3, LineProcessed DEF Processed
  <2>2. signaled' = signaled
    BY <1>3 DEF Processed
  <2> QED
    BY <2>1, <2>2, OrdTail
<1>4. CASE Signal
  <2>1. /\ todo # <<>> /\ Head(todo).op = Sync /\ todo' = Tail(todo) /\ mQueue' = mQueue
        /\ signaled' = [signaled EXCEPT ![Head(todo).by] = TRUE]
    BY <1>4 DEF Signal, At
  <2>2. Line \in Seq(C) /\ Line # <<>> /\ Head(Line) = Head(todo) /\ Line' = Tail(Line)
    BY <2>1, LineProcessed
  <2> QED
    BY <2>1, <2>2, OrdSignal
<1>5. CASE Stopped
  <2>1. Line' = mQueue /\ signaled' = signaled
    BY <1>5 DEF Stopped, Line
  <2> QED
    BY <2>1, OrdSuffix DEF Line
<1> QED
  BY <1>1, <1>2, <1>3, <1>4, <1>5

=============================================================================
