------------------------------ MODULE FenceProofs ------------------------------
(***************************************************************************)
(* Proofs about FenceSync, for any set of addresses, any number of         *)
(* outstanding fences, any number of blocked callers and any order in      *)
(* which the device asks: the counts are exact, what the render thread or  *)
(* the timeline refers to exists, and there is a reply for every caller.   *)
(* For a device that asks in the order of creation, a native fence is      *)
(* still in the timeline when it is asked for, and there while it is       *)
(* waited on.                                                              *)
(***************************************************************************)
EXTENDS FenceSync, SequenceTheorems, FiniteSetTheorems, TLAPS

\* Where the threads can be, and with what.
ThreadInv ==
    /\ render.at \in {"idle", "waiting", "decrement", "last", "zero"}
    /\ render.at # "idle" => render.fence \in Fences
    /\ sync.at = "idle" => sync.op = "none"
    /\ sync.at \in {"found", "waiting", "done"} => sync.op \in {"Wait", "Blocked"}
    /\ sync.at \in {"decrement", "last", "zero"} =>
          sync.op \in {"Wait", "Blocked", "Sweep", "Signaled"}
    /\ sync.at \in {"found", "waiting", "decrement", "last", "zero", "flag"} =>
          sync.fence \in Fences
    /\ sync.at = "sweep" => sync.op = "Sweep" /\ sync.fence = None
    /\ sync.at = "flag" => sync.op = "Sweep"

\* What the sweep relies on: the entries it has still to visit are entries of the
\* timeline, the one it is at is no longer among them, and a fence that is destroyed
\* when signaled has its first reference until the sweep takes it.
SweepInv ==
    /\ sweeping \subseteq mFences
    /\ InSweep /\ sync.at # "sweep" => sync.fence \in mFences /\ sync.fence \notin sweeping
    /\ \A f \in mFences : Live(f) /\ fence[f].destroyWhenSignaled =>
           fence[f].first \/ (sync.op = "Signaled" /\ sync.fence = f)

\* Who refers to a fence that is there, and what a decRef can rely on between its
\* steps.  Once the render thread has found itself the last, the sync thread may still
\* take a reference; once the sync thread has, nobody can.
RefInv ==
    /\ \A f \in Fences : Refers(render, f) => Live(f)
    /\ \A f \in Fences : TimelineHolds(f) => Live(f)
    /\ ~crashed => \A f \in Fences : Refers(sync, f) => Live(f)
    /\ render.at = "last" => ~fence[render.fence].first /\ ~TimelineHolds(render.fence)
    /\ sync.at = "last" /\ ~crashed =>
           /\ ~fence[sync.fence].first /\ ~TimelineHolds(sync.fence)
           /\ ~Refers(render, sync.fence)
    /\ \A f \in Fences : AtZero(render, f) \/ AtZero(sync, f) =>
           Live(f) /\ fence[f].count = 0
    /\ \A f \in Fences : Live(f) /\ fence[f].count = 0 =>
           AtZero(sync, f) \/ AtZero(render, f)
    /\ \A f \in Fences : ~(AtZero(render, f) /\ AtZero(sync, f))

\* The inductive invariant.
FenceInv == TypeOK /\ ThreadInv /\ SweepInv /\ CountExact /\ RefInv

-----------------------------------------------------------------------------
(* What the operations on counts do to one fence.                           *)

\* The null pointer is no fence.
LEMMA NoneNoObject == None \notin Object
BY FenceAssumption DEF Object

\* Any other fence is left alone, and the table keeps its type.
LEMMA Incrementing ==
  ASSUME TypeOK, NEW g \in Fences, Live(g), fence' = Incremented(g)
  PROVE  /\ fence' \in [Fences -> Object \cup {None}]
         /\ \A f \in Fences : f # g => fence'[f] = fence[f]
         /\ fence'[g] # None /\ fence'[g].count = fence[g].count + 1
         /\ fence'[g].first = fence[g].first
         /\ fence'[g].destroyWhenSignaled = fence[g].destroyWhenSignaled
<1>1. fence[g] \in Object
  BY DEF TypeOK, Live
<1>2. [fence[g] EXCEPT !.count = @ + 1] \in Object
  BY <1>1 DEF Object
<1>3. None \notin Object
  BY NoneNoObject
<1> QED
  BY <1>1, <1>2, <1>3 DEF TypeOK, Incremented, Object

\* The same for a decrement of a count that is not 0 ...
LEMMA Decrementing ==
  ASSUME TypeOK, NEW g \in Fences, Live(g), fence[g].count # 0, fence' = Decremented(g)
  PROVE  /\ fence' \in [Fences -> Object \cup {None}]
         /\ \A f \in Fences : f # g => fence'[f] = fence[f]
         /\ fence'[g] # None /\ fence'[g].count = fence[g].count - 1
         /\ fence'[g].first = fence[g].first
         /\ fence'[g].destroyWhenSignaled = fence[g].destroyWhenSignaled
<1>1. fence[g] \in Object
  BY DEF TypeOK, Live
<1>2. [fence[g] EXCEPT !.count = @ - 1] \in Object
  BY <1>1 DEF Object
<1>3. None \notin Object
  BY NoneNoObject
<1> QED
  BY <1>1, <1>2, <1>3 DEF TypeOK, Decremented, Object

\* ... and for the first reference, which is about to be given back.
LEMMA DroppingFirst ==
  ASSUME TypeOK, NEW g \in Fences, Live(g), fence' = FirstDropped(g)
  PROVE  /\ fence' \in [Fences -> Object \cup {None}]
         /\ \A f \in Fences : f # g => fence'[f] = fence[f]
         /\ fence'[g] # None /\ fence'[g].count = fence[g].count
         /\ fence'[g].first = FALSE
         /\ fence'[g].destroyWhenSignaled = fence[g].destroyWhenSignaled
<1>1. fence[g] \in Object
  BY DEF TypeOK, Live
<1>2. [fence[g] EXCEPT !.first = FALSE] \in Object
  BY <1>1 DEF Object
<1>3. None \notin Object
  BY NoneNoObject
<1> QED
  BY <1>1, <1>2, <1>3 DEF TypeOK, FirstDropped, Object

\* A deleted fence is gone.
LEMMA Deleting ==
  ASSUME TypeOK, NEW g \in Fences, fence' = [fence EXCEPT ![g] = None]
  PROVE  /\ fence' \in [Fences -> Object \cup {None}]
         /\ \A f \in Fences : f # g => fence'[f] = fence[f]
         /\ fence'[g] = None
BY DEF TypeOK

\* An idle thread has nothing.
LEMMA Idling ==
  Idle \in Doings /\ Idle.at = "idle" /\ Idle.op = "none" /\ Idle.fence = None
BY DEF Idle, At, Doings, Labels

\* A thread in the sweep's loop is at no fence.
LEMMA Sweeping ==
  ToSweep \in Doings /\ ToSweep.at = "sweep" /\ ToSweep.op = "Sweep" /\ ToSweep.fence = None
BY DEF ToSweep, At, Doings, Labels

\* A count that is exact and of a fence somebody refers to is not 0.
LEMMA CountedNotZero ==
  ASSUME CountExact, NEW f \in Fences, Live(f), Refers(render, f) \/ Refers(sync, f)
  PROVE  fence[f].count # 0
BY DEF CountExact, Bit

-----------------------------------------------------------------------------
(* Counts.                                                                  *)

\* There are no fences at first.
LEMMA CountInit == Init => ThreadInv /\ SweepInv /\ CountExact /\ RefInv
BY Idling, FenceAssumption
   DEF Init, ThreadInv, SweepInv, CountExact, RefInv, Live, Refers, TimelineHolds,
       InSweep, AtZero

\* Steps that change neither a fence nor what anybody refers to.
LEMMA CountsKept ==
  ASSUME ThreadInv, SweepInv, CountExact, RefInv,
         UNCHANGED <<fence, mFences, sync, sweeping, render>>, crashed => crashed'
  PROVE  (ThreadInv /\ SweepInv /\ CountExact /\ RefInv)'
BY DEF ThreadInv, SweepInv, CountExact, RefInv, Live, Refers, TimelineHolds, InSweep,
       AtZero

\* Every step keeps the counts exact: one case for each action that touches a fence or
\* what somebody refers to.
LEMMA CountStep ==
  ASSUME FenceInv, [Next]_vars
  PROVE  (ThreadInv /\ SweepInv /\ CountExact /\ RefInv)'
<1> USE DEF timelineVars, deviceVars, channelVars
<1>t. TypeOK /\ ThreadInv /\ SweepInv /\ CountExact /\ RefInv
  BY DEF FenceInv
<1>o. \A f \in Fences : fence[f] # None =>
         /\ fence[f].count \in Nat /\ fence[f].first \in BOOLEAN
         /\ fence[f].destroyWhenSignaled \in BOOLEAN
  BY <1>t DEF TypeOK, Object
<1>d. sync \in Doings /\ render \in Doings /\ mFences \subseteq Fences /\ crashed \in BOOLEAN
  BY <1>t DEF TypeOK
<1>l. \A f : Tested(f) \in {"last", "decrement"} /\ (Tested(f) = "last" <=> fence[f].count = 1)
  BY DEF Tested
<1>1. CASE \/ UNCHANGED vars \/ TriggerWait \/ TriggerVulkan
           \/ \E b \in Blockers : Block(b) \/ GetReply(b)
  BY <1>1, <1>t, CountsKept
     DEF vars, TriggerWait, TriggerVulkan, Block, GetReply, WaitForGpu, WaitForGpuVulkan,
         SendBlocked
<1>c. CASE ~crashed /\ Crash
  BY <1>c, <1>t, CountsKept DEF Crash
<1>2. ASSUME ~crashed, NEW f \in Fences, NEW d \in BOOLEAN, CreateNative(f, d)
      PROVE  (ThreadInv /\ SweepInv /\ CountExact /\ RefInv)'
  <2>1. [count |-> 2, first |-> TRUE, destroyWhenSignaled |-> d] # None
    <3>1. [count |-> 2, first |-> TRUE, destroyWhenSignaled |-> d] \in Object
      BY DEF Object
    <3> QED
      BY <3>1, NoneNoObject
  <2>2. /\ fence'[f] # None /\ fence'[f].count = 2 /\ fence'[f].first = TRUE
        /\ \A g \in Fences : g # f => fence'[g] = fence[g]
    BY <1>2, <1>t, <2>1 DEF CreateNative, TypeOK
  <2>3. UNCHANGED <<sync, sweeping, render, crashed>> /\ mFences' = mFences \cup {f} /\ ~Live(f)
        /\ ~InSweep
    BY <1>2 DEF CreateNative, addFence
  <2>4. ~Refers(render, f) /\ ~Refers(sync, f) /\ ~TimelineHolds(f) /\ f \notin mFences
        /\ ~AtZero(render, f) /\ ~AtZero(sync, f)
    BY <1>2, <1>t, <2>3 DEF RefInv, TimelineHolds
  <2>6. ThreadInv'
    BY <1>2, <1>t, <1>o, <1>d, <2>2, <2>3, <2>4, FenceAssumption
       DEF ThreadInv
  <2>7. SweepInv'
    BY <1>2, <1>t, <1>o, <1>d, <2>2, <2>3, <2>4, FenceAssumption
       DEF SweepInv, ThreadInv, Live, Refers, TimelineHolds, InSweep, AtZero, Bit
  <2>8. CountExact'
    BY <1>2, <1>t, <1>o, <1>d, <2>2, <2>3, <2>4, FenceAssumption
       DEF CountExact, SweepInv, ThreadInv, Live, Refers, TimelineHolds, InSweep, AtZero, Bit
  <2>9. RefInv'
    BY <1>2, <1>t, <1>o, <1>d, <2>2, <2>3, <2>4, FenceAssumption
       DEF CountExact, RefInv, SweepInv, ThreadInv, Live, Refers, TimelineHolds, InSweep, AtZero, Bit
  <2> QED
    BY <2>6, <2>7, <2>8, <2>9
<1>3. ASSUME ~crashed, NEW f \in Fences, Create(f)
      PROVE  (ThreadInv /\ SweepInv /\ CountExact /\ RefInv)'
  <2>1. [count |-> 1, first |-> TRUE, destroyWhenSignaled |-> FALSE] # None
    <3>1. [count |-> 1, first |-> TRUE, destroyWhenSignaled |-> FALSE] \in Object
      BY DEF Object
    <3> QED
      BY <3>1, NoneNoObject
  <2>2. /\ fence'[f] # None /\ fence'[f].count = 1 /\ fence'[f].first = TRUE
        /\ fence'[f].destroyWhenSignaled = FALSE
        /\ \A g \in Fences : g # f => fence'[g] = fence[g]
    BY <1>3, <1>t, <2>1 DEF Create, TypeOK
  <2>3. UNCHANGED <<sync, sweeping, render, mFences, crashed>> /\ ~Live(f)
    BY <1>3 DEF Create
  <2>4. ~Refers(render, f) /\ ~Refers(sync, f) /\ ~TimelineHolds(f)
        /\ ~AtZero(render, f) /\ ~AtZero(sync, f)
    BY <1>3, <1>t, <2>3 DEF RefInv
  <2>6. ThreadInv'
    BY <1>3, <1>t, <1>o, <1>d, <2>2, <2>3, <2>4, FenceAssumption
       DEF ThreadInv
  <2>7. SweepInv'
    BY <1>3, <1>t, <1>o, <1>d, <2>2, <2>3, <2>4, FenceAssumption
       DEF SweepInv, ThreadInv, Live, Refers, TimelineHolds, InSweep, AtZero, Bit
  <2>8. CountExact'
    BY <1>3, <1>t, <1>o, <1>d, <2>2, <2>3, <2>4, FenceAssumption
       DEF CountExact, SweepInv, ThreadInv, Live, Refers, TimelineHolds, InSweep, AtZero, Bit
  <2>9. RefInv'
    BY <1>3, <1>t, <1>o, <1>d, <2>2, <2>3, <2>4, FenceAssumption
       DEF CountExact, RefInv, SweepInv, ThreadInv, Live, Refers, TimelineHolds, InSweep, AtZero, Bit
  <2> QED
    BY <2>6, <2>7, <2>8, <2>9
<1>4. ASSUME ~crashed, NEW f \in Fences, Destroy(f)
      PROVE  (ThreadInv /\ SweepInv /\ CountExact /\ RefInv)'
  <2>1. Live(f) /\ fence[f] # None /\ fence[f].first /\ ~fence[f].destroyWhenSignaled
        /\ render.at = "idle" /\ fence' = FirstDropped(f)
        /\ UNCHANGED <<sync, sweeping, mFences, crashed>>
    BY <1>4 DEF Destroy, Held, Live, Idles
  <2>2. /\ \A h \in Fences : h # f => fence'[h] = fence[h]
        /\ fence'[f] # None /\ fence'[f].count = fence[f].count /\ fence'[f].first = FALSE
        /\ fence'[f].destroyWhenSignaled = fence[f].destroyWhenSignaled
    BY <1>t, <2>1, DroppingFirst
  <2>3. /\ render'.at \in {"last", "decrement"} /\ render'.fence = f
        /\ render'.at = "last" <=> fence[f].count = 1
    BY <1>4, <1>l DEF Destroy, At
  <2>6. ThreadInv'
    BY <1>4, <1>t, <1>o, <1>d, <2>1, <2>2, <2>3, FenceAssumption
       DEF ThreadInv
  <2>7. SweepInv'
    BY <1>4, <1>t, <1>o, <1>d, <2>1, <2>2, <2>3, FenceAssumption
       DEF SweepInv, ThreadInv, Live, Refers, TimelineHolds, InSweep, AtZero, Bit
  <2>8. CountExact'
    BY <1>4, <1>t, <1>o, <1>d, <2>1, <2>2, <2>3, FenceAssumption
       DEF CountExact, SweepInv, ThreadInv, Live, Refers, TimelineHolds, InSweep, AtZero, Bit
  <2>9. RefInv'
    BY <1>4, <1>t, <1>o, <1>d, <2>1, <2>2, <2>3, FenceAssumption
       DEF CountExact, RefInv, SweepInv, ThreadInv, Live, Refers, TimelineHolds, InSweep, AtZero, Bit
  <2> QED
    BY <2>6, <2>7, <2>8, <2>9
<1>5. ASSUME ~crashed, NEW f \in Fences, ClientWait(f)
      PROVE  (ThreadInv /\ SweepInv /\ CountExact /\ RefInv)'
  <2>1. Live(f) /\ fence[f] # None /\ fence[f].first /\ render.at = "idle"
        /\ UNCHANGED <<sync, sweeping, mFences, crashed>>
        /\ render'.at = "waiting" /\ render'.fence = f
    BY <1>5 DEF ClientWait, Held, Live, Idles, At
  <2>2. /\ \A h \in Fences : h # f => fence'[h] = fence[h]
        /\ fence'[f] # None /\ fence'[f].count = fence[f].count + 1
        /\ fence'[f].first = fence[f].first
        /\ fence'[f].destroyWhenSignaled = fence[f].destroyWhenSignaled
    BY <1>5, <1>t, <2>1, Incrementing DEF ClientWait
  <2>6. ThreadInv'
    BY <1>t, <1>o, <1>d, <2>1, <2>2, FenceAssumption
       DEF ThreadInv
  <2>7. SweepInv'
    BY <1>t, <1>o, <1>d, <2>1, <2>2, FenceAssumption
       DEF SweepInv, ThreadInv, Live, Refers, TimelineHolds, InSweep, AtZero, Bit
  <2>3. ~Refers(render, f) /\ Refers(render, f)' /\ (Refers(sync, f)' <=> Refers(sync, f))
        /\ (TimelineHolds(f)' <=> TimelineHolds(f))
        /\ \A g \in Fences : g # f => ~Refers(render, g)' /\ ~Refers(render, g)
    BY <2>1 DEF Refers, TimelineHolds, InSweep
  <2>4. fence'[f].count = Bit(fence'[f].first) + Bit(TimelineHolds(f)')
                          + Bit(Refers(render, f)') + Bit(Refers(sync, f)')
    BY <1>t, <1>o, <2>1, <2>2, <2>3 DEF CountExact, Bit
  <2>5. ASSUME NEW g \in Fences, g # f, Live(g)'
        PROVE  fence'[g].count = Bit(fence'[g].first) + Bit(TimelineHolds(g)')
                                 + Bit(Refers(render, g)') + Bit(Refers(sync, g)')
    BY <1>t, <2>1, <2>2, <2>3, <2>5 DEF CountExact, Live, TimelineHolds, InSweep, Refers, Bit
  <2>8. CountExact'
    BY <2>4, <2>5 DEF CountExact
  <2>9. RefInv'
    BY <1>t, <1>o, <1>d, <2>1, <2>2, FenceAssumption
       DEF CountExact, RefInv, SweepInv, ThreadInv, Live, Refers, TimelineHolds, InSweep, AtZero, Bit
  <2> QED
    BY <2>6, <2>7, <2>8, <2>9
<1>6. ASSUME ~crashed, ClientWaited
      PROVE  (ThreadInv /\ SweepInv /\ CountExact /\ RefInv)'
  <2> DEFINE f == render.fence
  <2>1. f \in Fences /\ render.at = "waiting" /\ Live(f) /\ fence[f] # None
    BY <1>6, <1>t DEF ClientWaited, ThreadInv, RefInv, Refers, Live
  <2>2. /\ render'.at \in {"last", "decrement"} /\ render'.fence = f
        /\ render'.at = "last" <=> fence[f].count = 1
        /\ UNCHANGED <<fence, sync, sweeping, mFences, crashed>>
    BY <1>6, <1>l DEF ClientWaited, At
  <2>6. ThreadInv'
    BY <1>6, <1>t, <1>o, <1>d, <2>1, <2>2, FenceAssumption
       DEF ThreadInv
  <2>7. SweepInv'
    BY <1>6, <1>t, <1>o, <1>d, <2>1, <2>2, FenceAssumption
       DEF SweepInv, ThreadInv, Live, Refers, TimelineHolds, InSweep, AtZero, Bit
  <2>8. CountExact'
    BY <1>6, <1>t, <1>o, <1>d, <2>1, <2>2, FenceAssumption
       DEF CountExact, SweepInv, ThreadInv, Live, Refers, TimelineHolds, InSweep, AtZero, Bit
  <2>9. RefInv'
    BY <1>6, <1>t, <1>o, <1>d, <2>1, <2>2, FenceAssumption
       DEF CountExact, RefInv, SweepInv, ThreadInv, Live, Refers, TimelineHolds, InSweep, AtZero, Bit
  <2> QED
    BY <2>6, <2>7, <2>8, <2>9
<1>7. ASSUME ~crashed, RenderDecrement
      PROVE  (ThreadInv /\ SweepInv /\ CountExact /\ RefInv)'
  <2> DEFINE f == render.fence
  <2>1. f \in Fences /\ render.at = "decrement" /\ Live(f) /\ fence[f] # None
        /\ fence[f].count # 0
    BY <1>7, <1>t, CountedNotZero DEF RenderDecrement, ThreadInv, RefInv, Refers, Live
  <2>2. /\ \A h \in Fences : h # f => fence'[h] = fence[h]
        /\ fence'[f] # None /\ fence'[f].count = fence[f].count - 1
        /\ fence'[f].first = fence[f].first
        /\ fence'[f].destroyWhenSignaled = fence[f].destroyWhenSignaled
    BY <1>7, <1>t, <2>1, Decrementing DEF RenderDecrement
  <2>3. \/ fence[f].count = 1 /\ render'.at = "zero" /\ render'.fence = f
        \/ fence[f].count # 1 /\ render'.at = "idle"
    BY <1>7, <1>d, Idling DEF Doings, RenderDecrement, Dropped, Labels
  <2>4. UNCHANGED <<sync, sweeping, mFences, crashed>>
    BY <1>7 DEF RenderDecrement
  <2>6. ThreadInv'
    BY <1>7, <1>t, <1>o, <1>d, <2>1, <2>2, <2>3, <2>4, FenceAssumption
       DEF ThreadInv
  <2>7. SweepInv'
    BY <1>7, <1>t, <1>o, <1>d, <2>1, <2>2, <2>3, <2>4, FenceAssumption
       DEF SweepInv, ThreadInv, Live, Refers, TimelineHolds, InSweep, AtZero, Bit
  <2>8. CountExact'
    BY <1>7, <1>t, <1>o, <1>d, <2>1, <2>2, <2>3, <2>4, FenceAssumption
       DEF CountExact, SweepInv, ThreadInv, Live, Refers, TimelineHolds, InSweep, AtZero, Bit
  <2>9. RefInv'
    BY <1>7, <1>t, <1>o, <1>d, <2>1, <2>2, <2>3, <2>4, FenceAssumption
       DEF CountExact, RefInv, SweepInv, ThreadInv, Live, Refers, TimelineHolds, InSweep, AtZero, Bit
  <2> QED
    BY <2>6, <2>7, <2>8, <2>9
<1>8. ASSUME ~crashed, RenderDelete
      PROVE  (ThreadInv /\ SweepInv /\ CountExact /\ RefInv)'
  <2> DEFINE f == render.fence
  <2>1. f \in Fences /\ Live(f) /\ fence[f] # None /\ render.at \in {"last", "zero"}
    BY <1>8, <1>t DEF RenderDelete, ThreadInv, RefInv, Refers, AtZero, Live
  <2>2. /\ \A h \in Fences : h # f => fence'[h] = fence[h]
        /\ fence'[f] = None
    BY <1>8, <1>t, <2>1, Deleting DEF RenderDelete, Delete
  <2>3. /\ ~crashed' => fence[f].count = Bit(render.at = "last")
        /\ render'.at = "idle" /\ UNCHANGED <<sync, sweeping, mFences>>
    BY <1>8, Idling DEF RenderDelete, Delete
  <2>4. ~TimelineHolds(f) /\ ~AtZero(sync, f) /\ (~crashed' => ~Refers(sync, f))
    <3>1. CASE render.at = "last"
      BY <1>t, <1>o, <2>1, <2>3, <3>1 DEF RefInv, CountExact, Refers, AtZero, Bit
    <3>2. CASE render.at = "zero"
      BY <1>t, <1>o, <2>1, <2>3, <3>2 DEF RefInv, CountExact, Refers, AtZero, Bit
    <3> QED
      BY <2>1, <3>1, <3>2
  <2>6. ThreadInv'
    BY <1>8, <1>t, <1>o, <1>d, <2>1, <2>2, <2>3, <2>4, FenceAssumption
       DEF ThreadInv
  <2>7. SweepInv'
    BY <1>8, <1>t, <1>o, <1>d, <2>1, <2>2, <2>3, <2>4, FenceAssumption
       DEF SweepInv, ThreadInv, Live, Refers, TimelineHolds, InSweep, AtZero, Bit
  <2>8. CountExact'
    BY <1>8, <1>t, <1>o, <1>d, <2>1, <2>2, <2>3, <2>4, FenceAssumption
       DEF CountExact, SweepInv, ThreadInv, Live, Refers, TimelineHolds, InSweep, AtZero, Bit
  <2>9. RefInv'
    BY <1>8, <1>t, <1>o, <1>d, <2>1, <2>2, <2>3, <2>4, FenceAssumption
       DEF CountExact, RefInv, SweepInv, ThreadInv, Live, Refers, TimelineHolds, InSweep, AtZero, Bit
  <2> QED
    BY <2>6, <2>7, <2>8, <2>9
<1>9. ASSUME ~crashed, Receive
      PROVE  (ThreadInv /\ SweepInv /\ CountExact /\ RefInv)'
  <2>1. mInput # <<>> /\ Head(mInput) \in SyncCommands
    BY <1>9, <1>t DEF Receive, TypeOK
  <2>2. Head(mInput).op \in {"Wait", "Blocked"} /\ Head(mInput).fence \in Fences \cup {None}
    BY <2>1 DEF SyncCommands
  <2>3. /\ sync.at = "idle" /\ UNCHANGED <<fence, sweeping, mFences, render, crashed>>
        /\ \/ /\ sync'.at = "found" /\ sync'.op \in {"Wait", "Blocked"}
              /\ sync'.fence \in Fences
           \/ sync'.at = "done" /\ sync'.op \in {"Wait", "Blocked"}
           \/ sync'.at = "idle" /\ sync'.op = "none"
    BY <1>9, <2>2, Idling DEF Receive, Idles, At, Live
  <2>6. ThreadInv'
    BY <1>9, <1>t, <1>o, <1>d, <2>3, FenceAssumption
       DEF ThreadInv
  <2>7. SweepInv'
    BY <1>9, <1>t, <1>o, <1>d, <2>3, FenceAssumption
       DEF SweepInv, ThreadInv, Live, Refers, TimelineHolds, InSweep, AtZero, Bit
  <2>8. CountExact'
    BY <1>9, <1>t, <1>o, <1>d, <2>3, FenceAssumption
       DEF CountExact, SweepInv, ThreadInv, Live, Refers, TimelineHolds, InSweep, AtZero, Bit
  <2>9. RefInv'
    BY <1>9, <1>t, <1>o, <1>d, <2>3, FenceAssumption
       DEF CountExact, RefInv, SweepInv, ThreadInv, Live, Refers, TimelineHolds, InSweep, AtZero, Bit
  <2> QED
    BY <2>6, <2>7, <2>8, <2>9
<1>10. ASSUME ~crashed, BeginWait
       PROVE  (ThreadInv /\ SweepInv /\ CountExact /\ RefInv)'
  <2> DEFINE f == sync.fence
  <2>1. CASE ~(Live(f) /\ fence[f].count > 0)
    BY <1>10, <1>c, <2>1 DEF BeginWait
  <2>2. CASE Live(f) /\ fence[f].count > 0
    <3>1. f \in Fences /\ fence[f] # None /\ sync.at = "found" /\ sync.op \in {"Wait", "Blocked"}
      BY <1>10, <1>t, <2>2 DEF BeginWait, ThreadInv, Live
    <3>2. /\ sync'.at = "waiting" /\ sync'.fence = f /\ sync'.op = sync.op
          /\ UNCHANGED <<render, sweeping, mFences, crashed>> /\ fence' = Incremented(f)
      BY <1>10, <1>d, <2>2 DEF Doings, BeginWait, Labels
    <3>3. /\ \A h \in Fences : h # f => fence'[h] = fence[h]
          /\ fence'[f] # None /\ fence'[f].count = fence[f].count + 1
          /\ fence'[f].first = fence[f].first
          /\ fence'[f].destroyWhenSignaled = fence[f].destroyWhenSignaled
      BY <1>t, <2>2, <3>1, <3>2, Incrementing
    <3>6. ThreadInv'
      BY <1>10, <1>t, <1>o, <1>d, <2>2, <3>1, <3>2, <3>3, FenceAssumption
         DEF ThreadInv
    <3>7. SweepInv'
      BY <1>10, <1>t, <1>o, <1>d, <2>2, <3>1, <3>2, <3>3, FenceAssumption
         DEF SweepInv, ThreadInv, Live, Refers, TimelineHolds, InSweep, AtZero, Bit
    <3>8. CountExact'
      BY <1>10, <1>t, <1>o, <1>d, <2>2, <3>1, <3>2, <3>3, FenceAssumption
         DEF CountExact, SweepInv, ThreadInv, Live, Refers, TimelineHolds, InSweep, AtZero, Bit
    <3>9. RefInv'
      BY <1>10, <1>t, <1>o, <1>d, <2>2, <3>1, <3>2, <3>3, FenceAssumption
         DEF CountExact, RefInv, SweepInv, ThreadInv, Live, Refers, TimelineHolds, InSweep, AtZero, Bit
    <3> QED
      BY <3>6, <3>7, <3>8, <3>9
  <2> QED
    BY <2>1, <2>2
<1>11. ASSUME ~crashed, EndWait
       PROVE  (ThreadInv /\ SweepInv /\ CountExact /\ RefInv)'
  <2> DEFINE f == sync.fence
  <2>1. f \in Fences /\ sync.at = "waiting" /\ sync.op \in {"Wait", "Blocked"} /\ Live(f)
        /\ fence[f] # None
    BY <1>11, <1>t DEF EndWait, ThreadInv, RefInv, Refers, Live
  <2>2. /\ sync'.at \in {"last", "decrement"} /\ sync'.fence = f /\ sync'.op = sync.op
        /\ sync'.at = "last" <=> fence[f].count = 1
        /\ UNCHANGED <<fence, render, sweeping, mFences, crashed>>
    BY <1>11, <1>d, <1>l DEF Doings, EndWait, Labels
  <2>6. ThreadInv'
    BY <1>11, <1>t, <1>o, <1>d, <2>1, <2>2, FenceAssumption
       DEF ThreadInv
  <2>7. SweepInv'
    BY <1>11, <1>t, <1>o, <1>d, <2>1, <2>2, FenceAssumption
       DEF SweepInv, ThreadInv, Live, Refers, TimelineHolds, InSweep, AtZero, Bit
  <2>8. CountExact'
    BY <1>11, <1>t, <1>o, <1>d, <2>1, <2>2, FenceAssumption
       DEF CountExact, SweepInv, ThreadInv, Live, Refers, TimelineHolds, InSweep, AtZero, Bit
  <2>9. RefInv'
    BY <1>11, <1>t, <1>o, <1>d, <2>1, <2>2, FenceAssumption
       DEF CountExact, RefInv, SweepInv, ThreadInv, Live, Refers, TimelineHolds, InSweep, AtZero, Bit
  <2> QED
    BY <2>6, <2>7, <2>8, <2>9
<1>12. ASSUME ~crashed, SyncDecrement
       PROVE  (ThreadInv /\ SweepInv /\ CountExact /\ RefInv)'
  <2> DEFINE f == sync.fence
  <2>1. f \in Fences /\ sync.at = "decrement" /\ Live(f) /\ fence[f] # None
        /\ fence[f].count # 0 /\ sync.op \in {"Wait", "Blocked", "Sweep", "Signaled"}
    BY <1>12, <1>t, CountedNotZero DEF SyncDecrement, ThreadInv, RefInv, Refers, Live
  <2>2. /\ \A h \in Fences : h # f => fence'[h] = fence[h]
        /\ fence'[f] # None /\ fence'[f].count = fence[f].count - 1
        /\ fence'[f].first = fence[f].first
        /\ fence'[f].destroyWhenSignaled = fence[f].destroyWhenSignaled
    BY <1>12, <1>t, <2>1, Decrementing DEF SyncDecrement
  <2>3. UNCHANGED <<render, sweeping, crashed>>
    BY <1>12 DEF SyncDecrement
  <2>4. CASE fence[f].count = 1
    <3>1. sync'.at = "zero" /\ sync'.fence = f /\ sync'.op = sync.op /\ UNCHANGED mFences
      BY <1>12, <1>d, <2>4 DEF Doings, SyncDecrement, Dropped, Labels
    <3>6. ThreadInv'
      BY <1>12, <1>t, <1>o, <1>d, <2>1, <2>2, <2>3, <2>4, <3>1, FenceAssumption
         DEF ThreadInv
    <3>7. SweepInv'
      BY <1>12, <1>t, <1>o, <1>d, <2>1, <2>2, <2>3, <2>4, <3>1, FenceAssumption
         DEF SweepInv, ThreadInv, Live, Refers, TimelineHolds, InSweep, AtZero, Bit
    <3>8. CountExact'
      BY <1>12, <1>t, <1>o, <1>d, <2>1, <2>2, <2>3, <2>4, <3>1, FenceAssumption
         DEF CountExact, SweepInv, ThreadInv, Live, Refers, TimelineHolds, InSweep, AtZero, Bit
    <3>9. RefInv'
      BY <1>12, <1>t, <1>o, <1>d, <2>1, <2>2, <2>3, <2>4, <3>1, FenceAssumption
         DEF CountExact, RefInv, SweepInv, ThreadInv, Live, Refers, TimelineHolds, InSweep, AtZero, Bit
    <3> QED
      BY <3>6, <3>7, <3>8, <3>9
  <2>5. CASE fence[f].count # 1 /\ sync.op # "Signaled"
    <3>1. /\ sync'.fence = f /\ sync'.op = sync.op /\ UNCHANGED mFences
          /\ IF sync.op = "Sweep" THEN sync'.at = "flag" ELSE sync'.at = "done"
      BY <1>12, <1>d, <2>5 DEF Doings, SyncDecrement, Dropped, AfterDecRef, Labels
    <3>6. ThreadInv'
      BY <1>12, <1>t, <1>o, <1>d, <2>1, <2>2, <2>3, <2>5, <3>1, FenceAssumption
         DEF ThreadInv
    <3>7. SweepInv'
      BY <1>12, <1>t, <1>o, <1>d, <2>1, <2>2, <2>3, <2>5, <3>1, FenceAssumption
         DEF SweepInv, ThreadInv, Live, Refers, TimelineHolds, InSweep, AtZero, Bit
    <3>8. CountExact'
      BY <1>12, <1>t, <1>o, <1>d, <2>1, <2>2, <2>3, <2>5, <3>1, FenceAssumption
         DEF CountExact, SweepInv, ThreadInv, Live, Refers, TimelineHolds, InSweep, AtZero, Bit
    <3>9. RefInv'
      BY <1>12, <1>t, <1>o, <1>d, <2>1, <2>2, <2>3, <2>5, <3>1, FenceAssumption
         DEF CountExact, RefInv, SweepInv, ThreadInv, Live, Refers, TimelineHolds, InSweep, AtZero, Bit
    <3> QED
      BY <3>6, <3>7, <3>8, <3>9
  <2>6. CASE fence[f].count # 1 /\ sync.op = "Signaled"
    <3>1. /\ mFences' = mFences \ {f} /\ sync'.at = "sweep" /\ sync'.op = "Sweep"
          /\ sync'.fence = None
      BY <1>12, <2>6, Sweeping DEF SyncDecrement, Dropped, AfterDecRef, eraseFence
    <3>6. ThreadInv'
      BY <1>12, <1>t, <1>o, <1>d, <2>1, <2>2, <2>3, <2>6, <3>1, FenceAssumption
         DEF ThreadInv
    <3>7. SweepInv'
      BY <1>12, <1>t, <1>o, <1>d, <2>1, <2>2, <2>3, <2>6, <3>1, FenceAssumption
         DEF SweepInv, ThreadInv, Live, Refers, TimelineHolds, InSweep, AtZero, Bit
    <3>8. CountExact'
      BY <1>12, <1>t, <1>o, <1>d, <2>1, <2>2, <2>3, <2>6, <3>1, FenceAssumption
         DEF CountExact, SweepInv, ThreadInv, Live, Refers, TimelineHolds, InSweep, AtZero, Bit
    <3>9. RefInv'
      BY <1>12, <1>t, <1>o, <1>d, <2>1, <2>2, <2>3, <2>6, <3>1, FenceAssumption
         DEF CountExact, RefInv, SweepInv, ThreadInv, Live, Refers, TimelineHolds, InSweep, AtZero, Bit
    <3> QED
      BY <3>6, <3>7, <3>8, <3>9
  <2> QED
    BY <2>4, <2>5, <2>6
<1>13. ASSUME ~crashed, SyncDelete
       PROVE  (ThreadInv /\ SweepInv /\ CountExact /\ RefInv)'
  <2> DEFINE f == sync.fence
  <2>1. f \in Fences /\ Live(f) /\ fence[f] # None /\ sync.at \in {"last", "zero"}
        /\ sync.op \in {"Wait", "Blocked", "Sweep", "Signaled"}
    BY <1>13, <1>t DEF SyncDelete, ThreadInv, RefInv, Refers, AtZero, Live
  <2>2. /\ \A h \in Fences : h # f => fence'[h] = fence[h]
        /\ fence'[f] = None
    BY <1>13, <1>t, <2>1, Deleting DEF SyncDelete, Delete
  <2>3. UNCHANGED <<render, sweeping>>
    BY <1>13 DEF SyncDelete
  <2>4. ~TimelineHolds(f) /\ ~AtZero(render, f) /\ ~Refers(render, f)
    <3>1. CASE sync.at = "last"
      BY <1>13, <1>t, <1>o, <2>1, <3>1 DEF RefInv, CountExact, Refers, AtZero, Bit
    <3>2. CASE sync.at = "zero"
      BY <1>13, <1>t, <1>o, <2>1, <3>2 DEF RefInv, CountExact, Refers, AtZero, Bit
    <3> QED
      BY <2>1, <3>1, <3>2
  <2>5. CASE sync.op \in {"Wait", "Blocked"}
    <3>1. sync'.fence = f /\ sync'.op = sync.op /\ UNCHANGED mFences /\ sync'.at = "done"
      BY <1>13, <1>d, <2>5 DEF Doings, SyncDelete, AfterDecRef, Labels
    <3>6. ThreadInv'
      BY <1>13, <1>t, <1>o, <1>d, <2>1, <2>2, <2>3, <2>4, <2>5, <3>1, FenceAssumption
         DEF ThreadInv
    <3>7. SweepInv'
      BY <1>13, <1>t, <1>o, <1>d, <2>1, <2>2, <2>3, <2>4, <2>5, <3>1, FenceAssumption
         DEF SweepInv, ThreadInv, Live, Refers, TimelineHolds, InSweep, AtZero, Bit
    <3>8. CountExact'
      BY <1>13, <1>t, <1>o, <1>d, <2>1, <2>2, <2>3, <2>4, <2>5, <3>1, FenceAssumption
         DEF CountExact, SweepInv, ThreadInv, Live, Refers, TimelineHolds, InSweep, AtZero, Bit
    <3>9. RefInv'
      BY <1>13, <1>t, <1>o, <1>d, <2>1, <2>2, <2>3, <2>4, <2>5, <3>1, FenceAssumption
         DEF CountExact, RefInv, SweepInv, ThreadInv, Live, Refers, TimelineHolds, InSweep, AtZero, Bit
    <3> QED
      BY <3>6, <3>7, <3>8, <3>9
  <2>6. CASE sync.op \in {"Sweep", "Signaled"}
    <3>1. /\ mFences' = mFences \ {f} /\ sync'.at = "sweep" /\ sync'.op = "Sweep"
          /\ sync'.fence = None
      BY <1>13, <2>6, Sweeping DEF SyncDelete, AfterDecRef, eraseFence
    <3>6. ThreadInv'
      BY <1>13, <1>t, <1>o, <1>d, <2>1, <2>2, <2>3, <2>4, <2>6, <3>1, FenceAssumption
         DEF ThreadInv
    <3>7. SweepInv'
      BY <1>13, <1>t, <1>o, <1>d, <2>1, <2>2, <2>3, <2>4, <2>6, <3>1, FenceAssumption
         DEF SweepInv, ThreadInv, Live, Refers, TimelineHolds, InSweep, AtZero, Bit
    <3>8. CountExact'
      BY <1>13, <1>t, <1>o, <1>d, <2>1, <2>2, <2>3, <2>4, <2>6, <3>1, FenceAssumption
         DEF CountExact, SweepInv, ThreadInv, Live, Refers, TimelineHolds, InSweep, AtZero, Bit
    <3>9. RefInv'
      BY <1>13, <1>t, <1>o, <1>d, <2>1, <2>2, <2>3, <2>4, <2>6, <3>1, FenceAssumption
         DEF CountExact, RefInv, SweepInv, ThreadInv, Live, Refers, TimelineHolds, InSweep, AtZero, Bit
    <3> QED
      BY <3>6, <3>7, <3>8, <3>9
  <2> QED
    BY <2>1, <2>5, <2>6
<1>14. ASSUME ~crashed, IncrementTimeline
       PROVE  (ThreadInv /\ SweepInv /\ CountExact /\ RefInv)'
  <2>1. /\ sync.at = "done" /\ sync.op = "Wait" /\ UNCHANGED <<fence, mFences, render, crashed>>
        /\ sweeping' \subseteq mFences
        /\ sync'.at = "sweep" /\ sync'.op = "Sweep" /\ sync'.fence = None
    BY <1>14, Sweeping DEF IncrementTimeline, Expired
  <2>6. ThreadInv'
    BY <1>14, <1>t, <1>o, <1>d, <2>1, FenceAssumption
       DEF ThreadInv
  <2>7. SweepInv'
    BY <1>14, <1>t, <1>o, <1>d, <2>1, FenceAssumption
       DEF SweepInv, ThreadInv, Live, Refers, TimelineHolds, InSweep, AtZero, Bit
  <2>8. CountExact'
    BY <1>14, <1>t, <1>o, <1>d, <2>1, FenceAssumption
       DEF CountExact, SweepInv, ThreadInv, Live, Refers, TimelineHolds, InSweep, AtZero, Bit
  <2>9. RefInv'
    BY <1>14, <1>t, <1>o, <1>d, <2>1, FenceAssumption
       DEF CountExact, RefInv, SweepInv, ThreadInv, Live, Refers, TimelineHolds, InSweep, AtZero, Bit
  <2> QED
    BY <2>6, <2>7, <2>8, <2>9
<1>15. ASSUME ~crashed, Reply
       PROVE  (ThreadInv /\ SweepInv /\ CountExact /\ RefInv)'
  <2>1. /\ sync.at = "done" /\ sync.op = "Blocked"
        /\ UNCHANGED <<fence, mFences, render, sweeping, crashed>>
        /\ sync'.at = "idle" /\ sync'.op = "none"
    BY <1>15, Idling DEF Reply
  <2>6. ThreadInv'
    BY <1>15, <1>t, <1>o, <1>d, <2>1, FenceAssumption
       DEF ThreadInv
  <2>7. SweepInv'
    BY <1>15, <1>t, <1>o, <1>d, <2>1, FenceAssumption
       DEF SweepInv, ThreadInv, Live, Refers, TimelineHolds, InSweep, AtZero, Bit
  <2>8. CountExact'
    BY <1>15, <1>t, <1>o, <1>d, <2>1, FenceAssumption
       DEF CountExact, SweepInv, ThreadInv, Live, Refers, TimelineHolds, InSweep, AtZero, Bit
  <2>9. RefInv'
    BY <1>15, <1>t, <1>o, <1>d, <2>1, FenceAssumption
       DEF CountExact, RefInv, SweepInv, ThreadInv, Live, Refers, TimelineHolds, InSweep, AtZero, Bit
  <2> QED
    BY <2>6, <2>7, <2>8, <2>9
<1>16. ASSUME ~crashed, NEW f \in Fences, Sweep(f)
       PROVE  (ThreadInv /\ SweepInv /\ CountExact /\ RefInv)'
  <2>1. /\ sync.at = "sweep" /\ sync.op = "Sweep" /\ sync.fence = None /\ f \in sweeping
        /\ f \in mFences
    BY <1>16, <1>t DEF Sweep, ThreadInv, SweepInv
  <2>2. TimelineHolds(f) /\ Live(f) /\ fence[f] # None
    BY <1>t, <2>1, FenceAssumption DEF TimelineHolds, RefInv, Live
  <2>3. /\ sync'.at \in {"last", "decrement"} /\ sync'.fence = f /\ sync'.op = "Sweep"
        /\ sync'.at = "last" <=> fence[f].count = 1
        /\ UNCHANGED <<fence, mFences, render, crashed>> /\ sweeping' = sweeping \ {f}
    BY <1>16, <1>l, <2>2 DEF Sweep, At
  <2>6. ThreadInv'
    BY <1>16, <1>t, <1>o, <1>d, <2>1, <2>2, <2>3, FenceAssumption
       DEF ThreadInv
  <2>7. SweepInv'
    BY <1>16, <1>t, <1>o, <1>d, <2>1, <2>2, <2>3, FenceAssumption
       DEF SweepInv, ThreadInv, Live, Refers, TimelineHolds, InSweep, AtZero, Bit
  <2>8. CountExact'
    BY <1>16, <1>t, <1>o, <1>d, <2>1, <2>2, <2>3, FenceAssumption
       DEF CountExact, SweepInv, ThreadInv, Live, Refers, TimelineHolds, InSweep, AtZero, Bit
  <2>9. RefInv'
    BY <1>16, <1>t, <1>o, <1>d, <2>1, <2>2, <2>3, FenceAssumption
       DEF CountExact, RefInv, SweepInv, ThreadInv, Live, Refers, TimelineHolds, InSweep, AtZero, Bit
  <2> QED
    BY <2>6, <2>7, <2>8, <2>9
<1>17. ASSUME ~crashed, SweepFlag
       PROVE  (ThreadInv /\ SweepInv /\ CountExact /\ RefInv)'
  <2> DEFINE f == sync.fence
  <2>1. CASE ~Live(f)
    BY <1>17, <1>c, <2>1 DEF SweepFlag
  <2>2. CASE Live(f)
    <3>1. /\ f \in Fences /\ fence[f] # None /\ sync.at = "flag" /\ sync.op = "Sweep"
          /\ f \in mFences /\ f \notin sweeping /\ UNCHANGED <<render, sweeping, crashed>>
      BY <1>17, <1>t, <2>2 DEF SweepFlag, ThreadInv, SweepInv, InSweep, Live
    <3>2. CASE ~fence[f].destroyWhenSignaled
      <4>1. /\ UNCHANGED fence /\ mFences' = mFences \ {f}
            /\ sync'.at = "sweep" /\ sync'.op = "Sweep" /\ sync'.fence = None
        BY <1>17, <2>2, <3>2, Sweeping DEF SweepFlag, eraseFence
      <4>6. ThreadInv'
        BY <1>17, <1>t, <1>o, <1>d, <2>2, <3>1, <3>2, <4>1, FenceAssumption
           DEF ThreadInv
      <4>7. SweepInv'
        BY <1>17, <1>t, <1>o, <1>d, <2>2, <3>1, <3>2, <4>1, FenceAssumption
           DEF SweepInv, ThreadInv, Live, Refers, TimelineHolds, InSweep, AtZero, Bit
      <4>8. CountExact'
        BY <1>17, <1>t, <1>o, <1>d, <2>2, <3>1, <3>2, <4>1, FenceAssumption
           DEF CountExact, SweepInv, ThreadInv, Live, Refers, TimelineHolds, InSweep, AtZero, Bit
      <4>9. RefInv'
        BY <1>17, <1>t, <1>o, <1>d, <2>2, <3>1, <3>2, <4>1, FenceAssumption
           DEF CountExact, RefInv, SweepInv, ThreadInv, Live, Refers, TimelineHolds, InSweep, AtZero, Bit
      <4> QED
        BY <4>6, <4>7, <4>8, <4>9
    <3>3. CASE fence[f].destroyWhenSignaled
      <4>1. /\ fence[f].first /\ fence' = FirstDropped(f) /\ UNCHANGED mFences
            /\ sync'.at \in {"last", "decrement"} /\ sync'.fence = f /\ sync'.op = "Signaled"
            /\ sync'.at = "last" <=> fence[f].count = 1
        BY <1>17, <1>l, <1>t, <2>2, <3>1, <3>3 DEF SweepFlag, SweepInv, At
      <4>2. /\ \A h \in Fences : h # f => fence'[h] = fence[h]
            /\ fence'[f] # None /\ fence'[f].count = fence[f].count /\ fence'[f].first = FALSE
            /\ fence'[f].destroyWhenSignaled = fence[f].destroyWhenSignaled
        BY <1>t, <2>2, <3>1, <4>1, DroppingFirst
      <4>6. ThreadInv'
        BY <1>17, <1>t, <1>o, <1>d, <2>2, <3>1, <3>3, <4>1, <4>2, FenceAssumption
           DEF ThreadInv
      <4>7. SweepInv'
        BY <1>17, <1>t, <1>o, <1>d, <2>2, <3>1, <3>3, <4>1, <4>2, FenceAssumption
           DEF SweepInv, ThreadInv, Live, Refers, TimelineHolds, InSweep, AtZero, Bit
      <4>8. CountExact'
        BY <1>17, <1>t, <1>o, <1>d, <2>2, <3>1, <3>3, <4>1, <4>2, FenceAssumption
           DEF CountExact, SweepInv, ThreadInv, Live, Refers, TimelineHolds, InSweep, AtZero, Bit
      <4>9. RefInv'
        BY <1>17, <1>t, <1>o, <1>d, <2>2, <3>1, <3>3, <4>1, <4>2, FenceAssumption
           DEF CountExact, RefInv, SweepInv, ThreadInv, Live, Refers, TimelineHolds, InSweep, AtZero, Bit
      <4> QED
        BY <4>6, <4>7, <4>8, <4>9
    <3> QED
      BY <3>2, <3>3
  <2> QED
    BY <2>1, <2>2
<1>18. ASSUME ~crashed, SweepEnd
       PROVE  (ThreadInv /\ SweepInv /\ CountExact /\ RefInv)'
  <2>1. /\ sync.at = "sweep" /\ sync.fence = None /\ sync'.at = "idle" /\ sync'.op = "none"
        /\ UNCHANGED <<fence, sweeping, mFences, render, crashed>>
    BY <1>18, <1>t, Idling DEF SweepEnd, ThreadInv
  <2>6. ThreadInv'
    BY <1>18, <1>t, <1>o, <1>d, <2>1, FenceAssumption
       DEF ThreadInv
  <2>7. SweepInv'
    BY <1>18, <1>t, <1>o, <1>d, <2>1, FenceAssumption
       DEF SweepInv, ThreadInv, Live, Refers, TimelineHolds, InSweep, AtZero, Bit
  <2>8. CountExact'
    BY <1>18, <1>t, <1>o, <1>d, <2>1, FenceAssumption
       DEF CountExact, SweepInv, ThreadInv, Live, Refers, TimelineHolds, InSweep, AtZero, Bit
  <2>9. RefInv'
    BY <1>18, <1>t, <1>o, <1>d, <2>1, FenceAssumption
       DEF CountExact, RefInv, SweepInv, ThreadInv, Live, Refers, TimelineHolds, InSweep, AtZero, Bit
  <2> QED
    BY <2>6, <2>7, <2>8, <2>9
<1> QED
  BY <1>1, <1>2, <1>3, <1>4, <1>5, <1>6, <1>7, <1>8, <1>9, <1>10, <1>11, <1>12, <1>13,
     <1>14, <1>15, <1>16, <1>17, <1>18 DEF Next, Guest, SyncThreadStep

-----------------------------------------------------------------------------
(* Types.                                                                   *)

\* The initial state is type correct.
LEMMA TypeInit == Init => TypeOK
<1> SUFFICES ASSUME Init PROVE TypeOK
  OBVIOUS
<1>1. owed \in Seq(Fences) /\ mInput \in Seq(SyncCommands) /\ mOutput \in Seq({0})
      /\ Len(mInput) <= Capacity /\ Len(mOutput) <= Capacity
  BY FenceAssumption DEF Init
<1> QED
  BY <1>1, Idling DEF Init, TypeOK, Live

\* A command that is sent when there is room.
LEMMA Sending ==
  ASSUME TypeOK, NEW x \in SyncCommands, Send(x)
  PROVE  /\ mInput' \in Seq(SyncCommands) /\ Len(mInput') <= Capacity
         /\ mInput' = Append(mInput, x) /\ Len(mInput') = Len(mInput) + 1
<1>1. mInput \in Seq(SyncCommands) /\ Len(mInput) < Capacity /\ mInput' = Append(mInput, x)
  BY DEF TypeOK, Send
<1> QED
  BY <1>1, FenceAssumption

\* Every step keeps TypeOK.
LEMMA TypeStep ==
  ASSUME FenceInv, RefInv', [Next]_vars
  PROVE  TypeOK'
<1> USE DEF timelineVars, deviceVars, channelVars
<1>t. TypeOK /\ ThreadInv /\ SweepInv /\ CountExact /\ RefInv
  BY DEF FenceInv
<1>z. (\A f \in Fences : Live(f) /\ fence[f].count = 0 => AtZero(sync, f) \/ AtZero(render, f))'
  BY DEF RefInv
<1>l. \A f : Tested(f) \in {"last", "decrement"}
  BY DEF Tested
<1>d. /\ fence \in [Fences -> Object \cup {None}] /\ sync \in Doings /\ render \in Doings
      /\ mFences \subseteq Fences /\ expires \in [Fences -> Nat] /\ mTime \in Nat
  BY <1>t DEF TypeOK
<1>i. Idle \in Doings /\ ToSweep \in Doings
  BY Idling, Sweeping
<1>1. CASE UNCHANGED vars
  BY <1>1, <1>t, <1>z DEF vars, TypeOK
<1>c. CASE Crash
  BY <1>c, <1>t, <1>z DEF Crash, TypeOK
<1>2. ASSUME NEW f \in Fences, NEW d \in BOOLEAN, CreateNative(f, d) PROVE TypeOK'
  <2>1. [count |-> 2, first |-> TRUE, destroyWhenSignaled |-> d] \in Object
    BY DEF Object
  <2>2. fence' \in [Fences -> Object \cup {None}]
    BY <1>2, <1>d, <2>1 DEF CreateNative
  <2>3. mTime + kMaxGuestTimelines \in Nat /\ owed' \in Seq(Fences)
    BY <1>2, <1>t, FenceAssumption DEF CreateNative, TypeOK
  <2>4. mFences' \subseteq Fences /\ expires' \in [Fences -> Nat] /\ created' \in Nat
    BY <1>2, <1>d, <1>t, <2>3 DEF CreateNative, addFence, TypeOK
  <2> QED
    BY <1>2, <1>t, <1>z, <2>2, <2>3, <2>4 DEF CreateNative, TypeOK
<1>3. ASSUME NEW f \in Fences, Create(f) PROVE TypeOK'
  <2>1. [count |-> 1, first |-> TRUE, destroyWhenSignaled |-> FALSE] \in Object
    BY DEF Object
  <2>2. fence' \in [Fences -> Object \cup {None}]
    BY <1>3, <1>d, <2>1 DEF Create
  <2> QED
    BY <1>3, <1>t, <1>z, <2>2 DEF Create, TypeOK
<1>4. ASSUME NEW f \in Fences, Destroy(f) PROVE TypeOK'
  <2>1. fence' \in [Fences -> Object \cup {None}]
    BY <1>4, <1>t, DroppingFirst DEF Destroy, Held
  <2>2. render' \in Doings
    BY <1>4, <1>l DEF Destroy, At, Doings, Labels
  <2> QED
    BY <1>4, <1>t, <1>z, <2>1, <2>2 DEF Destroy, TypeOK
<1>5. ASSUME NEW f \in Fences, ClientWait(f) PROVE TypeOK'
  <2>1. fence' \in [Fences -> Object \cup {None}]
    BY <1>5, <1>t, Incrementing DEF ClientWait, Held
  <2>2. render' \in Doings
    BY <1>5 DEF ClientWait, At, Doings, Labels
  <2> QED
    BY <1>5, <1>t, <1>z, <2>1, <2>2 DEF ClientWait, TypeOK
<1>6. CASE ClientWaited
  <2>1. render' \in Doings
    BY <1>6, <1>d, <1>l DEF ClientWaited, At, Doings, Labels
  <2> QED
    BY <1>6, <1>t, <1>z, <2>1 DEF ClientWaited, TypeOK
<1>7. CASE RenderDecrement
  <2>1. render.fence \in Fences /\ Live(render.fence) /\ fence[render.fence].count # 0
    BY <1>7, <1>t, CountedNotZero DEF RenderDecrement, ThreadInv, RefInv, Refers
  <2>2. fence' \in [Fences -> Object \cup {None}]
    BY <1>7, <1>t, <2>1, Decrementing DEF RenderDecrement
  <2>3. render' \in Doings
    BY <1>7, <1>d, <1>i DEF RenderDecrement, Doings, Labels
  <2> QED
    BY <1>7, <1>t, <1>z, <2>2, <2>3 DEF RenderDecrement, TypeOK
<1>8. CASE RenderDelete
  <2>1. fence' \in [Fences -> Object \cup {None}] /\ crashed' \in BOOLEAN
    BY <1>8, <1>d DEF RenderDelete, Delete
  <2> QED
    BY <1>8, <1>i, <1>t, <1>z, <2>1 DEF RenderDelete, TypeOK
<1>9. CASE TriggerWait
  <2>1. PICK i \in DOMAIN owed :
           /\ Send(Wait(owed[i]))
           /\ owed' = SubSeq(owed, 1, i - 1) \o SubSeq(owed, i + 1, Len(owed))
    BY <1>9 DEF TriggerWait
  <2>2. owed \in Seq(Fences) /\ i \in 1..Len(owed) /\ Len(owed) \in Nat
    BY <1>t DEF TypeOK
  <2>3. Wait(owed[i]) \in SyncCommands
    BY <2>2 DEF Wait, SyncCommands
  <2>4. mInput' \in Seq(SyncCommands) /\ Len(mInput') <= Capacity
    BY <1>t, <2>1, <2>3, Sending
  <2>5. /\ SubSeq(owed, 1, i - 1) \in Seq(Fences)
        /\ SubSeq(owed, i + 1, Len(owed)) \in Seq(Fences)
    BY <2>2
  <2>6. owed' \in Seq(Fences)
    BY <2>1, <2>5
  <2> QED
    BY <1>9, <1>t, <1>z, <2>4, <2>6 DEF TriggerWait, TypeOK
<1>10. CASE TriggerVulkan
  <2>1. Wait(None) \in SyncCommands
    BY DEF Wait, SyncCommands
  <2>2. mInput' \in Seq(SyncCommands) /\ Len(mInput') <= Capacity /\ device' \in BOOLEAN
    BY <1>10, <1>t, <2>1, Sending DEF TriggerVulkan
  <2> QED
    BY <1>10, <1>t, <1>z, <2>2 DEF TriggerVulkan, TypeOK
<1>11. ASSUME NEW b \in Blockers, NEW f \in Fences \cup {None}, SendBlocked(b, f) PROVE TypeOK'
  <2>1. BlockedWait(f) \in SyncCommands
    BY DEF BlockedWait, SyncCommands
  <2>2. mInput' \in Seq(SyncCommands) /\ Len(mInput') <= Capacity
    BY <1>11, <1>t, <2>1, Sending DEF SendBlocked
  <2> QED
    BY <1>11, <1>t, <1>z, <2>2 DEF SendBlocked, TypeOK
<1>12. ASSUME NEW b \in Blockers, GetReply(b) PROVE TypeOK'
  <2>1. mOutput \in Seq({0}) /\ mOutput # <<>> /\ mOutput' = Tail(mOutput)
        /\ Len(mOutput) <= Capacity
    BY <1>12, <1>t DEF GetReply, TypeOK
  <2>2. mOutput' \in Seq({0}) /\ Len(mOutput') <= Capacity
    BY <2>1, FenceAssumption
  <2> QED
    BY <1>12, <1>t, <1>z, <2>2 DEF GetReply, TypeOK
<1>13. CASE Receive
  <2>1. mInput \in Seq(SyncCommands) /\ mInput # <<>> /\ mInput' = Tail(mInput)
        /\ Len(mInput) <= Capacity
    BY <1>13, <1>t DEF Receive, TypeOK
  <2>2. Head(mInput) \in SyncCommands /\ mInput' \in Seq(SyncCommands)
        /\ Len(mInput') <= Capacity
    BY <2>1, FenceAssumption
  <2>3. sync' \in Doings
    BY <1>13, <1>i, <2>2 DEF Receive, SyncCommands, At, Doings, Labels
  <2> QED
    BY <1>13, <1>t, <1>z, <2>2, <2>3 DEF Receive, TypeOK
<1>14. CASE BeginWait
  <2>1. CASE Live(sync.fence) /\ fence[sync.fence].count > 0
    <3>1. sync.fence \in Fences
      BY <1>14, <1>t DEF BeginWait, ThreadInv
    <3>2. fence' \in [Fences -> Object \cup {None}]
      BY <1>14, <1>t, <2>1, <3>1, Incrementing DEF BeginWait
    <3>3. sync' \in Doings
      BY <1>14, <1>d, <2>1 DEF BeginWait, Doings, Labels
    <3> QED
      BY <1>14, <1>t, <1>z, <2>1, <3>2, <3>3 DEF BeginWait, TypeOK
  <2> QED
    BY <1>14, <1>c, <2>1 DEF BeginWait
<1>15. CASE EndWait
  <2>1. sync' \in Doings
    BY <1>15, <1>d, <1>l DEF EndWait, Doings, Labels
  <2> QED
    BY <1>15, <1>t, <1>z, <2>1 DEF EndWait, TypeOK
<1>e. ASSUME NEW g \in Fences, eraseFence(g)
      PROVE  mFences' \subseteq Fences /\ expires' \in [Fences -> Nat]
  BY <1>d, <1>e DEF eraseFence
<1>16. ASSUME ~crashed, SyncDecrement PROVE TypeOK'
  <2>1. sync.fence \in Fences /\ Live(sync.fence) /\ fence[sync.fence].count # 0
    <3>1. sync.fence \in Fences /\ Refers(sync, sync.fence) /\ Live(sync.fence)
      BY <1>16, <1>t DEF SyncDecrement, ThreadInv, RefInv, Refers
    <3> QED
      BY <1>t, <3>1, CountedNotZero
  <2>2. fence' \in [Fences -> Object \cup {None}]
    BY <1>16, <1>t, <2>1, Decrementing DEF SyncDecrement
  <2>3. sync' \in Doings
    BY <1>16, <1>d, <1>i DEF SyncDecrement, AfterDecRef, Doings, Labels
  <2>4. mFences' \subseteq Fences /\ expires' \in [Fences -> Nat]
    BY <1>16, <1>d, <1>e, <2>1 DEF SyncDecrement, AfterDecRef
  <2> QED
    BY <1>16, <1>t, <1>z, <2>2, <2>3, <2>4 DEF SyncDecrement, TypeOK
<1>17. CASE SyncDelete
  <2>1. sync.fence \in Fences
    BY <1>17, <1>t DEF SyncDelete, ThreadInv
  <2>2. fence' \in [Fences -> Object \cup {None}] /\ crashed' \in BOOLEAN
    BY <1>17, <1>d DEF SyncDelete, Delete
  <2>3. sync' \in Doings
    BY <1>17, <1>d, <1>i DEF SyncDelete, AfterDecRef, Doings, Labels
  <2>4. mFences' \subseteq Fences /\ expires' \in [Fences -> Nat]
    BY <1>17, <1>d, <1>e, <2>1 DEF SyncDelete, AfterDecRef
  <2> QED
    BY <1>17, <1>t, <1>z, <2>2, <2>3, <2>4 DEF SyncDelete, TypeOK
<1>18. CASE IncrementTimeline
  <2>1. mTime' \in Nat /\ sweeping' \subseteq Fences
    BY <1>18, <1>d DEF IncrementTimeline, Expired
  <2> QED
    BY <1>18, <1>i, <1>t, <1>z, <2>1 DEF IncrementTimeline, TypeOK
<1>19. CASE Reply
  <2>1. mOutput \in Seq({0}) /\ Len(mOutput) < Capacity
        /\ mOutput' = Append(mOutput, 0)
    BY <1>19, <1>d, <1>t DEF Reply, TypeOK, Doings
  <2>2. mOutput' \in Seq({0}) /\ Len(mOutput') <= Capacity
    BY <2>1, FenceAssumption
  <2> QED
    BY <1>19, <1>i, <1>t, <1>z, <2>2 DEF Reply, TypeOK
<1>20. ASSUME NEW f \in Fences, Sweep(f) PROVE TypeOK'
  <2>1. sync' \in Doings
    BY <1>20, <1>d, <1>l DEF Sweep, At, Doings, Labels
  <2>2. mFences' \subseteq Fences /\ expires' \in [Fences -> Nat] /\ sweeping' \subseteq Fences
    BY <1>20, <1>d, <1>e, <1>t DEF Sweep, TypeOK
  <2> QED
    BY <1>20, <1>t, <1>z, <2>1, <2>2 DEF Sweep, TypeOK
<1>21. CASE SweepFlag
  <2>1. CASE Live(sync.fence)
    <3>1. sync.fence \in Fences
      BY <1>21, <1>t DEF SweepFlag, ThreadInv
    <3>2. fence' \in [Fences -> Object \cup {None}]
      BY <1>21, <1>d, <1>t, <2>1, <3>1, DroppingFirst DEF SweepFlag
    <3>3. sync' \in Doings
      BY <1>21, <1>i, <1>l, <2>1, <3>1 DEF SweepFlag, At, Doings, Labels
    <3>4. mFences' \subseteq Fences /\ expires' \in [Fences -> Nat]
      BY <1>21, <1>d, <1>e, <2>1, <3>1 DEF SweepFlag
    <3> QED
      BY <1>21, <1>t, <1>z, <2>1, <3>2, <3>3, <3>4 DEF SweepFlag, TypeOK
  <2> QED
    BY <1>21, <1>c, <2>1 DEF SweepFlag
<1>22. CASE SweepEnd
  BY <1>22, <1>i, <1>t, <1>z DEF SweepEnd, TypeOK
<1>23. ASSUME NEW b \in Blockers, Block(b) PROVE TypeOK'
  BY <1>11, <1>23 DEF Block, WaitForGpu, WaitForGpuVulkan
<1> QED
  BY <1>1, <1>2, <1>3, <1>4, <1>5, <1>6, <1>7, <1>8, <1>9, <1>10, <1>12, <1>13, <1>14,
     <1>15, <1>16, <1>17, <1>18, <1>19, <1>20, <1>21, <1>22, <1>23
     DEF Next, Guest, SyncThreadStep

-----------------------------------------------------------------------------
\* FenceInv is an invariant.
LEMMA FenceInvariant == Spec => []FenceInv
<1>1. Init => FenceInv
  BY TypeInit, CountInit DEF FenceInv
<1>2. FenceInv /\ [Next]_vars => FenceInv'
  BY TypeStep, CountStep DEF FenceInv
<1> QED
  BY <1>1, <1>2, PTL DEF Spec

\* The objects, the timeline, the commands and the states of the threads keep their
\* types, and an object whose count is 0 is about to be deleted by the thread that
\* counted it down.
THEOREM FenceTypeCorrect == Spec => []TypeOK
<1>1. FenceInv => TypeOK
  BY DEF FenceInv
<1> QED
  BY <1>1, FenceInvariant, PTL

\* decRef and incRef keep the count of every fence equal to its references, whatever
\* the guest destroys while the render thread, the sync thread or the sweep is at it,
\* and whoever comes between the two reads of a decRef.
THEOREM FenceCountCorrect == Spec => []CountExact
<1>1. FenceInv => CountExact
  BY DEF FenceInv
<1> QED
  BY <1>1, FenceInvariant, PTL

-----------------------------------------------------------------------------
(* Counting in the queue of commands.                                       *)

\* Those of the first i commands of s that are in T, and how many they are.
Ranked(s, T, i) == {j \in 1..i : s[j] \in T}
Rank(s, T, i) == Cardinality(Ranked(s, T, i))

\* A rank is a number.
LEMMA RankNat ==
  ASSUME NEW s, NEW T, NEW i \in Nat
  PROVE  IsFiniteSet(Ranked(s, T, i)) /\ Rank(s, T, i) \in Nat
<1>1. IsFiniteSet(1..i)
  BY FS_Interval
<1>2. IsFiniteSet(Ranked(s, T, i))
  BY <1>1, FS_Subset DEF Ranked
<1> QED
  BY <1>2, FS_CardinalityType DEF Rank

\* No command, no rank.
LEMMA RankEmpty == ASSUME NEW s, NEW T PROVE Rank(s, T, 0) = 0
<1>1. Ranked(s, T, 0) = {}
  BY DEF Ranked
<1> QED
  BY <1>1, FS_EmptySet DEF Rank

\* A command that joins the queue is counted after all others.
LEMMA RankAppend ==
  ASSUME NEW S, NEW s \in Seq(S), NEW x \in S, NEW T
  PROVE  /\ \A i \in 0..Len(s) : Rank(Append(s, x), T, i) = Rank(s, T, i)
         /\ Rank(Append(s, x), T, Len(s) + 1) = Rank(s, T, Len(s)) + Bit(x \in T)
<1> DEFINE t == Append(s, x)
           n == Len(s)
<1>0. n \in Nat /\ t[n + 1] = x /\ \A j \in 1..n : t[j] = s[j]
  OBVIOUS
<1> HIDE DEF t, n
<1>1. ASSUME NEW i \in 0..n PROVE Rank(t, T, i) = Rank(s, T, i)
  <2>1. Ranked(t, T, i) = Ranked(s, T, i)
    BY <1>0 DEF Ranked
  <2> QED
    BY <2>1 DEF Rank
<1>2. Rank(t, T, n + 1) = Rank(s, T, n) + Bit(x \in T)
  <2> DEFINE A == Ranked(s, T, n)
             B == Ranked(t, T, n + 1)
  <2>1. IsFiniteSet(A) /\ Cardinality(A) \in Nat
    BY <1>0, RankNat DEF Rank
  <2>2. CASE x \in T
    <3>1. B = A \cup {n + 1} /\ n + 1 \notin A
      BY <1>0, <2>2 DEF Ranked
    <3>2. Cardinality(B) = Cardinality(A) + 1
      BY <2>1, <3>1, FS_AddElement
    <3> QED
      BY <2>2, <3>2 DEF Rank, Bit
  <2>3. CASE x \notin T
    <3>1. B = A
      BY <1>0, <2>3 DEF Ranked
    <3> QED
      BY <2>1, <2>3, <3>1 DEF Rank, Bit
  <2> QED
    BY <2>2, <2>3
<1> QED
  BY <1>1, <1>2 DEF t, n

\* When the first command leaves the queue, the others move up.
LEMMA RankTail ==
  ASSUME NEW S, NEW s \in Seq(S), s # <<>>, NEW T, NEW i \in 0..(Len(s) - 1)
  PROVE  Rank(s, T, i + 1) = Rank(Tail(s), T, i) + Bit(Head(s) \in T)
<1> DEFINE t == Tail(s)
           n == Len(s)
           A == Ranked(t, T, i)
           B == Ranked(s, T, i + 1) \ {1}
           f == [j \in A |-> j + 1]
<1>0. n \in Nat \ {0} /\ Head(s) = s[1] /\ i \in 0..(n - 1)
      /\ \A j \in 1..(n - 1) : t[j] = s[j + 1]
  OBVIOUS
<1> HIDE DEF t, n
<1>1. IsFiniteSet(A) /\ Cardinality(A) \in Nat /\ IsFiniteSet(Ranked(s, T, i + 1))
      /\ Cardinality(Ranked(s, T, i + 1)) \in Nat
  BY <1>0, RankNat DEF Rank
<1>2. f \in [A -> B] /\ \A j, k \in A : f[j] = f[k] => j = k
  BY <1>0 DEF Ranked
<1>3. ASSUME NEW k \in B PROVE \E j \in A : f[j] = k
  <2>1. k - 1 \in A /\ f[k - 1] = k
    BY <1>0 DEF Ranked
  <2> QED
    BY <2>1
<1>4. f \in Bijection(A, B)
  <2> HIDE DEF A, B, f
  <2> QED
    BY <1>2, <1>3 DEF Bijection, Injection, IsInjective, Surjection
<1>5. Cardinality(B) = Cardinality(A)
  <2> HIDE DEF A, B, f
  <2> QED
    BY <1>1, <1>4, FS_Bijection DEF ExistsBijection
<1>6. Cardinality(B) = IF 1 \in Ranked(s, T, i + 1)
                       THEN Cardinality(Ranked(s, T, i + 1)) - 1
                       ELSE Cardinality(Ranked(s, T, i + 1))
  BY <1>1, FS_RemoveElement
<1>7. 1 \in Ranked(s, T, i + 1) <=> Head(s) \in T
  BY <1>0 DEF Ranked
<1> HIDE DEF A, B
<1>8. Cardinality(Ranked(s, T, i + 1)) = Cardinality(A) + Bit(Head(s) \in T)
  BY <1>1, <1>5, <1>6, <1>7 DEF Bit
<1> QED
  BY <1>8 DEF Rank, A, t

-----------------------------------------------------------------------------
(* Replies.                                                                 *)

BlockedCommands == {x \in SyncCommands : x.op = "Blocked"}

\* RepliesMatch, with the commands counted by their rank.
ReplyInv ==
    Rank(mInput, BlockedCommands, Len(mInput)) + Bit(sync.op = "Blocked") + Len(mOutput)
      = Cardinality(waiting)

\* Every step keeps the commands, the replies and the blocked callers in balance.
LEMMA ReplyStep ==
  ASSUME FenceInv, ReplyInv, [Next]_vars
  PROVE  ReplyInv'
<1> USE DEF timelineVars, deviceVars, channelVars
<1> DEFINE T == BlockedCommands
           R == Rank(mInput, T, Len(mInput))
           W == Cardinality(waiting)
           L == Len(mOutput)
<1>t. TypeOK /\ ThreadInv
  BY DEF FenceInv
<1>u. /\ mInput \in Seq(SyncCommands) /\ Len(mInput) \in Nat /\ mOutput \in Seq({0})
      /\ L \in Nat /\ sync \in Doings /\ waiting \subseteq Blockers
  BY <1>t DEF TypeOK
<1>w. IsFiniteSet(waiting) /\ W \in Nat
  BY <1>u, FS_Subset, FS_CardinalityType, FenceAssumption
<1>n. R \in Nat
  BY <1>u, RankNat
<1>i. R + Bit(sync.op = "Blocked") + L = W
  BY DEF ReplyInv
<1>1. ASSUME UNCHANGED <<mInput, mOutput, waiting>>,
             sync'.op = "Blocked" <=> sync.op = "Blocked"
      PROVE  ReplyInv'
  BY <1>1, <1>i DEF ReplyInv, Bit
<1>p. ASSUME NEW x \in SyncCommands, x \notin T, Send(x), UNCHANGED <<mOutput, sync, waiting>>
      PROVE  ReplyInv'
  <2>1. mInput' = Append(mInput, x) /\ Len(mInput') = Len(mInput) + 1
    BY <1>p, <1>t, Sending
  <2>2. Rank(mInput', T, Len(mInput')) = R + Bit(x \in T)
    BY <1>u, <2>1, RankAppend
  <2> QED
    BY <1>p, <1>i, <1>n, <2>2 DEF ReplyInv, Bit
<1>2. CASE TriggerWait
  <2>1. PICK f \in Fences : Send(Wait(f))
    BY <1>2, <1>t DEF TriggerWait, TypeOK
  <2>2. Wait(f) \in SyncCommands /\ Wait(f) \notin T
    BY DEF Wait, SyncCommands, BlockedCommands
  <2> QED
    BY <1>2, <1>p, <2>1, <2>2 DEF TriggerWait
<1>3. CASE TriggerVulkan
  <2>1. Wait(None) \in SyncCommands /\ Wait(None) \notin T
    BY DEF Wait, SyncCommands, BlockedCommands
  <2> QED
    BY <1>3, <1>p, <2>1 DEF TriggerVulkan
<1>4. ASSUME NEW b \in Blockers, NEW f \in Fences \cup {None}, SendBlocked(b, f)
      PROVE  ReplyInv'
  <2>1. Send(BlockedWait(f)) /\ b \notin waiting /\ waiting' = waiting \cup {b}
        /\ UNCHANGED <<mOutput, sync>>
    BY <1>4 DEF SendBlocked
  <2>2. BlockedWait(f) \in SyncCommands /\ BlockedWait(f) \in T
    BY DEF BlockedWait, SyncCommands, BlockedCommands
  <2>3. mInput' = Append(mInput, BlockedWait(f)) /\ Len(mInput') = Len(mInput) + 1
    BY <1>t, <2>1, <2>2, Sending
  <2>4. Rank(mInput', T, Len(mInput')) = R + Bit(BlockedWait(f) \in T)
    BY <1>u, <2>2, <2>3, RankAppend
  <2>5. Rank(mInput', T, Len(mInput')) = R + 1
    BY <2>2, <2>4 DEF Bit
  <2>6. Cardinality(waiting') = W + 1
    BY <1>w, <2>1, FS_AddElement
  <2> HIDE DEF T, R, W, L
  <2>7. Rank(mInput', T, Len(mInput')) + Bit(sync'.op = "Blocked") + L = Cardinality(waiting')
    BY <1>i, <1>n, <1>u, <1>w, <2>1, <2>5, <2>6 DEF Bit
  <2> QED
    BY <2>1, <2>7 DEF ReplyInv, T, L
<1>5. ASSUME NEW b \in Blockers, GetReply(b) PROVE ReplyInv'
  <2>1. /\ b \in waiting /\ waiting' = waiting \ {b} /\ mOutput # <<>>
        /\ mOutput' = Tail(mOutput) /\ UNCHANGED <<mInput, sync>>
    BY <1>5 DEF GetReply
  <2>2. Len(mOutput') = L - 1 /\ L >= 1
    BY <1>u, <2>1
  <2>3. Cardinality(waiting') = W - 1
    BY <1>w, <2>1, FS_RemoveElement
  <2> HIDE DEF T, R, W, L
  <2>4. R + Bit(sync'.op = "Blocked") + Len(mOutput') = Cardinality(waiting')
    BY <1>i, <1>n, <1>u, <1>w, <2>1, <2>2, <2>3 DEF Bit
  <2> QED
    BY <2>1, <2>4 DEF ReplyInv, R, T
<1>6. CASE Receive
  <2> DEFINE x == Head(mInput)
             Q == Rank(Tail(mInput), T, Len(mInput) - 1)
  <2>1. mInput # <<>> /\ mInput' = Tail(mInput) /\ UNCHANGED <<mOutput, waiting>>
        /\ sync.at = "idle"
    BY <1>6 DEF Receive, Idles
  <2>2. x \in SyncCommands /\ Len(mInput') = Len(mInput) - 1 /\ Len(mInput) - 1 \in Nat
    BY <1>u, <2>1
  <2>3. R = Q + Bit(x \in T)
    <3>1. Rank(mInput, T, (Len(mInput) - 1) + 1) = Q + Bit(x \in T)
      BY <1>u, <2>1, <2>2, RankTail
    <3> QED
      BY <1>u, <3>1
  <2>4. Q \in Nat /\ Rank(mInput', T, Len(mInput')) = Q
    BY <2>1, <2>2, RankNat
  <2>5. x \in T <=> x.op = "Blocked"
    BY <2>2 DEF BlockedCommands
  <2>6. x.op \in {"Wait", "Blocked"}
    BY <2>2 DEF SyncCommands
  <2>7. sync.op # "Blocked" /\ (sync'.op = "Blocked" <=> x.op = "Blocked")
    BY <1>6, <1>t, <2>1, <2>6, Idling DEF Receive, At, ThreadInv
  <2> HIDE DEF R, Q, T, x, W, L
  <2>8. Q + Bit(sync'.op = "Blocked") + L = W
    BY <1>i, <1>n, <1>u, <2>3, <2>4, <2>5, <2>7 DEF Bit
  <2> QED
    BY <2>1, <2>4, <2>8 DEF ReplyInv, T, L, W
<1>7. CASE Reply
  <2>1. /\ UNCHANGED <<mInput, waiting>> /\ sync.op = "Blocked" /\ sync'.op = "none"
        /\ mOutput' = Append(mOutput, 0)
    BY <1>7, <1>u, Idling DEF Reply, Doings
  <2>2. Len(mOutput') = L + 1
    BY <1>u, <2>1
  <2> HIDE DEF R, W, L
  <2>3. R + Bit(sync'.op = "Blocked") + Len(mOutput') = W
    BY <1>i, <1>n, <1>u, <2>1, <2>2 DEF Bit
  <2> QED
    BY <2>1, <2>3 DEF ReplyInv, R, W
<1>8. CASE Crash
  BY <1>1, <1>8 DEF Crash
<1>9. CASE BeginWait
  BY <1>1, <1>8, <1>9, <1>u DEF BeginWait, Doings
<1>10. CASE EndWait
  BY <1>1, <1>10, <1>u DEF EndWait, Doings
<1>11. CASE SyncDecrement
  BY <1>1, <1>11, <1>u, Sweeping DEF SyncDecrement, AfterDecRef, Doings
<1>12. CASE SyncDelete
  BY <1>1, <1>12, <1>u, Sweeping DEF SyncDelete, AfterDecRef, Doings
<1>13. CASE IncrementTimeline
  BY <1>1, <1>13, Sweeping DEF IncrementTimeline
<1>14. ASSUME NEW f \in Fences, Sweep(f) PROVE ReplyInv'
  BY <1>1, <1>14, <1>t DEF Sweep, At, ThreadInv
<1>15. CASE SweepFlag
  BY <1>1, <1>8, <1>15, <1>t, Sweeping DEF SweepFlag, At, ThreadInv
<1>16. CASE SweepEnd
  BY <1>1, <1>16, <1>t, Idling DEF SweepEnd, ThreadInv
<1>17. CASE \/ UNCHANGED vars \/ ClientWaited \/ RenderDecrement \/ RenderDelete
           \/ (\E f \in Fences : Create(f) \/ Destroy(f) \/ ClientWait(f))
           \/ (\E f \in Fences, d \in BOOLEAN : CreateNative(f, d))
  BY <1>1, <1>17 DEF vars, ClientWaited, RenderDecrement, RenderDelete, Create, Destroy,
     ClientWait, CreateNative
<1>18. ASSUME NEW b \in Blockers, Block(b) PROVE ReplyInv'
  BY <1>4, <1>18 DEF Block, WaitForGpu, WaitForGpuVulkan
<1> QED
  BY <1>2, <1>3, <1>5, <1>6, <1>7, <1>9, <1>10, <1>11, <1>12, <1>13, <1>14, <1>15, <1>16,
     <1>17, <1>18 DEF Next, Guest, SyncThreadStep

\* For every caller that blocks in sendAndWaitForResult there is exactly one command or
\* reply under way, whatever becomes of the fence it asked for, and however many block.
THEOREM RepliesBalance == Spec => []RepliesMatch
<1>1. Init => ReplyInv
  <2> SUFFICES ASSUME Init PROVE ReplyInv
    OBVIOUS
  <2>1. Len(mInput) = 0 /\ Len(mOutput) = 0 /\ waiting = {} /\ sync.op = "none"
    BY Idling DEF Init
  <2>2. Rank(mInput, BlockedCommands, Len(mInput)) = 0
    BY <2>1, RankEmpty
  <2> QED
    BY <2>1, <2>2, FS_EmptySet DEF ReplyInv, Bit
<1>2. FenceInv /\ ReplyInv /\ [Next]_vars => ReplyInv'
  BY ReplyStep
<1>3. FenceInv /\ ReplyInv => RepliesMatch
  <2> SUFFICES ASSUME TypeOK, ReplyInv PROVE RepliesMatch
    BY DEF FenceInv
  <2>1. mInput \in Seq(SyncCommands)
    BY DEF TypeOK
  <2>2. Ranked(mInput, BlockedCommands, Len(mInput))
          = {i \in DOMAIN mInput : mInput[i].op = "Blocked"}
    BY <2>1 DEF Ranked, BlockedCommands
  <2> QED
    BY <2>2 DEF ReplyInv, RepliesMatch, Rank
<1> QED
  BY <1>1, <1>2, <1>3, FenceInvariant, PTL DEF Spec

-----------------------------------------------------------------------------
(* Native fences.                                                           *)

NativeCommands == {x \in SyncCommands : x.op = "Wait" /\ x.fence # None}

\* The thread works on a command for a native fence.
AtNative == sync.op = "Wait"

\* The timeline holds f and goes on for n signals before it lets it go.
Lasts(f, n) == f \in Fences /\ TimelineHolds(f) /\ expires[f] >= mTime + n

\* What the sweep has yet to let go has expired.
SweepsExpired ==
    /\ ~InSweep => sweeping = {}
    /\ \A f \in sweeping : expires[f] <= mTime
    /\ InSweep /\ sync.at # "sweep" => expires[sync.fence] <= mTime

\* The native fences the thread has yet to wait for form a queue: the one it is at,
\* those asked for, those the device owes.  The timeline outlasts each of them by its
\* place in that queue, since every fence ahead of it causes one signal.
PlacesLast ==
    /\ AtNative => Lasts(sync.fence, 1)
    /\ \A i \in 1..Len(mInput) : mInput[i] \in NativeCommands =>
         Lasts(mInput[i].fence, Bit(AtNative) + Rank(mInput, NativeCommands, i))
    /\ \A i \in 1..Len(owed) :
         Lasts(owed[i], Bit(AtNative) + Rank(mInput, NativeCommands, Len(mInput)) + i)

NativeInv == SweepsExpired /\ (InOrder => PlacesLast)

\* A command is counted in its own rank.
LEMMA RankOwn ==
  ASSUME NEW s, NEW T, NEW i \in Nat \ {0}, s[i] \in T
  PROVE  Rank(s, T, i) >= 1
<1>1. i \in Ranked(s, T, i)
  BY DEF Ranked
<1>2. IsFiniteSet(Ranked(s, T, i)) /\ Rank(s, T, i) \in Nat
  BY RankNat
<1>3. Rank(s, T, i) # 0
  BY <1>1, <1>2, FS_EmptySet DEF Rank
<1> QED
  BY <1>2, <1>3

\* A step of the timeline that leaves alone what has not expired.
LEMMA PlacesKept ==
  ASSUME TypeOK, PlacesLast, UNCHANGED <<mTime, mInput, owed>>,
         AtNative' <=> AtNative, AtNative => sync'.fence = sync.fence,
         \A f \in Fences : TimelineHolds(f) /\ expires[f] > mTime =>
             TimelineHolds(f)' /\ expires'[f] = expires[f]
  PROVE  PlacesLast'
<1>0. mTime \in Nat /\ Len(mInput) \in Nat /\ Len(owed) \in Nat /\ expires \in [Fences -> Nat]
  BY DEF TypeOK
<1>b. Bit(AtNative) \in Nat /\ Bit(AtNative') = Bit(AtNative)
  BY DEF Bit
<1>1. ASSUME NEW f, NEW n \in Nat \ {0}, Lasts(f, n) PROVE Lasts(f, n)'
  BY <1>0, <1>1 DEF Lasts
<1>2. AtNative' => Lasts(sync.fence, 1)'
  BY <1>1 DEF PlacesLast
<1>3. ASSUME NEW i \in 1..Len(mInput), mInput[i] \in NativeCommands
      PROVE  Lasts(mInput[i].fence, Bit(AtNative) + Rank(mInput, NativeCommands, i))'
  <2>1. Rank(mInput, NativeCommands, i) \in Nat /\ Rank(mInput, NativeCommands, i) >= 1
    BY <1>0, <1>3, RankNat, RankOwn
  <2> DEFINE n == Bit(AtNative) + Rank(mInput, NativeCommands, i)
  <2>2. n \in Nat \ {0} /\ Lasts(mInput[i].fence, n) /\ n' = n
    BY <1>3, <1>b, <2>1 DEF PlacesLast
  <2> HIDE DEF n
  <2>3. Lasts(mInput[i].fence, n)'
    BY <1>0, <2>2 DEF Lasts
  <2> QED
    BY <2>3 DEF n
<1>4. ASSUME NEW i \in 1..Len(owed)
      PROVE  Lasts(owed[i], Bit(AtNative) + Rank(mInput, NativeCommands, Len(mInput)) + i)'
  <2>1. Rank(mInput, NativeCommands, Len(mInput)) \in Nat
    BY <1>0, RankNat
  <2> DEFINE n == Bit(AtNative) + Rank(mInput, NativeCommands, Len(mInput)) + i
  <2>2. n \in Nat \ {0} /\ Lasts(owed[i], n) /\ n' = n
    BY <1>0, <1>4, <1>b, <2>1 DEF PlacesLast
  <2> HIDE DEF n
  <2>3. Lasts(owed[i], n)'
    BY <1>0, <2>2 DEF Lasts
  <2> QED
    BY <2>3 DEF n
<1> QED
  BY <1>2, <1>3, <1>4 DEF PlacesLast

\* Every step of the sync thread and the guest keeps the sweep to what has expired.
LEMMA SweepStep ==
  ASSUME FenceInv, SweepsExpired, [Next]_vars
  PROVE  SweepsExpired'
<1> USE DEF timelineVars, deviceVars, channelVars
<1>t. /\ TypeOK /\ ThreadInv /\ SweepInv /\ RefInv /\ mTime \in Nat
      /\ expires \in [Fences -> Nat] /\ sweeping \subseteq Fences /\ sync \in Doings
  BY DEF FenceInv, TypeOK
<1>1. CASE UNCHANGED <<expires, mTime, sync, sweeping>>
  BY <1>1 DEF SweepsExpired, InSweep
<1>2. CASE \/ UNCHANGED vars \/ ClientWaited \/ RenderDecrement \/ RenderDelete
           \/ TriggerWait \/ TriggerVulkan \/ Crash
           \/ (\E b \in Blockers : Block(b) \/ GetReply(b))
           \/ (\E f \in Fences : Create(f) \/ Destroy(f) \/ ClientWait(f))
  BY <1>1, <1>2 DEF vars, ClientWaited, RenderDecrement, RenderDelete, TriggerWait,
     TriggerVulkan, Crash, Block, WaitForGpu, WaitForGpuVulkan, SendBlocked, GetReply,
     Create, Destroy, ClientWait
<1>3. ASSUME NEW f \in Fences, NEW d \in BOOLEAN, CreateNative(f, d) PROVE SweepsExpired'
  BY <1>3 DEF CreateNative, SweepsExpired, InSweep
<1>w. ASSUME ~InSweep, ~InSweep', UNCHANGED sweeping PROVE SweepsExpired'
  BY <1>w DEF SweepsExpired
<1>4. CASE Receive
  <2>1. mInput # <<>> /\ Head(mInput) \in SyncCommands
    BY <1>4, <1>t DEF Receive, TypeOK
  <2>2. Head(mInput).op \in {"Wait", "Blocked"}
    BY <2>1 DEF SyncCommands
  <2> QED
    BY <1>4, <1>t, <1>w, <2>2, Idling DEF Receive, Idles, At, ThreadInv, InSweep
<1>5. CASE BeginWait
  BY <1>2, <1>5, <1>t, <1>w DEF BeginWait, ThreadInv, InSweep, Doings
<1>6. CASE EndWait
  BY <1>6, <1>t, <1>w DEF EndWait, ThreadInv, InSweep, Doings
<1>e. ASSUME InSweep, sync.at # "sweep", UNCHANGED <<mTime, sweeping>>, sync'.at = "sweep",
             sync'.op = "Sweep", expires' = [expires EXCEPT ![sync.fence] = 0]
      PROVE  SweepsExpired'
  <2>1. InSweep' /\ \A f \in sweeping : expires'[f] = expires[f] \/ expires'[f] = 0
    BY <1>e, <1>t DEF InSweep
  <2>2. \A f \in sweeping : expires'[f] <= mTime
    BY <1>t, <2>1 DEF SweepsExpired
  <2> QED
    BY <1>e, <2>1, <2>2 DEF SweepsExpired
<1>k. ASSUME InSweep, sync.at # "sweep", UNCHANGED <<mTime, sweeping, expires>>,
             InSweep', sync'.fence = sync.fence
      PROVE  SweepsExpired'
  BY <1>k DEF SweepsExpired
<1>7. CASE SyncDecrement
  <2>1. /\ sync.at = "decrement" /\ sync.op \in {"Wait", "Blocked", "Sweep", "Signaled"}
        /\ UNCHANGED <<mTime, sweeping>>
    BY <1>7, <1>t DEF SyncDecrement, ThreadInv
  <2>2. \/ UNCHANGED expires /\ sync'.op = sync.op /\ sync'.fence = sync.fence
        \/ /\ sync.op \in {"Sweep", "Signaled"} /\ sync' = ToSweep
           /\ expires' = [expires EXCEPT ![sync.fence] = 0]
    BY <1>7, <1>t DEF SyncDecrement, AfterDecRef, eraseFence, Doings
  <2> QED
    BY <1>e, <1>k, <1>w, <2>1, <2>2, Sweeping DEF InSweep
<1>8. CASE SyncDelete
  <2>1. /\ sync.at \in {"last", "zero"} /\ sync.op \in {"Wait", "Blocked", "Sweep", "Signaled"}
        /\ UNCHANGED <<mTime, sweeping>>
    BY <1>8, <1>t DEF SyncDelete, ThreadInv
  <2>2. \/ UNCHANGED expires /\ sync'.op = sync.op /\ sync'.fence = sync.fence
        \/ /\ sync.op \in {"Sweep", "Signaled"} /\ sync' = ToSweep
           /\ expires' = [expires EXCEPT ![sync.fence] = 0]
    BY <1>8, <1>t DEF SyncDelete, AfterDecRef, eraseFence, Doings
  <2> QED
    BY <1>e, <1>k, <1>w, <2>1, <2>2, Sweeping DEF InSweep
<1>9. CASE IncrementTimeline
  <2>1. /\ sync.op = "Wait" /\ sync' = ToSweep /\ UNCHANGED expires /\ sweeping' = Expired
    BY <1>9 DEF IncrementTimeline
  <2>2. ASSUME NEW f \in Expired PROVE expires[f] <= mTime'
    <3>1. f \in mFences /\ f \in Fences
      BY <1>t, <2>2 DEF Expired, TypeOK
    <3>2. Live(f)
      BY <1>t, <2>1, <3>1 DEF RefInv, TimelineHolds, InSweep
    <3> QED
      BY <2>2, <3>2 DEF Expired
  <2> QED
    BY <2>1, <2>2, Sweeping DEF SweepsExpired, InSweep
<1>10. CASE Reply
  BY <1>10, <1>w, Idling DEF Reply, InSweep
<1>11. ASSUME NEW f \in Fences, Sweep(f) PROVE SweepsExpired'
  <2>1. /\ sync.at = "sweep" /\ f \in sweeping /\ sweeping' = sweeping \ {f} /\ UNCHANGED mTime
        /\ sync.op = "Sweep"
    BY <1>11, <1>t DEF Sweep, ThreadInv
  <2>2. \/ /\ sync'.op = "Sweep" /\ sync'.fence = f /\ UNCHANGED expires
        \/ UNCHANGED sync /\ expires' = [expires EXCEPT ![f] = 0]
    BY <1>11 DEF Sweep, eraseFence, At
  <2> QED
    BY <1>t, <2>1, <2>2 DEF SweepsExpired, InSweep
<1>12. CASE SweepFlag
  <2>1. CASE ~Live(sync.fence)
    BY <1>2, <1>12, <2>1 DEF SweepFlag
  <2>2. CASE Live(sync.fence)
    <3>1. sync.at = "flag" /\ sync.op = "Sweep" /\ UNCHANGED <<sweeping, mTime>>
      BY <1>12, <1>t, <2>2 DEF SweepFlag, ThreadInv
    <3>2. \/ UNCHANGED expires /\ sync'.op = "Signaled" /\ sync'.fence = sync.fence
          \/ sync' = ToSweep /\ expires' = [expires EXCEPT ![sync.fence] = 0]
      BY <1>12, <2>2 DEF SweepFlag, eraseFence, At
    <3> QED
      BY <1>e, <1>k, <3>1, <3>2, Sweeping DEF InSweep
  <2> QED
    BY <2>1, <2>2
<1>13. CASE SweepEnd
  BY <1>13, Idling DEF SweepEnd, SweepsExpired, InSweep
<1> QED
  BY <1>2, <1>3, <1>4, <1>5, <1>6, <1>7, <1>8, <1>9, <1>10, <1>11, <1>12, <1>13
     DEF Next, Guest, SyncThreadStep

\* Lasts after a step, for a number known before it.
LastsOn(f, n) ==
    /\ f \in Fences /\ f \in mFences' /\ ~(sync'.op \in {"Sweep", "Signaled"} /\ sync'.fence = f)
    /\ expires'[f] >= mTime' + n

\* Every step keeps the places, if the device asks in order: a fence is created at the
\* end of the queue, within the limit, and a signal moves every other one up.
LEMMA PlacesStep ==
  ASSUME FenceInv, NativeInv, InOrder, [Next]_vars
  PROVE  PlacesLast'
<1> USE DEF timelineVars, deviceVars, channelVars
<1> DEFINE T == NativeCommands
           N == Len(mInput)
           M == Len(owed)
           R == Rank(mInput, T, N)
           b == Bit(AtNative)
<1>t. TypeOK /\ ThreadInv /\ SweepInv /\ RefInv /\ PlacesLast /\ SweepsExpired
  BY DEF FenceInv, NativeInv
<1>d. sync \in Doings
  BY <1>t DEF TypeOK
<1>u. /\ mTime \in Nat /\ expires \in [Fences -> Nat] /\ mInput \in Seq(SyncCommands)
      /\ owed \in Seq(Fences) /\ M \in Nat /\ N \in Nat
      /\ T \in SUBSET SyncCommands /\ mFences \subseteq Fences /\ sweeping \subseteq Fences
  BY <1>t DEF TypeOK, NativeCommands
<1>n. R \in Nat /\ b \in {0, 1} /\ \A i \in 0..N : Rank(mInput, T, i) \in Nat
  BY <1>u, RankNat DEF Bit
<1>a. AtNative => Lasts(sync.fence, 1)
  BY <1>t DEF PlacesLast
<1>m. ASSUME NEW i \in 1..N, mInput[i] \in T
      PROVE  Lasts(mInput[i].fence, b + Rank(mInput, T, i))
  BY <1>m, <1>t DEF PlacesLast
<1>o. ASSUME NEW i \in 1..M PROVE Lasts(owed[i], b + R + i)
  BY <1>t DEF PlacesLast
<1>p. ASSUME AtNative' => LastsOn(sync'.fence, 1),
             \A i \in 1..Len(mInput') : mInput'[i] \in T =>
               LastsOn(mInput'[i].fence, Bit(AtNative') + Rank(mInput', T, i)),
             \A i \in 1..Len(owed') :
               LastsOn(owed'[i], Bit(AtNative') + Rank(mInput', T, Len(mInput')) + i)
      PROVE  PlacesLast'
  <2>2. AtNative' => Lasts(sync.fence, 1)'
    BY <1>p DEF Lasts, LastsOn, TimelineHolds, InSweep
  <2>3. \A i \in 1..Len(mInput') : mInput'[i] \in NativeCommands =>
           Lasts(mInput[i].fence, Bit(AtNative) + Rank(mInput, NativeCommands, i))'
    BY <1>p DEF Lasts, LastsOn, TimelineHolds, InSweep
  <2>4. \A i \in 1..Len(owed') :
           Lasts(owed[i], Bit(AtNative) + Rank(mInput, NativeCommands, Len(mInput)) + i)'
    BY <1>p DEF Lasts, LastsOn, TimelineHolds, InSweep
  <2> QED
    BY <2>2, <2>3, <2>4 DEF PlacesLast
<1>k. ASSUME UNCHANGED <<mFences, expires, mTime, sync>>, NEW f, NEW n, Lasts(f, n)
      PROVE  LastsOn(f, n)
  BY <1>k DEF Lasts, LastsOn, TimelineHolds, InSweep
<1> HIDE DEF T, R, b, N, M
<1>1. CASE UNCHANGED <<mFences, expires, mTime, sync, mInput, owed>>
  BY <1>1, <1>t, PlacesKept DEF AtNative, TimelineHolds, InSweep
<1>2. CASE \/ UNCHANGED vars \/ ClientWaited \/ RenderDecrement \/ RenderDelete \/ Crash
           \/ (\E c \in Blockers : GetReply(c))
           \/ (\E f \in Fences : Create(f) \/ Destroy(f) \/ ClientWait(f))
  BY <1>1, <1>2 DEF vars, ClientWaited, RenderDecrement, RenderDelete, Crash, GetReply,
     Create, Destroy, ClientWait
<1>3. ASSUME NEW f \in Fences, NEW d \in BOOLEAN, CreateNative(f, d) PROVE PlacesLast'
  <2>1. /\ ~Live(f) /\ ~InSweep /\ Outstanding < kMaxGuestTimelines
        /\ mFences' = mFences \cup {f}
        /\ expires' = [expires EXCEPT ![f] = mTime + kMaxGuestTimelines]
        /\ owed' = Append(owed, f) /\ UNCHANGED <<mTime, mInput, sync>>
    BY <1>3 DEF CreateNative, addFence
  <2>2. Asked = Ranked(mInput, T, N)
    BY <1>u DEF Asked, Ranked, NativeCommands, T, N
  <2>3. Outstanding = M + R + b
    BY <2>2 DEF Outstanding, Rank, Bit, AtNative, R, b, M
  <2>4. kMaxGuestTimelines \in Nat /\ M + R + b + 1 <= kMaxGuestTimelines
    BY <1>n, <1>u, <2>1, <2>3, FenceAssumption
  <2>5. ASSUME NEW g, NEW n \in Nat, Lasts(g, n) PROVE LastsOn(g, n)
    <3>1. Live(g) /\ g \in Fences /\ g # f
      BY <1>t, <2>1, <2>5 DEF Lasts, RefInv
    <3>2. TimelineHolds(g)'
      BY <2>1, <2>5 DEF Lasts, TimelineHolds, InSweep
    <3> QED
      BY <1>u, <2>1, <2>5, <3>1, <3>2 DEF Lasts, LastsOn, TimelineHolds, InSweep
  <2>6. LastsOn(f, b + R + (M + 1))
    <3>1. TimelineHolds(f)'
      BY <2>1 DEF TimelineHolds, InSweep
    <3>2. expires'[f] = mTime + kMaxGuestTimelines /\ mTime' = mTime
      BY <1>u, <2>1
    <3> QED
      BY <1>n, <1>u, <2>4, <3>1, <3>2 DEF LastsOn, TimelineHolds, InSweep
  <2>7. (AtNative' <=> AtNative) /\ Bit(AtNative') = b /\ Len(mInput') = N
        /\ Rank(mInput', T, Len(mInput')) = R /\ Len(owed') = M + 1
        /\ owed'[M + 1] = f /\ \A i \in 1..M : owed'[i] = owed[i]
    BY <1>u, <2>1 DEF AtNative, b, R, N, M
  <2>8. ASSUME NEW i \in 1..Len(mInput'), mInput'[i] \in T
        PROVE  LastsOn(mInput'[i].fence, Bit(AtNative') + Rank(mInput', T, i))
    BY <1>m, <1>n, <2>1, <2>5, <2>7, <2>8
  <2>9. ASSUME NEW i \in 1..Len(owed')
        PROVE  LastsOn(owed'[i], Bit(AtNative') + Rank(mInput', T, Len(mInput')) + i)
    <3>1. CASE i = M + 1
      BY <2>6, <2>7, <3>1
    <3>2. CASE i \in 1..M
      <4>1. b + R + i \in Nat
        BY <1>n, <3>2
      <4>2. LastsOn(owed[i], b + R + i)
        BY <1>o, <2>5, <3>2, <4>1
      <4> QED
        BY <2>7, <3>2, <4>2
    <3> QED
      BY <1>u, <2>7, <3>1, <3>2
  <2>10. AtNative' => LastsOn(sync'.fence, 1)
    BY <1>a, <2>1, <2>5, <2>7
  <2> QED
    BY <1>p, <2>8, <2>9, <2>10
<1>4. CASE TriggerWait
  <2>1. UNCHANGED <<mFences, expires, mTime, sync>>
    BY <1>4 DEF TriggerWait
  <2>2. /\ 1 \in DOMAIN owed /\ mInput' = Append(mInput, Wait(owed[1]))
        /\ owed' = SubSeq(owed, 1, 0) \o SubSeq(owed, 2, M)
    BY <1>4 DEF TriggerWait, Send, M
  <2> DEFINE x == Wait(owed[1])
  <2>3. x \in SyncCommands /\ x \in T /\ x.fence = owed[1] /\ M >= 1 /\ 1 \in 1..M
    BY <1>u, <2>2, FenceAssumption DEF Wait, SyncCommands, NativeCommands, T, M
  <2>4. Len(owed') = M - 1 /\ \A i \in 1..(M - 1) : owed'[i] = owed[i + 1]
    <3>1. SubSeq(owed, 1, 0) = <<>> /\ SubSeq(owed, 2, M) \in Seq(Fences)
      BY <1>u, <2>3 DEF M
    <3>2. owed' = SubSeq(owed, 2, M)
      BY <2>2, <3>1
    <3>3. 2 \in Int /\ M \in Int /\ \A i \in 2..M : owed[i] \in Fences
      BY <1>u DEF M
    <3>4. /\ Len(SubSeq(owed, 2, M)) = IF 2 <= M THEN M - 2 + 1 ELSE 0
          /\ \A i \in 1..(M - 2 + 1) : SubSeq(owed, 2, M)[i] = owed[2 + i - 1]
      BY <3>3, SubSeqProperties
    <3>5. \A i \in 1..(M - 1) : owed'[i] = owed[i + 1]
      BY <1>u, <3>2, <3>4
    <3>6. Len(owed') = M - 1
      BY <1>u, <2>3, <3>2, <3>4
    <3> QED
      BY <3>5, <3>6
  <2>5. Len(mInput') = N + 1 /\ mInput'[N + 1] = x /\ \A i \in 1..N : mInput'[i] = mInput[i]
    BY <1>u, <2>2, <2>3 DEF N
  <2> HIDE DEF x
  <2>6. /\ \A i \in 0..N : Rank(mInput', T, i) = Rank(mInput, T, i)
        /\ Rank(mInput', T, N + 1) = R + 1
    <3>1. /\ \A i \in 0..Len(mInput) : Rank(Append(mInput, x), T, i) = Rank(mInput, T, i)
          /\ Rank(Append(mInput, x), T, Len(mInput) + 1)
               = Rank(mInput, T, Len(mInput)) + Bit(x \in T)
      BY <1>u, <2>3, RankAppend
    <3> QED
      BY <2>2, <2>3, <3>1 DEF Bit, x, N, R
  <2>7. Bit(AtNative') = b /\ (AtNative' <=> AtNative)
    BY <2>1 DEF AtNative, b
  <2>8. ASSUME NEW i \in 1..Len(mInput'), mInput'[i] \in T
        PROVE  LastsOn(mInput'[i].fence, Bit(AtNative') + Rank(mInput', T, i))
    <3>1. CASE i = N + 1
      <4>1. Lasts(owed[1], b + R + 1) /\ b + R + 1 = b + (R + 1)
        BY <1>n, <1>o, <2>3
      <4> QED
        BY <1>k, <2>1, <2>3, <2>5, <2>6, <2>7, <3>1, <4>1
    <3>2. CASE i \in 1..N
      <4>1. mInput'[i] = mInput[i] /\ Rank(mInput', T, i) = Rank(mInput, T, i)
        BY <1>u, <2>5, <2>6, <3>2
      <4> QED
        BY <1>k, <1>m, <2>1, <2>7, <2>8, <3>2, <4>1
    <3> QED
      BY <1>u, <2>5, <3>1, <3>2
  <2>9. ASSUME NEW i \in 1..Len(owed')
        PROVE  LastsOn(owed'[i], Bit(AtNative') + Rank(mInput', T, Len(mInput')) + i)
    <3>1. i + 1 \in 1..M /\ owed'[i] = owed[i + 1] /\ b + R + (i + 1) = b + (R + 1) + i
      BY <1>n, <1>u, <2>4
    <3>2. Lasts(owed'[i], b + (R + 1) + i)
      BY <1>o, <3>1
    <3> QED
      BY <1>k, <2>1, <2>5, <2>6, <2>7, <3>2
  <2>10. AtNative' => LastsOn(sync'.fence, 1)
    BY <1>a, <1>k, <2>1, <2>7
  <2> QED
    BY <1>p, <2>8, <2>9, <2>10
<1>5. ASSUME UNCHANGED <<mFences, expires, mTime, sync, owed>>,
             NEW x \in SyncCommands, x \notin T, Send(x)
      PROVE  PlacesLast'
  <2>1. mInput' = Append(mInput, x)
    BY <1>5 DEF Send
  <2>2. Len(mInput') = N + 1 /\ mInput'[N + 1] = x /\ \A i \in 1..N : mInput'[i] = mInput[i]
    BY <1>u, <2>1 DEF N
  <2>3. /\ \A i \in 0..N : Rank(mInput', T, i) = Rank(mInput, T, i)
        /\ Rank(mInput', T, N + 1) = R + Bit(x \in T)
    BY <1>u, <2>1, RankAppend DEF N, R
  <2>4. Rank(mInput', T, Len(mInput')) = R
    BY <1>5, <1>n, <2>2, <2>3 DEF Bit
  <2>7. Bit(AtNative') = b /\ (AtNative' <=> AtNative) /\ Len(owed') = M
    BY <1>5 DEF AtNative, b, M
  <2>8. ASSUME NEW i \in 1..Len(mInput'), mInput'[i] \in T
        PROVE  LastsOn(mInput'[i].fence, Bit(AtNative') + Rank(mInput', T, i))
    <3>1. i \in 1..N /\ i \in 0..N
      BY <1>5, <1>u, <2>2, <2>8
    <3>2. mInput'[i] = mInput[i] /\ Rank(mInput', T, i) = Rank(mInput, T, i)
      BY <2>2, <2>3, <3>1
    <3> QED
      BY <1>5, <1>k, <1>m, <2>7, <2>8, <3>1, <3>2
  <2>9. ASSUME NEW i \in 1..Len(owed')
        PROVE  LastsOn(owed'[i], Bit(AtNative') + Rank(mInput', T, Len(mInput')) + i)
    BY <1>5, <1>k, <1>o, <2>4, <2>7
  <2>10. AtNative' => LastsOn(sync'.fence, 1)
    BY <1>5, <1>a, <1>k, <2>7
  <2> QED
    BY <1>p, <2>8, <2>9, <2>10
<1>6. CASE TriggerVulkan
  <2>1. Wait(None) \in SyncCommands /\ Wait(None) \notin T
    BY DEF Wait, SyncCommands, NativeCommands, T
  <2> QED
    BY <1>5, <1>6, <2>1 DEF TriggerVulkan
<1>7. ASSUME NEW c \in Blockers, Block(c) PROVE PlacesLast'
  <2>1. \A f \in Fences \cup {None} :
           BlockedWait(f) \in SyncCommands /\ BlockedWait(f) \notin T
    BY DEF BlockedWait, SyncCommands, NativeCommands, T
  <2>2. PICK f \in Fences \cup {None} : SendBlocked(c, f)
    BY <1>7 DEF Block, WaitForGpu, WaitForGpuVulkan
  <2> QED
    BY <1>5, <2>1, <2>2 DEF SendBlocked
<1>8. CASE Receive
  <2> DEFINE x == Head(mInput)
  <2>1. /\ mInput # <<>> /\ mInput' = Tail(mInput) /\ sync.at = "idle"
        /\ UNCHANGED <<mFences, expires, mTime, owed>>
    BY <1>8 DEF Receive, Idles
  <2>2. /\ x \in SyncCommands /\ x = mInput[1] /\ Len(mInput') = N - 1 /\ N >= 1
        /\ \A i \in 1..(N - 1) : mInput'[i] = mInput[i + 1]
    BY <1>u, <2>1 DEF N
  <2>3. \A i \in 0..(N - 1) : Rank(mInput, T, i + 1) = Rank(mInput', T, i) + Bit(x \in T)
    BY <1>u, <2>1, RankTail DEF N
  <2>4. ~AtNative /\ b = 0 /\ ~InSweep
    BY <1>t, <2>1 DEF ThreadInv, AtNative, Bit, b, InSweep
  <2>5. /\ Live(x.fence) => sync' = At("found", x.op, x.fence)
        /\ ~Live(x.fence) => sync'.op = "none" \/ (sync'.op = x.op /\ x.op = "Blocked")
    BY <1>8, Idling DEF Receive, At
  <2>x. x.op \in {"Wait", "Blocked"}
    BY <2>2 DEF SyncCommands
  <2>y. ~InSweep'
    BY <2>5, <2>x DEF InSweep, At
  <2>6. ASSUME NEW f, NEW n, Lasts(f, n) PROVE LastsOn(f, n)
    BY <2>1, <2>6, <2>y DEF Lasts, LastsOn, TimelineHolds, InSweep
  <2> HIDE DEF x
  <2>7. x \in T => Lasts(x.fence, Rank(mInput, T, 1)) /\ Live(x.fence)
        /\ Rank(mInput, T, 1) = 1
    <3> SUFFICES ASSUME x \in T
                 PROVE  Lasts(x.fence, Rank(mInput, T, 1)) /\ Live(x.fence)
                        /\ Rank(mInput, T, 1) = 1
      OBVIOUS
    <3>1. 1 \in 1..N /\ 0 \in 0..(N - 1) /\ 1 \in 0..N
      BY <1>u, <2>2
    <3>2. Lasts(x.fence, b + Rank(mInput, T, 1))
      BY <1>m, <2>2, <3>1
    <3>3. Rank(mInput, T, 0 + 1) = Rank(mInput', T, 0) + 1
      BY <2>3, <3>1 DEF Bit
    <3>4. Rank(mInput, T, 1) = 1
      BY <3>3, RankEmpty
    <3>5. Live(x.fence)
      BY <1>t, <3>2 DEF Lasts, RefInv
    <3> QED
      BY <2>4, <3>2, <3>4, <3>5
  <2>8. Bit(AtNative') = Bit(x \in T) /\ (AtNative' => x \in T /\ sync'.fence = x.fence)
    <3>1. CASE x \in T
      <4>1. sync' = At("found", x.op, x.fence) /\ x.op = "Wait"
        BY <2>5, <2>7, <3>1 DEF T, NativeCommands
      <4> QED
        BY <3>1, <4>1 DEF AtNative, At
    <3>2. CASE x \notin T
      <4>1. ~AtNative'
        BY <2>1, <2>2, <2>5, <3>2 DEF AtNative, At, T, NativeCommands, Live
      <4> QED
        BY <3>2, <4>1 DEF Bit
    <3> QED
      BY <3>1, <3>2
  <2> DEFINE c == Bit(x \in T)
  <2>9. c \in {0, 1} /\ Bit(AtNative') = c
    BY <2>8 DEF Bit
  <2> HIDE DEF c
  <2>10. ASSUME NEW i \in 1..Len(mInput'), mInput'[i] \in T
         PROVE  LastsOn(mInput'[i].fence, Bit(AtNative') + Rank(mInput', T, i))
    <3>1. i + 1 \in 1..N /\ i \in 0..(N - 1) /\ mInput'[i] = mInput[i + 1] /\ i \in Nat
      BY <1>u, <2>2
    <3>2. Lasts(mInput'[i].fence, b + Rank(mInput, T, i + 1))
      BY <1>m, <2>10, <3>1
    <3>3. Rank(mInput, T, i + 1) = Rank(mInput', T, i) + c /\ Rank(mInput', T, i) \in Nat
      BY <2>3, <3>1, RankNat DEF c
    <3>4. b + Rank(mInput, T, i + 1) = Bit(AtNative') + Rank(mInput', T, i)
      BY <2>4, <2>9, <3>3
    <3> QED
      BY <2>6, <3>2, <3>4
  <2>11. ASSUME NEW i \in 1..Len(owed')
         PROVE  LastsOn(owed'[i], Bit(AtNative') + Rank(mInput', T, Len(mInput')) + i)
    <3>1. i \in 1..M /\ owed'[i] = owed[i] /\ i \in Nat
      BY <1>u, <2>1 DEF M
    <3>2. Lasts(owed'[i], b + R + i)
      BY <1>o, <3>1
    <3>3. Rank(mInput, T, (N - 1) + 1) = Rank(mInput', T, N - 1) + c
          /\ Rank(mInput', T, N - 1) \in Nat /\ (N - 1) + 1 = N
      BY <1>u, <2>2, <2>3, RankNat DEF c
    <3>4. b + R + i = Bit(AtNative') + Rank(mInput', T, Len(mInput')) + i
      BY <1>n, <2>2, <2>4, <2>9, <3>1, <3>3 DEF R
    <3> QED
      BY <2>6, <3>2, <3>4
  <2>12. AtNative' => LastsOn(sync'.fence, 1)
    BY <2>6, <2>7, <2>8
  <2> QED
    BY <1>p, <2>10, <2>11, <2>12
<1>q. ASSUME ~AtNative, ~AtNative', UNCHANGED <<mTime, mInput, owed>>, InSweep,
             sync.at # "sweep", sync.fence \in Fences,
             \/ UNCHANGED <<mFences, expires>> /\ sync'.fence = sync.fence
             \/ eraseFence(sync.fence) /\ sync'.fence = None
      PROVE  PlacesLast'
  <2>1. expires[sync.fence] <= mTime
    BY <1>q, <1>t DEF SweepsExpired
  <2>2. \A g \in Fences : TimelineHolds(g) /\ expires[g] > mTime =>
           TimelineHolds(g)' /\ expires'[g] = expires[g]
    BY <1>q, <1>u, <2>1, FenceAssumption DEF TimelineHolds, InSweep, eraseFence
  <2> QED
    BY <1>q, <1>t, <2>2, PlacesKept
<1>s. ASSUME UNCHANGED <<mFences, expires, mTime, mInput, owed>>, ~InSweep, ~InSweep',
             AtNative' <=> AtNative, AtNative => sync'.fence = sync.fence
      PROVE  PlacesLast'
  BY <1>s, <1>t, PlacesKept DEF TimelineHolds
<1>9. CASE BeginWait
  <2>1. CASE Live(sync.fence) /\ fence[sync.fence].count > 0
    <3>1. /\ UNCHANGED <<mFences, expires, mTime, mInput, owed>> /\ ~InSweep
          /\ sync'.op = sync.op /\ sync'.fence = sync.fence
      BY <1>9, <1>d, <1>t, <2>1 DEF BeginWait, Doings, ThreadInv, InSweep
    <3> QED
      BY <1>s, <3>1 DEF AtNative, InSweep
  <2> QED
    BY <1>2, <1>9, <2>1 DEF BeginWait
<1>10. CASE EndWait
  <2>1. /\ UNCHANGED <<mFences, expires, mTime, mInput, owed>> /\ ~InSweep
        /\ sync'.op = sync.op /\ sync'.fence = sync.fence
    BY <1>10, <1>d, <1>t DEF EndWait, Doings, ThreadInv, InSweep
  <2> QED
    BY <1>s, <2>1 DEF AtNative, InSweep
<1>r. ASSUME SyncDecrement \/ SyncDelete PROVE PlacesLast'
  <2>1. /\ sync.at \in {"decrement", "last", "zero"} /\ sync.fence \in Fences
        /\ sync.op \in {"Wait", "Blocked", "Sweep", "Signaled"}
        /\ UNCHANGED <<mTime, mInput, owed>>
    BY <1>r, <1>t DEF SyncDecrement, SyncDelete, ThreadInv
  <2>2. \/ UNCHANGED <<mFences, expires>> /\ sync'.op = sync.op /\ sync'.fence = sync.fence
        \/ /\ sync.op \in {"Sweep", "Signaled"} /\ sync' = ToSweep /\ eraseFence(sync.fence)
    BY <1>r, <1>d DEF SyncDecrement, SyncDelete, AfterDecRef, Doings
  <2>3. CASE sync.op \in {"Wait", "Blocked"}
    BY <1>s, <2>1, <2>2, <2>3 DEF AtNative, InSweep
  <2>4. CASE sync.op \in {"Sweep", "Signaled"}
    BY <1>q, <2>1, <2>2, <2>4, Sweeping DEF AtNative, InSweep
  <2> QED
    BY <2>1, <2>3, <2>4
<1>11. CASE IncrementTimeline
  <2>1. /\ UNCHANGED <<mFences, expires, mInput, owed>> /\ sync.op = "Wait"
        /\ mTime' = mTime + 1 /\ sync'.op = "Sweep" /\ sync'.fence = None
    BY <1>11, Sweeping DEF IncrementTimeline
  <2>2. b = 1 /\ ~AtNative' /\ Bit(AtNative') = 0 /\ Len(mInput') = N /\ Len(owed') = M
        /\ Rank(mInput', T, Len(mInput')) = R
    BY <2>1 DEF AtNative, Bit, b, N, M, R
  <2>3. ASSUME NEW f, NEW n \in Nat, Lasts(f, 1 + n) PROVE LastsOn(f, n)
    BY <1>u, <2>1, <2>3, FenceAssumption DEF Lasts, LastsOn, TimelineHolds, InSweep
  <2>4. ASSUME NEW i \in 1..Len(mInput'), mInput'[i] \in T
        PROVE  LastsOn(mInput'[i].fence, Bit(AtNative') + Rank(mInput', T, i))
    <3>1. i \in 1..N /\ i \in 0..N /\ Rank(mInput', T, i) = Rank(mInput, T, i)
          /\ mInput'[i] = mInput[i]
      BY <1>u, <2>1, <2>2
    <3>2. Lasts(mInput[i].fence, 1 + Rank(mInput, T, i)) /\ Rank(mInput, T, i) \in Nat
      BY <1>m, <1>n, <2>2, <2>4, <3>1
    <3>3. LastsOn(mInput[i].fence, Rank(mInput, T, i))
      BY <2>3, <3>2
    <3> QED
      BY <2>2, <3>1, <3>2, <3>3
  <2>5. ASSUME NEW i \in 1..Len(owed')
        PROVE  LastsOn(owed'[i], Bit(AtNative') + Rank(mInput', T, Len(mInput')) + i)
    <3>1. i \in 1..M /\ owed'[i] = owed[i] /\ b + R + i = 1 + (R + i) /\ R + i \in Nat
          /\ 0 + R + i = R + i
      BY <1>n, <1>u, <2>1, <2>2
    <3>2. LastsOn(owed[i], R + i)
      BY <1>o, <2>3, <3>1
    <3> QED
      BY <2>2, <3>1, <3>2
  <2> QED
    BY <1>p, <2>2, <2>4, <2>5
<1>12. CASE Reply
  BY <1>12, <1>s, Idling DEF Reply, AtNative, InSweep
<1>13. ASSUME NEW f \in Fences, Sweep(f) PROVE PlacesLast'
  <2>1. /\ sync.at = "sweep" /\ sync.op = "Sweep" /\ sync.fence = None
        /\ expires[f] <= mTime /\ UNCHANGED <<mTime, mInput, owed>>
    BY <1>13, <1>t DEF Sweep, SweepsExpired, ThreadInv
  <2>2. \/ sync'.op = "Sweep" /\ sync'.fence = f /\ UNCHANGED <<mFences, expires>>
        \/ UNCHANGED sync /\ mFences' = mFences \ {f} /\ expires' = [expires EXCEPT ![f] = 0]
    BY <1>13 DEF Sweep, eraseFence, At
  <2>3. ~AtNative /\ ~AtNative'
    BY <2>1, <2>2 DEF AtNative
  <2>4. \A g \in Fences : TimelineHolds(g) /\ expires[g] > mTime =>
           TimelineHolds(g)' /\ expires'[g] = expires[g]
    BY <1>u, <2>1, <2>2 DEF TimelineHolds, InSweep
  <2> QED
    BY <1>t, <2>1, <2>3, <2>4, PlacesKept
<1>14. CASE SweepFlag
  <2>1. CASE Live(sync.fence)
    <3>1. /\ sync.at = "flag" /\ sync.op = "Sweep" /\ sync.fence \in Fences
          /\ UNCHANGED <<mTime, mInput, owed>>
      BY <1>14, <1>t, <2>1 DEF SweepFlag, ThreadInv
    <3>2. \/ /\ UNCHANGED <<mFences, expires>> /\ sync'.op = "Signaled"
             /\ sync'.fence = sync.fence
          \/ eraseFence(sync.fence) /\ sync' = ToSweep
      BY <1>14, <2>1 DEF SweepFlag, At
    <3> QED
      BY <1>q, <3>1, <3>2, Sweeping DEF AtNative, InSweep
  <2> QED
    BY <1>2, <1>14, <2>1 DEF SweepFlag
<1>15. CASE SweepEnd
  <2>1. /\ sync.op = "Sweep" /\ sync.fence = None /\ sync'.op = "none"
        /\ UNCHANGED <<mFences, expires, mTime, mInput, owed>>
    BY <1>15, <1>t, Idling DEF SweepEnd, ThreadInv
  <2>2. ~AtNative /\ ~AtNative' /\ \A g \in Fences : TimelineHolds(g) => TimelineHolds(g)'
    BY <2>1 DEF AtNative, TimelineHolds, InSweep
  <2> QED
    BY <1>t, <2>1, <2>2, PlacesKept
<1> QED
  BY <1>2, <1>3, <1>4, <1>6, <1>7, <1>8, <1>9, <1>10, <1>r, <1>11, <1>12, <1>13, <1>14, <1>15
     DEF Next, Guest, SyncThreadStep

\* A native fence is there until the sync thread has waited for it, whatever the guest
\* destroys, for every number of timelines: the signals of the fences ahead of it are
\* too few to expire it.
THEOREM NativesOutlive == Spec => []NativeOutlives
<1>1. Init => NativeInv
  BY Idling DEF Init, NativeInv, SweepsExpired, PlacesLast, AtNative, InSweep
<1>2. FenceInv /\ NativeInv /\ [Next]_vars => NativeInv'
  BY SweepStep, PlacesStep DEF NativeInv
<1>3. FenceInv /\ NativeInv => NativeOutlives
  <2> SUFFICES ASSUME FenceInv, NativeInv, InOrder PROVE NativeOutlives
    BY DEF NativeOutlives
  <2>1. owed \in Seq(Fences) /\ mInput \in Seq(SyncCommands) /\ PlacesLast
    BY DEF FenceInv, TypeOK, NativeInv
  <2>2. \A i \in DOMAIN owed : TimelineHolds(owed[i])
    BY <2>1 DEF PlacesLast, Lasts
  <2>3. ASSUME NEW i \in Asked PROVE TimelineHolds(mInput[i].fence)
    <3>1. i \in 1..Len(mInput) /\ mInput[i] \in NativeCommands
      BY <2>1, <2>3 DEF Asked, NativeCommands
    <3> QED
      BY <2>1, <3>1 DEF PlacesLast, Lasts
  <2>4. sync.op = "Wait" => TimelineHolds(sync.fence)
    BY <2>1 DEF PlacesLast, Lasts, AtNative
  <2> QED
    BY <2>2, <2>3, <2>4 DEF NativeOutlives
<1> QED
  BY <1>1, <1>2, <1>3, FenceInvariant, PTL DEF Spec

\* A fence that the render thread waits on, that the timeline has yet to let go, or that
\* the sync thread waits on for a device that asks in order, is there, although a decRef
\* tests and decrements in two steps.
THEOREM NoWaitOnFreed == Spec => []HeldIsLive
<1>1. FenceInv /\ NativeOutlives => HeldIsLive
  BY DEF FenceInv, RefInv, NativeOutlives, HeldIsLive, Refers
<1> QED
  BY <1>1, FenceInvariant, NativesOutlive, PTL

=============================================================================
