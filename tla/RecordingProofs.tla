---------------------------- MODULE RecordingProofs ----------------------------
(***************************************************************************)
(* Proofs about Recording, for any displays, any number of threads, any    *)
(* even range of the count and whether or not the thread can be started:   *)
(*                                                                         *)
(*   - the buffers keep what the comment in doNextReadback claims;         *)
(*   - the worker does not sleep on commands, and a call that returned has *)
(*     left none behind (CallInv, with the lemmas of WorkerProofs);        *)
(*   - callbacks and mailboxes agree between calls (RegInv);               *)
(*   - frames reach the consumer in the order they were drawn (AgeInv).    *)
(*                                                                         *)
(* Each invariant rests on those before it.                                *)
(***************************************************************************)
EXTENDS Recording, WorkerProofs

\* The buffers of even and odd reads.
Pairs == {<<0, 1>>, <<2, 1>>, <<0, 2>>}

\* A mailbox as reads, copies and flushes leave it.  The third buffer was read last
\* only because a copy of one of the others kept it from being read, and then that
\* one or the fourth is still what a consumer would map.
Good(r) ==
    /\ <<r.even, r.odd>> \in Pairs
    /\ r.prev \in 0..2 /\ r.map \in 0..3 /\ r.map # r.prev
    /\ r.count \in 0..(CountMod - 1)
    /\ r.count % 2 = 0 => r.prev \in {1, 2}
    /\ r.count % 2 = 1 => r.prev \in {0, 2}
    /\ r.prev = 2 /\ r.count % 2 = 0 => r.even = 0 /\ r.odd = 2 /\ r.map \in {1, 3}
    /\ r.prev = 2 /\ r.count % 2 = 1 => r.even = 2 /\ r.odd = 1 /\ r.map \in {0, 3}

\* Every mailbox is one of these.
MailboxInv ==
    /\ mRecordDisplays \in [Displays -> Record \cup {NoRecord}]
    /\ \A d \in Displays : Recorded(d) => Good(mRecordDisplays[d])

-----------------------------------------------------------------------------
(* What the operations do to one mailbox.                                   *)

\* The count goes on by one and wraps around to an even number, so reads take turns.
LEMMA Turns ==
  ASSUME NEW c \in 0..(CountMod - 1)
  PROVE  /\ (c + 1) % CountMod \in 0..(CountMod - 1)
         /\ c % 2 = 0 => ((c + 1) % CountMod) % 2 = 1
         /\ c % 2 = 1 => ((c + 1) % CountMod) % 2 = 0
<1>0. CountMod \in Nat /\ CountMod > 0 /\ CountMod % 2 = 0
  BY RecordingAssumption
<1>1. CASE c + 1 < CountMod
  <2>1. (c + 1) % CountMod = c + 1
    BY <1>0, <1>1
  <2> QED
    BY <1>0, <1>1, <2>1
<1>2. CASE c + 1 = CountMod
  <2>1. (c + 1) % CountMod = 0
    BY <1>0, <1>2
  <2> QED
    BY <1>0, <1>2, <2>1
<1> QED
  BY <1>0, <1>1, <1>2

\* AddRecordDisplay makes a good one.
LEMMA NewGood == NewRecord \in Record /\ Good(NewRecord)
<1>1. 0 \in 0..(CountMod - 1) /\ MaxAge \in 0..MaxAge
  BY RecordingAssumption
<1>2. NewRecord \in Record
  BY <1>1 DEF NewRecord, Record, Slots
<1>3. Good(NewRecord)
  BY <1>1 DEF NewRecord, Good, Pairs
<1> QED
  BY <1>2, <1>3

\* Beginning and ending a copy leave all but the flag alone.
LEMMA CopyGood ==
  ASSUME NEW r \in Record, Good(r), NEW b \in BOOLEAN
  PROVE  /\ [r EXCEPT !.copying = b] \in Record /\ Good([r EXCEPT !.copying = b])
         /\ [r EXCEPT !.copying = b].count = r.count
BY DEF Record, Good

\* A flush hands out the fourth buffer, which is never read into.
LEMMA FlushGood ==
  ASSUME NEW r \in Record, Good(r)
  PROVE  AfterFlush(r) \in Record /\ Good(AfterFlush(r)) /\ AfterFlush(r).count = r.count
<1>1. CASE r.copying
  BY <1>1 DEF AfterFlush
<1>2. CASE ~r.copying
  <2>1. r.pix \in [Slots -> 0..MaxAge] /\ r.prev \in Slots /\ 3 \in Slots
    BY DEF Record, Slots
  <2>2. [r.pix EXCEPT ![3] = r.pix[r.prev]] \in [Slots -> 0..MaxAge]
    BY <2>1
  <2>3. AfterFlush(r) \in Record /\ AfterFlush(r).map = 3 /\ AfterFlush(r).prev = r.prev
        /\ AfterFlush(r).even = r.even /\ AfterFlush(r).odd = r.odd
        /\ AfterFlush(r).count = r.count
    BY <1>2, <2>1, <2>2 DEF AfterFlush, Record
  <2> QED
    BY <2>3 DEF Good
<1> QED
  BY <1>1, <1>2 DEF Record

\* doNextReadback: the buffers it may choose from, and what may be mapped.
LEMMA AimGood ==
  ASSUME NEW r \in Record, Good(r)
  PROVE  /\ Aim(r) \in Record /\ Aim(r).count = r.count
         /\ <<Aim(r).even, Aim(r).odd>> \in Pairs
         /\ r.count % 2 = 0 => /\ Aim(r).even \notin {r.prev, Aim(r).map}
                               /\ Aim(r).even = 2 => Aim(r).odd = 1 /\ Aim(r).map \in {0, 3}
         /\ r.count % 2 = 1 => /\ Aim(r).odd \notin {r.prev, Aim(r).map}
                               /\ Aim(r).odd = 2 => Aim(r).even = 0 /\ Aim(r).map \in {1, 3}
<1>0. /\ r.even \in 0..2 /\ r.odd \in 0..2 /\ r.prev \in 0..2 /\ r.map \in 0..3
      /\ r.copying \in BOOLEAN /\ r.count \in 0..(CountMod - 1)
  BY DEF Record, Slots
<1>s. 0 \in 0..2 /\ 1 \in 0..2 /\ 2 \in 0..2 /\ r.prev \in Slots /\ 0 \in Slots
  BY <1>0 DEF Slots
<1>1. CASE ~r.copying
  <2> DEFINE q == [r EXCEPT !.even = 0, !.odd = 1, !.map = r.prev]
  <2>1. q \in Record /\ q.count = r.count /\ q.even = 0 /\ q.odd = 1 /\ q.map = r.prev
    BY <1>s DEF Record
  <2>2. Aim(r) = q
    BY <1>1 DEF Aim
  <2> HIDE DEF q
  <2> QED
    BY <1>0, <2>1, <2>2 DEF Good, Pairs
<1>2. ASSUME r.copying, r.map \in 0..2
      PROVE  /\ Aim(r) \in Record /\ Aim(r).count = r.count /\ Aim(r).map = r.map
             /\ r.map = 0 => Aim(r).even = 2 /\ Aim(r).odd = 1
             /\ r.map = 1 => Aim(r).even = 0 /\ Aim(r).odd = 2
             /\ r.map = 2 => Aim(r).even = 0 /\ Aim(r).odd = 1
  <2>1. CASE r.map = 0
    <3> DEFINE p == [r EXCEPT !.even = 2, !.odd = 1]
    <3>1. p \in Record /\ p.count = r.count /\ p.even = 2 /\ p.odd = 1 /\ p.map = r.map
      BY <1>s DEF Record
    <3>2. Aim(r) = p
      BY <1>2, <2>1 DEF Aim
    <3> HIDE DEF p
    <3> QED
      BY <2>1, <3>1, <3>2
  <2>2. CASE r.map = 1
    <3> DEFINE p == [r EXCEPT !.even = 0, !.odd = 2]
    <3>1. p \in Record /\ p.count = r.count /\ p.even = 0 /\ p.odd = 2 /\ p.map = r.map
      BY <1>s DEF Record
    <3>2. Aim(r) = p
      BY <1>2, <2>2 DEF Aim
    <3> HIDE DEF p
    <3> QED
      BY <2>2, <3>1, <3>2
  <2>3. CASE r.map = 2
    <3> DEFINE p == [r EXCEPT !.even = 0, !.odd = 1]
    <3>1. p \in Record /\ p.count = r.count /\ p.even = 0 /\ p.odd = 1 /\ p.map = r.map
      BY <1>s DEF Record
    <3>2. Aim(r) = p
      BY <1>2, <2>3 DEF Aim
    <3> HIDE DEF p
    <3> QED
      BY <2>3, <3>1, <3>2
  <2> QED
    BY <1>2, <2>1, <2>2, <2>3
<1>3. CASE r.copying /\ r.map \in 0..2
  BY <1>0, <1>2, <1>3 DEF Good, Pairs
<1>4. CASE r.copying /\ r.map = 3
  <2>1. Aim(r) = r
    BY <1>4 DEF Aim
  <2> QED
    BY <1>0, <1>4, <2>1 DEF Good, Pairs
<1> QED
  BY <1>0, <1>1, <1>3, <1>4

\* A read leaves a good mailbox and was made to another buffer than the last one.
LEMMA ReadGood ==
  ASSUME NEW r \in Record, Good(r)
  PROVE  AfterRead(r) \in Record /\ Good(AfterRead(r)) /\ AfterRead(r).prev # r.prev
<1> DEFINE a == Aim(r)
           at == ReadAt(a)
           n == (a.count + 1) % CountMod
           pix == [s \in Slots |-> IF s = at THEN 0 ELSE Older(a.pix[s])]
<1>1. /\ a \in Record /\ a.count = r.count /\ <<a.even, a.odd>> \in Pairs
      /\ r.count % 2 = 0 => /\ a.even \notin {r.prev, a.map}
                            /\ a.even = 2 => a.odd = 1 /\ a.map \in {0, 3}
      /\ r.count % 2 = 1 => /\ a.odd \notin {r.prev, a.map}
                            /\ a.odd = 2 => a.even = 0 /\ a.map \in {1, 3}
  BY AimGood
<1>2. AfterRead(r) = [a EXCEPT !.count = n, !.prev = at, !.pix = pix]
  <2>1. Aim(r) \in Record
    BY <1>1
  <2> QED
    BY <2>1 DEF AfterRead, Record
<1> HIDE DEF a
<1>3. /\ a.even \in 0..2 /\ a.odd \in 0..2 /\ a.map \in 0..3 /\ a.count \in 0..(CountMod - 1)
      /\ a.pix \in [Slots -> 0..MaxAge]
  BY <1>1 DEF Record, Slots
<1>4. (a.count % 2 = 0 /\ at = a.even) \/ (a.count % 2 = 1 /\ at = a.odd)
  BY <1>3, RecordingAssumption DEF ReadAt
<1> HIDE DEF at
<1>5. pix \in [Slots -> 0..MaxAge]
  BY <1>3, RecordingAssumption DEF Older
<1>6. n \in 0..(CountMod - 1) /\ (a.count % 2 = 0 => n % 2 = 1) /\ (a.count % 2 = 1 => n % 2 = 0)
  BY <1>3, Turns
<1> HIDE DEF n, pix
<1>7. /\ AfterRead(r) \in Record /\ AfterRead(r).count = n /\ AfterRead(r).prev = at
      /\ AfterRead(r).even = a.even /\ AfterRead(r).odd = a.odd /\ AfterRead(r).map = a.map
  BY <1>1, <1>2, <1>3, <1>4, <1>5, <1>6 DEF Record
<1> QED
  BY <1>1, <1>3, <1>4, <1>6, <1>7 DEF Good, Pairs

-----------------------------------------------------------------------------
(* Steps.                                                                   *)

\* What a step may do to the mailbox of a display: make it, delete it, or leave it
\* good, with the next read made elsewhere.
Kept(d) ==
    Recorded(d)' =>
        /\ mRecordDisplays'[d] \in Record /\ Good(mRecordDisplays'[d])
        /\ Recorded(d) /\ mRecordDisplays'[d].count # mRecordDisplays[d].count
           => mRecordDisplays'[d].prev # mRecordDisplays[d].prev

\* A step that puts r in the mailbox of e and leaves the others alone.
LEMMA OneMailbox ==
  ASSUME MailboxInv, NEW e, NEW r \in Record \cup {NoRecord},
         mRecordDisplays' = [mRecordDisplays EXCEPT ![e] = r],
         r # NoRecord => Good(r),
         r # NoRecord /\ e \in Displays /\ Recorded(e) /\ r.count # mRecordDisplays[e].count
           => r.prev # mRecordDisplays[e].prev
  PROVE  /\ mRecordDisplays' \in [Displays -> Record \cup {NoRecord}]
         /\ \A d \in Displays : Kept(d)
<1>1. mRecordDisplays' \in [Displays -> Record \cup {NoRecord}]
  BY DEF MailboxInv
<1>2. ASSUME NEW d \in Displays, d # e PROVE Kept(d)
  <2>1. mRecordDisplays'[d] = mRecordDisplays[d]
    BY <1>2 DEF MailboxInv
  <2> QED
    BY <2>1 DEF MailboxInv, Kept, Recorded
<1>3. ASSUME NEW d \in Displays, d = e PROVE Kept(d)
  <2>1. mRecordDisplays'[d] = r
    BY <1>3 DEF MailboxInv
  <2> QED
    BY <1>3, <2>1 DEF Kept, Recorded
<1> QED
  BY <1>1, <1>2, <1>3

\* Every step keeps the mailboxes so.
LEMMA MailboxStep ==
  ASSUME MailboxInv, [Next]_vars
  PROVE  /\ mRecordDisplays' \in [Displays -> Record \cup {NoRecord}]
         /\ \A d \in Displays : Kept(d)
<1> DEFINE Goal == /\ mRecordDisplays' \in [Displays -> Record \cup {NoRecord}]
                   /\ \A d \in Displays : Kept(d)
<1> SUFFICES Goal
  OBVIOUS
<1>u. ASSUME UNCHANGED mRecordDisplays PROVE Goal
  BY <1>u DEF MailboxInv, Kept, Recorded
<1>r. ASSUME NEW d \in Displays, Recorded(d)
      PROVE  mRecordDisplays[d] \in Record /\ Good(mRecordDisplays[d])
  BY <1>r DEF MailboxInv, Recorded
<1>e. ASSUME NEW d, d \notin Displays, NEW v, mRecordDisplays' = [mRecordDisplays EXCEPT ![d] = v]
      PROVE  Goal
  <2>1. mRecordDisplays' = mRecordDisplays
    BY <1>e DEF MailboxInv
  <2> QED
    BY <1>u, <2>1
<1> HIDE DEF Goal
<1>1. CASE UNCHANGED vars
  BY <1>1, <1>u DEF vars, recordVars
<1>2. CASE NewCall
  BY <1>2, <1>u DEF NewCall, Post, Finalize, AddPostCallback, RemovePostCallback, GetPixels,
     FlushReadPipeline, Begin, recordVars
<1>3. CASE NextDisplay \/ LastDisplay \/ InitGL \/ Exit \/ Loop \/ Spurious
  BY <1>3, <1>u DEF NextDisplay, LastDisplay, InitGL, Exit, Loop, Spurious, recordVars
<1>4. ASSUME NEW c \in Callers,
             \/ Start(c) \/ StartThread(c) \/ EnqueueInit(c) \/ Enqueue(c)
             \/ waitQueuedItems(c) \/ Released(c) \/ Return(c)
      PROVE  Goal
  BY <1>4, <1>u DEF Start, StartThread, EnqueueInit, Enqueue, waitQueuedItems, Released,
     Return, recordVars
<1>5. ASSUME Crash PROVE Goal
  BY <1>5, <1>u DEF Crash, recordVars
<1>6. CASE doNextReadback
  <2> DEFINE d == job[Render].display
  <2>1. CASE ~Recorded(d)
    BY <1>5, <1>6, <2>1 DEF doNextReadback
  <2>2. CASE Recorded(d)
    <3>1. mRecordDisplays' = [mRecordDisplays EXCEPT ![d] = AfterRead(mRecordDisplays[d])]
      BY <1>6, <2>2 DEF doNextReadback
    <3>2. CASE d \in Displays
      <4>1. /\ AfterRead(mRecordDisplays[d]) \in Record /\ Good(AfterRead(mRecordDisplays[d]))
            /\ AfterRead(mRecordDisplays[d]).prev # mRecordDisplays[d].prev
        BY <1>r, <2>2, <3>2, ReadGood
      <4> QED
        BY <3>1, <4>1, OneMailbox DEF Goal
    <3> QED
      BY <1>e, <3>1, <3>2
  <2> QED
    BY <2>1, <2>2
<1>7. ASSUME NEW c \in Callers, flushPipeline(c) PROVE Goal
  <2> DEFINE d == job[c].display
  <2>1. CASE ~Recorded(d)
    BY <1>5, <1>7, <2>1 DEF flushPipeline
  <2>2. CASE Recorded(d)
    <3>1. mRecordDisplays' = [mRecordDisplays EXCEPT ![d] = AfterFlush(mRecordDisplays[d])]
      BY <1>7, <2>2 DEF flushPipeline
    <3>2. CASE d \in Displays
      <4>1. /\ AfterFlush(mRecordDisplays[d]) \in Record /\ Good(AfterFlush(mRecordDisplays[d]))
            /\ AfterFlush(mRecordDisplays[d]).count = mRecordDisplays[d].count
        BY <1>r, <2>2, <3>2, FlushGood
      <4> QED
        BY <3>1, <4>1, OneMailbox DEF Goal
    <3> QED
      BY <1>e, <3>1, <3>2
  <2> QED
    BY <2>1, <2>2
<1>8. CASE AddRecordDisplay
  <2> DEFINE d == Head(todo).display
             r == IF Recorded(d) THEN mRecordDisplays[d] ELSE NewRecord
  <2>1. mRecordDisplays' = [mRecordDisplays EXCEPT ![d] = r]
    BY <1>8 DEF AddRecordDisplay
  <2>2. CASE d \in Displays
    <3>1. r \in Record /\ Good(r) /\ (Recorded(d) => r = mRecordDisplays[d])
      BY <1>r, <2>2, NewGood
    <3> QED
      BY <2>1, <3>1, OneMailbox DEF Goal
  <2> QED
    BY <1>e, <2>1, <2>2
<1>9. CASE DelRecordDisplay
  BY <1>9, OneMailbox DEF DelRecordDisplay, Goal
<1>10. CASE BeginCopy
  <2> DEFINE d == Head(todo).display
             r == [mRecordDisplays[d] EXCEPT !.copying = TRUE]
  <2>1. CASE ~Recorded(d)
    BY <1>5, <1>10, <2>1 DEF BeginCopy
  <2>2. CASE Recorded(d)
    <3>1. mRecordDisplays' = [mRecordDisplays EXCEPT ![d] = r]
      BY <1>10, <2>2 DEF BeginCopy
    <3>2. CASE d \in Displays
      <4>1. r \in Record /\ Good(r) /\ r.count = mRecordDisplays[d].count
        BY <1>r, <2>2, <3>2, CopyGood
      <4> QED
        BY <3>1, <4>1, OneMailbox DEF Goal
    <3> QED
      BY <1>e, <3>1, <3>2
  <2> QED
    BY <2>1, <2>2
<1>11. CASE EndCopy
  <2> DEFINE d == Head(todo).display
             r == [mRecordDisplays[d] EXCEPT !.copying = FALSE]
  <2>1. Recorded(d) /\ mRecordDisplays' = [mRecordDisplays EXCEPT ![d] = r]
    BY <1>11 DEF EndCopy
  <2>2. CASE d \in Displays
    <3>1. r \in Record /\ Good(r) /\ r.count = mRecordDisplays[d].count
      BY <1>r, <2>1, <2>2, CopyGood
    <3> QED
      BY <2>1, <3>1, OneMailbox DEF Goal
  <2> QED
    BY <1>e, <2>1, <2>2
<1> QED
  BY <1>1, <1>2, <1>3, <1>4, <1>6, <1>7, <1>8, <1>9, <1>10, <1>11
     DEF Next, RenderStep, ReadbackItem, CallerStep

\* MailboxInv is an invariant.
LEMMA MailboxInvariant == Spec => []MailboxInv
<1>1. Init => MailboxInv
  BY DEF Init, MailboxInv, Recorded
<1>2. MailboxInv /\ [Next]_vars => MailboxInv'
  BY MailboxStep DEF MailboxInv, Kept
<1> QED
  BY <1>1, <1>2, PTL DEF Spec

\* No buffer is read into while a consumer has it mapped, nor mapped right after a
\* read, however reads, copies and flushes of any number of displays interleave.
THEOREM MailboxSafe == Spec => []MappedNotRead
<1>1. MailboxInv => MappedNotRead
  BY DEF MailboxInv, MappedNotRead, Good
<1> QED
  BY <1>1, MailboxInvariant, PTL

\* glReadPixels is called on a different buffer every time, also when the 32-bit
\* count of reads wraps around.
THEOREM ReadsAlternate == Spec => AlternatesBuffers
<1>1. MailboxInv /\ [Next]_vars =>
        [\A d \in Displays :
           Recorded(d) /\ Recorded(d)' /\ mRecordDisplays'[d].count # mRecordDisplays[d].count
           => mRecordDisplays'[d].prev # mRecordDisplays[d].prev]_vars
  BY MailboxStep DEF Kept
<1> QED
  BY <1>1, MailboxInvariant, PTL DEF Spec, AlternatesBuffers

-----------------------------------------------------------------------------
(* Types.                                                                   *)

WorkTypes ==
    /\ mStarted \in BOOLEAN /\ mFinished \in BOOLEAN
    /\ thread \in {"none", "running", "asleep", "gone"}
    /\ mQueue \in Seq(Commands) /\ todo \in Seq(Commands)
    /\ signaled \in [Callers -> BOOLEAN]

Job == [op : Operations, display : Displays \cup {-1, 0}]

CallTypes ==
    /\ m_lock \in Callers \cup {None} /\ m_onPost \subseteq Displays
    /\ pc \in [Callers -> Labels] /\ job \in [Callers -> Job] /\ crashed \in BOOLEAN

\* A command is put at the end.
LEMMA EnqueueTyped ==
  ASSUME WorkTypes, NEW x \in Commands, enqueueImpl(x), UNCHANGED signaled
  PROVE  WorkTypes'
<1>1. mQueue' \in Seq(Commands) /\ todo' \in Seq(Commands)
  BY DEF WorkTypes, enqueueImpl
<1>2. thread' \in {"none", "running", "asleep", "gone"}
  BY DEF WorkTypes, enqueueImpl, Notified
<1> QED
  BY <1>1, <1>2 DEF WorkTypes, enqueueImpl

\* The steps of the thread.
LEMMA ThreadTyped ==
  ASSUME WorkTypes,
         \/ UNCHANGED workerVars \/ start \/ startThread \/ Sleep \/ WakeUp \/ Take \/ Signal
         \/ todo # <<>> /\ Processed
         \/ Stopped \/ \E c \in Callers : Release(c)
  PROVE  WorkTypes'
<1>1. todo' \in Seq(Commands) /\ mQueue' \in Seq(Commands)
  <2>0. todo \in Seq(Commands) /\ mQueue \in Seq(Commands)
    BY DEF WorkTypes
  <2>1. CASE Signal \/ (todo # <<>> /\ Processed)
    BY <2>0, <2>1 DEF Signal, Processed, At
  <2>2. CASE Take \/ Stopped
    <3>1. <<>> \in Seq(Commands)
      OBVIOUS
    <3> QED
      BY <2>0, <2>2, <3>1 DEF Take, Stopped
  <2> QED
    BY <2>0, <2>1, <2>2 DEF workerVars, start, startThread, Sleep, WakeUp, Release
<1>2. thread' \in {"none", "running", "asleep", "gone"} /\ mStarted' \in BOOLEAN /\ mFinished' \in BOOLEAN
  BY DEF WorkTypes, workerVars, start, startThread, Sleep, WakeUp, Take, Signal, Processed, Stopped, Release
<1>3. signaled' \in [Callers -> BOOLEAN]
  BY DEF WorkTypes, workerVars, start, startThread, Sleep, WakeUp, Take, Signal, Processed, Stopped, Release
<1> QED
  BY <1>1, <1>2, <1>3 DEF WorkTypes

\* One caller moves.
LEMMA CallMoves ==
  ASSUME CallTypes, NEW c \in Callers, NEW l \in Labels, Goto(c, l),
         UNCHANGED <<m_lock, m_onPost, job, crashed>>
  PROVE  CallTypes'
BY DEF CallTypes, Goto

\* A call starts.
LEMMA BeginCalls ==
  ASSUME CallTypes, NEW c \in Callers, NEW l \in Labels, NEW op \in Operations,
         NEW d \in Displays \cup {-1, 0}, Begin(c, op, d, l),
         m_lock' \in Callers \cup {None}, m_onPost' \subseteq Displays
  PROVE  CallTypes' /\ UNCHANGED <<workerVars, mRecordDisplays, shown>>
<1>1. [op |-> op, display |-> d] \in Job
  BY DEF Job
<1> QED
  BY <1>1 DEF CallTypes, Begin, Goto

\* Ages stay in their range.
LEMMA OlderAge ==
  ASSUME NEW n \in 0..MaxAge
  PROVE  Older(n) \in 0..MaxAge
BY RecordingAssumption DEF Older

\* Every step keeps the types.
LEMMA TypeStep ==
  ASSUME TypeOK, MailboxInv, [Next]_vars
  PROVE  TypeOK'
<1>0. WorkTypes /\ CallTypes /\ shown \in [Displays -> 0..MaxAge]
  BY DEF TypeOK, WorkTypes, CallTypes, Job
<1>a. Render \in Callers /\ Apis \subseteq Callers /\ None \notin Callers
  BY RecordingAssumption
<1>1. mRecordDisplays' \in [Displays -> Record \cup {NoRecord}]
  BY MailboxStep
<1>2. SUFFICES WorkTypes' /\ CallTypes' /\ shown' \in [Displays -> 0..MaxAge]
  BY <1>1 DEF TypeOK, WorkTypes, CallTypes, Job
<1>k. ASSUME UNCHANGED vars PROVE WorkTypes' /\ CallTypes'
  <2>1. UNCHANGED workerVars /\ UNCHANGED <<m_lock, m_onPost, pc, job, crashed>>
    BY <1>k DEF vars, callVars, recordVars
  <2> QED
    BY <1>0, <2>1, ThreadTyped DEF CallTypes
<1>3. WorkTypes' /\ CallTypes'
  <2>1. CASE NewCall
    <3>1. CASE Post
      <4>1. Begin(Render, "Post", -1, "next") /\ m_lock' \in Callers \cup {None} /\ m_onPost' \subseteq Displays
        BY <1>0, <3>1 DEF Post, CallTypes
      <4>2. CallTypes' /\ UNCHANGED workerVars
        BY <1>0, <1>a, <4>1, BeginCalls DEF Labels, Operations
      <4> QED
        BY <1>0, <4>2, ThreadTyped
    <3>2. CASE Finalize
      <4>1. Command(None, "Exit", 0) \in Commands
        BY DEF Command, Commands, Operations
      <4>2. WorkTypes'
        BY <1>0, <3>2, <4>1, EnqueueTyped DEF Finalize
      <4> QED
        BY <1>0, <3>2, <4>2 DEF Finalize, CallTypes, callVars, recordVars
    <3>3. ASSUME NEW c \in Apis, NEW d \in Displays,
                 \/ AddPostCallback(c, d) \/ RemovePostCallback(c, d)
                 \/ GetPixels(c, d) \/ FlushReadPipeline(c, d)
          PROVE  WorkTypes' /\ CallTypes'
      <4>1. \E op \in Operations, l \in Labels : Begin(c, op, d, l)
        BY <3>3 DEF AddPostCallback, RemovePostCallback, GetPixels, FlushReadPipeline, Operations, Labels
      <4>2. m_lock' \in Callers \cup {None} /\ m_onPost' \subseteq Displays
        BY <1>0, <1>a, <3>3 DEF AddPostCallback, RemovePostCallback, GetPixels, FlushReadPipeline, CallTypes
      <4>3. CallTypes' /\ UNCHANGED workerVars
        BY <1>0, <1>a, <4>1, <4>2, BeginCalls
      <4> QED
        BY <1>0, <4>3, ThreadTyped
    <3> QED
      BY <2>1, <3>1, <3>2, <3>3 DEF NewCall
  <2>2. ASSUME NEW c \in Callers, CallerStep(c) PROVE WorkTypes' /\ CallTypes'
    <3>1. CASE Start(c) \/ StartThread(c) \/ Released(c)
      <4>1. WorkTypes'
        BY <1>0, <3>1, ThreadTyped DEF Start, StartThread, Released
      <4>2. CallTypes'
        BY <1>0, <3>1, CallMoves DEF Start, StartThread, Released, recordVars, Labels
      <4> QED
        BY <4>1, <4>2
    <3>2. CASE EnqueueInit(c) \/ Enqueue(c)
      <4>1. Command(c, "Init", 0) \in Commands /\ Command(c, job[c].op, job[c].display) \in Commands
        BY <1>0 DEF Command, Commands, Operations, CallTypes, Job
      <4>2. WorkTypes'
        BY <1>0, <3>2, <4>1, EnqueueTyped DEF EnqueueInit, Enqueue
      <4>3. CallTypes'
        BY <1>0, <3>2, CallMoves DEF EnqueueInit, Enqueue, recordVars, Labels
      <4> QED
        BY <4>2, <4>3
    <3>3. CASE waitQueuedItems(c)
      <4>1. SyncPoint(c) \in Commands
        BY DEF SyncPoint, Commands
      <4>2. WorkTypes'
        BY <1>0, <3>3, <4>1, EnqueueTyped, ThreadTyped DEF waitQueuedItems, EnqueueSync
      <4>3. CallTypes'
        BY <1>0, <3>3, CallMoves DEF waitQueuedItems, recordVars, Labels
      <4> QED
        BY <4>2, <4>3
    <3>4. CASE Return(c)
      <4>1. NoJob \in Job
        BY DEF NoJob, Job, Operations
      <4>2. CallTypes'
        BY <1>0, <3>4, <4>1 DEF Return, CallTypes, Goto, Labels
      <4> QED
        BY <1>0, <3>4, <4>2, ThreadTyped DEF Return
    <3>5. CASE flushPipeline(c)
      <4>1. NoJob \in Job
        BY DEF NoJob, Job, Operations
      <4>2. CallTypes'
        BY <1>0, <3>5, <4>1 DEF flushPipeline, Crash, CallTypes, Goto, Labels, recordVars, callVars
      <4> QED
        BY <1>0, <3>5, <4>2, ThreadTyped DEF flushPipeline, Crash
    <3> QED
      BY <2>2, <3>1, <3>2, <3>3, <3>4, <3>5 DEF CallerStep
  <2>3. CASE RenderStep
    <3>1. UNCHANGED workerVars /\ UNCHANGED <<m_lock, m_onPost>>
      BY <2>3 DEF RenderStep, NextDisplay, LastDisplay, doNextReadback, Crash, recordVars, callVars
    <3>2. pc' \in [Callers -> Labels] /\ crashed' \in BOOLEAN
      BY <1>0, <2>3 DEF RenderStep, NextDisplay, LastDisplay, doNextReadback, Crash, callVars, CallTypes,
         Goto, Labels
    <3>3. job' \in [Callers -> Job]
      <4>1. NoJob \in Job
        BY DEF NoJob, Job, Operations
      <4>2. \A d \in Displays : [job[Render] EXCEPT !.display = d] \in Job
        BY <1>0, <1>a DEF CallTypes, Job
      <4> QED
        BY <1>0, <2>3, <4>1, <4>2 DEF RenderStep, NextDisplay, LastDisplay, doNextReadback, Crash, callVars,
           CallTypes
    <3> QED
      BY <1>0, <3>1, <3>2, <3>3, ThreadTyped DEF CallTypes
  <2>4. CASE ReadbackItem \/ Loop \/ Spurious
    <3>1. UNCHANGED <<m_lock, m_onPost, pc, job>> /\ crashed' \in BOOLEAN
      BY <1>0, <2>4 DEF ReadbackItem, InitGL, AddRecordDisplay, DelRecordDisplay, BeginCopy, EndCopy, Exit,
         Loop, Spurious, Crash, recordVars, callVars, CallTypes
    <3>2. \/ UNCHANGED workerVars \/ Sleep \/ WakeUp \/ Take \/ Signal
          \/ todo # <<>> /\ Processed
          \/ Stopped
      BY <2>4 DEF ReadbackItem, InitGL, AddRecordDisplay, DelRecordDisplay, BeginCopy, EndCopy, Exit, At,
         Loop, Spurious, Crash
    <3> QED
      BY <1>0, <3>1, <3>2, ThreadTyped DEF CallTypes
  <2> QED
    BY <1>k, <2>1, <2>2, <2>3, <2>4 DEF Next
<1>4. shown' \in [Displays -> 0..MaxAge]
  <2>1. CASE UNCHANGED shown
    BY <1>0, <2>1
  <2>2. ASSUME NEW d, shown' = [shown EXCEPT ![d] = Older(shown[d])] PROVE shown' \in [Displays -> 0..MaxAge]
    BY <1>0, <2>2, OlderAge
  <2>3. CASE AddRecordDisplay
    <3>1. MaxAge \in 0..MaxAge /\ shown' = [shown EXCEPT ![Head(todo).display] = MaxAge]
      BY <2>3, RecordingAssumption DEF AddRecordDisplay
    <3> QED
      BY <1>0, <3>1
  <2>4. CASE EndCopy
    <3> DEFINE d == Head(todo).display
               n == mRecordDisplays[d].pix[mRecordDisplays[d].map]
    <3>1. shown' = [shown EXCEPT ![d] = n] /\ Recorded(d)
      BY <2>4 DEF EndCopy
    <3>2. ASSUME d \in Displays PROVE n \in 0..MaxAge
      <4>1. mRecordDisplays[d] \in Record
        BY <3>1, <3>2 DEF TypeOK, Recorded
      <4> QED
        BY <4>1 DEF Record
    <3> HIDE DEF d, n
    <3> QED
      BY <1>0, <3>1, <3>2
  <2> QED
    BY <2>1, <2>2, <2>3, <2>4 DEF Next, vars, NewCall, Post, Finalize, AddPostCallback, RemovePostCallback,
       GetPixels, FlushReadPipeline, Begin, CallerStep, Start, StartThread, EnqueueInit, Enqueue,
       waitQueuedItems, Released, Return, flushPipeline, RenderStep, NextDisplay, LastDisplay,
       doNextReadback, ReadbackItem, InitGL, DelRecordDisplay, BeginCopy, Exit, Loop, Spurious, Crash,
       recordVars
<1> QED
  BY <1>3, <1>4

\* Recording's variables keep their types, whatever the threads of the embedder call.
THEOREM RecordingTyped == Spec => []TypeOK
<1>1. Init => TypeOK
  <2> SUFFICES ASSUME Init PROVE TypeOK
    OBVIOUS
  <2>1. <<>> \in Seq(Commands) /\ NoJob \in Job /\ MaxAge \in 0..MaxAge
    BY RecordingAssumption DEF NoJob, Job, Operations
  <2>2. pc \in [Callers -> Labels] /\ job \in [Callers -> Job] /\ signaled \in [Callers -> BOOLEAN]
    BY <2>1 DEF Init, WorkerInit, Labels
  <2>3. shown \in [Displays -> 0..MaxAge] /\ mRecordDisplays \in [Displays -> Record \cup {NoRecord}]
    BY <2>1 DEF Init
  <2> QED
    BY <2>1, <2>2, <2>3 DEF Init, WorkerInit, TypeOK, Job
<1>2. TypeOK /\ MailboxInv /\ [Next]_vars => TypeOK'
  BY TypeStep
<1> QED
  BY <1>1, <1>2, MailboxInvariant, PTL DEF Spec

-----------------------------------------------------------------------------
(* Waits, and who configures.                                               *)

\* setPostCallback holds m_lock to its end, so one caller configures at a time.  The
\* display it configures has its callback meanwhile.
LockOK(c) ==
    /\ Configures(c) =>
         /\ m_lock = c /\ c # Render /\ job[c].display \in m_onPost
         /\ pc[c] \in {"start", "spawn", "init", "enqueue", "drain", "sync", "done"}
    /\ pc[c] \in {"start", "spawn", "init"} => job[c].op = "AddRecordDisplay"

LockInv == \A c \in Callers : LockOK(c)

\* The thread is started once, before anybody waits for it; when that was refused,
\* there is no thread.  Until it is started, a display with a callback is the one that
\* is being configured.
StartInv ==
    /\ \A c \in Callers : pc[c] \in {"spawn", "init", "enqueue", "drain", "sync"} => mStarted
    /\ \A c \in Callers : pc[c] \in {"start", "spawn"} => thread = "none"
    /\ ~mStarted => thread = "none"
    /\ \A d \in m_onPost :
         mStarted \/ \E c \in Callers : pc[c] = "start" /\ job[c].display = d
    /\ mFinished => thread = "gone"

\* The worker sleeps only while nothing is in line.
AwakeInv == thread = "asleep" => todo = <<>> /\ mQueue = <<>>

Holders == {c \in Callers : pc[c] \in {"enqueue", "drain", "sync"}}
Waiters == {c \in Callers : pc[c] = "sync"}

\* Until the start is refused, who waits and who was signaled follows the queue.
OrderInv == ~mFinished => Ordered(Line, signaled, Holders, Waiters)

\* A command of a call, as opposed to what the worker needs for itself.
Calling(x) == x.op \notin {Sync, "Init", "Exit"}

\* Every such command is what its caller is at, and the only one it has in line.  J and P
\* stand for job and pc.
Owned(L, J, P) ==
    /\ \A i \in 1..Len(L) : Calling(L[i]) =>
         /\ L[i].by \in Callers
         /\ L[i].op = J[L[i].by].op /\ L[i].display = J[L[i].by].display
         /\ P[L[i].by] \in {"drain", "sync"}
    /\ \A i, j \in 1..Len(L) :
         Calling(L[i]) /\ Calling(L[j]) /\ L[i].by = L[j].by => i = j

\* The command of c has had its effect, or is in line to have it.
Reached(c) == Recorded(job[c].display) <=> job[c].op = "AddRecordDisplay"
Pends(L, c) == \E i \in 1..Len(L) : L[i].by = c /\ Calling(L[i])

\* Where a caller that configures has got its display.
Configured(c) ==
    /\ pc[c] \in {"start", "spawn", "init", "enqueue"} => ~Reached(c)
    /\ pc[c] \in {"drain", "sync"} =>
         Reached(c) \/ Pends(Line, c) \/ (thread = "gone" /\ ~signaled[c])
    /\ pc[c] = "done" => Reached(c)
    /\ Pends(Line, c) => ~Reached(c)

ConfOK(c) == Configures(c) => Configured(c)

\* A display nobody configures is recorded if it has a callback.
Agrees(d) ==
    \/ \E c \in Callers : Configures(c) /\ job[c].display = d
    \/ Recorded(d) <=> d \in m_onPost

RegInv ==
    ~mFinished =>
        /\ Owned(Line, job, pc)
        /\ \A d \in Displays : Agrees(d)
        /\ \A c \in Callers : ConfOK(c)

\* The frame read last is the youngest, and the one a consumer would map is not older
\* than what it was given.
Ages(r, age) ==
    /\ \A s \in Slots : r.pix[r.prev] <= r.pix[s]
    /\ r.pix[r.map] <= age

AgeInv == \A d \in Displays : Recorded(d) => Ages(mRecordDisplays[d], shown[d])

-----------------------------------------------------------------------------
(* What kinds of steps there are for a caller.                              *)

\* The steps of the readback thread, and what they leave alone.
LEMMA WorkerSteps ==
  ASSUME ReadbackItem \/ Loop \/ Spurious
  PROVE  /\ UNCHANGED <<m_lock, m_onPost, pc, job, mStarted, mFinished>>
         /\ \/ UNCHANGED workerVars \/ Sleep \/ WakeUp \/ Take \/ Signal
            \/ todo # <<>> /\ thread = "running" /\ Processed
            \/ thread = "running" /\ Stopped
<1>1. UNCHANGED <<m_lock, m_onPost, pc, job>>
  BY DEF ReadbackItem, InitGL, AddRecordDisplay, DelRecordDisplay, BeginCopy, EndCopy, Exit,
     Loop, Spurious, Crash, recordVars, callVars
<1>2. \/ UNCHANGED workerVars \/ Sleep \/ WakeUp \/ Take \/ Signal
      \/ todo # <<>> /\ thread = "running" /\ Processed
      \/ thread = "running" /\ Stopped
  BY DEF ReadbackItem, InitGL, AddRecordDisplay, DelRecordDisplay, BeginCopy, EndCopy, Exit, At,
     Loop, Spurious, Crash
<1> QED
  BY <1>1, <1>2 DEF workerVars, Sleep, WakeUp, Take, Signal, Processed, Stopped

\* The steps that leave the worker alone: a caller that is not with the worker begins
\* or ends a call or goes to the next display, or the process dies.
Aside(c, l, j) ==
    /\ UNCHANGED workerVars
    /\ pc[c] \in {"idle", "next", "read", "flush", "done"}
    /\ pc' = [pc EXCEPT ![c] = l] /\ job' = [job EXCEPT ![c] = j]

\* A step that dies changes nothing else.
LEMMA DeadStep ==
  ASSUME Crash
  PROVE  UNCHANGED <<workerVars, recordVars, callVars>>
BY DEF Crash

\* The steps of a render thread.
LEMMA RenderSteps ==
  ASSUME TypeOK, RenderStep
  PROVE  \/ Crash
         \/ /\ UNCHANGED <<m_lock, m_onPost>>
            /\ \E l \in {"idle", "next", "read"}, j \in Job :
                 Aside(Render, l, j) /\ j.op \in {job[Render].op, "none"}
<1>0. Render \in Callers
  BY RecordingAssumption
<1>1. pc \in [Callers -> Labels] /\ job \in [Callers -> Job] /\ job[Render] \in Job
  BY <1>0 DEF TypeOK, Job
<1>2. CASE NextDisplay
  <2>1. PICK d \in m_onPost : job' = [job EXCEPT ![Render].display = d] /\ (Goto(Render, "read") \/ UNCHANGED pc)
    BY <1>2 DEF NextDisplay
  <2> DEFINE j == [job[Render] EXCEPT !.display = d]
  <2>2. j \in Job /\ j.op = job[Render].op
    BY <1>1, <2>1 DEF Job, TypeOK
  <2>3. pc[Render] = "next" /\ UNCHANGED <<workerVars, m_lock, m_onPost>>
    BY <1>2 DEF NextDisplay, recordVars
  <2>4. \E l \in {"idle", "next", "read"} : pc' = [pc EXCEPT ![Render] = l]
    BY <1>1, <2>1, <2>3 DEF Goto
  <2>5. job' = [job EXCEPT ![Render] = j]
    BY <2>1
  <2> HIDE DEF j
  <2> QED
    BY <2>2, <2>3, <2>4, <2>5 DEF Aside
<1>3. CASE LastDisplay
  <2>1. NoJob \in Job /\ NoJob.op = "none"
    BY DEF NoJob, Job, Operations
  <2> QED
    BY <1>3, <2>1 DEF LastDisplay, Aside, Goto, recordVars
<1>4. CASE doNextReadback /\ ~Crash
  <2>1. job' = [job EXCEPT ![Render] = job[Render]]
    BY <1>1, <1>4 DEF doNextReadback
  <2>2. pc[Render] = "read" /\ pc' = [pc EXCEPT ![Render] = "next"] /\ UNCHANGED <<workerVars, m_lock, m_onPost>>
    BY <1>4 DEF doNextReadback, Goto
  <2> QED
    BY <1>1, <2>1, <2>2 DEF Aside
<1> QED
  BY <1>2, <1>3, <1>4 DEF RenderStep

\* One caller moves, and nothing of the others is taken from them.
LEMMA LockMoves ==
  ASSUME TypeOK, LockInv, NEW c \in Callers, NEW l, NEW j,
         pc' = [pc EXCEPT ![c] = l], job' = [job EXCEPT ![c] = j],
         \A e \in Callers : e # c /\ Configures(e) => m_lock' = m_lock /\ m_onPost \subseteq m_onPost',
         LockOK(c)'
  PROVE  LockInv'
<1> SUFFICES ASSUME NEW e \in Callers, e # c PROVE LockOK(e)'
  BY DEF LockInv
<1>1. pc'[e] = pc[e] /\ job'[e] = job[e]
  BY DEF TypeOK
<1> QED
  BY <1>1 DEF LockInv, LockOK, Configures

\* The lock stays with whoever configures.
LEMMA LockStep ==
  ASSUME TypeOK, LockInv, [Next]_vars
  PROVE  LockInv'
<1>0. pc \in [Callers -> Labels] /\ job \in [Callers -> Job]
  BY DEF TypeOK, Job
<1>a. Render \in Callers /\ Apis \subseteq Callers /\ Render \notin Apis /\ None \notin Callers
  BY RecordingAssumption
<1>1. ASSUME UNCHANGED <<m_lock, m_onPost, pc, job>> PROVE LockInv'
  BY <1>1 DEF LockInv, LockOK, Configures
<1>2. ASSUME NEW c \in Callers, NEW l \in Labels, Goto(c, l), UNCHANGED <<m_lock, m_onPost, job>>,
             l \in {"start", "spawn", "init", "enqueue", "drain", "sync", "done"},
             l \in {"spawn", "init"} => pc[c] \in {"start", "spawn"}, l # "start"
      PROVE  LockInv'
  <2>1. pc'[c] = l /\ job'[c] = job[c] /\ job' = [job EXCEPT ![c] = job[c]] /\ pc' = [pc EXCEPT ![c] = l]
    BY <1>0, <1>2 DEF Goto
  <2>2. LockOK(c)'
    BY <1>2, <2>1 DEF LockInv, LockOK, Configures
  <2> QED
    BY <1>2, <2>1, <2>2, LockMoves
<1>3. CASE NewCall
  <2>1. CASE Finalize
    BY <1>1, <2>1 DEF Finalize, recordVars, callVars
  <2>2. CASE Post
    <3> DEFINE j == [op |-> "Post", display |-> -1]
    <3>1. pc' = [pc EXCEPT ![Render] = "next"] /\ job' = [job EXCEPT ![Render] = j] /\ UNCHANGED <<m_lock, m_onPost>>
      BY <2>2 DEF Post, Begin, Goto
    <3>2. pc'[Render] = "next" /\ job'[Render].op = "Post"
      BY <1>0, <1>a, <3>1
    <3>3. LockOK(Render)'
      BY <3>2 DEF LockOK, Configures
    <3> HIDE DEF j
    <3> QED
      BY <1>a, <3>1, <3>3, LockMoves
  <2>3. ASSUME NEW c \in Apis, NEW d \in Displays,
               \/ AddPostCallback(c, d) \/ RemovePostCallback(c, d)
               \/ GetPixels(c, d) \/ FlushReadPipeline(c, d)
        PROVE  LockInv'
    <3>1. PICK op \in Operations, l \in Labels :
            /\ Begin(c, op, d, l)
            /\ \/ op = "AddRecordDisplay" /\ l \in {"enqueue", "start"} /\ m_lock = None /\ m_lock' = c
                  /\ m_onPost' = m_onPost \cup {d}
               \/ op = "DelRecordDisplay" /\ l = "enqueue" /\ m_lock = None /\ m_lock' = c
                  /\ d \in m_onPost /\ m_onPost' = m_onPost
               \/ op \in {"GetPixels", "Flush"} /\ l \in {"enqueue", "flush"} /\ UNCHANGED <<m_lock, m_onPost>>
      <4>1. {"AddRecordDisplay", "DelRecordDisplay", "GetPixels", "Flush"} \subseteq Operations
            /\ {"enqueue", "start", "flush"} \subseteq Labels
        BY DEF Operations, Labels
      <4> QED
        BY <2>3, <4>1 DEF AddPostCallback, RemovePostCallback, GetPixels, FlushReadPipeline
    <3> DEFINE j == [op |-> op, display |-> d]
    <3>2. pc' = [pc EXCEPT ![c] = l] /\ job' = [job EXCEPT ![c] = j]
      BY <3>1 DEF Begin, Goto
    <3>3. c \in Callers /\ c # Render /\ pc'[c] = l /\ job'[c].op = op /\ job'[c].display = d
      BY <1>0, <1>a, <3>2
    <3>4. LockOK(c)'
      BY <3>1, <3>3 DEF LockOK, Configures
    <3>5. \A e \in Callers : Configures(e) => m_lock = e
      BY DEF LockInv, LockOK
    <3>6. \A e \in Callers : e # c /\ Configures(e) => m_lock' = m_lock /\ m_onPost \subseteq m_onPost'
      BY <1>a, <3>1, <3>5
    <3> HIDE DEF j
    <3> QED
      BY <3>2, <3>3, <3>4, <3>6, LockMoves
  <2> QED
    BY <1>3, <2>1, <2>2, <2>3 DEF NewCall
<1>4. ASSUME NEW c \in Callers, CallerStep(c) PROVE LockInv'
  <2>1. CASE Start(c)
    BY <1>2, <2>1 DEF Start, recordVars, Labels
  <2>2. CASE StartThread(c)
    BY <1>2, <2>2 DEF StartThread, recordVars, Labels
  <2>3. CASE EnqueueInit(c)
    BY <1>2, <2>3 DEF EnqueueInit, recordVars, Labels
  <2>4. CASE Enqueue(c)
    BY <1>2, <2>4 DEF Enqueue, recordVars, Labels
  <2>5. CASE waitQueuedItems(c)
    BY <1>2, <2>5 DEF waitQueuedItems, recordVars, Labels
  <2>6. CASE Released(c)
    BY <1>2, <2>6 DEF Released, recordVars, Labels
  <2>7. CASE Return(c)
    <3>1. pc' = [pc EXCEPT ![c] = "idle"] /\ job' = [job EXCEPT ![c] = NoJob]
      BY <2>7 DEF Return, Goto
    <3>2. LockOK(c)'
      BY <1>0, <3>1 DEF LockOK, Configures, NoJob
    <3>3. ASSUME NEW e \in Callers, e # c, Configures(e) PROVE m_lock' = m_lock /\ m_onPost \subseteq m_onPost'
      <4>1. m_lock = e /\ ~Configures(c)
        BY <3>3 DEF LockInv, LockOK
      <4> QED
        BY <2>7, <3>3, <4>1 DEF Return, Configures
    <3> QED
      BY <3>1, <3>2, <3>3, LockMoves
  <2>8. CASE flushPipeline(c)
    <3>1. CASE Crash
      BY <1>1, <3>1 DEF Crash, recordVars, callVars
    <3>2. CASE ~Crash
      <4>1. pc' = [pc EXCEPT ![c] = "idle"] /\ job' = [job EXCEPT ![c] = NoJob] /\ UNCHANGED <<m_lock, m_onPost>>
        BY <2>8, <3>2 DEF flushPipeline, Goto
      <4>2. LockOK(c)'
        BY <1>0, <4>1 DEF LockOK, Configures, NoJob
      <4> QED
        BY <4>1, <4>2, LockMoves
    <3> QED
      BY <3>1, <3>2
  <2> QED
    BY <1>4, <2>1, <2>2, <2>3, <2>4, <2>5, <2>6, <2>7, <2>8 DEF CallerStep
<1>5. CASE RenderStep
  <2>1. CASE Crash
    BY <1>1, <2>1 DEF Crash, recordVars, callVars
  <2>2. CASE ~Crash
    <3>1. PICK l \in {"idle", "next", "read"}, j \in Job : Aside(Render, l, j) /\ j.op \in {job[Render].op, "none"}
      BY <1>5, <2>2, RenderSteps
    <3>2. UNCHANGED <<m_lock, m_onPost>> /\ pc'[Render] = l /\ job'[Render] = j
      BY <1>0, <1>5, <1>a, <2>2, <3>1, RenderSteps DEF Aside
    <3>3. LockOK(Render)'
      BY <1>a, <3>1, <3>2 DEF LockInv, LockOK, Configures
    <3> QED
      BY <1>a, <3>1, <3>2, <3>3, LockMoves DEF Aside
  <2> QED
    BY <2>1, <2>2
<1>6. CASE ReadbackItem \/ Loop \/ Spurious
  BY <1>1, <1>6, WorkerSteps
<1>7. CASE UNCHANGED vars
  BY <1>1, <1>7 DEF vars, recordVars, callVars
<1> QED
  BY <1>3, <1>4, <1>5, <1>6, <1>7 DEF Next

\* What calls begin, and what they hold when they do.
LEMMA NewCalls ==
  ASSUME NewCall, ~Finalize
  PROVE  \E c \in Callers, op \in Operations, l \in Labels, d \in Displays \cup {-1} :
            /\ Begin(c, op, d, l) /\ l # "idle"
            /\ \/ op = "Post" /\ l = "next" /\ UNCHANGED <<m_lock, m_onPost>>
               \/ /\ op = "AddRecordDisplay" /\ l = IF mStarted THEN "enqueue" ELSE "start"
                  /\ m_lock = None /\ m_lock' = c /\ c # Render
                  /\ d \in Displays /\ d \notin m_onPost /\ m_onPost' = m_onPost \cup {d}
               \/ /\ op = "DelRecordDisplay" /\ l = "enqueue"
                  /\ m_lock = None /\ m_lock' = c /\ c # Render
                  /\ d \in m_onPost /\ m_onPost' = m_onPost
               \/ /\ op \in {"GetPixels", "Flush"} /\ l \in {"enqueue", "flush"}
                  /\ d \in m_onPost /\ UNCHANGED <<m_lock, m_onPost>>
                  /\ ConfiguredBy(d) = {}
<1>0. Render \in Callers /\ Apis \subseteq Callers /\ Render \notin Apis
  BY RecordingAssumption
<1>1. /\ {"Post", "AddRecordDisplay", "DelRecordDisplay", "GetPixels", "Flush"} \subseteq Operations
      /\ {"next", "enqueue", "start", "flush"} \subseteq Labels
  BY DEF Operations, Labels
<1>2. CASE Post
  BY <1>0, <1>1, <1>2 DEF Post
<1>3. ASSUME NEW c \in Apis, NEW d \in Displays,
             \/ AddPostCallback(c, d) \/ RemovePostCallback(c, d)
             \/ GetPixels(c, d) \/ FlushReadPipeline(c, d)
      PROVE  \E op \in Operations, l \in Labels :
            /\ Begin(c, op, d, l) /\ l # "idle"
            /\ \/ op = "Post" /\ l = "next" /\ UNCHANGED <<m_lock, m_onPost>>
               \/ /\ op = "AddRecordDisplay" /\ l = IF mStarted THEN "enqueue" ELSE "start"
                  /\ m_lock = None /\ m_lock' = c /\ c # Render
                  /\ d \in Displays /\ d \notin m_onPost /\ m_onPost' = m_onPost \cup {d}
               \/ /\ op = "DelRecordDisplay" /\ l = "enqueue"
                  /\ m_lock = None /\ m_lock' = c /\ c # Render
                  /\ d \in m_onPost /\ m_onPost' = m_onPost
               \/ /\ op \in {"GetPixels", "Flush"} /\ l \in {"enqueue", "flush"}
                  /\ d \in m_onPost /\ UNCHANGED <<m_lock, m_onPost>>
                  /\ ConfiguredBy(d) = {}
  <2>0. c # Render
    BY <1>0
  <2>1. CASE AddPostCallback(c, d)
    BY <1>1, <2>0, <2>1 DEF AddPostCallback
  <2>2. CASE RemovePostCallback(c, d)
    BY <1>1, <2>0, <2>2 DEF RemovePostCallback
  <2>3. CASE GetPixels(c, d)
    BY <1>1, <2>3 DEF GetPixels
  <2>4. CASE FlushReadPipeline(c, d)
    BY <1>1, <2>4 DEF FlushReadPipeline
  <2> QED
    BY <1>3, <2>1, <2>2, <2>3, <2>4
<1> QED
  BY <1>0, <1>2, <1>3 DEF NewCall

\* The worker is never left asleep with something in line.
LEMMA AwakeStep ==
  ASSUME TypeOK, AwakeInv, [Next]_vars
  PROVE  AwakeInv'
<1>1. ASSUME UNCHANGED workerVars PROVE AwakeInv'
  BY <1>1 DEF AwakeInv, workerVars
<1>2. ASSUME NEW x, enqueueImpl(x) PROVE AwakeInv'
  BY <1>2 DEF AwakeInv, enqueueImpl, Notified
<1>3. CASE ReadbackItem \/ Loop \/ Spurious
  BY <1>1, <1>3, WorkerSteps DEF Sleep, Idle, WakeUp, Take, Signal, At, Processed, Stopped, AwakeInv
<1>4. ASSUME NEW c \in Callers, CallerStep(c) PROVE AwakeInv'
  <2>1. CASE Start(c) \/ StartThread(c) \/ Released(c)
    BY <2>1 DEF Start, StartThread, Released, start, startThread, Release, AwakeInv
  <2> QED
    BY <1>1, <1>2, <1>4, <2>1 DEF CallerStep, EnqueueInit, Enqueue, waitQueuedItems, EnqueueSync, Return,
       flushPipeline, Crash
<1> QED
  BY <1>1, <1>2, <1>3, <1>4 DEF Next, NewCall, Post, Finalize, AddPostCallback, RemovePostCallback, GetPixels,
     FlushReadPipeline, Begin, RenderStep, NextDisplay, LastDisplay, doNextReadback, Crash, vars

\* The thread is started once.
LEMMA StartStep ==
  ASSUME TypeOK, LockInv, StartInv, [Next]_vars
  PROVE  StartInv'
<1>0. pc \in [Callers -> Labels] /\ job \in [Callers -> Job] /\ m_onPost \subseteq Displays
      /\ mStarted \in BOOLEAN /\ mFinished \in BOOLEAN
  BY DEF TypeOK, Job
<1>a. Callers = Apis \cup {Render} /\ None \notin Callers
  BY RecordingAssumption
<1>b. \A c \in Callers : pc[c] \in {"start", "spawn"} => Configures(c) /\ c # Render /\ m_lock = c
  BY DEF LockInv, LockOK, Configures
<1>1. ASSUME UNCHANGED <<mStarted, mFinished, thread, pc, job>>, m_onPost' \subseteq m_onPost
      PROVE  StartInv'
  BY <1>1 DEF StartInv
<1>2. ASSUME UNCHANGED <<mStarted, mFinished, thread>>, NEW c \in Callers, NEW l, NEW j,
             pc' = [pc EXCEPT ![c] = l], job' = [job EXCEPT ![c] = j],
             pc[c] # "start", m_onPost' \subseteq m_onPost,
             l \in {"spawn", "init", "enqueue", "drain", "sync"} => mStarted, l \notin {"start", "spawn"}
      PROVE  StartInv'
  <2>1. pc'[c] = l /\ \A e \in Callers : e # c => pc'[e] = pc[e] /\ job'[e] = job[e]
    BY <1>0, <1>2
  <2>2. ASSUME NEW d \in m_onPost', ~mStarted'
        PROVE  \E e \in Callers : pc'[e] = "start" /\ job'[e].display = d
    <3>1. PICK e \in Callers : pc[e] = "start" /\ job[e].display = d
      BY <1>2, <2>2 DEF StartInv
    <3> QED
      BY <1>2, <2>1, <3>1
  <2> QED
    BY <1>2, <2>1, <2>2 DEF StartInv
<1>3. CASE NewCall
  <2>1. CASE Finalize
    BY <2>1 DEF Finalize, enqueueImpl, Notified, recordVars, callVars, StartInv
  <2>2. CASE ~Finalize
    <3>1. PICK c \in Callers, op \in Operations, l \in Labels, d \in Displays \cup {-1} :
            /\ Begin(c, op, d, l) /\ l # "idle"
            /\ \/ op = "Post" /\ l = "next" /\ UNCHANGED <<m_lock, m_onPost>>
               \/ /\ op = "AddRecordDisplay" /\ l = IF mStarted THEN "enqueue" ELSE "start"
                  /\ m_lock = None /\ m_lock' = c /\ c # Render
                  /\ d \in Displays /\ d \notin m_onPost /\ m_onPost' = m_onPost \cup {d}
               \/ /\ op = "DelRecordDisplay" /\ l = "enqueue"
                  /\ m_lock = None /\ m_lock' = c /\ c # Render
                  /\ d \in m_onPost /\ m_onPost' = m_onPost
               \/ /\ op \in {"GetPixels", "Flush"} /\ l \in {"enqueue", "flush"}
                  /\ d \in m_onPost /\ UNCHANGED <<m_lock, m_onPost>>
                  /\ ConfiguredBy(d) = {}
      BY <1>3, <2>2, NewCalls
    <3> DEFINE j == [op |-> op, display |-> d]
    <3>2. /\ pc[c] = "idle" /\ pc' = [pc EXCEPT ![c] = l] /\ job' = [job EXCEPT ![c] = j]
          /\ UNCHANGED <<mStarted, mFinished, thread>> /\ j.display = d
      BY <3>1 DEF Begin, Goto, workerVars
    <3> HIDE DEF j
    <3>3. CASE op = "AddRecordDisplay"
      <4>1. pc'[c] = l /\ job'[c] = j /\ (\A e \in Callers : e # c => pc'[e] = pc[e] /\ job'[e] = job[e])
            /\ l = (IF mStarted THEN "enqueue" ELSE "start") /\ m_lock = None /\ m_onPost' = m_onPost \cup {d}
        BY <1>0, <3>1, <3>2, <3>3
      <4>0. ~mStarted => m_onPost = {} /\ \A e \in Callers : pc[e] # "start"
        BY <1>a, <1>b, <4>1 DEF StartInv
      <4>2. CASE mStarted
        BY <3>2, <4>1, <4>2 DEF StartInv
      <4>3. CASE ~mStarted
        BY <3>2, <4>0, <4>1, <4>3 DEF StartInv
      <4> QED
        BY <4>2, <4>3
    <3>4. CASE op # "AddRecordDisplay"
      <4>1. m_onPost' = m_onPost /\ l \in {"next", "enqueue", "flush"}
            /\ (l = "enqueue" => d \in m_onPost /\ (m_lock = None \/ ConfiguredBy(d) = {}))
        BY <3>1, <3>4
      <4>2. l = "enqueue" => mStarted
        BY <1>a, <1>b, <4>1 DEF StartInv, ConfiguredBy
      <4> QED
        BY <1>2, <3>2, <4>1, <4>2
    <3> QED
      BY <3>3, <3>4
  <2> QED
    BY <2>1, <2>2
<1>4. ASSUME NEW c \in Callers, CallerStep(c) PROVE StartInv'
  <2>1. CASE Start(c)
    <3>1. mStarted' = TRUE /\ thread' = thread /\ mFinished' = mFinished /\ pc[c] = "start"
          /\ pc' = [pc EXCEPT ![c] = "spawn"]
      BY <2>1 DEF Start, start, Goto
    <3> QED
      BY <1>0, <3>1 DEF StartInv
  <2>2. CASE StartThread(c)
    <3>1. pc[c] = "spawn" /\ pc' = [pc EXCEPT ![c] = "init"] /\ startThread /\ mStarted' = mStarted
      BY <2>2 DEF StartThread, startThread, Goto
    <3>2. thread = "none" /\ mStarted /\ ~mFinished
      BY <3>1 DEF StartInv
    <3>3. \A e \in Callers : e # c => pc'[e] = pc[e] /\ pc[e] \notin {"start", "spawn"}
      BY <1>0, <1>b, <3>1
    <3>4. pc'[c] = "init"
      BY <1>0, <3>1
    <3>5. mFinished' => thread' = "gone"
      BY <1>0, <3>1, <3>2 DEF startThread
    <3> QED
      BY <3>1, <3>2, <3>3, <3>4, <3>5 DEF StartInv
  <2>3. CASE EnqueueInit(c) \/ Enqueue(c) \/ waitQueuedItems(c)
    <3>1. PICK l \in {"enqueue", "drain", "sync", "done"} :
            /\ pc[c] \in {"init", "enqueue", "drain"} /\ pc' = [pc EXCEPT ![c] = l]
            /\ UNCHANGED <<mStarted, mFinished, m_onPost, job>>
      BY <2>3 DEF EnqueueInit, Enqueue, waitQueuedItems, EnqueueSync, enqueueImpl, workerVars, recordVars, Goto
    <3>2. thread' = thread \/ (thread = "asleep" /\ thread' = "running")
      BY <2>3 DEF EnqueueInit, Enqueue, waitQueuedItems, EnqueueSync, enqueueImpl, workerVars, Notified
    <3>3. mStarted
      BY <3>1 DEF StartInv
    <3>4. pc'[c] = l /\ \A e \in Callers : e # c => pc'[e] = pc[e]
      BY <1>0, <3>1
    <3> QED
      BY <3>1, <3>2, <3>3, <3>4 DEF StartInv
  <2>4. CASE Released(c)
    <3>1. PICK l \in {"done"} :
            /\ pc[c] = "sync" /\ pc' = [pc EXCEPT ![c] = l] /\ job' = [job EXCEPT ![c] = job[c]]
            /\ UNCHANGED <<mStarted, mFinished, thread, m_onPost>>
      BY <1>0, <2>4 DEF Released, Release, Goto, recordVars
    <3> QED
      BY <1>2, <3>1
  <2>5. CASE Return(c)
    <3>1. PICK l \in {"idle"} :
            /\ pc[c] = "done" /\ pc' = [pc EXCEPT ![c] = l] /\ job' = [job EXCEPT ![c] = NoJob]
            /\ UNCHANGED <<mStarted, mFinished, thread>> /\ m_onPost' \subseteq m_onPost
      BY <2>5 DEF Return, Goto, workerVars
    <3> QED
      BY <1>2, <3>1
  <2>6. CASE flushPipeline(c)
    BY <1>1, <1>2, <2>6 DEF flushPipeline, Crash, Goto, workerVars, recordVars, callVars
  <2> QED
    BY <1>4, <2>1, <2>2, <2>3, <2>4, <2>5, <2>6 DEF CallerStep
<1>5. CASE RenderStep
  <2>1. CASE Crash
    BY <1>1, <2>1 DEF Crash, workerVars, recordVars, callVars
  <2>2. CASE ~Crash
    <3>1. PICK l \in {"idle", "next", "read"}, j \in Job : Aside(Render, l, j)
      BY <1>5, <2>2, RenderSteps
    <3>2. m_onPost' = m_onPost
      BY <1>5, <2>2, RenderSteps
    <3> QED
      BY <1>2, <1>a, <3>1, <3>2 DEF Aside, workerVars
  <2> QED
    BY <2>1, <2>2
<1>6. CASE ReadbackItem \/ Loop \/ Spurious
  <2>1. UNCHANGED <<m_onPost, pc, job, mStarted, mFinished>>
    BY <1>6, WorkerSteps
  <2>2. thread' = thread \/ thread \in {"running", "asleep"}
    BY <1>6, WorkerSteps DEF workerVars, Sleep, Idle, WakeUp, Take, Signal, Processed, Stopped
  <2> QED
    BY <2>1, <2>2 DEF StartInv
<1>7. CASE UNCHANGED vars
  BY <1>1, <1>7 DEF vars, recordVars, callVars, workerVars
<1> QED
  BY <1>3, <1>4, <1>5, <1>6, <1>7 DEF Next

\* Every step keeps the callers in step with the queue.
LEMMA OrderStep ==
  ASSUME TypeOK, StartInv, OrderInv, [Next]_vars
  PROVE  OrderInv'
<1>0. /\ todo \in Seq(Commands) /\ mQueue \in Seq(Commands) /\ DOMAIN signaled = Callers
      /\ pc \in [Callers -> Labels] /\ job \in [Callers -> Job]
      /\ mStarted \in BOOLEAN /\ mFinished \in BOOLEAN
  BY DEF TypeOK, Job
<1>a. Render \in Callers /\ None \notin Callers
  BY RecordingAssumption
<1>1. ASSUME UNCHANGED <<workerVars, pc>> PROVE OrderInv'
  <2>1. Line' = Line /\ signaled' = signaled /\ mFinished' = mFinished
        /\ Holders' = Holders /\ Waiters' = Waiters
    BY <1>1 DEF workerVars, Line, Holders, Waiters
  <2> QED
    BY <2>1 DEF OrderInv
<1>2. ASSUME UNCHANGED <<todo, mQueue, signaled>>, mFinished => mFinished',
             NEW c \in Callers, NEW l, pc' = [pc EXCEPT ![c] = l],
             pc[c] \notin {"enqueue", "drain", "sync"}, l \notin {"drain", "sync"}
      PROVE  OrderInv'
  <2>1. Line' = Line
    BY <1>2 DEF Line
  <2>2. Holders \subseteq Holders' /\ Waiters' = Waiters /\ Waiters' \subseteq Holders'
    BY <1>0, <1>2 DEF Holders, Waiters
  <2> QED
    BY <1>2, <2>1, <2>2, OrdShift DEF OrderInv
<1>3. ASSUME NEW x \in Commands, enqueueImpl(x), signaled' = signaled,
             Holders \subseteq Holders', Waiters \subseteq Waiters', Waiters' \subseteq Holders',
             Waiters' \subseteq Waiters \cup {x.by}, x.by \notin Waiters, x.by \in Callers => x.by \in Holders',
             x.op = Sync => x.by \in Callers /\ x.by \in Waiters'
      PROVE  OrderInv'
  <2>1. Line \in Seq(Commands) /\ Line' = Append(Line, x) /\ mFinished' = mFinished
    BY <1>0, <1>3, LineEnqueue DEF enqueueImpl
  <2>2. ASSUME Ordered(Line, signaled, Holders, Waiters) PROVE Ordered(Append(Line, x), signaled, Holders', Waiters')
    BY <1>3, <2>1, <2>2, OrdAppend
  <2> QED
    BY <1>3, <2>1, <2>2 DEF OrderInv
<1>4. CASE NewCall
  <2>1. CASE Finalize
    <3> DEFINE x == Command(None, "Exit", 0)
    <3>1. x \in Commands /\ x.op # Sync /\ x.by = None
      BY DEF Command, Commands, Operations, Sync
    <3>2. enqueueImpl(x) /\ signaled' = signaled /\ Holders' = Holders /\ Waiters' = Waiters
      BY <2>1 DEF Finalize, callVars, Holders, Waiters
    <3>3. None \notin Waiters /\ Waiters \subseteq Holders
      BY <1>a DEF Waiters, Holders
    <3> HIDE DEF x
    <3> QED
      BY <1>3, <1>a, <3>1, <3>2, <3>3
  <2>2. CASE ~Finalize
    <3>1. PICK c \in Callers, op \in Operations, l \in Labels, d \in Displays \cup {-1} :
            Begin(c, op, d, l) /\ l \notin {"drain", "sync"}
      BY <1>4, <2>2, NewCalls
    <3>2. pc[c] = "idle" /\ pc' = [pc EXCEPT ![c] = l] /\ UNCHANGED <<todo, mQueue, signaled, mFinished>>
      BY <3>1 DEF Begin, Goto, workerVars
    <3> QED
      BY <1>2, <3>1, <3>2
  <2> QED
    BY <2>1, <2>2
<1>5. ASSUME NEW c \in Callers, CallerStep(c) PROVE OrderInv'
  <2>1. CASE Start(c) \/ StartThread(c)
    <3>1. PICK l \in {"spawn", "init"} : pc' = [pc EXCEPT ![c] = l] /\ pc[c] \in {"start", "spawn"}
      BY <2>1 DEF Start, StartThread, Goto
    <3>2. UNCHANGED <<todo, mQueue, signaled>> /\ (mFinished => mFinished')
      BY <2>1 DEF Start, StartThread, start, startThread
    <3> QED
      BY <1>2, <3>1, <3>2
  <2>2. CASE EnqueueInit(c) \/ Enqueue(c)
    <3>1. PICK x \in Commands : enqueueImpl(x) /\ signaled' = signaled /\ x.by = c /\ x.op # Sync
      <4>1. Command(c, "Init", 0) \in Commands /\ Command(c, job[c].op, job[c].display) \in Commands
        BY <1>0 DEF Command, Commands, Operations, Job
      <4>2. job[c].op # Sync /\ Command(c, "Init", 0).op # Sync
        BY <1>0 DEF Job, Operations, Sync, Command
      <4>3. Command(c, "Init", 0).by = c /\ Command(c, job[c].op, job[c].display).by = c
            /\ Command(c, job[c].op, job[c].display).op = job[c].op
        BY DEF Command
      <4> QED
        BY <2>2, <4>1, <4>2, <4>3 DEF EnqueueInit, Enqueue
    <3>2. PICK l \in {"enqueue", "drain"} : pc' = [pc EXCEPT ![c] = l] /\ pc[c] \in {"init", "enqueue"}
      BY <2>2 DEF EnqueueInit, Enqueue, Goto
    <3>3. Holders \subseteq Holders' /\ c \in Holders' /\ Waiters' = Waiters /\ Waiters' \subseteq Holders'
          /\ c \notin Waiters
      BY <1>0, <3>2 DEF Holders, Waiters
    <3> QED
      BY <1>3, <3>1, <3>3
  <2>3. CASE waitQueuedItems(c)
    <3>1. mStarted /\ mFinished' = mFinished
      BY <2>3 DEF waitQueuedItems, EnqueueSync, enqueueImpl, workerVars, StartInv
    <3>2. CASE mFinished
      BY <3>1, <3>2 DEF OrderInv
    <3>3. CASE ~mFinished
      <4>1. MustWait
        BY <3>1, <3>3 DEF MustWait
      <4>2. pc[c] = "drain" /\ EnqueueSync(c) /\ pc' = [pc EXCEPT ![c] = "sync"]
        BY <2>3, <4>1 DEF waitQueuedItems, Goto
      <4>3. SyncPoint(c) \in Commands /\ SyncPoint(c).by = c
        BY DEF SyncPoint, Commands
      <4>4. Holders' = Holders /\ Waiters' = Waiters \cup {c} /\ Waiters' \subseteq Holders' /\ c \notin Waiters
        BY <1>0, <4>2 DEF Holders, Waiters
      <4> QED
        BY <1>3, <4>2, <4>3, <4>4 DEF EnqueueSync
    <3> QED
      BY <1>0, <3>2, <3>3
  <2>4. CASE Released(c)
    <3>1. /\ signaled[c] /\ Line' = Line /\ signaled' = [signaled EXCEPT ![c] = FALSE]
          /\ mFinished' = mFinished /\ pc' = [pc EXCEPT ![c] = "done"]
      BY <2>4 DEF Released, Release, Line, Goto
    <3>2. Holders' = Holders \ {c} /\ Waiters' = Waiters \ {c}
      BY <1>0, <3>1 DEF Holders, Waiters
    <3>3. ASSUME Ordered(Line, signaled, Holders, Waiters) PROVE Ordered(Line, signaled', Holders', Waiters')
      BY <1>0, <3>1, <3>2, <3>3, OrdRelease
    <3> QED
      BY <3>1, <3>3 DEF OrderInv
  <2>5. CASE (Return(c) \/ flushPipeline(c)) /\ ~Crash
    <3>1. PICK l \in {"idle"} : pc' = [pc EXCEPT ![c] = l] /\ pc[c] \in {"done", "flush"}
                                /\ UNCHANGED <<todo, mQueue, signaled, mFinished>>
      BY <2>5 DEF Return, flushPipeline, Goto, workerVars
    <3> QED
      BY <1>2, <3>1
  <2>6. CASE Crash
    BY <1>1, <2>6 DEF Crash, callVars
  <2> QED
    BY <1>5, <2>1, <2>2, <2>3, <2>4, <2>5, <2>6 DEF CallerStep
<1>6. CASE RenderStep
  <2>1. CASE Crash
    BY <1>1, <2>1 DEF Crash, callVars
  <2>2. CASE ~Crash
    <3>1. PICK l \in {"idle", "next", "read"}, j \in Job : Aside(Render, l, j)
      BY <1>6, <2>2, RenderSteps
    <3> QED
      BY <1>2, <1>a, <3>1 DEF Aside, workerVars
  <2> QED
    BY <2>1, <2>2
<1>7. CASE ReadbackItem \/ Loop \/ Spurious
  <2>1. mFinished' = mFinished /\ Holders' = Holders /\ Waiters' = Waiters
    BY <1>7, WorkerSteps DEF Holders, Waiters
  <2>2. \/ UNCHANGED workerVars \/ Sleep \/ WakeUp \/ Take \/ Signal
        \/ todo # <<>> /\ Processed
        \/ Stopped
    BY <1>7, WorkerSteps
  <2>3. Ordered(Line, signaled, Holders, Waiters) => Ordered(Line', signaled', Holders, Waiters)
    BY <1>0, <2>2, OrdWorker
  <2> QED
    BY <2>1, <2>3 DEF OrderInv
<1>8. CASE UNCHANGED vars
  BY <1>1, <1>8 DEF vars, callVars
<1> QED
  BY <1>4, <1>5, <1>6, <1>7, <1>8 DEF Next

\* All that holds of the callers and the worker.
CallInv == TypeOK /\ MailboxInv /\ LockInv /\ StartInv /\ AwakeInv /\ OrderInv

LEMMA CallHolds == Spec => []CallInv
<1>1. Init => LockInv /\ StartInv /\ AwakeInv /\ OrderInv
  <2> SUFFICES ASSUME Init PROVE LockInv /\ StartInv /\ AwakeInv /\ OrderInv
    OBVIOUS
  <2>1. \A c \in Callers : pc[c] = "idle" /\ ~signaled[c] /\ ~Configures(c)
    BY DEF Init, WorkerInit, Configures, NoJob
  <2>2. Line = <<>> /\ Len(Line) = 0
    BY DEF Init, WorkerInit, Line
  <2>3. 1..Len(Line) = {}
    BY <2>2
  <2>4. Ordered(Line, signaled, Holders, Waiters)
    BY <2>1, <2>3 DEF Ordered, Holders, Waiters
  <2>5. m_onPost = {} /\ thread = "none" /\ mFinished = FALSE
    BY DEF Init, WorkerInit
  <2> QED
    BY <2>1, <2>4, <2>5 DEF LockInv, LockOK, StartInv, AwakeInv, OrderInv
<1>2. TypeOK /\ LockInv /\ StartInv /\ AwakeInv /\ OrderInv /\ [Next]_vars
      => (LockInv /\ StartInv /\ AwakeInv /\ OrderInv)'
  BY LockStep, StartStep, AwakeStep, OrderStep
<1>3. CallInv <=> TypeOK /\ MailboxInv /\ LockInv /\ StartInv /\ AwakeInv /\ OrderInv
  BY DEF CallInv
<1> QED
  BY <1>1, <1>2, <1>3, RecordingTyped, MailboxInvariant, PTL DEF Spec

\* The readback thread is never asleep with a command in its queue or in its hands,
\* though it is notified of the first command of an empty queue only.
THEOREM ReadbackAwake == Spec => []WorkerAwake
<1>1. CallInv => WorkerAwake
  BY DEF CallInv, AwakeInv, WorkerAwake, Pending
<1> QED
  BY <1>1, CallHolds, PTL

\* As long as the thread could be started, a call that has returned has left no command
\* behind: waitQueuedItems waits for all of them.
THEOREM ReadbackWaitsDone == Spec => []WaitMeansDone
<1>1. CallInv => WaitMeansDone
  <2> SUFFICES ASSUME CallInv, ~mFinished, NEW x \in Pending, x.by # None
               PROVE  pc[x.by] \in {"enqueue", "drain", "sync"}
    BY DEF WaitMeansDone
  <2>1. todo \in Seq(Commands) /\ mQueue \in Seq(Commands)
    BY DEF CallInv, TypeOK
  <2>2. PICK i \in 1..Len(Line) : x = Line[i]
    BY <2>1, LineItems DEF Pending
  <2>3. Line \in Seq(Commands)
    BY <2>1, LineItems
  <2>4. x \in Commands
    BY <2>2, <2>3
  <2>5. x.by \in Callers
    BY <2>4 DEF Commands
  <2> QED
    BY <2>2, <2>5 DEF CallInv, OrderInv, Ordered, Holders
<1> QED
  BY <1>1, CallHolds, PTL

-----------------------------------------------------------------------------
(* Callbacks and mailboxes.                                                 *)

\* The first command is processed.
LEMMA OwnTail ==
  ASSUME NEW C, NEW L \in Seq(C), L # <<>>, NEW J, NEW P, Owned(L, J, P)
  PROVE  /\ Owned(Tail(L), J, P)
         /\ \A c : Pends(Tail(L), c) => Pends(L, c)
         /\ \A c : Pends(L, c) => Pends(Tail(L), c) \/ (Head(L).by = c /\ Calling(Head(L)))
         /\ \A c : Head(L).by = c /\ Calling(Head(L)) => ~Pends(Tail(L), c) /\ Pends(L, c)
<1> DEFINE M == Tail(L)
<1>1. Len(L) \in Nat /\ Len(M) \in Nat /\ Len(M) = Len(L) - 1 /\ 1 \in 1..Len(L) /\ Head(L) = L[1]
  OBVIOUS
<1>2. \A i \in 1..Len(M) : M[i] = L[i + 1]
  OBVIOUS
<1> HIDE DEF M
<1>3. \A i \in 1..Len(M) : i + 1 \in 1..Len(L) /\ i + 1 # 1
  BY <1>1
<1>4. \A i \in 1..Len(L) : i = 1 \/ (i - 1 \in 1..Len(M) /\ (i - 1) + 1 = i)
  BY <1>1
<1>5. \A i, j \in 1..Len(M) : i + 1 = j + 1 => i = j
  BY <1>1
<1>6. /\ \A i \in 1..Len(L) : Calling(L[i]) =>
           /\ L[i].by \in Callers
           /\ L[i].op = J[L[i].by].op /\ L[i].display = J[L[i].by].display
           /\ P[L[i].by] \in {"drain", "sync"}
      /\ \A i, j \in 1..Len(L) :
           Calling(L[i]) /\ Calling(L[j]) /\ L[i].by = L[j].by => i = j
  BY DEF Owned
<1>7. \A i \in 1..Len(M) : Calling(M[i]) =>
         /\ M[i].by \in Callers
         /\ M[i].op = J[M[i].by].op /\ M[i].display = J[M[i].by].display
         /\ P[M[i].by] \in {"drain", "sync"}
  BY <1>2, <1>3, <1>6
<1>8. \A i, j \in 1..Len(M) :
         Calling(M[i]) /\ Calling(M[j]) /\ M[i].by = M[j].by => i = j
  BY <1>2, <1>3, <1>5, <1>6
<1>9. Owned(M, J, P)
  BY <1>7, <1>8 DEF Owned
<1>10. \A c : Pends(M, c) => Pends(L, c)
  BY <1>2, <1>3 DEF Pends
<1>11. ASSUME NEW c, Pends(L, c) PROVE Pends(M, c) \/ (L[1].by = c /\ Calling(L[1]))
  <2>1. PICK i \in 1..Len(L) : L[i].by = c /\ Calling(L[i])
    BY <1>11 DEF Pends
  <2>2. CASE i - 1 \in 1..Len(M) /\ (i - 1) + 1 = i
    BY <1>2, <2>1, <2>2 DEF Pends
  <2> QED
    BY <1>4, <2>1, <2>2
<1>12. ASSUME NEW c, L[1].by = c, Calling(L[1]) PROVE ~Pends(M, c) /\ Pends(L, c)
  BY <1>1, <1>2, <1>3, <1>6, <1>12 DEF Pends
<1> QED
  BY <1>1, <1>9, <1>10, <1>11, <1>12 DEF M

\* A command is put at the end.
LEMMA OwnAppend ==
  ASSUME NEW C, NEW L \in Seq(C), NEW x \in C, NEW J, NEW P, Owned(L, J, P),
         Calling(x) => /\ x.by \in Callers /\ x.op = J[x.by].op /\ x.display = J[x.by].display
                       /\ P[x.by] \in {"drain", "sync"} /\ ~Pends(L, x.by)
  PROVE  /\ Owned(Append(L, x), J, P)
         /\ \A c : Pends(Append(L, x), c) <=> Pends(L, c) \/ (x.by = c /\ Calling(x))
<1> DEFINE M == Append(L, x)
           n == Len(L)
<1>1. n \in Nat /\ Len(M) = n + 1 /\ M[n + 1] = x
  OBVIOUS
<1>2. \A i \in 1..n : M[i] = L[i]
  OBVIOUS
<1> HIDE DEF M
<1>3. \A i \in 1..Len(M) : i \in 1..n \/ i = n + 1
  BY <1>1
<1>a. n + 1 \in 1..Len(M) /\ \A i \in 1..n : i \in 1..Len(M)
  BY <1>1
<1>4. /\ \A i \in 1..n : Calling(L[i]) =>
           /\ L[i].by \in Callers
           /\ L[i].op = J[L[i].by].op /\ L[i].display = J[L[i].by].display
           /\ P[L[i].by] \in {"drain", "sync"}
      /\ \A i, j \in 1..n :
           Calling(L[i]) /\ Calling(L[j]) /\ L[i].by = L[j].by => i = j
      /\ \A c : Pends(L, c) <=> \E i \in 1..n : L[i].by = c /\ Calling(L[i])
  BY DEF Owned, Pends
<1> HIDE DEF n
<1>5. \A i \in 1..Len(M) : Calling(M[i]) =>
         /\ M[i].by \in Callers
         /\ M[i].op = J[M[i].by].op /\ M[i].display = J[M[i].by].display
         /\ P[M[i].by] \in {"drain", "sync"}
  BY <1>1, <1>2, <1>3, <1>4
<1>6. \A i, j \in 1..Len(M) :
         Calling(M[i]) /\ Calling(M[j]) /\ M[i].by = M[j].by => i = j
  <2> SUFFICES ASSUME NEW i \in 1..Len(M), NEW j \in 1..Len(M),
                      Calling(M[i]), Calling(M[j]), M[i].by = M[j].by
               PROVE  i = j
    OBVIOUS
  <2>1. CASE i \in 1..n /\ j \in 1..n
    BY <1>2, <1>4, <2>1
  <2>2. CASE i = n + 1 /\ j \in 1..n
    BY <1>1, <1>2, <1>4, <2>2
  <2>3. CASE j = n + 1 /\ i \in 1..n
    BY <1>1, <1>2, <1>4, <2>3
  <2> QED
    BY <1>3, <2>1, <2>2, <2>3
<1>7. Owned(M, J, P)
  BY <1>5, <1>6 DEF Owned
<1>8. ASSUME NEW c PROVE Pends(M, c) <=> Pends(L, c) \/ (x.by = c /\ Calling(x))
  <2>1. Pends(M, c) => Pends(L, c) \/ (x.by = c /\ Calling(x))
    BY <1>1, <1>2, <1>3, <1>4 DEF Pends
  <2>2. ASSUME Pends(L, c) PROVE Pends(M, c)
    <3>1. PICK i \in 1..n : L[i].by = c /\ Calling(L[i])
      BY <1>4, <2>2
    <3>2. i \in 1..Len(M) /\ M[i] = L[i]
      BY <1>2, <1>a
    <3> QED
      BY <3>1, <3>2 DEF Pends
  <2>3. x.by = c /\ Calling(x) => Pends(M, c)
    BY <1>1, <1>a DEF Pends
  <2> QED
    BY <2>1, <2>2, <2>3
<1> QED
  BY <1>7, <1>8 DEF M

\* What was taken is forgotten.
LEMMA OwnSuffix ==
  ASSUME NEW C, NEW K \in Seq(C), NEW L \in Seq(C), NEW J, NEW P, Owned(K \o L, J, P)
  PROVE  Owned(L, J, P) /\ \A c : Pends(L, c) => Pends(K \o L, c)
<1> DEFINE M == K \o L
           k == Len(K)
<1>1. k \in Nat /\ Len(L) \in Nat /\ Len(M) = k + Len(L)
  OBVIOUS
<1>2. \A i \in 1..Len(L) : M[k + i] = L[i]
  OBVIOUS
<1>0. Owned(M, J, P)
  OBVIOUS
<1> HIDE DEF M, k
<1>3. \A i \in 1..Len(L) : k + i \in 1..Len(M)
  BY <1>1
<1>4. \A i, j \in 1..Len(L) : k + i = k + j => i = j
  BY <1>1
<1>5. \A i \in 1..Len(L) : Calling(L[i]) =>
         /\ L[i].by \in Callers
         /\ L[i].op = J[L[i].by].op /\ L[i].display = J[L[i].by].display
         /\ P[L[i].by] \in {"drain", "sync"}
  BY <1>0, <1>2, <1>3 DEF Owned
<1>6. \A i, j \in 1..Len(L) :
         Calling(L[i]) /\ Calling(L[j]) /\ L[i].by = L[j].by => i = j
  BY <1>0, <1>2, <1>3, <1>4 DEF Owned
<1>7. \A c : Pends(L, c) => Pends(M, c)
  BY <1>2, <1>3 DEF Pends
<1>8. Owned(L, J, P)
  BY <1>5, <1>6 DEF Owned
<1> QED
  BY <1>7, <1>8 DEF M

\* Callers that have nothing in line may move.
LEMMA OwnMoves ==
  ASSUME NEW L, NEW J, NEW P, Owned(L, J, P), NEW J2, NEW P2,
         \A c \in Callers : Pends(L, c) => J2[c] = J[c] /\ P2[c] \in {"drain", "sync"}
  PROVE  Owned(L, J2, P2)
BY DEF Owned, Pends

\* No mailbox is made or deleted.
RecordsKept == \A d \in Displays : Recorded(d)' <=> Recorded(d)

LEMMA MailboxesStay ==
  ASSUME MailboxInv, \/ doNextReadback \/ BeginCopy \/ EndCopy \/ (\E c \in Callers : flushPipeline(c))
                     \/ UNCHANGED mRecordDisplays
  PROVE  RecordsKept
<1>0. mRecordDisplays \in [Displays -> Record \cup {NoRecord}]
  BY DEF MailboxInv
<1>1. ASSUME NEW e, NEW r, mRecordDisplays' = [mRecordDisplays EXCEPT ![e] = r],
             e \in Displays => Recorded(e) /\ r \in Record
      PROVE  RecordsKept
  <2> SUFFICES ASSUME NEW d \in Displays PROVE Recorded(d)' <=> Recorded(d)
    BY DEF RecordsKept
  <2>1. CASE d = e
    BY <1>0, <1>1, <2>1, RecordAssumption DEF Recorded
  <2>2. CASE d # e
    BY <1>0, <1>1, <2>2 DEF Recorded
  <2> QED
    BY <2>1, <2>2
<1>2. ASSUME UNCHANGED mRecordDisplays PROVE RecordsKept
  BY <1>2 DEF RecordsKept, Recorded
<1>3. ASSUME NEW e \in Displays, Recorded(e)
      PROVE  LET r == mRecordDisplays[e]
             IN  /\ r \in Record /\ AfterRead(r) \in Record /\ AfterFlush(r) \in Record
                 /\ \A b \in BOOLEAN : [r EXCEPT !.copying = b] \in Record
  <2>1. mRecordDisplays[e] \in Record /\ Good(mRecordDisplays[e])
    BY <1>3 DEF MailboxInv, Recorded
  <2> QED
    BY <2>1, ReadGood, FlushGood, CopyGood
<1>4. ASSUME Crash PROVE RecordsKept
  BY <1>2, <1>4 DEF Crash, recordVars
<1>5. CASE doNextReadback
  <2>1. CASE ~Recorded(job[Render].display)
    BY <1>4, <1>5, <2>1 DEF doNextReadback
  <2>2. CASE Recorded(job[Render].display)
    <3>1. mRecordDisplays' = [mRecordDisplays EXCEPT ![job[Render].display]
                                = AfterRead(mRecordDisplays[job[Render].display])]
      BY <1>5, <2>2 DEF doNextReadback
    <3> QED
      BY <1>1, <1>3, <2>2, <3>1
  <2> QED
    BY <2>1, <2>2
<1>6. ASSUME NEW c \in Callers, flushPipeline(c) PROVE RecordsKept
  <2>1. CASE ~Recorded(job[c].display)
    BY <1>4, <1>6, <2>1 DEF flushPipeline
  <2>2. CASE Recorded(job[c].display)
    <3>1. mRecordDisplays' = [mRecordDisplays EXCEPT ![job[c].display]
                                = AfterFlush(mRecordDisplays[job[c].display])]
      BY <1>6, <2>2 DEF flushPipeline
    <3> QED
      BY <1>1, <1>3, <2>2, <3>1
  <2> QED
    BY <2>1, <2>2
<1>7. CASE BeginCopy
  <2> DEFINE d == Head(todo).display
  <2>1. CASE ~Recorded(d)
    BY <1>4, <1>7, <2>1 DEF BeginCopy
  <2>2. CASE Recorded(d)
    <3>1. mRecordDisplays' = [mRecordDisplays EXCEPT ![d] = [mRecordDisplays[d] EXCEPT !.copying = TRUE]]
      BY <1>7, <2>2 DEF BeginCopy
    <3> HIDE DEF d
    <3> QED
      BY <1>1, <1>3, <2>2, <3>1
  <2> QED
    BY <2>1, <2>2
<1>8. CASE EndCopy
  <2> DEFINE d == Head(todo).display
  <2>1. Recorded(d) /\ mRecordDisplays' = [mRecordDisplays EXCEPT ![d] = [mRecordDisplays[d] EXCEPT !.copying = FALSE]]
    BY <1>8 DEF EndCopy
  <2> HIDE DEF d
  <2> QED
    BY <1>1, <1>3, <2>1
<1> QED
  BY <1>2, <1>5, <1>6, <1>7, <1>8

\* A start that was refused stays so.
LEMMA FinishedStays ==
  ASSUME [Next]_vars, mFinished
  PROVE  mFinished'
<1>1. CASE NewCall \/ RenderStep \/ UNCHANGED vars
  BY <1>1 DEF NewCall, Post, Finalize, AddPostCallback, RemovePostCallback, GetPixels, FlushReadPipeline,
     Begin, enqueueImpl, RenderStep, NextDisplay, LastDisplay, doNextReadback, Crash, workerVars, vars
<1>2. ASSUME NEW c \in Callers, CallerStep(c) PROVE mFinished'
  BY <1>2 DEF CallerStep, Start, StartThread, EnqueueInit, Enqueue, waitQueuedItems, EnqueueSync, Released,
     Return, flushPipeline, Crash, start, startThread, enqueueImpl, Release, workerVars
<1>3. CASE ReadbackItem \/ Loop \/ Spurious
  BY <1>3, WorkerSteps
<1> QED
  BY <1>1, <1>2, <1>3 DEF Next

\* A caller that stays where it is keeps its display so.
LEMMA ConfSame ==
  ASSUME TypeOK, LockInv, RecordsKept, NEW c \in Callers, ConfOK(c),
         pc'[c] = pc[c], job'[c] = job[c], Pends(Line', c) <=> Pends(Line, c),
         thread = "gone" => thread' = "gone",
         signaled'[c] = signaled[c] \/ thread # "gone"
  PROVE  ConfOK(c)'
<1> SUFFICES ASSUME Configures(c)' PROVE Configured(c)'
  BY DEF ConfOK
<1>1. Configures(c) /\ Configured(c)
  BY DEF Configures, ConfOK
<1>2. job[c].display \in Displays
  BY <1>1 DEF LockInv, LockOK, TypeOK
<1>3. Reached(c)' <=> Reached(c)
  BY <1>2 DEF Reached, RecordsKept, Recorded
<1> QED
  BY <1>1, <1>3 DEF Configured

\* The facts RegInv gives while the thread is there.
LEMMA RegFacts ==
  ASSUME CallInv, RegInv, ~mFinished
  PROVE  /\ Ordered(Line, signaled, Holders, Waiters) /\ Line \in Seq(Commands)
         /\ Owned(Line, job, pc)
         /\ (\A d \in Displays : Agrees(d)) /\ (\A c \in Callers : ConfOK(c))
         /\ \A c, e \in Callers : Configures(c) /\ Configures(e) => c = e
         /\ \A c \in Callers : Configures(c) =>
              m_lock = c /\ c # Render /\ job[c].display \in Displays /\ job[c].display \in m_onPost
         /\ \A c \in Callers : Pends(Line, c) => pc[c] \in {"drain", "sync"} /\ ~signaled[c]
<1>1. Ordered(Line, signaled, Holders, Waiters) /\ Owned(Line, job, pc)
      /\ (\A d \in Displays : Agrees(d)) /\ (\A c \in Callers : ConfOK(c))
  BY DEF CallInv, OrderInv, RegInv
<1>2. Line \in Seq(Commands)
  BY LineItems DEF CallInv, TypeOK
<1>3. \A c \in Callers : Configures(c) =>
        m_lock = c /\ c # Render /\ job[c].display \in Displays /\ job[c].display \in m_onPost
  BY DEF CallInv, LockInv, LockOK, TypeOK
<1>4. \A c \in Callers : Pends(Line, c) => pc[c] \in {"drain", "sync"} /\ ~signaled[c]
  BY <1>1 DEF Pends, Owned, Ordered
<1> QED
  BY <1>1, <1>2, <1>3, <1>4

\* What RegInv says of the next state.
RegNext ==
    /\ Owned(Line', job', pc')
    /\ \A d \in Displays : Agrees(d)'
    /\ \A c \in Callers : ConfOK(c)'

\* One caller moves; it configures after the step only what it configured before.
LEMMA RegMoves ==
  ASSUME CallInv, RegInv, ~mFinished, NEW c \in Callers, NEW l, NEW j,
         pc' = [pc EXCEPT ![c] = l], job' = [job EXCEPT ![c] = j],
         RecordsKept, m_onPost' = m_onPost, thread = "gone" => thread' = "gone",
         \A e \in Callers : e # c => (Pends(Line', e) <=> Pends(Line, e)) /\ signaled'[e] = signaled[e],
         Configures(c) \/ j.op \in {"AddRecordDisplay", "DelRecordDisplay"} => j = job[c],
         Owned(Line', job', pc'), ConfOK(c)'
  PROVE  RegNext
<1>0. TypeOK /\ LockInv /\ pc \in [Callers -> Labels] /\ job \in [Callers -> Job]
  BY DEF CallInv, TypeOK, Job
<1>1. \A e \in Callers : e # c => pc'[e] = pc[e] /\ job'[e] = job[e]
  BY <1>0
<1>2. pc'[c] = l /\ job'[c] = j
  BY <1>0
<1>3. \A e \in Callers : e # c => ConfOK(e)'
  BY <1>0, <1>1, RegFacts, ConfSame
<1>4. \A e \in Callers : Configures(e) => Configures(e)' /\ job'[e] = job[e]
  BY <1>1, <1>2 DEF Configures
<1>5. ASSUME NEW d \in Displays PROVE Agrees(d)'
  <2>1. Agrees(d)
    BY RegFacts
  <2>2. Recorded(d)' <=> Recorded(d)
    BY DEF RecordsKept
  <2> QED
    BY <1>4, <2>1, <2>2 DEF Agrees
<1> QED
  BY <1>3, <1>5 DEF RegNext

\* A caller that does not configure and has nothing in line goes on aside.
LEMMA RegAside ==
  ASSUME CallInv, RegInv, ~mFinished, NEW c \in Callers, NEW l, NEW j,
         Aside(c, l, j), RecordsKept, m_onPost' = m_onPost,
         ~Configures(c), j.op \notin {"AddRecordDisplay", "DelRecordDisplay"}
  PROVE  RegNext
<1>0. pc \in [Callers -> Labels] /\ job \in [Callers -> Job]
  BY DEF CallInv, TypeOK, Job
<1>1. Line' = Line /\ signaled' = signaled /\ thread' = thread
  BY DEF Aside, workerVars, Line
<1>2. ~Pends(Line, c)
  BY RegFacts DEF Aside
<1>3. pc' = [pc EXCEPT ![c] = l] /\ job' = [job EXCEPT ![c] = j] /\ job'[c] = j
  BY <1>0 DEF Aside
<1>4. \A e \in Callers : Pends(Line, e) => job'[e] = job[e] /\ pc'[e] \in {"drain", "sync"}
  BY <1>0, <1>2, <1>3, RegFacts
<1>5. Owned(Line, job', pc')
  BY <1>4, RegFacts, OwnMoves
<1>6. ConfOK(c)'
  BY <1>3 DEF ConfOK, Configures
<1> QED
  BY <1>1, <1>3, <1>5, <1>6, RegMoves

\* The steps of the thread: the callers stay where they are.
LEMMA RegStill ==
  ASSUME CallInv, RegInv, ~mFinished, UNCHANGED <<m_onPost, pc, job>>,
         Owned(Line', job, pc), \A c \in Callers : Configures(c) => ConfOK(c)',
         \A d \in Displays : (Recorded(d)' <=> Recorded(d))
                             \/ \E c \in Callers : Configures(c) /\ job[c].display = d
  PROVE  RegNext
<1>1. \A c \in Callers : Configures(c)' <=> Configures(c)
  BY DEF Configures
<1>2. \A c \in Callers : ConfOK(c)'
  BY <1>1 DEF ConfOK
<1>3. ASSUME NEW d \in Displays PROVE Agrees(d)'
  <2>1. Agrees(d)
    BY RegFacts
  <2> QED
    BY <1>1, <2>1 DEF Agrees
<1>4. Owned(Line', job', pc')
  OBVIOUS
<1> QED
  BY <1>2, <1>3, <1>4 DEF RegNext

\* A command that does not configure is processed, or none is.
LEMMA RegPlain ==
  ASSUME CallInv, RegInv, ~mFinished, UNCHANGED <<m_onPost, pc, job>>, RecordsKept,
         Owned(Line', job, pc),
         \A c \in Callers : Configures(c) => (Pends(Line', c) <=> Pends(Line, c)),
         thread = "gone" => thread' = "gone",
         signaled' = signaled \/ thread # "gone"
  PROVE  RegNext
<1>1. ASSUME NEW c \in Callers, Configures(c) PROVE ConfOK(c)'
  BY <1>1, RegFacts, ConfSame DEF CallInv
<1> QED
  BY <1>1, RegStill DEF RecordsKept

\* The command a display is configured by is processed: only its own display changes, and
\* it has then reached what it asked for.
LEMMA RegEffect ==
  ASSUME CallInv, RegInv, ~mFinished, UNCHANGED <<m_onPost, pc, job>>,
         Line # <<>>, Line' = Tail(Line),
         Head(Line).op \in {"AddRecordDisplay", "DelRecordDisplay"},
         NEW r, mRecordDisplays' = [mRecordDisplays EXCEPT ![Head(Line).display] = r],
         r # NoRecord <=> Head(Line).op = "AddRecordDisplay"
  PROVE  RegNext
<1> DEFINE x == Head(Line)
<1>0. Line \in Seq(Commands) /\ Owned(Line, job, pc) /\ mRecordDisplays \in [Displays -> Record \cup {NoRecord}]
  BY RegFacts DEF CallInv, MailboxInv
<1>1. /\ Owned(Line', job, pc)
      /\ \A e : Pends(Line', e) => Pends(Line, e)
      /\ \A e : Pends(Line, e) => Pends(Line', e) \/ (x.by = e /\ Calling(x))
      /\ \A e : x.by = e /\ Calling(x) => ~Pends(Line', e) /\ Pends(Line, e)
  BY <1>0, OwnTail
<1>2. Calling(x) /\ 1 \in 1..Len(Line) /\ x = Line[1]
  BY <1>0 DEF Calling, Sync
<1> HIDE DEF x
<1>3. PICK c \in Callers : /\ x.by = c /\ x.op = job[c].op /\ x.display = job[c].display
                           /\ pc[c] \in {"drain", "sync"}
  BY <1>0, <1>2 DEF Owned
<1>4. ~Pends(Line', c) /\ Pends(Line, c)
  BY <1>1, <1>2, <1>3
<1>5. x.op \in {"AddRecordDisplay", "DelRecordDisplay"} /\ (r # NoRecord <=> x.op = "AddRecordDisplay")
      /\ mRecordDisplays' = [mRecordDisplays EXCEPT ![x.display] = r]
  BY DEF x
<1>6. Configures(c)
  BY <1>3, <1>5 DEF Configures
<1>7. job[c].display \in Displays
  BY <1>3, <1>6, RegFacts
<1>8. Reached(c)'
  BY <1>0, <1>3, <1>5, <1>7 DEF Reached, Recorded
<1>9. Configured(c)'
  BY <1>3, <1>4, <1>8 DEF Configured
<1>10. \A e \in Callers : Configures(e) => e = c
  BY <1>3, <1>6, RegFacts
<1>11. \A e \in Callers : Configures(e) => ConfOK(e)'
  BY <1>9, <1>10 DEF ConfOK
<1>12. ASSUME NEW d \in Displays, d # job[c].display PROVE Recorded(d)' <=> Recorded(d)
  BY <1>0, <1>3, <1>5, <1>12 DEF Recorded
<1> QED
  BY <1>1, <1>3, <1>6, <1>11, <1>12, RegStill

\* Every step of the readback thread.
LEMMA RegWorker ==
  ASSUME CallInv, RegInv, ~mFinished, ReadbackItem \/ Loop \/ Spurious
  PROVE  RegNext
<1>0. /\ todo \in Seq(Commands) /\ mQueue \in Seq(Commands) /\ MailboxInv
      /\ Line \in Seq(Commands) /\ Owned(Line, job, pc)
  BY RegFacts DEF CallInv, TypeOK
<1>1. UNCHANGED <<m_onPost, pc, job>>
  BY WorkerSteps
<1>2. ASSUME UNCHANGED mRecordDisplays PROVE RecordsKept
  BY <1>2 DEF RecordsKept, Recorded
<1>3. ASSUME Line' = Line, signaled' = signaled, thread = "gone" => thread' = "gone", RecordsKept PROVE RegNext
  BY <1>0, <1>1, <1>3, RegPlain
<1>4. ASSUME todo # <<>>, thread = "running", todo' = Tail(todo), mQueue' = mQueue,
             ~Configures(Head(todo).by) \/ ~Calling(Head(todo)), RecordsKept
      PROVE  RegNext
  <2>1. Line # <<>> /\ Head(Line) = Head(todo) /\ Line' = Tail(Line)
    BY <1>0, <1>4, LineProcessed
  <2>2. /\ Owned(Line', job, pc)
        /\ \A e : Pends(Line', e) => Pends(Line, e)
        /\ \A e : Pends(Line, e) => Pends(Line', e) \/ (Head(todo).by = e /\ Calling(Head(todo)))
    BY <1>0, <2>1, OwnTail
  <2> QED
    BY <1>1, <1>4, <2>2, RegPlain
<1>5. CASE Loop \/ Spurious
  <2>0. RecordsKept
    BY <1>2, <1>5 DEF Loop, Spurious, recordVars
  <2>1. CASE Sleep \/ WakeUp
    <3>1. Line' = Line /\ signaled' = signaled /\ thread # "gone"
      BY <2>1 DEF Sleep, WakeUp, Idle, Line
    <3> QED
      BY <1>3, <2>0, <3>1
  <2>2. CASE Take
    <3>1. Line' = Line /\ signaled' = signaled /\ thread' = thread
      BY <1>0, <2>2, LineTake DEF Take
    <3> QED
      BY <1>3, <2>0, <3>1
  <2>3. CASE Signal
    <3>1. /\ todo # <<>> /\ thread = "running" /\ todo' = Tail(todo) /\ mQueue' = mQueue
          /\ Head(todo).op = Sync
      BY <2>3 DEF Signal, At
    <3> QED
      BY <1>4, <2>0, <3>1 DEF Calling
  <2> QED
    BY <1>5, <2>1, <2>2, <2>3 DEF Loop, Spurious
<1>6. CASE InitGL
  <2>1. /\ todo # <<>> /\ thread = "running" /\ todo' = Tail(todo) /\ mQueue' = mQueue
        /\ Head(todo).op = "Init"
    BY <1>6 DEF InitGL, At, Processed
  <2>2. RecordsKept
    BY <1>2, <1>6 DEF InitGL, recordVars
  <2> QED
    BY <1>4, <2>1, <2>2 DEF Calling
<1>7. CASE BeginCopy
  <2>1. Line' = Line /\ signaled' = signaled /\ thread' = thread
    BY <1>7 DEF BeginCopy, Crash, workerVars, Line
  <2>2. RecordsKept
    BY <1>0, <1>7, MailboxesStay
  <2> QED
    BY <1>3, <2>1, <2>2
<1>8. CASE EndCopy
  <2>1. /\ todo # <<>> /\ thread = "running" /\ todo' = Tail(todo) /\ mQueue' = mQueue
        /\ Head(todo).op = "GetPixels"
    BY <1>8 DEF EndCopy, At, Processed
  <2>2. RecordsKept
    BY <1>0, <1>8, MailboxesStay
  <2>3. Line # <<>> /\ Head(Line) = Head(todo)
    BY <1>0, <2>1, LineProcessed
  <2>4. 1 \in 1..Len(Line) /\ Line[1] = Head(todo)
    BY <1>0, <2>3
  <2>5. Calling(Head(todo)) => job[Head(todo).by].op = "GetPixels"
    BY <1>0, <2>1, <2>4 DEF Owned
  <2> QED
    BY <1>4, <2>1, <2>2, <2>5 DEF Configures
<1>9. CASE AddRecordDisplay \/ DelRecordDisplay
  <2> DEFINE d == Head(todo).display
  <2>1. /\ todo # <<>> /\ todo' = Tail(todo) /\ mQueue' = mQueue
        /\ Head(todo).op \in {"AddRecordDisplay", "DelRecordDisplay"}
    BY <1>9 DEF AddRecordDisplay, DelRecordDisplay, At, Processed
  <2>2. Line # <<>> /\ Head(Line) = Head(todo) /\ Line' = Tail(Line)
    BY <1>0, <2>1, LineProcessed
  <2>3. PICK r : mRecordDisplays' = [mRecordDisplays EXCEPT ![d] = r]
                 /\ (r # NoRecord <=> Head(todo).op = "AddRecordDisplay")
    <3>1. NewRecord # NoRecord
      BY NewGood, RecordAssumption
    <3>2. CASE AddRecordDisplay
      <4>1. mRecordDisplays' = [mRecordDisplays EXCEPT ![d] = IF Recorded(d) THEN mRecordDisplays[d] ELSE NewRecord]
            /\ Head(todo).op = "AddRecordDisplay"
        BY <3>2 DEF AddRecordDisplay, At
      <4>2. (IF Recorded(d) THEN mRecordDisplays[d] ELSE NewRecord) # NoRecord
        BY <3>1 DEF Recorded
      <4> QED
        BY <4>1, <4>2
    <3>3. CASE DelRecordDisplay
      BY <3>3 DEF DelRecordDisplay, At
    <3> QED
      BY <1>9, <3>2, <3>3
  <2> QED
    BY <1>1, <2>1, <2>2, <2>3, RegEffect
<1>10. CASE Exit
  <2>1. /\ thread' = "gone" /\ todo' = <<>> /\ mQueue' = mQueue /\ signaled' = signaled
        /\ UNCHANGED mRecordDisplays
    BY <1>10 DEF Exit, Stopped, recordVars
  <2>2. Line' = mQueue
    BY <1>0, <2>1 DEF Line
  <2>3. Owned(todo \o mQueue, job, pc)
    BY <1>0 DEF Line
  <2>4. Owned(mQueue, job, pc) /\ \A c : Pends(mQueue, c) => Pends(todo \o mQueue, c)
    BY <1>0, <2>3, OwnSuffix
  <2>5. ASSUME NEW c \in Callers, Configures(c) PROVE ConfOK(c)'
    <3>1. Configured(c) /\ (Pends(Line, c) => ~signaled[c]) /\ (Pends(Line', c) => Pends(Line, c))
      BY <2>2, <2>4, <2>5, RegFacts DEF ConfOK, Line
    <3>2. Reached(c)' <=> Reached(c)
      BY <1>1, <2>1 DEF Reached, Recorded
    <3>3. Configured(c)'
      BY <1>1, <2>1, <3>1, <3>2 DEF Configured
    <3> QED
      BY <3>3 DEF ConfOK
  <2>6. RecordsKept
    BY <1>2, <2>1
  <2> QED
    BY <1>1, <2>2, <2>4, <2>5, <2>6, RegStill DEF RecordsKept
<1> QED
  BY <1>5, <1>6, <1>7, <1>8, <1>9, <1>10 DEF ReadbackItem

\* A call begins.
LEMMA RegNewCall ==
  ASSUME CallInv, RegInv, ~mFinished, NewCall
  PROVE  RegNext
<1>0. /\ todo \in Seq(Commands) /\ mQueue \in Seq(Commands)
      /\ pc \in [Callers -> Labels] /\ job \in [Callers -> Job] /\ None \notin Callers
  BY RecordingAssumption DEF CallInv, TypeOK, Job
<1>1. UNCHANGED mRecordDisplays
  BY DEF NewCall, Post, Finalize, AddPostCallback, RemovePostCallback, GetPixels, FlushReadPipeline, Begin, recordVars
<1>2. RecordsKept
  BY <1>1 DEF RecordsKept, Recorded
<1>3. CASE Finalize
  <2> DEFINE x == Command(None, "Exit", 0)
  <2>1. x \in Commands /\ ~Calling(x)
    BY DEF Command, Commands, Operations, Calling
  <2>2. enqueueImpl(x) /\ signaled' = signaled /\ UNCHANGED <<m_onPost, pc, job>>
    BY <1>3 DEF Finalize, callVars, recordVars
  <2> HIDE DEF x
  <2>3. Line \in Seq(Commands) /\ Line' = Append(Line, x)
    BY <1>0, <2>1, <2>2, LineEnqueue
  <2>4. thread = "gone" => thread' = "gone"
    BY <2>2 DEF enqueueImpl, Notified
  <2>5. Owned(Line', job, pc) /\ \A c : Pends(Line', c) <=> Pends(Line, c)
    BY <2>1, <2>3, RegFacts, OwnAppend
  <2> QED
    BY <1>2, <2>2, <2>4, <2>5, RegPlain
<1>4. CASE ~Finalize
  <2>1. PICK c \in Callers, op \in Operations, l \in Labels, d \in Displays \cup {-1} :
            /\ Begin(c, op, d, l) /\ l # "idle"
            /\ \/ op = "Post" /\ l = "next" /\ UNCHANGED <<m_lock, m_onPost>>
               \/ /\ op = "AddRecordDisplay" /\ l = IF mStarted THEN "enqueue" ELSE "start"
                  /\ m_lock = None /\ m_lock' = c /\ c # Render
                  /\ d \in Displays /\ d \notin m_onPost /\ m_onPost' = m_onPost \cup {d}
               \/ /\ op = "DelRecordDisplay" /\ l = "enqueue"
                  /\ m_lock = None /\ m_lock' = c /\ c # Render
                  /\ d \in m_onPost /\ m_onPost' = m_onPost
               \/ /\ op \in {"GetPixels", "Flush"} /\ l \in {"enqueue", "flush"}
                  /\ d \in m_onPost /\ UNCHANGED <<m_lock, m_onPost>>
                  /\ ConfiguredBy(d) = {}
    BY <1>4, NewCalls
  <2> DEFINE j == [op |-> op, display |-> d]
  <2>2. pc[c] = "idle" /\ pc' = [pc EXCEPT ![c] = l] /\ job' = [job EXCEPT ![c] = j] /\ UNCHANGED workerVars
    BY <2>1 DEF Begin, Goto
  <2>3. j.op = op /\ j.display = d
    OBVIOUS
  <2> HIDE DEF j
  <2>4. ~Configures(c)
    BY <2>2 DEF CallInv, LockInv, LockOK
  <2>5. CASE op \notin {"AddRecordDisplay", "DelRecordDisplay"}
    <3>1. Aside(c, l, j) /\ m_onPost' = m_onPost
      BY <2>1, <2>2, <2>5 DEF Aside
    <3> QED
      BY <1>2, <2>3, <2>4, <2>5, <3>1, RegAside
  <2>6. CASE op \in {"AddRecordDisplay", "DelRecordDisplay"}
    <3>1. Line' = Line /\ pc'[c] = l /\ job'[c] = j
      BY <1>0, <2>2 DEF workerVars, Line
    <3>2. \A e \in Callers : e # c => pc'[e] = pc[e] /\ job'[e] = job[e]
      BY <1>0, <2>2
    <3>3. m_lock = None /\ l \in {"start", "enqueue"} /\ d \in Displays
          /\ (op = "AddRecordDisplay" <=> d \notin m_onPost) /\ \A e \in Displays : e # d => (e \in m_onPost' <=> e \in m_onPost)
      BY <2>1, <2>6 DEF CallInv, TypeOK
    <3>4. \A e \in Callers : ~Configures(e)
      BY <1>0, <3>3 DEF CallInv, LockInv, LockOK
    <3>5. ~Pends(Line, c)
      BY <2>2, RegFacts
    <3>6. Owned(Line', job', pc')
      BY <3>1, <3>2, <3>5, RegFacts, OwnMoves
    <3>7. \A e \in Displays : Recorded(e)' <=> Recorded(e)
      BY <1>2 DEF RecordsKept
    <3>8. \A e \in Displays : Recorded(e) <=> e \in m_onPost
      BY <3>4, RegFacts DEF Agrees
    <3>9. ~Reached(c)'
      BY <2>3, <3>1, <3>3, <3>7, <3>8 DEF Reached
    <3>10. Configured(c)'
      BY <3>1, <3>3, <3>9 DEF Configured
    <3>11. \A e \in Callers : ConfOK(e)'
      BY <3>2, <3>4, <3>10 DEF ConfOK, Configures
    <3>12. Configures(c)' /\ job'[c].display = d
      BY <2>3, <2>6, <3>1 DEF Configures
    <3>13. ASSUME NEW e \in Displays PROVE Agrees(e)'
      BY <3>3, <3>7, <3>8, <3>12 DEF Agrees
    <3> QED
      BY <3>6, <3>11, <3>13 DEF RegNext
  <2> QED
    BY <2>5, <2>6
<1> QED
  BY <1>3, <1>4

\* A caller goes on, and may put a command in line.
LEMMA OwnGoes ==
  ASSUME CallInv, RegInv, ~mFinished, NEW c \in Callers, NEW l,
         pc' = [pc EXCEPT ![c] = l], job' = job, Pends(Line, c) => l \in {"drain", "sync"},
         NEW x \in Commands, Line' = Append(Line, x),
         Calling(x) => /\ x.by = c /\ x.op = job[c].op /\ x.display = job[c].display
                       /\ l \in {"drain", "sync"} /\ ~Pends(Line, c)
  PROVE  /\ Owned(Line', job', pc')
         /\ \A e : Pends(Line', e) <=> Pends(Line, e) \/ (x.by = e /\ Calling(x))
<1>0. pc \in [Callers -> Labels] /\ Line \in Seq(Commands)
  BY RegFacts DEF CallInv, TypeOK
<1>1. pc'[c] = l /\ \A e \in Callers : e # c => pc'[e] = pc[e]
  BY <1>0
<1>2. \A e \in Callers : Pends(Line, e) => job'[e] = job[e] /\ pc'[e] \in {"drain", "sync"}
  BY <1>1, RegFacts
<1>3. Owned(Line, job', pc')
  BY <1>2, RegFacts, OwnMoves
<1>a. Calling(x) =>
        /\ x.by \in Callers /\ x.op = job'[x.by].op /\ x.display = job'[x.by].display
        /\ pc'[x.by] \in {"drain", "sync"} /\ ~Pends(Line, x.by)
  BY <1>1
<1> DEFINE J == job'
           P == pc'
           L == Line
<1>b. Owned(L, J, P) /\ L \in Seq(Commands)
  BY <1>0, <1>3
<1>c. Calling(x) =>
        /\ x.by \in Callers /\ x.op = J[x.by].op /\ x.display = J[x.by].display
        /\ P[x.by] \in {"drain", "sync"} /\ ~Pends(L, x.by)
  BY <1>a
<1> HIDE DEF J, P, L
<1>d. /\ Owned(Append(L, x), J, P)
      /\ \A e : Pends(Append(L, x), e) <=> Pends(L, e) \/ (x.by = e /\ Calling(x))
  BY <1>b, <1>c, OwnAppend
<1>4. /\ Owned(Append(Line, x), job', pc')
      /\ \A e : Pends(Append(Line, x), e) <=> Pends(Line, e) \/ (x.by = e /\ Calling(x))
  BY <1>d DEF J, P, L
<1> QED
  BY <1>4

\* It may also put none there.
LEMMA OwnStays ==
  ASSUME CallInv, RegInv, ~mFinished, NEW c \in Callers, NEW l,
         pc' = [pc EXCEPT ![c] = l], job' = job, Pends(Line, c) => l \in {"drain", "sync"},
         Line' = Line
  PROVE  Owned(Line', job', pc')
<1>0. pc \in [Callers -> Labels]
  BY DEF CallInv, TypeOK
<1>1. \A e \in Callers : Pends(Line, e) => job'[e] = job[e] /\ pc'[e] \in {"drain", "sync"}
  BY <1>0, RegFacts
<1> QED
  BY <1>1, RegFacts, OwnMoves

\* A caller between its start and its return goes on.
LEMMA RegGoes ==
  ASSUME CallInv, RegInv, ~mFinished, NEW c \in Callers, NEW l,
         pc' = [pc EXCEPT ![c] = l], UNCHANGED <<m_onPost, mRecordDisplays, job>>,
         thread = "gone" => thread' = "gone",
         \A e \in Callers : e # c => (Pends(Line', e) <=> Pends(Line, e)) /\ signaled'[e] = signaled[e],
         Owned(Line', job', pc'),
         ASSUME Configures(c), Configured(c), Reached(c)' <=> Reached(c), pc'[c] = l PROVE Configured(c)'
  PROVE  RegNext
<1>0. pc \in [Callers -> Labels] /\ job \in [Callers -> Job]
  BY DEF CallInv, TypeOK, Job
<1>1. job' = [job EXCEPT ![c] = job[c]] /\ pc'[c] = l
  BY <1>0
<1>2. RecordsKept
  BY DEF RecordsKept, Recorded
<1>3. Reached(c)' <=> Reached(c)
  BY DEF Reached, Recorded
<1>4. Configures(c) => Configured(c)
  BY RegFacts DEF ConfOK
<1>5. ConfOK(c)'
  BY <1>1, <1>3, <1>4 DEF ConfOK, Configures
<1> QED
  BY <1>1, <1>2, <1>5, RegMoves

\* Every step of a caller.
LEMMA RegCaller ==
  ASSUME CallInv, RegInv, ~mFinished, NEW c \in Callers, CallerStep(c)
  PROVE  RegNext
<1>0. /\ todo \in Seq(Commands) /\ mQueue \in Seq(Commands)
      /\ pc \in [Callers -> Labels] /\ job \in [Callers -> Job] /\ signaled \in [Callers -> BOOLEAN]
      /\ None \notin Callers
  BY RecordingAssumption DEF CallInv, TypeOK, Job
<1>p. Pends(Line, c) => pc[c] \in {"drain", "sync"} /\ ~signaled[c]
  BY RegFacts
<1>1. CASE Start(c) \/ StartThread(c)
  <2>1. PICK l \in {"spawn", "init"} : pc' = [pc EXCEPT ![c] = l] /\ pc[c] \in {"start", "spawn"}
    BY <1>1 DEF Start, StartThread, Goto
  <2>2. UNCHANGED <<m_onPost, mRecordDisplays, job>> /\ Line' = Line /\ signaled' = signaled
    BY <1>1 DEF Start, StartThread, start, startThread, recordVars, Line
  <2>3. thread = "gone" => thread' = "gone"
    BY <1>1 DEF Start, StartThread, start, startThread
  <2>4. Owned(Line', job', pc')
    BY <1>p, <2>1, <2>2, OwnStays
  <2>5. ASSUME Configured(c), Reached(c)' <=> Reached(c), pc'[c] = l PROVE Configured(c)'
    BY <2>1, <2>2, <2>5 DEF Configured
  <2> QED
    BY <2>1, <2>2, <2>3, <2>4, <2>5, RegGoes
<1>2. CASE EnqueueInit(c)
  <2> DEFINE x == Command(c, "Init", 0)
  <2>1. x \in Commands /\ ~Calling(x)
    BY DEF Command, Commands, Operations, Calling
  <2>2. PICK l \in {"enqueue"} : /\ pc[c] = "init" /\ enqueueImpl(x) /\ pc' = [pc EXCEPT ![c] = l]
                                 /\ UNCHANGED <<signaled, m_onPost, mRecordDisplays, job>>
    BY <1>2 DEF EnqueueInit, Goto, recordVars
  <2> HIDE DEF x
  <2>3. Line' = Append(Line, x)
    BY <1>0, <2>1, <2>2, LineEnqueue
  <2>4. thread = "gone" => thread' = "gone"
    BY <2>2 DEF enqueueImpl, Notified
  <2>5. Owned(Line', job', pc') /\ \A e : Pends(Line', e) <=> Pends(Line, e)
    BY <1>p, <2>1, <2>2, <2>3, OwnGoes
  <2>6. ASSUME Configured(c), Reached(c)' <=> Reached(c), pc'[c] = l PROVE Configured(c)'
    BY <2>2, <2>5, <2>6 DEF Configured
  <2> QED
    BY <2>2, <2>4, <2>5, <2>6, RegGoes
<1>3. CASE Enqueue(c)
  <2> DEFINE x == Command(c, job[c].op, job[c].display)
  <2>1. x \in Commands /\ x.by = c /\ x.op = job[c].op /\ x.display = job[c].display
    BY <1>0 DEF Command, Commands, Job
  <2>2. PICK l \in {"drain"} : /\ pc[c] = "enqueue" /\ enqueueImpl(x) /\ pc' = [pc EXCEPT ![c] = l]
                               /\ UNCHANGED <<signaled, m_onPost, mRecordDisplays, job>>
    BY <1>3 DEF Enqueue, Goto, recordVars
  <2> HIDE DEF x
  <2>3. Line' = Append(Line, x)
    BY <1>0, <2>1, <2>2, LineEnqueue
  <2>4. thread = "gone" => thread' = "gone"
    BY <2>2 DEF enqueueImpl, Notified
  <2>5. Owned(Line', job', pc') /\ \A e : Pends(Line', e) <=> Pends(Line, e) \/ (c = e /\ Calling(x))
    BY <1>p, <2>1, <2>2, <2>3, OwnGoes
  <2>6. Configures(c) => Calling(x)
    BY <2>1 DEF Configures, Calling, Sync
  <2>7. ASSUME Configures(c), Configured(c), Reached(c)' <=> Reached(c), pc'[c] = l PROVE Configured(c)'
    BY <2>2, <2>5, <2>6, <2>7 DEF Configured
  <2>8. \A e \in Callers : e # c => (Pends(Line', e) <=> Pends(Line, e))
    BY <2>5
  <2> QED
    BY <2>2, <2>4, <2>5, <2>7, <2>8, RegGoes
<1>4. CASE waitQueuedItems(c)
  <2>0. MustWait
    BY <1>4 DEF waitQueuedItems, CallInv, StartInv, MustWait
  <2>1. SyncPoint(c) \in Commands /\ ~Calling(SyncPoint(c))
    BY DEF SyncPoint, Commands, Calling
  <2>2. PICK l \in {"sync"} : /\ pc[c] = "drain" /\ enqueueImpl(SyncPoint(c)) /\ pc' = [pc EXCEPT ![c] = l]
                              /\ UNCHANGED <<signaled, m_onPost, mRecordDisplays, job>>
    BY <1>4, <2>0 DEF waitQueuedItems, EnqueueSync, Goto, recordVars
  <2>3. Line' = Append(Line, SyncPoint(c))
    BY <1>0, <2>1, <2>2, LineEnqueue
  <2>4. thread = "gone" => thread' = "gone"
    BY <2>2 DEF enqueueImpl, Notified
  <2>5. Owned(Line', job', pc') /\ \A e : Pends(Line', e) <=> Pends(Line, e)
    BY <1>p, <2>1, <2>2, <2>3, OwnGoes
  <2>6. ASSUME Configured(c), Reached(c)' <=> Reached(c), pc'[c] = l PROVE Configured(c)'
    BY <2>2, <2>4, <2>5, <2>6 DEF Configured
  <2> QED
    BY <2>2, <2>4, <2>5, <2>6, RegGoes
<1>5. CASE Released(c)
  <2>1. PICK l \in {"done"} : /\ pc[c] = "sync" /\ signaled[c] /\ pc' = [pc EXCEPT ![c] = l]
                              /\ signaled' = [signaled EXCEPT ![c] = FALSE]
                              /\ UNCHANGED <<thread, m_onPost, mRecordDisplays, job>>
                              /\ Line' = Line
    BY <1>5 DEF Released, Release, Goto, recordVars, Line
  <2>2. ~Pends(Line, c)
    BY <1>p, <2>1
  <2>3. Owned(Line', job', pc')
    BY <2>1, <2>2, OwnStays
  <2>4. \A e \in Callers : e # c => signaled'[e] = signaled[e]
    BY <1>0, <2>1
  <2>5. ASSUME Configured(c), Reached(c)' <=> Reached(c), pc'[c] = l PROVE Configured(c)'
    BY <2>1, <2>2, <2>5 DEF Configured
  <2> QED
    BY <2>1, <2>3, <2>4, <2>5, RegGoes
<1>6. CASE Return(c)
  <2>1. /\ pc[c] = "done" /\ pc' = [pc EXCEPT ![c] = "idle"] /\ job' = [job EXCEPT ![c] = NoJob]
        /\ UNCHANGED workerVars /\ UNCHANGED mRecordDisplays
        /\ m_onPost' = IF job[c].op = "DelRecordDisplay" THEN m_onPost \ {job[c].display} ELSE m_onPost
    BY <1>6 DEF Return, Goto
  <2>2. RecordsKept
    BY <2>1 DEF RecordsKept, Recorded
  <2>3. CASE ~Configures(c)
    <3>1. Aside(c, "idle", NoJob) /\ m_onPost' = m_onPost
      BY <2>1, <2>3 DEF Aside, Configures
    <3> QED
      BY <2>2, <2>3, <3>1, RegAside DEF NoJob
  <2>4. CASE Configures(c)
    <3>1. Line' = Line /\ \A e \in Callers : e # c => pc'[e] = pc[e] /\ job'[e] = job[e]
      BY <1>0, <2>1 DEF workerVars, Line
    <3>2. job'[c] = NoJob
      BY <1>0, <2>1
    <3>3. \A e \in Callers : Configures(e) => e = c
      BY <2>4, RegFacts
    <3>4. \A e \in Callers : ~Configures(e)'
      BY <3>1, <3>2, <3>3 DEF Configures, NoJob
    <3>5. Owned(Line', job', pc')
      BY <1>p, <2>1, <3>1, RegFacts, OwnMoves
    <3>6. Reached(c) /\ job[c].display \in m_onPost /\ job[c].op \in {"AddRecordDisplay", "DelRecordDisplay"}
      BY <2>1, <2>4, RegFacts DEF ConfOK, Configured, Configures
    <3>7. ASSUME NEW d \in Displays PROVE Recorded(d)' <=> d \in m_onPost'
      <4>1. Recorded(d)' <=> Recorded(d)
        BY <2>2 DEF RecordsKept
      <4>2. CASE d = job[c].display
        BY <2>1, <3>6, <4>1, <4>2 DEF Reached
      <4>3. CASE d # job[c].display
        <5>1. Recorded(d) <=> d \in m_onPost
          BY <3>3, <4>3, RegFacts DEF Agrees
        <5> QED
          BY <2>1, <4>1, <4>3, <5>1
      <4> QED
        BY <4>2, <4>3
    <3>8. (\A d \in Displays : Agrees(d)') /\ (\A e \in Callers : ConfOK(e)')
      BY <3>4, <3>7 DEF Agrees, ConfOK
    <3> QED
      BY <3>5, <3>8 DEF RegNext
  <2> QED
    BY <2>3, <2>4
<1>7. CASE flushPipeline(c)
  <2>0. RecordsKept
    BY <1>7, MailboxesStay DEF CallInv
  <2>1. CASE Crash
    <3>1. Line' = Line /\ signaled' = signaled /\ thread' = thread /\ UNCHANGED <<m_onPost, pc, job>>
      BY <2>1 DEF Crash, workerVars, recordVars, callVars, Line
    <3> QED
      BY <2>0, <3>1, RegFacts, RegPlain
  <2>2. CASE ~Crash
    <3>1. Aside(c, "idle", NoJob) /\ m_onPost' = m_onPost /\ pc[c] = "flush"
      BY <1>7, <2>2 DEF flushPipeline, Aside, Goto
    <3>2. ~Configures(c)
      BY <3>1 DEF CallInv, LockInv, LockOK
    <3> QED
      BY <2>0, <3>1, <3>2, RegAside DEF NoJob
  <2> QED
    BY <2>1, <2>2
<1> QED
  BY <1>1, <1>2, <1>3, <1>4, <1>5, <1>6, <1>7 DEF CallerStep

\* Every step of a render thread.
LEMMA RegRender ==
  ASSUME CallInv, RegInv, ~mFinished, RenderStep
  PROVE  RegNext
<1>0. Render \in Callers /\ ~Configures(Render)
  BY RecordingAssumption, RegFacts
<1>1. RecordsKept
  <2>1. CASE doNextReadback
    BY <2>1, MailboxesStay DEF CallInv
  <2>2. CASE NextDisplay \/ LastDisplay
    BY <2>2 DEF NextDisplay, LastDisplay, recordVars, RecordsKept, Recorded
  <2> QED
    BY <2>1, <2>2 DEF RenderStep
<1>2. CASE Crash
  <2>1. Line' = Line /\ signaled' = signaled /\ thread' = thread /\ UNCHANGED <<m_onPost, pc, job>>
    BY <1>2 DEF Crash, workerVars, recordVars, callVars, Line
  <2> QED
    BY <1>1, <2>1, RegFacts, RegPlain
<1>3. CASE ~Crash
  <2>1. PICK l \in {"idle", "next", "read"}, j \in Job : Aside(Render, l, j) /\ j.op \in {job[Render].op, "none"}
    BY <1>3, RenderSteps DEF CallInv
  <2>2. m_onPost' = m_onPost
    BY <1>3, RenderSteps DEF CallInv
  <2>3. j.op \notin {"AddRecordDisplay", "DelRecordDisplay"}
    BY <1>0, <2>1 DEF Configures
  <2> QED
    BY <1>0, <1>1, <2>1, <2>2, <2>3, RegAside
<1> QED
  BY <1>2, <1>3

\* Every step keeps callbacks and mailboxes together.
LEMMA RegStep ==
  ASSUME CallInv, RegInv, [Next]_vars
  PROVE  RegInv'
<1> SUFFICES ASSUME ~mFinished' PROVE RegNext
  BY DEF RegInv, RegNext
<1>0. ~mFinished
  BY FinishedStays
<1>1. CASE UNCHANGED vars
  <2>1. /\ Line' = Line /\ signaled' = signaled /\ thread' = thread /\ UNCHANGED <<m_onPost, pc, job>>
        /\ UNCHANGED mRecordDisplays
    BY <1>1 DEF vars, workerVars, recordVars, callVars, Line
  <2>2. RecordsKept
    BY <2>1 DEF RecordsKept, Recorded
  <2> QED
    BY <1>0, <2>1, <2>2, RegFacts, RegPlain
<1> QED
  BY <1>0, <1>1, RegNewCall, RegCaller, RegRender, RegWorker DEF Next

LEMMA RegHolds == Spec => []RegInv
<1>1. Init => RegInv
  <2> SUFFICES ASSUME Init PROVE RegInv
    OBVIOUS
  <2>1. \A c \in Callers : ~Configures(c)
    BY DEF Init, Configures, NoJob
  <2>2. Line = <<>> /\ Len(Line) = 0
    BY DEF Init, WorkerInit, Line
  <2>3. 1..Len(Line) = {}
    BY <2>2
  <2>4. Owned(Line, job, pc)
    BY <2>3 DEF Owned
  <2>5. \A d \in Displays : ~Recorded(d) /\ d \notin m_onPost
    BY DEF Init, Recorded
  <2> QED
    BY <2>1, <2>4, <2>5 DEF RegInv, Agrees, ConfOK
<1>2. CallInv /\ RegInv /\ [Next]_vars => RegInv'
  BY RegStep
<1> QED
  BY <1>1, <1>2, CallHolds, PTL DEF Spec

\* Between two calls of setPostCallback the displays with a callback are exactly those
\* with a mailbox, as long as the thread could be started: m_onPost is changed by the
\* caller and mRecordDisplays by the thread, and only the wait under m_lock keeps the
\* two together.
THEOREM CallbacksMatch == Spec => []RegistriesAgree
<1>1. CallInv /\ RegInv => RegistriesAgree
  <2> SUFFICES ASSUME CallInv, RegInv, ~mFinished, \A c \in Apis : ~Configures(c)
               PROVE  m_onPost = {d \in Displays : Recorded(d)}
    BY DEF RegistriesAgree
  <2>1. \A c \in Callers : ~Configures(c)
    BY RecordingAssumption, RegFacts
  <2>2. \A d \in Displays : Recorded(d) <=> d \in m_onPost
    BY <2>1, RegFacts DEF Agrees
  <2>3. m_onPost \subseteq Displays
    BY DEF CallInv, TypeOK
  <2> QED
    BY <2>2, <2>3
<1> QED
  BY <1>1, CallHolds, RegHolds, PTL

-----------------------------------------------------------------------------
(* The frames a consumer is given.                                          *)

\* One more read makes no frame younger than another.
LEMMA OlderMonotone ==
  ASSUME NEW m \in 0..MaxAge, NEW n \in 0..MaxAge, m <= n
  PROVE  Older(m) <= Older(n) /\ Older(m) >= 0
BY RecordingAssumption DEF Older

LEMMA NewAges == Ages(NewRecord, MaxAge)
<1>1. \A s \in Slots : NewRecord.pix[s] = MaxAge
  BY DEF NewRecord
<1>2. NewRecord.prev \in Slots /\ NewRecord.map \in Slots
  BY DEF NewRecord, Slots
<1> QED
  BY <1>1, <1>2, RecordingAssumption DEF Ages

LEMMA CopyAges ==
  ASSUME NEW r \in Record, NEW a, Ages(r, a), NEW b \in BOOLEAN
  PROVE  Ages([r EXCEPT !.copying = b], a)
BY DEF Record, Ages

\* A flush puts the youngest frame where the consumer maps.
LEMMA FlushAges ==
  ASSUME NEW r \in Record, Good(r), NEW a \in 0..MaxAge, Ages(r, a)
  PROVE  Ages(AfterFlush(r), a)
<1>1. CASE r.copying
  BY <1>1 DEF AfterFlush
<1>2. CASE ~r.copying
  <2> DEFINE q == AfterFlush(r)
  <2>1. r.pix \in [Slots -> 0..MaxAge] /\ r.prev \in 0..2 /\ r.map \in Slots /\ 3 \in Slots
    BY DEF Record, Slots
  <2>2. q.pix = [r.pix EXCEPT ![3] = r.pix[r.prev]] /\ q.map = 3 /\ q.prev = r.prev
    BY <1>2 DEF AfterFlush, Record
  <2> HIDE DEF q
  <2>3. r.prev \in Slots /\ r.prev # 3
    BY <2>1 DEF Slots
  <2>4. q.pix[3] = r.pix[r.prev] /\ \A s \in Slots : s # 3 => q.pix[s] = r.pix[s]
    BY <2>1, <2>2
  <2>5. \A s \in Slots : r.pix[s] \in 0..MaxAge /\ r.pix[r.prev] <= r.pix[s]
    BY <2>1 DEF Ages
  <2>6. r.pix[r.map] <= a /\ r.pix[r.prev] <= r.pix[r.map]
    BY <2>1, <2>5 DEF Ages
  <2>7. r.pix[r.prev] <= a
    BY <2>1, <2>3, <2>5, <2>6
  <2>8. \A s \in Slots : q.pix[q.prev] <= q.pix[s]
    BY <2>2, <2>3, <2>4, <2>5
  <2>9. q.pix[q.map] <= a
    BY <2>2, <2>4, <2>7
  <2>10. Ages(q, a)
    BY <2>8, <2>9 DEF Ages
  <2> QED
    BY <2>10 DEF q
<1> QED
  BY <1>1, <1>2 DEF Record

\* A read lets the consumer map the last frame, and the count tells that it happened.
LEMMA ReadAges ==
  ASSUME NEW r \in Record, Good(r), NEW a \in 0..MaxAge, Ages(r, a)
  PROVE  Ages(AfterRead(r), Older(a)) /\ AfterRead(r).count # r.count
<1> DEFINE q == Aim(r)
           at == ReadAt(q)
           n == (q.count + 1) % CountMod
           pix == [s \in Slots |-> IF s = at THEN 0 ELSE Older(q.pix[s])]
           w == AfterRead(r)
<1>1. /\ q \in Record /\ q.count = r.count /\ <<q.even, q.odd>> \in Pairs
      /\ r.count % 2 = 0 => q.even \notin {r.prev, q.map}
      /\ r.count % 2 = 1 => q.odd \notin {r.prev, q.map}
  BY AimGood
<1>2. q.pix = r.pix /\ (q.map = r.map \/ q.map = r.prev)
  BY DEF Aim, Record
<1>3. w = [q EXCEPT !.count = n, !.prev = at, !.pix = pix]
  <2>1. Aim(r) \in Record
    BY <1>1
  <2> QED
    BY <2>1 DEF AfterRead, Record
<1> HIDE DEF q
<1>4. /\ q.even \in 0..2 /\ q.odd \in 0..2 /\ q.map \in Slots /\ q.count \in 0..(CountMod - 1)
      /\ r.pix \in [Slots -> 0..MaxAge] /\ r.map \in Slots /\ r.prev \in Slots
  BY <1>1 DEF Record, Slots
<1>5. (q.count % 2 = 0 /\ at = q.even) \/ (q.count % 2 = 1 /\ at = q.odd)
  BY <1>4, RecordingAssumption DEF ReadAt
<1>6. at \in Slots /\ at # q.map /\ at # r.prev
  BY <1>1, <1>4, <1>5 DEF Slots
<1> HIDE DEF at
<1>7. n # q.count
  <2>1. (q.count % 2 = 0 => n % 2 = 1) /\ (q.count % 2 = 1 => n % 2 = 0)
    BY <1>4, Turns
  <2> QED
    BY <1>5, <2>1
<1>8. \A s \in Slots : pix[s] = IF s = at THEN 0 ELSE Older(r.pix[s])
  BY <1>2
<1> HIDE DEF n, pix
<1>9. w.count = n /\ w.prev = at /\ w.map = q.map /\ w.pix = pix
  BY <1>1, <1>3 DEF Record
<1> HIDE DEF w
<1>10. \A s \in Slots : r.pix[s] \in 0..MaxAge /\ r.pix[r.prev] <= r.pix[s]
  BY <1>4 DEF Ages
<1>11. r.pix[q.map] <= a
  <2>1. r.pix[r.map] <= a /\ r.pix[r.prev] <= r.pix[r.map]
    BY <1>4, <1>10 DEF Ages
  <2>2. r.pix[r.prev] <= a
    BY <1>4, <1>10, <2>1
  <2> QED
    BY <1>2, <2>1, <2>2
<1>12. pix[q.map] = Older(r.pix[q.map]) /\ Older(r.pix[q.map]) <= Older(a)
  BY <1>4, <1>6, <1>8, <1>10, <1>11, OlderMonotone
<1>13. ASSUME NEW s \in Slots PROVE pix[at] <= pix[s]
  <2>1. r.pix[s] \in 0..MaxAge /\ r.pix[s] <= r.pix[s]
    BY <1>10
  <2>2. Older(r.pix[s]) >= 0
    BY <2>1, OlderMonotone
  <2>3. Older(r.pix[s]) \in 0..MaxAge
    BY <2>1, OlderAge
  <2> QED
    BY <1>6, <1>8, <2>2, <2>3
<1>14. Ages(w, Older(a)) /\ w.count # r.count
  BY <1>1, <1>7, <1>9, <1>12, <1>13 DEF Ages
<1> QED
  BY <1>14 DEF w

\* What a step may do to the frames of a display.
Forward(d) ==
    Recorded(d) /\ Recorded(d)' /\ mRecordDisplays'[d].count = mRecordDisplays[d].count
    => shown'[d] <= shown[d]

\* A step that puts r in the mailbox of e and lets a be the age of what its consumer was
\* given last.
LEMMA OneAge ==
  ASSUME CallInv, AgeInv, NEW e, NEW r, NEW a \in 0..MaxAge,
         mRecordDisplays' = [mRecordDisplays EXCEPT ![e] = r],
         shown' = [shown EXCEPT ![e] = a],
         e \in Displays /\ r # NoRecord =>
           /\ Ages(r, a)
           /\ Recorded(e) /\ r.count = mRecordDisplays[e].count => a <= shown[e]
  PROVE  AgeInv' /\ \A d \in Displays : Forward(d)
<1>0. mRecordDisplays \in [Displays -> Record \cup {NoRecord}] /\ shown \in [Displays -> 0..MaxAge]
  BY DEF CallInv, TypeOK
<1>1. ASSUME NEW d \in Displays
      PROVE  (Recorded(d)' => Ages(mRecordDisplays'[d], shown'[d])) /\ Forward(d)
  <2>1. CASE d = e
    <3>1. mRecordDisplays'[d] = r /\ shown'[d] = a
      BY <1>0, <2>1
    <3> QED
      BY <2>1, <3>1 DEF Recorded, Forward
  <2>2. CASE d # e
    <3>1. mRecordDisplays'[d] = mRecordDisplays[d] /\ shown'[d] = shown[d] /\ shown[d] \in 0..MaxAge
      BY <1>0, <2>2
    <3>2. shown'[d] <= shown[d]
      BY <3>1, RecordingAssumption
    <3> QED
      BY <3>1, <3>2 DEF Recorded, Forward, AgeInv
  <2> QED
    BY <2>1, <2>2
<1> QED
  BY <1>1 DEF AgeInv

\* Every step keeps the ages so and gives the consumer no older frame.
LEMMA AgeStep ==
  ASSUME CallInv, RegInv, AgeInv, [Next]_vars
  PROVE  AgeInv' /\ \A d \in Displays : Forward(d)
<1> DEFINE Goal == AgeInv' /\ \A d \in Displays : Forward(d)
<1> SUFFICES Goal
  OBVIOUS
<1>0. mRecordDisplays \in [Displays -> Record \cup {NoRecord}] /\ shown \in [Displays -> 0..MaxAge]
  BY DEF CallInv, TypeOK
<1>m. MaxAge \in 0..MaxAge
  BY RecordingAssumption
<1>u. ASSUME UNCHANGED <<mRecordDisplays, shown>> PROVE Goal
  <2>1. \A d \in Displays : shown[d] <= shown[d]
    BY <1>0, RecordingAssumption
  <2>2. AgeInv'
    BY <1>u DEF AgeInv, Recorded
  <2>3. \A d \in Displays : Forward(d)
    BY <1>u, <2>1 DEF Forward
  <2> QED
    BY <2>2, <2>3
<1>r. ASSUME NEW d \in Displays, Recorded(d)
      PROVE  /\ mRecordDisplays[d] \in Record /\ Good(mRecordDisplays[d])
             /\ Ages(mRecordDisplays[d], shown[d]) /\ shown[d] \in 0..MaxAge /\ shown[d] <= shown[d]
  <2>1. shown[d] \in 0..MaxAge
    BY <1>0
  <2>2. shown[d] <= shown[d]
    BY <2>1, RecordingAssumption
  <2> QED
    BY <1>r, <2>1, <2>2 DEF CallInv, MailboxInv, AgeInv, Recorded
<1>s. ASSUME NEW e, NEW r, mRecordDisplays' = [mRecordDisplays EXCEPT ![e] = r], UNCHANGED shown,
             e \in Displays /\ r # NoRecord => Recorded(e) /\ Ages(r, shown[e])
      PROVE  Goal
  <2>1. CASE e \in Displays
    <3>1. shown[e] \in 0..MaxAge /\ shown' = [shown EXCEPT ![e] = shown[e]]
      BY <1>0, <1>s, <2>1
    <3>2. shown[e] <= shown[e]
      BY <3>1, RecordingAssumption
    <3> QED
      BY <1>s, <2>1, <3>1, <3>2, OneAge
  <2>2. CASE e \notin Displays
    <3>1. mRecordDisplays' = mRecordDisplays
      BY <1>0, <1>s, <2>2
    <3> QED
      BY <1>s, <1>u, <3>1
  <2> QED
    BY <2>1, <2>2
<1> HIDE DEF Goal
<1>1. CASE UNCHANGED vars
  BY <1>1, <1>u DEF vars, recordVars
<1>2. CASE NewCall
  BY <1>2, <1>u DEF NewCall, Post, Finalize, AddPostCallback, RemovePostCallback, GetPixels,
     FlushReadPipeline, Begin, recordVars
<1>3. CASE NextDisplay \/ LastDisplay \/ InitGL \/ Exit \/ Loop \/ Spurious
  BY <1>3, <1>u DEF NextDisplay, LastDisplay, InitGL, Exit, Loop, Spurious, recordVars
<1>4. ASSUME NEW c \in Callers,
             \/ Start(c) \/ StartThread(c) \/ EnqueueInit(c) \/ Enqueue(c)
             \/ waitQueuedItems(c) \/ Released(c) \/ Return(c)
      PROVE  Goal
  BY <1>4, <1>u DEF Start, StartThread, EnqueueInit, Enqueue, waitQueuedItems, Released,
     Return, recordVars
<1>5. ASSUME Crash PROVE Goal
  BY <1>5, <1>u DEF Crash, recordVars
<1>6. CASE doNextReadback
  <2> DEFINE d == job[Render].display
  <2>1. CASE ~Recorded(d)
    BY <1>5, <1>6, <2>1 DEF doNextReadback
  <2>2. CASE Recorded(d)
    <3>1. /\ mRecordDisplays' = [mRecordDisplays EXCEPT ![d] = AfterRead(mRecordDisplays[d])]
          /\ shown' = [shown EXCEPT ![d] = Older(shown[d])]
      BY <1>6, <2>2 DEF doNextReadback
    <3> HIDE DEF d
    <3>2. CASE d \in Displays
      <4>1. /\ Ages(AfterRead(mRecordDisplays[d]), Older(shown[d]))
            /\ AfterRead(mRecordDisplays[d]).count # mRecordDisplays[d].count
            /\ Older(shown[d]) \in 0..MaxAge
        BY <1>r, <2>2, <3>2, ReadAges, OlderAge
      <4> QED
        BY <3>1, <4>1, OneAge DEF Goal
    <3>3. CASE d \notin Displays
      <4>1. mRecordDisplays' = mRecordDisplays /\ shown' = shown
        BY <1>0, <3>1, <3>3
      <4> QED
        BY <1>u, <4>1
    <3> QED
      BY <3>2, <3>3
  <2> QED
    BY <2>1, <2>2
<1>7. ASSUME NEW c \in Callers, flushPipeline(c) PROVE Goal
  <2> DEFINE d == job[c].display
  <2>1. CASE ~Recorded(d)
    BY <1>5, <1>7, <2>1 DEF flushPipeline
  <2>2. CASE Recorded(d)
    <3>1. mRecordDisplays' = [mRecordDisplays EXCEPT ![d] = AfterFlush(mRecordDisplays[d])] /\ UNCHANGED shown
      BY <1>7, <2>2 DEF flushPipeline
    <3> HIDE DEF d
    <3>2. d \in Displays => Ages(AfterFlush(mRecordDisplays[d]), shown[d])
      BY <1>r, <2>2, FlushAges
    <3> QED
      BY <1>s, <2>2, <3>1, <3>2
  <2> QED
    BY <2>1, <2>2
<1>8. CASE AddRecordDisplay
  <2> DEFINE d == Head(todo).display
             r == IF Recorded(d) THEN mRecordDisplays[d] ELSE NewRecord
  <2>1. mRecordDisplays' = [mRecordDisplays EXCEPT ![d] = r] /\ shown' = [shown EXCEPT ![d] = MaxAge]
    BY <1>8 DEF AddRecordDisplay
  <2>2. ~Recorded(d)
    <3>0. todo \in Seq(Commands) /\ mQueue \in Seq(Commands) /\ todo # <<>> /\ ~mFinished
          /\ Head(todo).op = "AddRecordDisplay"
      BY <1>8 DEF AddRecordDisplay, At, CallInv, TypeOK, StartInv
    <3>1. Line \in Seq(Commands) /\ Line # <<>> /\ Head(Line) = Head(todo)
      <4>1. Line \in Seq(Commands)
        BY <3>0, LineItems
      <4>2. Line # <<>> /\ Head(Line) = Head(todo)
        BY <3>0 DEF Line
      <4> QED
        BY <4>1, <4>2
    <3>2. Owned(Line, job, pc)
      BY <3>0, RegFacts
    <3>3. 1 \in 1..Len(Line) /\ Line[1] = Head(todo) /\ Calling(Head(todo))
      BY <3>0, <3>1 DEF Calling, Sync
    <3>4. PICK c \in Callers : /\ c = Head(todo).by
                               /\ job[c].op = "AddRecordDisplay" /\ job[c].display = Head(todo).display
      BY <3>0, <3>2, <3>3 DEF Owned
    <3>5. Configures(c) /\ Pends(Line, c)
      BY <3>3, <3>4 DEF Configures, Pends
    <3>6. ~Reached(c)
      BY <3>0, <3>5, RegFacts DEF ConfOK, Configured
    <3> QED
      BY <3>4, <3>6 DEF Reached
  <2>3. r = NewRecord
    BY <2>2
  <2> HIDE DEF d, r
  <2> QED
    BY <1>m, <2>1, <2>2, <2>3, NewAges, OneAge DEF Goal
<1>9. CASE DelRecordDisplay
  <2> DEFINE d == Head(todo).display
  <2>1. mRecordDisplays' = [mRecordDisplays EXCEPT ![d] = NoRecord] /\ UNCHANGED shown
    BY <1>9 DEF DelRecordDisplay
  <2> HIDE DEF d
  <2> QED
    BY <1>s, <2>1
<1>10. CASE BeginCopy
  <2> DEFINE d == Head(todo).display
             r == [mRecordDisplays[d] EXCEPT !.copying = TRUE]
  <2>1. CASE ~Recorded(d)
    BY <1>5, <1>10, <2>1 DEF BeginCopy
  <2>2. CASE Recorded(d)
    <3>1. mRecordDisplays' = [mRecordDisplays EXCEPT ![d] = r] /\ UNCHANGED shown
      BY <1>10, <2>2 DEF BeginCopy
    <3>2. d \in Displays => Ages(r, shown[d])
      BY <1>r, <2>2, CopyAges
    <3> HIDE DEF d, r
    <3> QED
      BY <1>s, <2>2, <3>1, <3>2
  <2> QED
    BY <2>1, <2>2
<1>11. CASE EndCopy
  <2> DEFINE d == Head(todo).display
             r == [mRecordDisplays[d] EXCEPT !.copying = FALSE]
             a == mRecordDisplays[d].pix[mRecordDisplays[d].map]
  <2>1. /\ Recorded(d) /\ mRecordDisplays' = [mRecordDisplays EXCEPT ![d] = r]
        /\ shown' = [shown EXCEPT ![d] = a]
    BY <1>11 DEF EndCopy
  <2>2. CASE d \in Displays
    <3>1. a \in 0..MaxAge /\ a <= shown[d]
      BY <1>r, <2>1, <2>2 DEF Record, Ages
    <3>2. Ages(mRecordDisplays[d], a)
      <4>1. a <= a
        BY <3>1, RecordingAssumption
      <4> QED
        BY <1>r, <2>1, <2>2, <4>1 DEF Ages
    <3>3. Ages(r, a)
      BY <1>r, <2>1, <2>2, <3>2, CopyAges
    <3> HIDE DEF d, r, a
    <3> QED
      BY <2>1, <3>1, <3>3, OneAge DEF Goal
  <2>3. CASE d \notin Displays
    <3> HIDE DEF d, r, a
    <3>1. mRecordDisplays' = mRecordDisplays /\ shown' = shown
      BY <1>0, <2>1, <2>3
    <3> QED
      BY <1>u, <3>1
  <2> QED
    BY <2>2, <2>3
<1> QED
  BY <1>1, <1>2, <1>3, <1>4, <1>6, <1>7, <1>8, <1>9, <1>10, <1>11
     DEF Next, RenderStep, ReadbackItem, CallerStep

\* The consumer of a display never gets a frame older than one it has had, however reads,
\* copies, flushes and new callbacks interleave.
THEOREM FramesInOrder == Spec => FramesForward
<1>1. Init => AgeInv
  BY DEF Init, AgeInv, Recorded
<1>2. CallInv /\ RegInv /\ AgeInv /\ [Next]_vars => AgeInv'
  BY AgeStep
<1>3. CallInv /\ RegInv /\ AgeInv /\ [Next]_vars =>
        [\A d \in Displays :
           Recorded(d) /\ Recorded(d)' /\ mRecordDisplays'[d].count = mRecordDisplays[d].count
           => shown'[d] <= shown[d]]_vars
  BY AgeStep DEF Forward
<1> QED
  BY <1>1, <1>2, <1>3, CallHolds, RegHolds, PTL DEF Spec, FramesForward

=============================================================================
