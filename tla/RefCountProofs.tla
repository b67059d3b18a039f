---------------------------- MODULE RefCountProofs ----------------------------
(***************************************************************************)
(* With RefCountPipe the reference count of every colour buffer is exact,  *)
(* for every set of threads and processes and every size of the tables and *)
(* of the channel of outstanding destroys; and where a close at 0 erases   *)
(* at once no count in the table is 0.                                     *)
(***************************************************************************)
EXTENDS FrameBufferProofs

\* What RefCountExact rests on: without the ownership sets of the other mode,
\* the guest has one descriptor of a colour buffer, which is open, or closed
\* and on its way, or lost; and the windows are fewer than the count can hold.
PipeInv ==
    RefCountPipe =>
        /\ \A p \in Puids, h \in Handles : procCB[p][h] = 0
        /\ \A t \in Threads : pthreadCB[t] = {}
        /\ \A h \in Handles : Descriptor(h) <= 1
        /\ Cardinality(DOMAIN m_windows) <= MaxWindows

\* The table cbs is exact for the numbers of references ref.
Exact(cbs, ref) ==
    \A h \in Handles :
        IF h \in DOMAIN cbs THEN ref[h] > 0 /\ cbs[h].refcount = ref[h] ELSE ref[h] = 0

Refs == [h \in Handles |-> References(h)]

\* The references to a colour buffer can be counted.
LEMMA RefsType ==
  ASSUME TypeOK
  PROVE  /\ \A h \in Handles : /\ Attached(DOMAIN m_windows, h) \in Nat
                              /\ Queued(h) \in Nat
                              /\ guestRefs[h] \in Nat
                              /\ Descriptor(h) \in Nat
                              /\ References(h) \in Nat
         /\ Refs \in [Handles -> Nat]
<1>1. ASSUME NEW h \in Handles
      PROVE  /\ Attached(DOMAIN m_windows, h) \in Nat
             /\ Queued(h) \in Nat
             /\ guestRefs[h] \in Nat
             /\ Descriptor(h) \in Nat
             /\ References(h) \in Nat
  <2>1. Attached(DOMAIN m_windows, h) \in Nat
    BY AttachedType DEF TypeOK
  <2>2. Queued(h) \in Nat /\ guestRefs[h] \in Nat
    BY QueuedType DEF TypeOK
  <2>3. Descriptor(h) \in Nat
    BY <2>2 DEF Descriptor
  <2> QED
    BY <2>1, <2>2, <2>3 DEF References
<1> QED
  BY <1>1 DEF Refs

\* RefCountExact says that the table is exact for the references there are.
LEMMA ExactIff ==
  ASSUME RefCountPipe
  PROVE  RefCountExact <=> Exact(m_colorbuffers, Refs)
  BY DEF RefCountExact, Exact, Refs

\* Closing n times, no more often than there are references, stays exact.
LEMMA DropExact ==
  ASSUME NEW cbs, IsTable(cbs, ColorBufferRef), NEW ref \in [Handles -> Nat],
         NEW n \in [Handles -> Nat], Exact(cbs, ref), \A h \in Handles : n[h] <= ref[h]
  PROVE  Exact(Drop(cbs, n), [h \in Handles |-> ref[h] - n[h]])
<1> DEFINE new == Drop(cbs, n)
<1>1. /\ DOMAIN new = DOMAIN cbs \ ReachZero(cbs, n)
      /\ \A h \in DOMAIN new : new[h] = [cbs[h] EXCEPT !.refcount = Minus(@, n[h])]
  BY DropType
<1> HIDE DEF new
<1> SUFFICES ASSUME NEW h \in Handles
             PROVE  IF h \in DOMAIN new
                    THEN ref[h] - n[h] > 0 /\ new[h].refcount = ref[h] - n[h]
                    ELSE ref[h] - n[h] = 0
  BY DEF Exact, new
<1>2. ref[h] \in Nat /\ n[h] \in Nat /\ n[h] <= ref[h]
  OBVIOUS
<1>3. CASE h \notin DOMAIN cbs
  <2>1. ref[h] = 0 /\ h \notin DOMAIN new
    BY <1>1, <1>3 DEF Exact
  <2> QED
    BY <1>2, <2>1
<1>4. CASE h \in DOMAIN cbs
  <2>1. ref[h] > 0 /\ cbs[h].refcount = ref[h] /\ cbs[h] \in ColorBufferRef
    BY <1>4 DEF Exact, IsTable
  <2>2. cbs[h].refcount \in 0..RefMod - 1
    BY <2>1 DEF ColorBufferRef
  <2>3. h \in ReachZero(cbs, n) <=> ref[h] = n[h]
    BY <1>2, <1>4, <2>1 DEF ReachZero
  <2>4. CASE ref[h] = n[h]
    BY <1>1, <1>2, <2>3, <2>4
  <2>5. CASE ref[h] # n[h]
    <3>1. h \in DOMAIN new
      BY <1>1, <1>4, <2>3, <2>5
    <3>2. new[h] = [cbs[h] EXCEPT !.refcount = Minus(cbs[h].refcount, n[h])]
      BY <1>1, <3>1
    <3>3. new[h].refcount = Minus(cbs[h].refcount, n[h])
      BY <2>1, <3>2 DEF ColorBufferRef
    <3>4. new[h].refcount = ref[h] - n[h]
      BY <1>2, <2>1, <2>2, <3>3, MinusType
    <3> QED
      BY <1>2, <2>5, <3>1, <3>4
  <2> QED
    BY <2>4, <2>5
<1> QED
  BY <1>3, <1>4

-----------------------------------------------------------------------------
(* The kinds of steps. *)

\* A step that leaves every reference and every count alone.
LEMMA QuietStep ==
  ASSUME PipeInv, RefCountExact,
         UNCHANGED <<m_windows, guestRefs, destroys, leaked, procCB, pthreadCB>>,
         DOMAIN m_colorbuffers' = DOMAIN m_colorbuffers,
         \A h \in DOMAIN m_colorbuffers :
            m_colorbuffers'[h].refcount = m_colorbuffers[h].refcount
  PROVE  PipeInv' /\ RefCountExact'
<1>1. \A h : Queued(h)' = Queued(h)
  BY DEF Queued
<1>2. \A h : Descriptor(h)' = Descriptor(h)
  BY <1>1 DEF Descriptor
<1>3. \A h : Attached(DOMAIN m_windows, h)' = Attached(DOMAIN m_windows, h)
  BY DEF Attached
<1>4. \A h : References(h)' = References(h)
  BY <1>2, <1>3 DEF References
<1>5. PipeInv'
  BY <1>2 DEF PipeInv
<1>6. RefCountExact'
  BY <1>4 DEF RefCountExact
<1> QED
  BY <1>5, <1>6

\* Each reference that is swept was counted.
LEMMA SweepExact ==
  ASSUME TypeOK, RefCountPipe, RefCountExact
  PROVE  Exact(SweptColorBuffers, [h \in Handles |-> References(h) - Queued(h)])
<1> DEFINE n == [h \in Handles |-> Queued(h)]
<1>1. Refs \in [Handles -> Nat] /\ n \in [Handles -> Nat]
  BY RefsType
<1>2. ASSUME NEW h \in Handles PROVE n[h] <= Refs[h]
  <2>1. /\ Attached(DOMAIN m_windows, h) \in Nat /\ Queued(h) \in Nat /\ guestRefs[h] \in Nat
        /\ Descriptor(h) \in Nat
    BY RefsType
  <2>2. Queued(h) <= Descriptor(h)
    BY <2>1 DEF Descriptor
  <2>3. Queued(h) <= References(h)
    BY <2>1, <2>2 DEF References
  <2> QED
    BY <2>3 DEF Refs
<1>3. IsTable(m_colorbuffers, ColorBufferRef) /\ Exact(m_colorbuffers, Refs)
  BY ExactIff DEF TypeOK, IsTable
<1> HIDE DEF n
<1>4. Exact(Drop(m_colorbuffers, n), [h \in Handles |-> Refs[h] - n[h]])
  BY <1>1, <1>2, <1>3, DropExact
<1>5. [h \in Handles |-> Refs[h] - n[h]] = [h \in Handles |-> References(h) - Queued(h)]
  BY DEF Refs, n
<1> QED
  BY <1>4, <1>5 DEF SweptColorBuffers, n

\* The references after the channel has been emptied.
LEMMA EmptyQueue ==
  ASSUME TypeOK, destroys' = << >>, UNCHANGED <<m_windows, leaked>>, NEW h \in Handles
  PROVE  /\ Queued(h)' = 0
         /\ Attached(DOMAIN m_windows, h)' = Attached(DOMAIN m_windows, h)
         /\ guestRefs'[h] = guestRefs[h] =>
               /\ Descriptor(h)' = Descriptor(h) - Queued(h)
               /\ References(h)' = References(h) - Queued(h)
<1>1. {i \in DOMAIN destroys' : destroys'[i] = h} = {}
  OBVIOUS
<1>2. Queued(h)' = 0
  BY <1>1, FS_EmptySet DEF Queued
<1>3. Attached(DOMAIN m_windows, h)' = Attached(DOMAIN m_windows, h)
  BY DEF Attached
<1>4. /\ Attached(DOMAIN m_windows, h) \in Nat /\ Queued(h) \in Nat /\ guestRefs[h] \in Nat
      /\ Descriptor(h) \in Nat
  BY RefsType
<1>5. guestRefs'[h] = guestRefs[h] => Descriptor(h)' = Descriptor(h) - Queued(h)
  BY <1>2, <1>4 DEF Descriptor
<1>6. guestRefs'[h] = guestRefs[h] => References(h)' = References(h) - Queued(h)
  BY <1>3, <1>4, <1>5 DEF References
<1> QED
  BY <1>2, <1>3, <1>5, <1>6

\* A step that only sweeps the outstanding destroys keeps the invariant.
LEMMA SweepStep ==
  ASSUME TypeOK, RefCountPipe, PipeInv, RefCountExact,
         destroys' = << >>, m_colorbuffers' = SweptColorBuffers,
         UNCHANGED <<m_windows, guestRefs, leaked, procCB, pthreadCB>>
  PROVE  PipeInv' /\ RefCountExact'
<1>1. \A h \in Handles : /\ Descriptor(h)' = Descriptor(h) - Queued(h)
                       /\ References(h)' = References(h) - Queued(h)
  BY EmptyQueue
<1>2. \A h \in Handles : Descriptor(h) \in Nat /\ Queued(h) \in Nat
  BY RefsType
<1>3. PipeInv'
  <2>1. \A h \in Handles : Descriptor(h)' <= 1
    BY <1>1, <1>2 DEF PipeInv
  <2> QED
    BY <2>1 DEF PipeInv
<1>4. Exact(m_colorbuffers', [h \in Handles |-> References(h) - Queued(h)])
  BY SweepExact
<1>5. RefCountExact'
  BY <1>1, <1>4 DEF Exact, RefCountExact
<1> QED
  BY <1>3, <1>5

\* A new colour buffer, under a handle that is free once the channel is swept.
LEMMA NewStep ==
  ASSUME TypeOK, RefCountPipe, PipeInv, RefCountExact,
         NEW t \in Threads, NEW h \in Handles, h \notin DOMAIN SweptColorBuffers,
         NewColorBuffer(t, h), destroys' = << >>, UNCHANGED <<m_windows, leaked>>
  PROVE  PipeInv' /\ RefCountExact'
<1> DEFINE new == [refcount |-> 1, opened |-> FALSE, closedTs |-> 0]
<1>1. UNCHANGED <<procCB, pthreadCB>>
  BY DEF NewColorBuffer
<1>2. CASE m_colorbuffers' = SweptColorBuffers /\ guestRefs' = guestRefs
  BY <1>1, <1>2, SweepStep
<1>3. CASE /\ m_colorbuffers' = Put(SweptColorBuffers, h, new)
           /\ guestRefs' = [guestRefs EXCEPT ![h] = 1]
  <2>1. Exact(SweptColorBuffers, [k \in Handles |-> References(k) - Queued(k)])
    BY SweepExact
  <2>2. References(h) - Queued(h) = 0
    BY <2>1 DEF Exact
  <2>3. /\ Attached(DOMAIN m_windows, h) \in Nat /\ Queued(h) \in Nat /\ guestRefs[h] \in Nat
        /\ Descriptor(h) \in Nat /\ References(h) \in Nat
    BY RefsType
  <2>4. Descriptor(h) = guestRefs[h] + Queued(h) + IF h \in leaked THEN 1 ELSE 0
    BY DEF Descriptor
  <2>5. References(h) = Attached(DOMAIN m_windows, h) + Descriptor(h)
    BY DEF References
  <2>6. Attached(DOMAIN m_windows, h) = 0 /\ h \notin leaked
    BY <2>2, <2>3, <2>4, <2>5
  <2>7. /\ Queued(h)' = 0
        /\ Attached(DOMAIN m_windows, h)' = Attached(DOMAIN m_windows, h)
    BY EmptyQueue
  <2>8. guestRefs'[h] = 1
    BY <1>3 DEF TypeOK
  <2>9. Descriptor(h)' = 1
    BY <2>6, <2>7, <2>8 DEF Descriptor
  <2>10. References(h)' = 1
    BY <2>6, <2>7, <2>9 DEF References
  <2>11. ASSUME NEW k \in Handles, k # h
         PROVE  /\ Descriptor(k)' = Descriptor(k) - Queued(k)
                /\ References(k)' = References(k) - Queued(k)
    <3>1. guestRefs'[k] = guestRefs[k]
      BY <1>3, <2>11 DEF TypeOK
    <3> QED
      BY <3>1, EmptyQueue
  <2>12. PipeInv'
    <3>1. ASSUME NEW k \in Handles PROVE Descriptor(k)' <= 1
      <4>1. CASE k = h
        BY <2>9, <4>1
      <4>2. CASE k # h
        <5>1. Descriptor(k) \in Nat /\ Queued(k) \in Nat /\ Descriptor(k) <= 1
          BY RefsType DEF PipeInv
        <5> QED
          BY <2>11, <4>2, <5>1
      <4> QED
        BY <4>1, <4>2
    <3> QED
      BY <1>1, <3>1 DEF PipeInv
  <2>13. RefCountExact'
    <3>1. ASSUME NEW k \in Handles
          PROVE  IF k \in DOMAIN m_colorbuffers'
                 THEN References(k)' > 0 /\ m_colorbuffers'[k].refcount = References(k)'
                 ELSE References(k)' = 0
      <4>1. CASE k = h
        <5>1. k \in DOMAIN m_colorbuffers' /\ m_colorbuffers'[k] = new
          BY <1>3, <4>1 DEF Put
        <5> QED
          BY <2>10, <4>1, <5>1
      <4>2. CASE k # h
        <5>1. /\ k \in DOMAIN m_colorbuffers' <=> k \in DOMAIN SweptColorBuffers
              /\ k \in DOMAIN SweptColorBuffers => m_colorbuffers'[k] = SweptColorBuffers[k]
          BY <1>3, <4>2 DEF Put
        <5>2. References(k)' = References(k) - Queued(k)
          BY <2>11, <4>2
        <5> QED
          BY <2>1, <5>1, <5>2 DEF Exact
      <4> QED
        BY <4>1, <4>2
    <3> QED
      BY <3>1 DEF RefCountExact
  <2> QED
    BY <2>12, <2>13
<1> QED
  BY <1>2, <1>3 DEF NewColorBuffer

\* The table of windows is finite.
LEMMA WindowsFinite ==
  ASSUME TypeOK, NEW W, W \subseteq DOMAIN m_windows, NEW h
  PROVE  /\ IsFiniteSet(DOMAIN m_windows) /\ IsFiniteSet(W)
         /\ IsFiniteSet({w \in W : m_windows[w].cb = h})
         /\ Cardinality(W) \in Nat /\ Cardinality(W) <= Cardinality(DOMAIN m_windows)
         /\ Attached(W, h) \in Nat
         /\ Attached(W, h) <= Attached(DOMAIN m_windows, h)
<1>1. IsFiniteSet(DOMAIN m_windows)
  BY HandlesFinite, FS_Subset DEF TypeOK
<1>2. IsFiniteSet(W) /\ Cardinality(W) <= Cardinality(DOMAIN m_windows)
  BY <1>1, FS_Subset
<1> DEFINE A == {w \in W : m_windows[w].cb = h}
           D == {w \in DOMAIN m_windows : m_windows[w].cb = h}
<1>3. IsFiniteSet(D)
  BY <1>1, FS_Subset
<1>4. A \in SUBSET D
  OBVIOUS
<1> HIDE DEF A, D
<1>5. IsFiniteSet(A) /\ Cardinality(A) <= Cardinality(D)
  BY <1>3, <1>4, FS_Subset
<1>6. Cardinality(W) \in Nat /\ Cardinality(A) \in Nat
  BY <1>2, <1>5, FS_CardinalityType
<1> QED
  BY <1>1, <1>2, <1>5, <1>6 DEF Attached, A, D

\* The attachments that are left when the windows W are gone.
LEMMA AttachedWithout ==
  ASSUME TypeOK, NEW W, W \subseteq DOMAIN m_windows, m_windows' = Without(m_windows, W),
         NEW h \in Handles
  PROVE  Attached(DOMAIN m_windows, h)' = Attached(DOMAIN m_windows, h) - Attached(W, h)
<1> DEFINE A == {w \in W : m_windows[w].cb = h}
           R == {w \in DOMAIN m_windows \ W : m_windows[w].cb = h}
           D == {w \in DOMAIN m_windows : m_windows[w].cb = h}
<1>1. {w \in DOMAIN m_windows' : m_windows'[w].cb = h} = R
  BY DEF Without
<1>2. IsFiniteSet(A)
  BY WindowsFinite
<1>3. IsFiniteSet(R)
  <2>1. DOMAIN m_windows \ W \subseteq DOMAIN m_windows
    OBVIOUS
  <2> QED
    BY <2>1, WindowsFinite
<1>4. D = A \cup R /\ A \cap R = {}
  OBVIOUS
<1>5. /\ Attached(DOMAIN m_windows, h)' = Cardinality(R)
      /\ Attached(DOMAIN m_windows, h) = Cardinality(D)
      /\ Attached(W, h) = Cardinality(A)
  BY <1>1 DEF Attached
<1> HIDE DEF A, R, D
<1>6. Cardinality(A \cup R) = Cardinality(A) + Cardinality(R) - Cardinality(A \cap R)
  BY <1>2, <1>3, FS_Union
<1>7. Cardinality(A \cap R) = 0
  BY <1>4, FS_EmptySet
<1>8. Cardinality(A) \in Nat /\ Cardinality(R) \in Nat
  BY <1>2, <1>3, FS_CardinalityType
<1> QED
  BY <1>4, <1>5, <1>6, <1>7, <1>8

\* Windows are removed and their attachments released.
LEMMA ReleaseStep ==
  ASSUME TypeOK, RefCountPipe, PipeInv, RefCountExact,
         NEW W, W \subseteq DOMAIN m_windows, m_windows' = Without(m_windows, W),
         m_colorbuffers' = Drop(m_colorbuffers, [h \in Handles |-> Attached(W, h)]),
         UNCHANGED <<guestRefs, destroys, leaked, pthreadCB>>,
         \A p \in Puids, h \in Handles : procCB'[p][h] = 0
  PROVE  PipeInv' /\ RefCountExact'
<1> DEFINE n == [h \in Handles |-> Attached(W, h)]
<1>1. Refs \in [Handles -> Nat] /\ n \in [Handles -> Nat]
  BY RefsType, WindowsFinite
<1>2. ASSUME NEW h \in Handles
      PROVE  n[h] <= Refs[h] /\ Descriptor(h)' = Descriptor(h)
             /\ References(h)' = References(h) - Attached(W, h)
  <2>1. /\ Attached(DOMAIN m_windows, h) \in Nat /\ Descriptor(h) \in Nat
        /\ Attached(W, h) \in Nat /\ Attached(W, h) <= Attached(DOMAIN m_windows, h)
    BY RefsType, WindowsFinite
  <2>2. n[h] <= Refs[h]
    BY <2>1 DEF Refs, References
  <2>3. Descriptor(h)' = Descriptor(h)
    BY DEF Descriptor, Queued
  <2>4. Attached(DOMAIN m_windows, h)' = Attached(DOMAIN m_windows, h) - Attached(W, h)
    BY AttachedWithout
  <2>5. References(h)' = References(h) - Attached(W, h)
    BY <2>1, <2>3, <2>4 DEF References
  <2> QED
    BY <2>2, <2>3, <2>5
<1>3. IsTable(m_colorbuffers, ColorBufferRef) /\ Exact(m_colorbuffers, Refs)
  BY ExactIff DEF TypeOK, IsTable
<1> HIDE DEF n
<1>4. Exact(Drop(m_colorbuffers, n), [h \in Handles |-> Refs[h] - n[h]])
  BY <1>1, <1>2, <1>3, DropExact
<1>5. [h \in Handles |-> Refs[h] - n[h]] = [h \in Handles |-> References(h) - Attached(W, h)]
  BY DEF Refs, n
<1>6. RefCountExact'
  BY <1>2, <1>4, <1>5 DEF Exact, RefCountExact, n
<1>7. Cardinality(DOMAIN m_windows') <= MaxWindows
  <2>1. DOMAIN m_windows' \subseteq DOMAIN m_windows
    BY DEF Without
  <2>2. /\ Cardinality(DOMAIN m_windows') <= Cardinality(DOMAIN m_windows)
        /\ Cardinality(DOMAIN m_windows') \in Nat
    BY <2>1, WindowsFinite
  <2>3. Cardinality(DOMAIN m_windows) \in Nat /\ Cardinality(DOMAIN m_windows) <= MaxWindows
    BY WindowsFinite DEF PipeInv
  <2> QED
    BY <2>2, <2>3, TableAssumption
<1>8. PipeInv'
  BY <1>2, <1>7 DEF PipeInv
<1> QED
  BY <1>6, <1>8

\* A new window has no attachment.
LEMMA NewWindowStep ==
  ASSUME TypeOK, RefCountPipe, PipeInv, RefCountExact, NEW k, k \notin DOMAIN m_windows,
         Cardinality(DOMAIN m_windows) < MaxWindows,
         m_windows' = Put(m_windows, k, [cb |-> 0, owned |-> {}]),
         UNCHANGED <<m_colorbuffers, guestRefs, destroys, leaked, procCB, pthreadCB>>
  PROVE  PipeInv' /\ RefCountExact'
<1>1. ASSUME NEW h \in Handles
      PROVE  Descriptor(h)' = Descriptor(h) /\ References(h)' = References(h)
  <2>1. h # 0
    BY DEF Handles
  <2>2. {w \in DOMAIN m_windows' : m_windows'[w].cb = h}
          = {w \in DOMAIN m_windows : m_windows[w].cb = h}
    BY <2>1 DEF Put
  <2>3. Attached(DOMAIN m_windows, h)' = Attached(DOMAIN m_windows, h)
    BY <2>2 DEF Attached
  <2>4. Descriptor(h)' = Descriptor(h)
    BY DEF Descriptor, Queued
  <2> QED
    BY <2>3, <2>4 DEF References
<1>2. Cardinality(DOMAIN m_windows') <= MaxWindows
  <2>1. DOMAIN m_windows' = DOMAIN m_windows \cup {k}
    BY DEF Put
  <2>2. IsFiniteSet(DOMAIN m_windows) /\ Cardinality(DOMAIN m_windows) \in Nat
    BY WindowsFinite
  <2>3. Cardinality(DOMAIN m_windows \cup {k}) = Cardinality(DOMAIN m_windows) + 1
    BY <2>2, FS_AddElement
  <2> QED
    BY <2>1, <2>2, <2>3, TableAssumption
<1>3. PipeInv'
  BY <1>1, <1>2 DEF PipeInv
<1>4. RefCountExact'
  BY <1>1 DEF RefCountExact
<1> QED
  BY <1>3, <1>4

\* The guest's last descriptor is closed: its reference moves to the channel, or
\* is lost when the channel is full.
LEMMA LastRefStep ==
  ASSUME TypeOK, RefCountPipe, PipeInv, RefCountExact, NEW h \in Handles,
         OnLastColorBufferRef(h)
  PROVE  PipeInv' /\ RefCountExact'
<1> USE DEF tables, owners, guest, flags
<1>1. /\ guestRefs[h] \in Nat /\ Queued(h) \in Nat /\ Descriptor(h) <= 1
      /\ guestRefs[h] > 0
  BY RefsType DEF PipeInv, OnLastColorBufferRef
<1>2. guestRefs[h] = 1 /\ Queued(h) = 0 /\ h \notin leaked /\ Descriptor(h) = 1
  BY <1>1 DEF Descriptor
<1>3. ASSUME NEW k \in Handles PROVE Descriptor(k)' = Descriptor(k)
  <2> DEFINE Q == {i \in DOMAIN destroys : destroys[i] = k}
             N == {i \in DOMAIN destroys' : destroys'[i] = k}
  <2>1. destroys \in Seq(Handles) /\ Len(destroys) \in Nat
    BY DEF TypeOK
  <2>2. IsFiniteSet(Q)
    <3>1. IsFiniteSet(1..Len(destroys))
      BY <2>1, FS_Interval
    <3> QED
      BY <2>1, <3>1, FS_Subset
  <2>3. guestRefs'[k] = IF k = h THEN 0 ELSE guestRefs[k]
    BY DEF OnLastColorBufferRef, TypeOK
  <2>4. CASE destroys' = Append(destroys, h) /\ leaked' = leaked
    <3>1. CASE k = h
      <4>1. N = Q \cup {Len(destroys) + 1}
        BY <2>1, <2>4, <3>1
      <4>2. Len(destroys) + 1 \notin Q
        BY <2>1
      <4>3. Queued(k)' = Queued(k) + 1
        BY <2>2, <4>1, <4>2, FS_AddElement DEF Queued
      <4> QED
        BY <1>2, <2>3, <2>4, <3>1, <4>3 DEF Descriptor
    <3>2. CASE k # h
      <4>1. N = Q
        BY <2>1, <2>4, <3>2
      <4>2. Queued(k)' = Queued(k)
        BY <4>1 DEF Queued
      <4> QED
        BY <2>3, <2>4, <3>2, <4>2 DEF Descriptor
    <3> QED
      BY <3>1, <3>2
  <2>5. CASE destroys' = destroys /\ leaked' = leaked \cup {h}
    <3>1. Queued(k)' = Queued(k)
      BY <2>5 DEF Queued
    <3>2. CASE k = h
      BY <1>2, <2>3, <2>5, <3>1, <3>2 DEF Descriptor
    <3>3. CASE k # h
      BY <2>3, <2>5, <3>1, <3>3 DEF Descriptor
    <3> QED
      BY <3>2, <3>3
  <2> QED
    BY <2>4, <2>5 DEF OnLastColorBufferRef
<1>4. UNCHANGED <<m_windows, m_colorbuffers, procCB, pthreadCB>>
  BY DEF OnLastColorBufferRef
<1>5. \A k \in Handles : References(k)' = References(k)
  BY <1>3, <1>4 DEF References, Attached
<1>6. PipeInv'
  BY <1>3, <1>4 DEF PipeInv
<1>7. RefCountExact'
  BY <1>4, <1>5 DEF RefCountExact
<1> QED
  BY <1>6, <1>7

\* What attaching h to window w does to the number of attachments of k.
LEMMA AttachedReplace ==
  ASSUME TypeOK, NEW w \in DOMAIN m_windows, NEW h \in Handles, NEW k \in Handles,
         m_windows' = [m_windows EXCEPT ![w].cb = h, ![w].owned = @ \cup {h}]
  PROVE  /\ Attached(DOMAIN m_windows, k)' =
               Attached(DOMAIN m_windows, k)
                 - (IF k = m_windows[w].cb THEN 1 ELSE 0) + (IF k = h THEN 1 ELSE 0)
         /\ k = m_windows[w].cb => Attached(DOMAIN m_windows, k) > 0
         /\ DOMAIN m_windows' = DOMAIN m_windows
<1> DEFINE A == {x \in DOMAIN m_windows : m_windows[x].cb = k}
           N == {x \in DOMAIN m_windows' : m_windows'[x].cb = k}
<1>1. DOMAIN m_windows' = DOMAIN m_windows
  OBVIOUS
<1>2. m_windows'[w].cb = h
  <2>1. m_windows[w] \in WindowEntry
    BY DEF TypeOK
  <2>2. m_windows'[w] = [m_windows[w] EXCEPT !.cb = h, !.owned = m_windows[w].owned \cup {h}]
    OBVIOUS
  <2> QED
    BY <2>1, <2>2 DEF WindowEntry
<1>3. \A x \in DOMAIN m_windows \ {w} : m_windows'[x] = m_windows[x]
  OBVIOUS
<1>4. IsFiniteSet(A)
  BY WindowsFinite
<1>5. Attached(DOMAIN m_windows, k) = Cardinality(A) /\ Attached(DOMAIN m_windows, k)' = Cardinality(N)
  BY DEF Attached
<1>6. w \in A <=> k = m_windows[w].cb
  OBVIOUS
<1>7. k = h => N = A \cup {w}
  BY <1>1, <1>2, <1>3
<1>8. k # h => N = A \ {w}
  BY <1>1, <1>2, <1>3
<1> HIDE DEF A, N
<1>9. Cardinality(A) \in Nat
  BY <1>4, FS_CardinalityType
<1>10. w \in A => Cardinality(A) > 0
  <2>1. w \in A => Cardinality(A) # 0
    BY <1>4, FS_EmptySet
  <2> QED
    BY <1>9, <2>1
<1>11. CASE k = h
  <2>1. Cardinality(N) = IF w \in A THEN Cardinality(A) ELSE Cardinality(A) + 1
    BY <1>4, <1>7, <1>11, FS_AddElement
  <2> QED
    BY <1>1, <1>5, <1>6, <1>9, <1>10, <1>11, <2>1
<1>12. CASE k # h
  <2>1. Cardinality(N) = IF w \in A THEN Cardinality(A) - 1 ELSE Cardinality(A)
    BY <1>4, <1>8, <1>12, FS_RemoveElement
  <2> QED
    BY <1>1, <1>5, <1>6, <1>9, <1>10, <1>12, <2>1
<1> QED
  BY <1>11, <1>12

\* The old attachment is released before the new one is counted.  The guest
\* still holds h, so h is not freed in between even when it was the old one.
LEMMA AttachStep ==
  ASSUME TypeOK, RefCountPipe, PipeInv, RefCountExact,
         NEW t \in Threads, NEW w \in Handles, NEW h \in Handles,
         SetWindowSurfaceColorBuffer(t, w, h)
  PROVE  PipeInv' /\ RefCountExact'
<1> USE DEF tables, owners, guest, flags
<1> DEFINE old  == m_windows[w].cb
           used == MarkOpened(Bufs, h)
           n    == [k \in Handles |-> IF k = old THEN 1 ELSE 0]
           ref1 == [k \in Handles |-> Refs[k] - n[k]]
<1>1. /\ w \in DOMAIN m_windows /\ h \in DOMAIN m_colorbuffers /\ Held(h)
      /\ m_colorbuffers' = AfterAttach(w, h).cbs
      /\ m_windows' = [m_windows EXCEPT ![w].cb = h, ![w].owned = @ \cup {h}]
      /\ UNCHANGED <<guestRefs, destroys, leaked, procCB, pthreadCB>>
  BY DEF SetWindowSurfaceColorBuffer, SetBufs
<1>2. guestRefs[h] > 0
  BY <1>1 DEF Held, PipeInv
<1>3. /\ Refs \in [Handles -> Nat] /\ n \in [Handles -> Nat]
      /\ \A k \in Handles : Refs[k] = References(k)
  BY RefsType DEF Refs
<1>4. ASSUME NEW k \in Handles
      PROVE  /\ n[k] <= Refs[k]
             /\ k = h => Refs[k] - n[k] > 0
             /\ Descriptor(k)' = Descriptor(k)
             /\ References(k)' = Refs[k] - n[k] + (IF k = h THEN 1 ELSE 0)
             /\ References(k)' <= MaxWindows + 1
  <2>1. /\ Attached(DOMAIN m_windows, k) \in Nat /\ Queued(k) \in Nat /\ guestRefs[k] \in Nat
        /\ Descriptor(k) \in Nat /\ Descriptor(k) <= 1
    BY RefsType DEF PipeInv
  <2>2. /\ Attached(DOMAIN m_windows, k)' =
              Attached(DOMAIN m_windows, k)
                - (IF k = old THEN 1 ELSE 0) + (IF k = h THEN 1 ELSE 0)
        /\ k = old => Attached(DOMAIN m_windows, k) > 0
        /\ DOMAIN m_windows' = DOMAIN m_windows
    BY <1>1, AttachedReplace
  <2>3. Descriptor(k)' = Descriptor(k)
    BY <1>1 DEF Descriptor, Queued
  <2>4. k = h => Descriptor(k) > 0
    BY <1>2, <2>1 DEF Descriptor
  <2>5. Refs[k] = Attached(DOMAIN m_windows, k) + Descriptor(k)
    BY <1>3 DEF References
  <2>6. References(k)' = Attached(DOMAIN m_windows, k)' + Descriptor(k)'
    BY DEF References
  <2>7. n[k] = IF k = old THEN 1 ELSE 0
    OBVIOUS
  <2>8. Attached(DOMAIN m_windows, k)' <= MaxWindows
    <3>1. IsFiniteSet(DOMAIN m_windows)
      BY WindowsFinite
    <3> DEFINE N == {x \in DOMAIN m_windows' : m_windows'[x].cb = k}
    <3>2. N \in SUBSET DOMAIN m_windows
      BY <2>2
    <3>3. Attached(DOMAIN m_windows, k)' = Cardinality(N)
      BY DEF Attached
    <3> HIDE DEF N
    <3>4. Cardinality(N) <= Cardinality(DOMAIN m_windows) /\ IsFiniteSet(N)
      BY <3>1, <3>2, FS_Subset
    <3>5. /\ Cardinality(N) \in Nat /\ Cardinality(DOMAIN m_windows) \in Nat
          /\ Cardinality(DOMAIN m_windows) <= MaxWindows
      BY <3>1, <3>4, FS_CardinalityType DEF PipeInv
    <3> QED
      BY <3>3, <3>4, <3>5, TableAssumption
  <2> HIDE DEF old, n
  <2>9. MaxWindows \in Nat
    BY TableAssumption
  <2> QED
    BY <2>1, <2>2, <2>3, <2>4, <2>5, <2>6, <2>7, <2>8, <2>9
<1>5. /\ BufsOK(used) /\ DOMAIN used.cbs = DOMAIN m_colorbuffers
      /\ \A k \in DOMAIN m_colorbuffers : used.cbs[k].refcount = m_colorbuffers[k].refcount
  BY <1>1, BufsType, MarkOpenedType
<1>6. IsTable(used.cbs, ColorBufferRef) /\ Exact(used.cbs, Refs)
  <2>1. Exact(m_colorbuffers, Refs)
    BY ExactIff
  <2> QED
    BY <1>5, <2>1 DEF BufsOK, Exact
<1> HIDE DEF used, n
<1>7. Exact(Drop(used.cbs, n), ref1)
  BY <1>3, <1>4, <1>6, DropExact
<1>8. PICK cbs : /\ IsTable(cbs, ColorBufferRef) /\ Exact(cbs, ref1)
                 /\ h \in DOMAIN cbs =>
                       m_colorbuffers' = [cbs EXCEPT ![h].refcount = (@ + 1) % RefMod]
  <2>1. CASE old = 0
    <3>1. \A k \in Handles : n[k] = 0
      BY <2>1 DEF n, Handles
    <3>2. ref1 = Refs
      BY <1>3, <3>1
    <3>3. AfterAttach(w, h) = IF h \in DOMAIN used.cbs
                              THEN [used EXCEPT !.cbs[h].refcount = (@ + 1) % RefMod] ELSE used
      BY <2>1 DEF AfterAttach, used
    <3>4. h \in DOMAIN used.cbs =>
            AfterAttach(w, h).cbs = [used.cbs EXCEPT ![h].refcount = (@ + 1) % RefMod]
      BY <1>5, <3>3 DEF BufsOK
    <3>5. WITNESS used.cbs
    <3> QED
      BY <1>1, <1>6, <3>2, <3>4
  <2>2. CASE old # 0
    <3> DEFINE st == [cbs |-> Drop(used.cbs, n), delayed |-> used.delayed]
    <3>1. n = One(old)
      BY DEF n, One
    <3>2. [used EXCEPT !.cbs = Drop(@, One(old))] = st
      BY <1>5, <3>1 DEF BufsOK
    <3>3. AfterAttach(w, h) =
            LET s == [used EXCEPT !.cbs = Drop(@, One(old))]
            IN IF h \in DOMAIN s.cbs
               THEN [s EXCEPT !.cbs[h].refcount = (@ + 1) % RefMod] ELSE s
      BY <2>2 DEF AfterAttach, used
    <3>4. AfterAttach(w, h) = IF h \in DOMAIN st.cbs
                              THEN [st EXCEPT !.cbs[h].refcount = (@ + 1) % RefMod] ELSE st
      BY <3>2, <3>3
    <3>5. h \in DOMAIN Drop(used.cbs, n) =>
            AfterAttach(w, h).cbs = [Drop(used.cbs, n) EXCEPT ![h].refcount = (@ + 1) % RefMod]
      BY <3>4
    <3>6. IsTable(Drop(used.cbs, n), ColorBufferRef)
      BY <1>3, <1>6, DropType
    <3>7. WITNESS Drop(used.cbs, n)
    <3> QED
      BY <1>1, <1>7, <3>5, <3>6
  <2> QED
    BY <2>1, <2>2
<1>9. h \in DOMAIN cbs /\ ref1[h] = Refs[h] - n[h] /\ ref1[h] > 0 /\ cbs[h].refcount = ref1[h]
  <2>1. ref1[h] = Refs[h] - n[h] /\ ref1[h] > 0
    BY <1>4
  <2> QED
    BY <1>8, <2>1 DEF Exact
<1>10. \A k \in Handles : ref1[k] = Refs[k] - n[k]
  OBVIOUS
<1>11. ref1[h] \in Nat /\ ref1[h] + 1 < RefMod
  <2>1. Refs[h] \in Nat /\ n[h] \in Nat /\ References(h)' = Refs[h] - n[h] + 1
    BY <1>3, <1>4
  <2>2. References(h)' <= MaxWindows + 1
    BY <1>4
  <2> QED
    BY <1>9, <2>1, <2>2, CountAssumption, TableAssumption
<1>12. m_colorbuffers' = [cbs EXCEPT ![h].refcount = (cbs[h].refcount + 1) % RefMod]
  BY <1>8, <1>9
<1> HIDE DEF ref1
<1>13. /\ DOMAIN m_colorbuffers' = DOMAIN cbs
       /\ m_colorbuffers'[h].refcount = ref1[h] + 1
       /\ \A k \in DOMAIN cbs \ {h} : m_colorbuffers'[k] = cbs[k]
  <2>1. cbs[h] \in ColorBufferRef
    BY <1>8, <1>9 DEF IsTable
  <2>2. (cbs[h].refcount + 1) % RefMod = ref1[h] + 1
    BY <1>9, <1>11, TableAssumption
  <2>3. m_colorbuffers'[h] = [cbs[h] EXCEPT !.refcount = (cbs[h].refcount + 1) % RefMod]
    BY <1>9, <1>12
  <2>4. m_colorbuffers'[h].refcount = (cbs[h].refcount + 1) % RefMod
    BY <2>1, <2>3 DEF ColorBufferRef
  <2> QED
    BY <1>9, <1>12, <2>2, <2>4
<1>14. RefCountExact'
  <2>1. ASSUME NEW k \in Handles
        PROVE  IF k \in DOMAIN m_colorbuffers'
               THEN References(k)' > 0 /\ m_colorbuffers'[k].refcount = References(k)'
               ELSE References(k)' = 0
    <3>1. CASE k = h
      <4>1. References(k)' = ref1[h] + 1
        BY <1>4, <1>10, <3>1
      <4> QED
        BY <1>9, <1>11, <1>13, <3>1, <4>1
    <3>2. CASE k # h
      <4>1. References(k)' = ref1[k]
        <5>1. References(k)' = Refs[k] - n[k] + 0
          BY <1>4, <3>2
        <5>2. Refs[k] \in Nat /\ n[k] \in Nat
          BY <1>3
        <5> QED
          BY <1>10, <5>1, <5>2
      <4> QED
        BY <1>8, <1>13, <3>2, <4>1 DEF Exact
    <3> QED
      BY <3>1, <3>2
  <2> QED
    BY <2>1 DEF RefCountExact
<1>15. PipeInv'
  <2>1. DOMAIN m_windows' = DOMAIN m_windows
    BY <1>1
  <2> QED
    BY <1>1, <1>4, <2>1 DEF PipeInv
<1> QED
  BY <1>14, <1>15

-----------------------------------------------------------------------------
(* The theorem. *)

\* With RefCountPipe closeColorBufferLocked does nothing.
LEMMA CloseLockedPipe ==
  ASSUME RefCountPipe, NEW st, NEW n
  PROVE  CloseLocked(st, n) = st
  BY DEF CloseLocked

\* With RefCountPipe releasing windows drops their attachments only.
LEMMA ReleaseWindowsPipe ==
  ASSUME RefCountPipe, NEW W, NEW all
  PROVE  /\ ReleaseWindows(W, all).cbs = Drop(m_colorbuffers, [h \in Handles |-> Attached(W, h)])
         /\ ReleaseWindows(W, all).delayed = delayed
  BY DEF ReleaseWindows, Bufs

\* Every step keeps the counts exact.
LEMMA RefCountStep ==
  TypeOK /\ PipeInv /\ RefCountExact /\ [Next]_vars => PipeInv' /\ RefCountExact'
<1> SUFFICES ASSUME TypeOK, PipeInv, RefCountExact, [Next]_vars, RefCountPipe
             PROVE  PipeInv' /\ RefCountExact'
  BY TableAssumption DEF PipeInv, RefCountExact
<1> DEFINE Goal == PipeInv' /\ RefCountExact'
<1> USE DEF tables, owners, guest, flags
<1>1. CASE UNCHANGED vars
  BY <1>1, QuietStep DEF vars
<1>2. CASE Tick \/ SetShuttingDown
  BY <1>2, QuietStep DEF Tick, SetShuttingDown
<1>3. CASE CloseAllColorBuffer
  <2>1. m_colorbuffers' = m_colorbuffers
    BY <1>3, CloseLockedPipe DEF CloseAllColorBuffer, SetBufs, Bufs
  <2> QED
    BY <1>3, <2>1, QuietStep DEF CloseAllColorBuffer
<1>4. ASSUME NEW p \in Puids, CleanupProcGLObjects(p) PROVE Goal
  <2> DEFINE W == procWin[p] \cap DOMAIN m_windows
  <2>1. m_colorbuffers' = Drop(m_colorbuffers, [h \in Handles |-> Attached(W, h)])
    <3>1. m_colorbuffers' = CloseLocked(ReleaseWindows(W, FALSE), procCB[p]).cbs
      BY <1>4 DEF CleanupProcGLObjects, SetBufs
    <3>2. CloseLocked(ReleaseWindows(W, FALSE), procCB[p]) = ReleaseWindows(W, FALSE)
      BY CloseLockedPipe
    <3> QED
      BY <3>1, <3>2, ReleaseWindowsPipe
  <2>2. /\ m_windows' = Without(m_windows, W)
        /\ UNCHANGED <<guestRefs, destroys, leaked, pthreadCB>>
    BY <1>4 DEF CleanupProcGLObjects
  <2>3. W \subseteq DOMAIN m_windows
    OBVIOUS
  <2>4. \A q \in Puids, h \in Handles : procCB'[q][h] = 0
    BY <1>4 DEF CleanupProcGLObjects, PipeInv, TypeOK
  <2> HIDE DEF W
  <2> QED
    BY <2>1, <2>2, <2>3, <2>4, ReleaseStep
<1>5. ASSUME NEW h \in Handles, OnLastColorBufferRef(h) PROVE Goal
  BY <1>5, LastRefStep
<1>6. ASSUME NEW t \in Threads,
             \/ StartThread(t) \/ (\E p \in Puids : SetPuid(t, p)) \/ DrainRenderContext(t)
             \/ (\E h \in Handles : PostFind(t, h)) \/ PostDone(t)
      PROVE  Goal
  <2>1. UNCHANGED <<m_windows, guestRefs, destroys, leaked, procCB, pthreadCB, m_colorbuffers>>
    BY <1>6 DEF StartThread, SetPuid, DrainRenderContext, PostFind, PostDone
  <2> QED
    BY <2>1, QuietStep
<1>7. ASSUME NEW t \in Threads,
             \/ CreateBuffer(t) \/ CreateRenderContext(t)
             \/ (\E h \in Handles : CloseBuffer(t, h))
      PROVE  Goal
  <2>1. UNCHANGED <<m_windows, guestRefs, destroys, leaked, procCB, pthreadCB, m_colorbuffers>>
    BY <1>7 DEF CreateBuffer, CreateRenderContext, CloseBuffer
  <2> QED
    BY <2>1, QuietStep
<1>8. ASSUME NEW t \in Threads, PostMark(t) PROVE Goal
  <2> DEFINE h  == posting[t]
             st == IF h \in DOMAIN m_colorbuffers THEN MarkOpened(Bufs, h) ELSE Bufs
  <2>1. BufsOK(Bufs) /\ Bufs.cbs = m_colorbuffers
    BY BufsType
  <2>2. /\ DOMAIN st.cbs = DOMAIN m_colorbuffers
        /\ \A k \in DOMAIN m_colorbuffers : st.cbs[k].refcount = m_colorbuffers[k].refcount
    BY <2>1, MarkOpenedType
  <2>3. /\ m_colorbuffers' = st.cbs
        /\ UNCHANGED <<m_windows, guestRefs, destroys, leaked, procCB, pthreadCB>>
    BY <1>8 DEF PostMark, SetBufs
  <2> HIDE DEF st
  <2> QED
    BY <2>2, <2>3, QuietStep
<1>9. ASSUME NEW t \in Threads, ReapThread(t) PROVE Goal
  <2>1. /\ m_colorbuffers' = Without(m_colorbuffers, pthreadCB[t])
        /\ pthreadCB' = [pthreadCB EXCEPT ![t] = {}]
        /\ UNCHANGED <<m_windows, guestRefs, destroys, leaked, procCB>>
    BY <1>9 DEF ReapThread
  <2>2. pthreadCB[t] = {}
    BY DEF PipeInv
  <2>3. pthreadCB' = pthreadCB
    BY <2>1, <2>2 DEF TypeOK
  <2>4. /\ DOMAIN m_colorbuffers' = DOMAIN m_colorbuffers
        /\ \A h \in DOMAIN m_colorbuffers : m_colorbuffers'[h] = m_colorbuffers[h]
    BY <2>1, <2>2 DEF Without
  <2> QED
    BY <2>1, <2>3, <2>4, QuietStep
<1>10. ASSUME NEW t \in Threads, ExitThread(t) PROVE Goal
  <2>1. UNCHANGED <<m_windows, guestRefs, leaked, procCB, pthreadCB>>
    BY <1>10 DEF ExitThread
  <2>2. CASE UNCHANGED <<m_colorbuffers, destroys>>
    BY <2>1, <2>2, QuietStep
  <2>3. CASE m_colorbuffers' = SweptColorBuffers /\ destroys' = << >>
    BY <2>1, <2>3, SweepStep
  <2> QED
    BY <1>10, <2>2, <2>3 DEF ExitThread
<1>11. ASSUME NEW t \in Threads,
              UnbindContext(t) \/ (\E c \in Handles : DestroyRenderContext(t, c))
       PROVE  Goal
  <2>1. /\ UNCHANGED <<m_windows, guestRefs, leaked, procCB, pthreadCB>>
        /\ m_colorbuffers' = SweptColorBuffers /\ destroys' = << >>
    BY <1>11 DEF UnbindContext, DestroyRenderContext
  <2> QED
    BY <2>1, SweepStep
<1>12. ASSUME NEW t \in Threads, DrainWindowSurface(t) PROVE Goal
  <2> DEFINE W == {w \in tinfo[t].windowSet \cap DOMAIN m_windows : m_windows[w].cb # 0}
  <2>1. UNCHANGED <<guestRefs, destroys, leaked, procCB, pthreadCB>> /\ W \subseteq DOMAIN m_windows
    BY <1>12 DEF DrainWindowSurface
  <2>2. \/ UNCHANGED <<m_windows, m_colorbuffers>>
        \/ /\ m_colorbuffers' = Drop(m_colorbuffers, [h \in Handles |-> Attached(W, h)])
           /\ m_windows' = Without(m_windows, W)
    BY <1>12, ReleaseWindowsPipe DEF DrainWindowSurface, SetBufs
  <2> HIDE DEF W
  <2>3. CASE UNCHANGED <<m_windows, m_colorbuffers>>
    BY <2>1, <2>3, QuietStep
  <2>4. CASE /\ m_colorbuffers' = Drop(m_colorbuffers, [h \in Handles |-> Attached(W, h)])
             /\ m_windows' = Without(m_windows, W)
    <3>1. \A p \in Puids, h \in Handles : procCB'[p][h] = 0
      BY <2>1 DEF PipeInv
    <3> QED
      BY <2>1, <2>4, <3>1, ReleaseStep
  <2> QED
    BY <2>2, <2>3, <2>4
<1>13. ASSUME NEW t \in Threads, NEW w \in Handles, DestroyWindowSurface(t, w) PROVE Goal
  <2>1. /\ UNCHANGED <<guestRefs, destroys, leaked, procCB, pthreadCB>>
        /\ {w} \subseteq DOMAIN m_windows
        /\ m_windows' = Without(m_windows, {w})
        /\ m_colorbuffers' = ReleaseWindows({w}, TRUE).cbs
    BY <1>13 DEF DestroyWindowSurface, SetBufs
  <2>2. m_colorbuffers' = Drop(m_colorbuffers, [h \in Handles |-> Attached({w}, h)])
    BY <2>1, ReleaseWindowsPipe
  <2>3. \A p \in Puids, h \in Handles : procCB'[p][h] = 0
    BY <2>1 DEF PipeInv
  <2> QED
    BY <2>1, <2>2, <2>3, ReleaseStep
<1>14. ASSUME NEW t \in Threads, CreateColorBuffer(t) PROVE Goal
  <2>1. s_nextHandle' \in FreeHandles(SweptColorBuffers) /\ s_nextHandle' \in Handles
    BY <1>14, DrawType DEF CreateColorBuffer
  <2>2. s_nextHandle' \notin DOMAIN SweptColorBuffers
    BY <2>1 DEF FreeHandles
  <2> QED
    BY <1>14, <2>1, <2>2, NewStep DEF CreateColorBuffer
<1>15. ASSUME NEW t \in Threads, NEW h \in GuestHandles, CreateColorBufferWithHandle(t, h)
       PROVE  Goal
  <2>1. h \in Handles /\ h \notin DOMAIN SweptColorBuffers
    BY <1>15, SweptType, TableAssumption DEF CreateColorBufferWithHandle
  <2> QED
    BY <1>15, <2>1, NewStep DEF CreateColorBufferWithHandle
<1>16. ASSUME NEW t \in Threads, CreateWindowSurface(t) PROVE Goal
  <2>1. s_nextHandle' \in FreeHandles(m_colorbuffers)
    BY <1>16, DrawType DEF CreateWindowSurface
  <2>2. s_nextHandle' \notin DOMAIN m_windows
    BY <2>1 DEF FreeHandles
  <2>3. /\ Cardinality(DOMAIN m_windows) < MaxWindows
        /\ UNCHANGED <<m_colorbuffers, guestRefs, destroys, leaked, procCB, pthreadCB>>
    BY <1>16 DEF CreateWindowSurface
  <2>4. CASE m_windows' = Put(m_windows, s_nextHandle', [cb |-> 0, owned |-> {}])
    BY <2>2, <2>3, <2>4, NewWindowStep
  <2>5. CASE m_windows' = m_windows
    BY <2>3, <2>5, QuietStep
  <2> QED
    BY <1>16, <2>4, <2>5 DEF CreateWindowSurface
<1>17. ASSUME NEW t \in Threads, NEW h \in Handles, OpenColorBuffer(t, h) \/ CloseColorBuffer(t, h)
       PROVE  Goal
  BY <1>17 DEF OpenColorBuffer, CloseColorBuffer
<1>18. ASSUME NEW t \in Threads, NEW w \in Handles, NEW h \in Handles,
              SetWindowSurfaceColorBuffer(t, w, h)
       PROVE  Goal
  BY <1>18, AttachStep
<1> QED
  BY <1>1, <1>2, <1>3, <1>4, <1>5, <1>6, <1>7, <1>8, <1>9, <1>10, <1>11, <1>12, <1>13,
     <1>14, <1>15, <1>16, <1>17, <1>18 DEF Next

\* The empty table is exact.
LEMMA RefCountInit == Init => PipeInv /\ RefCountExact
<1> SUFFICES ASSUME Init
             PROVE  PipeInv /\ RefCountExact
  OBVIOUS
<1>1. DOMAIN m_windows = {} /\ DOMAIN m_colorbuffers = {}
  BY DEF Init
<1>2. ASSUME NEW h \in Handles PROVE Descriptor(h) = 0 /\ References(h) = 0
  <2>1. {i \in DOMAIN destroys : destroys[i] = h} = {}
    BY DEF Init
  <2>2. Queued(h) = 0
    BY <2>1, FS_EmptySet DEF Queued
  <2>3. Descriptor(h) = 0
    BY <2>2 DEF Descriptor, Init
  <2>4. {w \in DOMAIN m_windows : m_windows[w].cb = h} = {}
    BY <1>1
  <2>5. Attached(DOMAIN m_windows, h) = 0
    BY <2>4, FS_EmptySet DEF Attached
  <2> QED
    BY <2>3, <2>5 DEF References
<1>3. Cardinality(DOMAIN m_windows) <= MaxWindows
  BY <1>1, FS_EmptySet, TableAssumption
<1>4. PipeInv
  BY <1>2, <1>3 DEF PipeInv, Init
<1>5. RefCountExact
  BY <1>1, <1>2 DEF RefCountExact
<1> QED
  BY <1>4, <1>5

\* With RefCountPipe a colour buffer is in the table exactly as long as a window
\* is attached to it or the guest's descriptor has not been swept, and refcount
\* counts just these, whatever order attachments, drains, process cleanups,
\* late destroys and dropped destroys come in: no use after free, no early or
\* double free, and the only leak is the one the full channel announces.
THEOREM RefCountCorrect == Spec => []RefCountExact
<1>1. Spec => [](PipeInv /\ RefCountExact)
  BY RefCountInit, RefCountStep, TypeCorrect, PTL DEF Spec
<1> QED
  BY <1>1, PTL

-----------------------------------------------------------------------------
(* Without the pipe nothing counts the references apart from refcount, and  *)
(* a count that is at its maximum would pass to 0 when it is opened again.  *)

CountsBelowMax == \A h \in DOMAIN m_colorbuffers : m_colorbuffers[h].refcount < RefMod - 1

\* A close takes references away and never the last one of a buffer that stays;
\* an open adds one to a count that is not at its maximum.
LEMMA LiveStep ==
  (/\ TypeOK /\ TypeOK' /\ NoDestroys /\ RefCountExact'
   /\ RefCountPipe \/ CountsBelowMax
   /\ LiveMeansReferenced /\ [Next]_vars) => LiveMeansReferenced'
<1> SUFFICES ASSUME TypeOK, TypeOK', NoDestroys, RefCountExact', RefCountPipe \/ CountsBelowMax,
                    LiveMeansReferenced, [Next]_vars, RefCountPipe \/ NoDelay,
                    NEW h \in DOMAIN m_colorbuffers'
             PROVE  m_colorbuffers'[h].refcount # 0
  BY DEF LiveMeansReferenced
<1>a. BufsOK(Bufs) /\ Bufs.cbs = m_colorbuffers /\ AtOnce
  BY BufsType DEF AtOnce
<1>1. CASE RefCountPipe
  <2>1. m_colorbuffers'[h].refcount > 0
    BY <1>1 DEF RefCountExact, TypeOK
  <2> QED
    BY <2>1
<1>b. CASE ~ RefCountPipe
  <2>a. ASSUME NEW k \in DOMAIN m_colorbuffers PROVE m_colorbuffers[k].refcount \in 1..RefMod - 2
    <3>1. m_colorbuffers[k].refcount \in 0..RefMod - 1
      BY <1>a, CountOf
    <3>2. m_colorbuffers[k].refcount # 0 /\ m_colorbuffers[k].refcount < RefMod - 1
      BY <1>b DEF LiveMeansReferenced, CountsBelowMax
    <3> QED
      BY <3>1, <3>2, TableAssumption
  <2>1. CASE Tick
    <3>1. m_colorbuffers' = m_colorbuffers
      BY <2>1 DEF Tick, tables
    <3> QED
      BY <3>1 DEF LiveMeansReferenced
  <2>2. CASE ClosesOnly
    <3>1. PICK st : Follows(Bufs, st) /\ m_colorbuffers' = st.cbs
      BY <2>2 DEF ClosesOnly
    <3>2. h \in DOMAIN st.cbs /\ h \in DOMAIN m_colorbuffers
      BY <1>a, <3>1 DEF Follows, ListKept
    <3>3. Bufs.cbs[h].refcount \in 1..RefMod - 2
      BY <1>a, <2>a, <3>2
    <3> QED
      BY <1>a, <3>1, <3>2, <3>3 DEF Follows
  <2>3. CASE Creates
    <3> DEFINE c == [cbs |-> SweptColorBuffers, delayed |-> delayed]
    <3>1. Follows(Bufs, c) /\ c.cbs = SweptColorBuffers
      BY <1>a, SweptShrunk, ShrunkFollows
    <3> HIDE DEF c
    <3>2. ASSUME NEW k \in DOMAIN SweptColorBuffers PROVE SweptColorBuffers[k].refcount # 0
      <4>1. Bufs.cbs[k].refcount \in 1..RefMod - 2
        BY <1>a, <2>a, <3>1 DEF Follows, ListKept
      <4> QED
        BY <1>a, <3>1, <4>1 DEF Follows
    <3>3. PICK t \in Threads, k \in Handles : NewColorBuffer(t, k)
      BY <2>3 DEF Creates
    <3> DEFINE new == [refcount |-> 1, opened |-> FALSE, closedTs |-> 0]
    <3>4. \/ m_colorbuffers' = SweptColorBuffers
          \/ m_colorbuffers' = Put(SweptColorBuffers, k, new)
      BY <3>3 DEF NewColorBuffer
    <3>5. new.refcount = 1
      OBVIOUS
    <3> HIDE DEF new
    <3>6. \/ h \in DOMAIN SweptColorBuffers /\ m_colorbuffers'[h] = SweptColorBuffers[h]
          \/ m_colorbuffers'[h] = new
      BY <3>4 DEF Put
    <3> QED
      BY <3>2, <3>5, <3>6
  <2>4. ASSUME NEW t \in Threads, ReapThread(t) PROVE m_colorbuffers'[h].refcount # 0
    <3>1. h \in DOMAIN m_colorbuffers /\ m_colorbuffers'[h] = m_colorbuffers[h]
      BY <2>4 DEF ReapThread, Without
    <3> QED
      BY <3>1 DEF LiveMeansReferenced
  <2> QED
    BY <2>1, <2>2, <2>3, <2>4, BufsStep
<1> QED
  BY <1>1, <1>b

\* Where a close at 0 erases at once, no count in the table is ever 0, so that
\* no close takes a count below zero: with the pipe always, without it as long
\* as no count has reached the largest number it can hold.
THEOREM CountsStayAbove ==
  Spec /\ [](RefCountPipe \/ CountsBelowMax) => []LiveMeansReferenced
<1>1. Init => NoDestroys /\ LiveMeansReferenced
  BY DEF Init, NoDestroys, LiveMeansReferenced
<1> QED
  BY <1>1, LiveStep, TypeCorrect, RefCountCorrect, NoDestroysStep, PTL DEF Spec

=============================================================================
