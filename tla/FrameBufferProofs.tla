--------------------------- MODULE FrameBufferProofs ---------------------------
(***************************************************************************)
(* Proofs about FrameBuffer, for every set of threads and processes, every *)
(* width of handles and counters, and every setting of the feature flags:  *)
(* the tables keep their types and their handles distinct; the delayed     *)
(* close forgets no buffer and erases none before it is due; every colour  *)
(* buffer and context has somebody who will clean it up; and, while the    *)
(* handles do not come back, the ownership sets agree with m_windows.      *)
(***************************************************************************)
EXTENDS FrameBuffer, FiniteSetTheorems, SequenceTheorems, TLAPS

-----------------------------------------------------------------------------
(* The operators.  IsTable is the type of a map with handles for keys.     *)

IsTable(f, S) == DOMAIN f \subseteq Handles /\ f \in [DOMAIN f -> S]

BufsOK(st) ==
    /\ st = [cbs |-> st.cbs, delayed |-> st.delayed]
    /\ IsTable(st.cbs, ColorBufferRef)
    /\ st.delayed \in Seq(CloseInfo)

\* A non-empty set of natural numbers has a least element.
LEMMA LeastNat ==
  ASSUME NEW T, T \subseteq Nat, T # {}
  PROVE  \E x \in T : \A y \in T : x <= y
<1> DEFINE R == OpToRel(<, Nat)
<1>1. \A x, y \in Nat : x < y => <<x, y>> \in R
  BY DEF OpToRel
<1>2. IsWellFoundedOn(R, Nat)
  BY NatLessThanWellFounded
<1> HIDE DEF R
<1>3. PICK x \in T : \A y \in T : ~ (<<y, x>> \in R)
  BY <1>2, WFMin
<1>4. ASSUME NEW y \in T PROVE x <= y
  <2>1. x \in Nat /\ y \in Nat
    OBVIOUS
  <2>2. ~ (y < x)
    BY <1>1, <1>3, <2>1
  <2> QED
    BY <2>1, <2>2
<1> QED
  BY <1>4

\* genHandle_locked returns a handle that no table holds.
LEMMA GenHandleFree ==
  ASSUME NEW cbs, s_nextHandle \in 0..MaxHandle, FreeHandles(cbs) # {}
  PROVE  GenHandle(cbs) \in FreeHandles(cbs)
<1> DEFINE F == FreeHandles(cbs)
           steps(h) == (h - s_nextHandle - 1) % (MaxHandle + 1)
           T == {steps(h) : h \in F}
<1>1. F \subseteq Handles /\ MaxHandle \in Nat
  BY TableAssumption DEF FreeHandles
<1>2. \A h \in F : steps(h) \in Nat
  BY <1>1 DEF Handles
<1>3. T \subseteq Nat /\ T # {}
  BY <1>2
<1> HIDE DEF steps
<1>4. \E x \in T : \A y \in T : x <= y
  BY <1>3, LeastNat
<1>5. \E h \in F : \A k \in F : steps(h) <= steps(k)
  BY <1>4
<1> QED
  BY <1>5 DEF GenHandle, steps

\* There are finitely many handles.
LEMMA HandlesFinite == IsFiniteSet(Handles)
  BY TableAssumption, FS_Interval DEF Handles

\* A listing of a set of handles, in whatever order, lists those handles.
LEMMA SetToSeqType ==
  ASSUME NEW S, IsFiniteSet(S)
  PROVE  /\ SetToSeq(S) \in [1..Cardinality(S) -> S] /\ Cardinality(S) \in Nat
         /\ \A x \in S : \E i \in 1..Cardinality(S) : SetToSeq(S)[i] = x
<1>1. ExistsBijection(1..Cardinality(S), S) /\ Cardinality(S) \in Nat
  BY FS_CardinalityType
<1>2. \E f \in [1..Cardinality(S) -> S] : IsInjective(f)
  BY <1>1 DEF ExistsBijection, Bijection, Injection
<1>3. SetToSeq(S) \in [1..Cardinality(S) -> S] /\ IsInjective(SetToSeq(S))
  BY <1>2 DEF SetToSeq
<1>4. SetToSeq(S) \in Injection(1..Cardinality(S), S)
  BY <1>3 DEF Injection
<1>5. Cardinality(1..Cardinality(S)) = Cardinality(S)
  BY <1>1, FS_Interval
<1>6. SetToSeq(S) \in Surjection(1..Cardinality(S), S)
  BY <1>4, <1>5, FS_Injection
<1> QED
  BY <1>1, <1>3, <1>6 DEF Surjection

\* The unsigned decrement stays within the width of the count.
LEMMA MinusType ==
  ASSUME NEW r \in 0..RefMod - 1, NEW k \in Nat
  PROVE  /\ Minus(r, k) \in 0..RefMod - 1
         /\ k <= r => Minus(r, k) = r - k
  BY TableAssumption DEF Minus

\* Closing buffers at once only removes entries.
LEMMA DropType ==
  ASSUME NEW cbs, IsTable(cbs, ColorBufferRef), NEW n \in [Handles -> Nat]
  PROVE  /\ IsTable(Drop(cbs, n), ColorBufferRef)
         /\ DOMAIN Drop(cbs, n) = DOMAIN cbs \ ReachZero(cbs, n)
         /\ \A h \in DOMAIN Drop(cbs, n) :
               Drop(cbs, n)[h] = [cbs[h] EXCEPT !.refcount = Minus(@, n[h])]
<1>1. ASSUME NEW h \in DOMAIN cbs
      PROVE  [cbs[h] EXCEPT !.refcount = Minus(@, n[h])] \in ColorBufferRef
  <2>1. cbs[h] \in ColorBufferRef /\ n[h] \in Nat
    BY DEF IsTable
  <2>2. Minus(cbs[h].refcount, n[h]) \in 0..RefMod - 1
    BY <2>1, MinusType DEF ColorBufferRef
  <2> QED
    BY <2>1, <2>2 DEF ColorBufferRef
<1> QED
  BY <1>1 DEF Drop, IsTable

\* The entries for a set of closed colour buffers are close infos.
LEMMA StampedType ==
  ASSUME NEW n \in Nat, NEW S, S \subseteq Handles, NEW f \in [1..n -> S], now \in Nat
  PROVE  [i \in 1..n |-> [ts |-> now, h |-> f[i]]] \in Seq(CloseInfo)
<1>1. ASSUME NEW i \in 1..n
      PROVE  [ts |-> now, h |-> f[i]] \in CloseInfo
  <2>1. f[i] \in Handles
    OBVIOUS
  <2>2. f[i] \in 0..MaxHandle
    BY <2>1, TableAssumption DEF Handles
  <2> QED
    BY <2>2 DEF CloseInfo
<1> QED
  BY <1>1

\* Appending them keeps the delayed close list well typed.
LEMMA PushDelayedType ==
  ASSUME NEW q \in Seq(CloseInfo), NEW S, S \subseteq Handles, now \in Nat
  PROVE  PushDelayed(q, S) \in Seq(CloseInfo)
<1>1. IsFiniteSet(S)
  BY HandlesFinite, FS_Subset
<1>2. SetToSeq(S) \in [1..Cardinality(S) -> S] /\ Cardinality(S) \in Nat
  BY <1>1, SetToSeqType
<1>3. [i \in 1..Cardinality(S) |-> [ts |-> now, h |-> SetToSeq(S)[i]]] \in Seq(CloseInfo)
  BY <1>2, StampedType
<1> QED
  BY <1>3, ConcatProperties DEF PushDelayed

\* So does a close that queues for the delayed close.
LEMMA DropDelayedType ==
  ASSUME NEW st, BufsOK(st), NEW n \in [Handles -> Nat], now \in Nat
  PROVE  /\ BufsOK(DropDelayed(st, n))
         /\ DOMAIN DropDelayed(st, n).cbs = DOMAIN st.cbs
<1> DEFINE zero == ReachZero(st.cbs, n)
<1>1. zero \subseteq Handles
  BY DEF ReachZero, BufsOK, IsTable
<1>2. PushDelayed(st.delayed, zero) \in Seq(CloseInfo)
  BY <1>1, PushDelayedType DEF BufsOK
<1>3. ASSUME NEW h \in DOMAIN st.cbs
      PROVE  [st.cbs[h] EXCEPT !.refcount = Minus(@, n[h]),
                               !.closedTs = IF h \in zero THEN now ELSE @] \in ColorBufferRef
  <2>1. st.cbs[h] \in ColorBufferRef /\ n[h] \in Nat
    BY DEF BufsOK, IsTable
  <2>2. Minus(st.cbs[h].refcount, n[h]) \in 0..RefMod - 1
    BY <2>1, MinusType DEF ColorBufferRef
  <2> QED
    BY <2>1, <2>2 DEF ColorBufferRef
<1> QED
  BY <1>2, <1>3 DEF DropDelayed, BufsOK, IsTable

\* So does running the expired delayed closes.
LEMMA PerformDelayedType ==
  ASSUME NEW st, BufsOK(st)
  PROVE  /\ BufsOK(PerformDelayed(st))
         /\ DOMAIN PerformDelayed(st).cbs \subseteq DOMAIN st.cbs
<1> DEFINE q == st.delayed
           K == {k \in 1..Len(q) : \A i \in 1..k : Expired(q[i])}
           n == Cardinality(K)
<1>1. q \in Seq(CloseInfo) /\ Len(q) \in Nat
  BY DEF BufsOK
<1>2. n \in Nat
  <2>1. IsFiniteSet(1..Len(q))
    BY <1>1, FS_Interval
  <2>2. IsFiniteSet(K)
    BY <2>1, FS_Subset
  <2> QED
    BY <2>2, FS_CardinalityType
<1> HIDE DEF n
<1>3. SubSeq(q, n + 1, Len(q)) \in Seq(CloseInfo)
  <2>1. \A i \in n + 1..Len(q) : q[i] \in CloseInfo
    BY <1>1, <1>2
  <2> QED
    BY <1>1, <1>2, <2>1, SubSeqProperties
<1>4. IsTable(Without(st.cbs, {q[i].h : i \in 1..n}), ColorBufferRef)
  BY DEF BufsOK, IsTable, Without
<1>5. DOMAIN Without(st.cbs, {q[i].h : i \in 1..n}) \subseteq DOMAIN st.cbs
  BY DEF Without
<1> QED
  BY <1>3, <1>4, <1>5 DEF PerformDelayed, BufsOK, n

\* Closing one handle once is a multiplicity for every handle.
LEMMA OneType ==
  ASSUME NEW h \in Handles
  PROVE  One(h) \in [Handles -> Nat]
  BY DEF One

\* Closing colour buffers adds no entry and keeps the types.
LEMMA CloseLockedType ==
  ASSUME NEW st, BufsOK(st), NEW n \in [Handles -> Nat], now \in Nat
  PROVE  /\ BufsOK(CloseLocked(st, n))
         /\ DOMAIN CloseLocked(st, n).cbs \subseteq DOMAIN st.cbs
<1> DEFINE found == {h \in DOMAIN st.cbs : n[h] > 0}
           first == CHOOSE h \in found : TRUE
           st1   == DropDelayed(st, One(first))
           st2   == PerformDelayed(st1)
           rest  == [n EXCEPT ![first] = @ - 1]
<1>1. CASE RefCountPipe \/ found = {}
  <2>1. CloseLocked(st, n) = st
    BY <1>1 DEF CloseLocked
  <2> QED
    BY <2>1
<1>2. CASE ~ RefCountPipe /\ found # {} /\ NoDelay
  <2>1. CloseLocked(st, n) = [st EXCEPT !.cbs = Drop(@, n)]
    BY <1>2 DEF CloseLocked
  <2>2. /\ IsTable(Drop(st.cbs, n), ColorBufferRef)
        /\ DOMAIN Drop(st.cbs, n) \subseteq DOMAIN st.cbs
    <3>1. IsTable(st.cbs, ColorBufferRef)
      BY DEF BufsOK
    <3>2. DOMAIN Drop(st.cbs, n) = DOMAIN st.cbs \ ReachZero(st.cbs, n)
      BY <3>1, DropType
    <3> QED
      BY <3>1, <3>2, DropType
  <2>3. [st EXCEPT !.cbs = Drop(@, n)] = [cbs |-> Drop(st.cbs, n), delayed |-> st.delayed]
    BY DEF BufsOK
  <2> QED
    BY <2>1, <2>2, <2>3 DEF BufsOK
<1>3. CASE ~ RefCountPipe /\ found # {} /\ ~ NoDelay
  <2>1. CloseLocked(st, n) = DropDelayed(st2, rest)
    BY <1>3 DEF CloseLocked
  <2>2. first \in DOMAIN st.cbs /\ n[first] > 0
    BY <1>3
  <2>3. first \in Handles
    BY <2>2 DEF BufsOK, IsTable
  <2> HIDE DEF first
  <2>4. One(first) \in [Handles -> Nat] /\ rest \in [Handles -> Nat]
    BY <2>2, <2>3, OneType
  <2> HIDE DEF rest
  <2>5. BufsOK(st1) /\ DOMAIN st1.cbs = DOMAIN st.cbs
    BY <2>4, DropDelayedType
  <2> HIDE DEF st1
  <2>6. BufsOK(st2) /\ DOMAIN st2.cbs \subseteq DOMAIN st1.cbs
    BY <2>5, PerformDelayedType
  <2> HIDE DEF st2
  <2>7. BufsOK(DropDelayed(st2, rest)) /\ DOMAIN DropDelayed(st2, rest).cbs = DOMAIN st2.cbs
    BY <2>4, <2>6, DropDelayedType
  <2> QED
    BY <2>1, <2>5, <2>6, <2>7
<1> QED
  BY <1>1, <1>2, <1>3, TableAssumption

\* Opening or posting a colour buffer touches its entry and the list.
LEMMA MarkOpenedType ==
  ASSUME NEW st, BufsOK(st), NEW h \in DOMAIN st.cbs
  PROVE  /\ BufsOK(MarkOpened(st, h))
         /\ DOMAIN MarkOpened(st, h).cbs = DOMAIN st.cbs
         /\ \A k \in DOMAIN st.cbs : MarkOpened(st, h).cbs[k].refcount = st.cbs[k].refcount
<1> DEFINE q == st.delayed
           ts == st.cbs[h].closedTs
<1>1. q \in Seq(CloseInfo)
  BY DEF BufsOK
<1>2. ASSUME NEW i \in 1..Len(q)
      PROVE  q[i] \in CloseInfo /\ [q[i] EXCEPT !.h = 0] \in CloseInfo
  <2>1. q[i] \in CloseInfo /\ 0 \in 0..MaxHandle
    BY <1>1, TableAssumption
  <2> HIDE DEF q
  <2> QED
    BY <2>1 DEF CloseInfo
<1>3. EraseDelayed(q, h, ts) \in Seq(CloseInfo)
  BY <1>1, <1>2 DEF EraseDelayed
<1>4. [st.cbs EXCEPT ![h].opened = TRUE, ![h].closedTs = 0] \in [DOMAIN st.cbs -> ColorBufferRef]
  BY DEF BufsOK, IsTable, ColorBufferRef
<1>5. \A k \in DOMAIN st.cbs :
        [st.cbs EXCEPT ![h].opened = TRUE, ![h].closedTs = 0][k].refcount = st.cbs[k].refcount
  BY DEF BufsOK, IsTable, ColorBufferRef
<1> HIDE DEF q, ts
<1> QED
  BY <1>3, <1>4, <1>5 DEF MarkOpened, BufsOK, IsTable, q, ts

-----------------------------------------------------------------------------
(* The derived tables. *)

\* The colour buffer state every operation starts from is well typed.
LEMMA BufsType ==
  ASSUME TypeOK
  PROVE  BufsOK(Bufs) /\ Bufs.cbs = m_colorbuffers /\ Bufs.delayed = delayed
  BY DEF TypeOK, Bufs, BufsOK, IsTable

\* The outstanding destroys of a handle can be counted.
LEMMA QueuedType ==
  ASSUME destroys \in Seq(Handles), NEW h
  PROVE  Queued(h) \in Nat
<1>1. IsFiniteSet(1..Len(destroys))
  BY FS_Interval
<1>2. IsFiniteSet({i \in DOMAIN destroys : destroys[i] = h})
  BY <1>1, FS_Subset
<1> QED
  BY <1>2, FS_CardinalityType DEF Queued

\* A sweep only removes colour buffers.
LEMMA SweptType ==
  ASSUME TypeOK
  PROVE  /\ IsTable(SweptColorBuffers, ColorBufferRef)
         /\ DOMAIN SweptColorBuffers \subseteq DOMAIN m_colorbuffers
<1> DEFINE n == [h \in Handles |-> Queued(h)]
<1>1. n \in [Handles -> Nat]
  BY QueuedType DEF TypeOK
<1>2. IsTable(m_colorbuffers, ColorBufferRef)
  BY DEF TypeOK, IsTable
<1> HIDE DEF n
<1>3. /\ IsTable(Drop(m_colorbuffers, n), ColorBufferRef)
      /\ DOMAIN Drop(m_colorbuffers, n) = DOMAIN m_colorbuffers \ ReachZero(m_colorbuffers, n)
  BY <1>1, <1>2, DropType
<1> QED
  BY <1>3 DEF SweptColorBuffers, n

\* The windows a colour buffer is attached to can be counted.
LEMMA AttachedType ==
  ASSUME NEW W, W \subseteq Handles, NEW h
  PROVE  Attached(W, h) \in Nat /\ OwnedBy(W, h) \in Nat
<1>1. IsFiniteSet(W)
  BY HandlesFinite, FS_Subset
<1>2. /\ IsFiniteSet({w \in W : m_windows[w].cb = h})
      /\ IsFiniteSet({w \in W : h \in m_windows[w].owned})
  BY <1>1, FS_Subset
<1> QED
  BY <1>2, FS_CardinalityType DEF Attached, OwnedBy

\* Releasing windows only removes colour buffers.
LEMMA ReleaseWindowsType ==
  ASSUME TypeOK, NEW W, W \subseteq Handles, NEW all \in BOOLEAN
  PROVE  /\ BufsOK(ReleaseWindows(W, all))
         /\ DOMAIN ReleaseWindows(W, all).cbs \subseteq DOMAIN m_colorbuffers
<1> DEFINE n == [h \in Handles |-> Attached(W, h) + IF all THEN OwnedBy(W, h) ELSE 0]
           a == [h \in Handles |-> Attached(W, h)]
<1>1. n \in [Handles -> Nat] /\ a \in [Handles -> Nat]
  BY AttachedType
<1> HIDE DEF n, a
<1>2. BufsOK(Bufs) /\ Bufs.cbs = m_colorbuffers /\ now \in Nat
  BY BufsType DEF TypeOK
<1>3. CASE RefCountPipe
  <2>1. ReleaseWindows(W, all) = [Bufs EXCEPT !.cbs = Drop(@, a)]
    BY <1>3 DEF ReleaseWindows, a
  <2>2. [Bufs EXCEPT !.cbs = Drop(@, a)] = [cbs |-> Drop(m_colorbuffers, a), delayed |-> delayed]
    BY DEF Bufs
  <2>3. IsTable(m_colorbuffers, ColorBufferRef) /\ delayed \in Seq(CloseInfo)
    BY DEF TypeOK, IsTable
  <2>4. /\ IsTable(Drop(m_colorbuffers, a), ColorBufferRef)
        /\ DOMAIN Drop(m_colorbuffers, a) = DOMAIN m_colorbuffers \ ReachZero(m_colorbuffers, a)
    BY <1>1, <2>3, DropType
  <2> QED
    BY <2>1, <2>2, <2>3, <2>4 DEF BufsOK
<1>4. CASE ~ RefCountPipe
  <2>1. ReleaseWindows(W, all) = CloseLocked(Bufs, n)
    BY <1>4 DEF ReleaseWindows, n
  <2> QED
    BY <1>1, <1>2, <2>1, CloseLockedType
<1> QED
  BY <1>3, <1>4

\* Adding a reference keeps the types.
LEMMA AddReferenceType ==
  ASSUME NEW st, BufsOK(st), NEW h \in DOMAIN st.cbs
  PROVE  /\ BufsOK([st EXCEPT !.cbs[h].refcount = (@ + 1) % RefMod])
         /\ DOMAIN [st EXCEPT !.cbs[h].refcount = (@ + 1) % RefMod].cbs = DOMAIN st.cbs
<1> DEFINE r  == (st.cbs[h].refcount + 1) % RefMod
           cb == [st.cbs[h] EXCEPT !.refcount = r]
           cbs == [st.cbs EXCEPT ![h] = cb]
<1>1. st.cbs[h] \in ColorBufferRef /\ st.cbs \in [DOMAIN st.cbs -> ColorBufferRef]
  BY DEF BufsOK, IsTable
<1>2. r \in 0..RefMod - 1
  BY <1>1, TableAssumption DEF ColorBufferRef
<1> HIDE DEF r
<1>3. cb \in ColorBufferRef
  BY <1>1, <1>2 DEF ColorBufferRef
<1> HIDE DEF cb
<1>4. IsTable(cbs, ColorBufferRef) /\ DOMAIN cbs = DOMAIN st.cbs
  BY <1>1, <1>3 DEF BufsOK, IsTable
<1>5. [st EXCEPT !.cbs[h].refcount = (@ + 1) % RefMod] = [cbs |-> cbs, delayed |-> st.delayed]
  BY DEF BufsOK, cb, r
<1> HIDE DEF cbs
<1> QED
  BY <1>4, <1>5 DEF BufsOK

\* Attaching a colour buffer adds none.
LEMMA AttachType ==
  ASSUME TypeOK, NEW w \in DOMAIN m_windows, NEW h \in DOMAIN m_colorbuffers
  PROVE  /\ BufsOK(AfterAttach(w, h))
         /\ DOMAIN AfterAttach(w, h).cbs \subseteq DOMAIN m_colorbuffers
<1> DEFINE old  == m_windows[w].cb
           used == MarkOpened(Bufs, h)
           st   == CASE old = 0 -> used
                     [] old # 0 /\ RefCountPipe -> [used EXCEPT !.cbs = Drop(@, One(old))]
                     [] old # 0 /\ ~ RefCountPipe -> CloseLocked(used, One(old))
<1>1. BufsOK(used) /\ DOMAIN used.cbs = DOMAIN m_colorbuffers
  BY BufsType, MarkOpenedType
<1>2. old \in 0..MaxHandle /\ now \in Nat
  BY DEF TypeOK, WindowEntry
<1> HIDE DEF used, old
<1>3. old # 0 => One(old) \in [Handles -> Nat]
  BY <1>2, OneType, TableAssumption DEF Handles
<1>4. BufsOK(st) /\ DOMAIN st.cbs \subseteq DOMAIN m_colorbuffers
  <2>1. CASE old = 0
    BY <1>1, <2>1
  <2>2. CASE old # 0 /\ RefCountPipe
    <3>1. IsTable(used.cbs, ColorBufferRef)
      BY <1>1 DEF BufsOK
    <3>2. /\ IsTable(Drop(used.cbs, One(old)), ColorBufferRef)
          /\ DOMAIN Drop(used.cbs, One(old)) = DOMAIN used.cbs \ ReachZero(used.cbs, One(old))
      BY <1>3, <2>2, <3>1, DropType
    <3>3. st = [cbs |-> Drop(used.cbs, One(old)), delayed |-> used.delayed]
      BY <1>1, <2>2 DEF BufsOK
    <3> QED
      BY <1>1, <3>2, <3>3 DEF BufsOK
  <2>3. CASE old # 0 /\ ~ RefCountPipe
    <3>1. st = CloseLocked(used, One(old))
      BY <2>3
    <3> HIDE DEF st
    <3> QED
      BY <1>1, <1>2, <1>3, <2>3, <3>1, CloseLockedType
  <2> QED
    BY <2>1, <2>2, <2>3, TableAssumption
<1>5. AfterAttach(w, h) = IF h \in DOMAIN st.cbs
                          THEN [st EXCEPT !.cbs[h].refcount = (@ + 1) % RefMod] ELSE st
  BY DEF AfterAttach, used, old
<1> HIDE DEF st
<1>6. CASE h \in DOMAIN st.cbs
  <2> DEFINE st1 == [st EXCEPT !.cbs[h].refcount = (@ + 1) % RefMod]
  <2>1. BufsOK(st1) /\ DOMAIN st1.cbs = DOMAIN st.cbs
    BY <1>4, <1>6, AddReferenceType
  <2>2. AfterAttach(w, h) = st1
    BY <1>5, <1>6
  <2> HIDE DEF st1
  <2> QED
    BY <1>4, <2>1, <2>2
<1>7. CASE h \notin DOMAIN st.cbs
  BY <1>4, <1>5, <1>7
<1> QED
  BY <1>6, <1>7

-----------------------------------------------------------------------------
(* Type correctness. *)

\* An operation that ends in a well typed colour buffer state stores one.
LEMMA SetBufsType ==
  ASSUME NEW st, BufsOK(st), SetBufs(st)
  PROVE  /\ DOMAIN m_colorbuffers' \subseteq Handles
         /\ m_colorbuffers' \in [DOMAIN m_colorbuffers' -> ColorBufferRef]
         /\ delayed' \in Seq(CloseInfo)
  BY DEF SetBufs, BufsOK, IsTable

\* One more or one less owned reference is a number again.
LEMMA CountType ==
  ASSUME NEW f \in [Puids -> [Handles -> Nat]], NEW p \in Puids, NEW h \in Handles
  PROVE  /\ [f EXCEPT ![p][h] = @ + 1] \in [Puids -> [Handles -> Nat]]
         /\ f[p][h] > 0 => [f EXCEPT ![p][h] = @ - 1] \in [Puids -> [Handles -> Nat]]
  OBVIOUS

\* The state of a thread that does not exist is well typed.
LEMMA NoThreadType == NoThread \in ThreadInfo
  BY DEF NoThread, ThreadInfo

\* Changing one field of a thread info keeps it well typed.
LEMMA ThreadInfoFields ==
  ASSUME NEW r \in ThreadInfo, NEW W \in SUBSET Handles,
         NEW l \in {"none", "running", "unbound", "drained", "finished"}
  PROVE  /\ [r EXCEPT !.life = l] \in ThreadInfo
         /\ [r EXCEPT !.windowSet = W] \in ThreadInfo
         /\ [r EXCEPT !.contextSet = W] \in ThreadInfo
         /\ [r EXCEPT !.life = l, !.windowSet = W] \in ThreadInfo
         /\ [r EXCEPT !.life = l, !.contextSet = W] \in ThreadInfo
  BY Zenon DEF ThreadInfo

\* Replacing the info of one thread keeps the table of threads well typed.
LEMMA ThreadUpdate ==
  ASSUME TypeOK, NEW t \in Threads, NEW v \in ThreadInfo
  PROVE  [tinfo EXCEPT ![t] = v] \in [Threads -> ThreadInfo]
  BY DEF TypeOK

\* What a new colour buffer does to the table and the ownership sets.
LEMMA NewColorBufferType ==
  ASSUME TypeOK, NEW t \in Threads, NEW h \in Handles, NewColorBuffer(t, h)
  PROVE  /\ DOMAIN m_colorbuffers' \subseteq DOMAIN m_colorbuffers \cup {h}
         /\ m_colorbuffers' \in [DOMAIN m_colorbuffers' -> ColorBufferRef]
         /\ procCB' \in [Puids -> [Handles -> Nat]]
         /\ pthreadCB' \in [Threads -> SUBSET Handles]
         /\ guestRefs' \in [Handles -> Nat]
<1> DEFINE new == [refcount |-> 1, opened |-> FALSE, closedTs |-> 0]
           puid == tinfo[t].puid
<1>1. /\ IsTable(SweptColorBuffers, ColorBufferRef)
      /\ DOMAIN SweptColorBuffers \subseteq DOMAIN m_colorbuffers
  BY SweptType
<1>2. new \in ColorBufferRef
  BY TableAssumption DEF ColorBufferRef
<1> HIDE DEF new
<1>3. /\ DOMAIN Put(SweptColorBuffers, h, new) = DOMAIN SweptColorBuffers \cup {h}
      /\ IsTable(Put(SweptColorBuffers, h, new), ColorBufferRef)
  BY <1>1, <1>2 DEF Put, IsTable
<1>4. m_colorbuffers' \in {Put(SweptColorBuffers, h, new), SweptColorBuffers}
  BY DEF NewColorBuffer, new
<1>5. puid \in Puids \cup {0}
  BY DEF TypeOK, ThreadInfo
<1>6. procCB' \in [Puids -> [Handles -> Nat]]
  <2>1. \/ procCB' = procCB
        \/ puid # 0 /\ procCB' = [procCB EXCEPT ![puid][h] = @ + 1]
    BY DEF NewColorBuffer
  <2> HIDE DEF puid
  <2>2. procCB \in [Puids -> [Handles -> Nat]]
    BY DEF TypeOK
  <2>3. puid # 0 => [procCB EXCEPT ![puid][h] = @ + 1] \in [Puids -> [Handles -> Nat]]
    BY <1>5, <2>2, CountType
  <2> QED
    BY <2>1, <2>2, <2>3, Zenon
<1>7. pthreadCB' \in [Threads -> SUBSET Handles]
  <2>1. pthreadCB' = pthreadCB \/ pthreadCB' = [pthreadCB EXCEPT ![t] = @ \cup {h}]
    BY DEF NewColorBuffer
  <2>2. pthreadCB \in [Threads -> SUBSET Handles] /\ [pthreadCB EXCEPT ![t] = @ \cup {h}] \in [Threads -> SUBSET Handles]
    BY DEF TypeOK
  <2> QED
    BY <2>1, <2>2, Zenon
<1>8. guestRefs' \in [Handles -> Nat]
  <2>1. guestRefs' = guestRefs \/ guestRefs' = [guestRefs EXCEPT ![h] = 1]
    BY DEF NewColorBuffer
  <2>2. guestRefs \in [Handles -> Nat] /\ [guestRefs EXCEPT ![h] = 1] \in [Handles -> Nat]
    BY DEF TypeOK
  <2> QED
    BY <2>1, <2>2, Zenon
<1> QED
  BY <1>1, <1>3, <1>4, <1>6, <1>7, <1>8 DEF IsTable

\* A drawn handle is a handle.
LEMMA DrawType ==
  ASSUME TypeOK, NEW cbs, CanDraw(cbs), s_nextHandle' = GenHandle(cbs)
  PROVE  s_nextHandle' \in FreeHandles(cbs) /\ s_nextHandle' \in Handles
         /\ s_nextHandle' \in 0..MaxHandle
<1>1. s_nextHandle' \in FreeHandles(cbs)
  BY GenHandleFree DEF CanDraw, TypeOK
<1>2. s_nextHandle' \in Handles
  BY <1>1 DEF FreeHandles
<1> QED
  BY <1>1, <1>2, TableAssumption DEF Handles

\* Adding to or removing from an ownership set keeps the sets well typed.
LEMMA OwnType ==
  ASSUME NEW owned \in [Puids -> SUBSET Handles], NEW puid \in Puids \cup {0},
         NEW h \in Handles
  PROVE  /\ Own(owned, puid, h) \in [Puids -> SUBSET Handles]
         /\ Disown(owned, puid, h) \in [Puids -> SUBSET Handles]
  BY DEF Own, Disown

\* Every step keeps TypeOK.
LEMMA TypeStep == TypeOK /\ [Next]_vars => TypeOK'
<1> SUFFICES ASSUME TypeOK, [Next]_vars
             PROVE  TypeOK'
  OBVIOUS
<1> USE DEF tables, owners, guest, flags
<1>1. CASE UNCHANGED vars
  BY <1>1 DEF TypeOK, vars
<1>2. CASE Tick
  <2>1. now' \in Nat
    BY <1>2, TableAssumption DEF Tick, TypeOK
  <2> QED
    BY <1>2, <2>1 DEF Tick, TypeOK
<1>3. CASE SetShuttingDown
  BY <1>3 DEF SetShuttingDown, TypeOK
<1>4. CASE CloseAllColorBuffer
  <2>1. [h \in Handles |-> 1] \in [Handles -> Nat]
    OBVIOUS
  <2>2. BufsOK(CloseLocked(Bufs, [h \in Handles |-> 1]))
    BY <2>1, BufsType, CloseLockedType DEF TypeOK
  <2>3. /\ DOMAIN m_colorbuffers' \subseteq Handles
        /\ m_colorbuffers' \in [DOMAIN m_colorbuffers' -> ColorBufferRef]
        /\ delayed' \in Seq(CloseInfo)
    BY <1>4, <2>2, SetBufsType DEF CloseAllColorBuffer
  <2> QED
    BY <1>4, <2>3 DEF CloseAllColorBuffer, TypeOK
<1>5. ASSUME NEW p \in Puids, CleanupProcGLObjects(p) PROVE TypeOK'
  <2> DEFINE W  == procWin[p] \cap DOMAIN m_windows
             st == ReleaseWindows(W, FALSE)
  <2>1. W \subseteq Handles /\ procCB[p] \in [Handles -> Nat]
    BY DEF TypeOK
  <2>2. BufsOK(st)
    BY <2>1, ReleaseWindowsType
  <2> HIDE DEF st
  <2>3. BufsOK(CloseLocked(st, procCB[p]))
    BY <2>1, <2>2, CloseLockedType DEF TypeOK
  <2>4. SetBufs(CloseLocked(st, procCB[p]))
    BY <1>5 DEF CleanupProcGLObjects, st
  <2>5. /\ DOMAIN m_colorbuffers' \subseteq Handles
        /\ m_colorbuffers' \in [DOMAIN m_colorbuffers' -> ColorBufferRef]
        /\ delayed' \in Seq(CloseInfo)
    BY <2>3, <2>4, SetBufsType
  <2>6. DOMAIN m_windows' \subseteq Handles /\ m_windows' \in [DOMAIN m_windows' -> WindowEntry]
    BY <1>5 DEF CleanupProcGLObjects, Without, TypeOK
  <2>7. /\ procWin' \in [Puids -> SUBSET Handles] /\ procCtx' \in [Puids -> SUBSET Handles]
        /\ procCB' \in [Puids -> [Handles -> Nat]]
    BY <1>5 DEF CleanupProcGLObjects, TypeOK
  <2> QED
    BY <1>5, <2>5, <2>6, <2>7 DEF CleanupProcGLObjects, TypeOK
<1>6. ASSUME NEW h \in Handles, OnLastColorBufferRef(h) PROVE TypeOK'
  <2>1. destroys' \in Seq(Handles) /\ Len(destroys') <= ChannelCap
    <3>1. destroys \in Seq(Handles) /\ Len(destroys) \in Nat /\ Len(destroys) <= ChannelCap
      BY DEF TypeOK
    <3>2. CASE Len(destroys) < ChannelCap /\ destroys' = Append(destroys, h)
      BY <3>1, <3>2, TableAssumption
    <3>3. CASE destroys' = destroys
      BY <3>1, <3>3
    <3> QED
      BY <1>6, <3>2, <3>3 DEF OnLastColorBufferRef
  <2>2. leaked' = leaked \/ leaked' = leaked \cup {h}
    BY <1>6 DEF OnLastColorBufferRef
  <2>3. leaked' \subseteq Handles
    BY <2>2 DEF TypeOK
  <2>4. guestRefs' \in [Handles -> Nat]
    BY <1>6 DEF OnLastColorBufferRef, TypeOK
  <2> QED
    BY <1>6, <2>1, <2>3, <2>4 DEF OnLastColorBufferRef, TypeOK
<1>7. ASSUME NEW t \in Threads, StartThread(t) PROVE TypeOK'
  <2>1. [NoThread EXCEPT !.life = "running"] \in ThreadInfo
    BY NoThreadType, ThreadInfoFields
  <2>2. tinfo' \in [Threads -> ThreadInfo]
    BY <1>7, <2>1, ThreadUpdate DEF StartThread
  <2> QED
    BY <1>7, <2>2 DEF StartThread, TypeOK
<1>8. ASSUME NEW t \in Threads, ExitThread(t) PROVE TypeOK'
  <2>1. tinfo[t] \in ThreadInfo
    BY DEF TypeOK
  <2>2. /\ [tinfo[t] EXCEPT !.life = "finished"] \in ThreadInfo
        /\ [tinfo[t] EXCEPT !.life = "unbound"] \in ThreadInfo
    BY <2>1, ThreadInfoFields
  <2>3. tinfo' \in {[tinfo EXCEPT ![t] = [@ EXCEPT !.life = "finished"]],
                   [tinfo EXCEPT ![t] = [@ EXCEPT !.life = "unbound"]]}
    BY <1>8 DEF ExitThread
  <2>4. tinfo' \in [Threads -> ThreadInfo]
    BY <2>2, <2>3, ThreadUpdate
  <2>5. /\ m_colorbuffers' \in {m_colorbuffers, SweptColorBuffers}
        /\ destroys' \in {destroys, << >>}
    BY <1>8 DEF ExitThread
  <2>6. /\ DOMAIN m_colorbuffers' \subseteq Handles
        /\ m_colorbuffers' \in [DOMAIN m_colorbuffers' -> ColorBufferRef]
    BY <2>5, SweptType DEF TypeOK, IsTable
  <2>7. destroys' \in Seq(Handles) /\ Len(destroys') <= ChannelCap
    <3>1. CASE destroys' = destroys
      BY <3>1 DEF TypeOK
    <3>2. CASE destroys' = << >>
      BY <3>2, TableAssumption
    <3> QED
      BY <2>5, <3>1, <3>2
  <2> QED
    BY <1>8, <2>4, <2>6, <2>7 DEF ExitThread, TypeOK
<1>9. ASSUME NEW t \in Threads, DrainWindowSurface(t) PROVE TypeOK'
  <2> DEFINE W == {w \in tinfo[t].windowSet \cap DOMAIN m_windows : m_windows[w].cb # 0}
  <2>1. tinfo' \in [Threads -> ThreadInfo]
    <3>1. tinfo[t] \in ThreadInfo
      BY DEF TypeOK
    <3>2. /\ [tinfo[t] EXCEPT !.life = "drained"] \in ThreadInfo
          /\ [tinfo[t] EXCEPT !.life = "drained", !.windowSet = {}] \in ThreadInfo
      BY <3>1, ThreadInfoFields
    <3>3. tinfo' \in {[tinfo EXCEPT ![t] = [@ EXCEPT !.life = "drained"]],
                     [tinfo EXCEPT ![t] = [@ EXCEPT !.life = "drained", !.windowSet = {}]]}
      BY <1>9 DEF DrainWindowSurface
    <3> QED
      BY <3>2, <3>3, ThreadUpdate
  <2>2. W \subseteq Handles
    BY DEF TypeOK
  <2>3. BufsOK(ReleaseWindows(W, TRUE))
    BY <2>2, ReleaseWindowsType
  <2>4. \/ UNCHANGED <<m_windows, m_colorbuffers, delayed>>
        \/ SetBufs(ReleaseWindows(W, TRUE)) /\ m_windows' = Without(m_windows, W)
    BY <1>9 DEF DrainWindowSurface
  <2> HIDE DEF W
  <2>5. /\ DOMAIN m_colorbuffers' \subseteq Handles
        /\ m_colorbuffers' \in [DOMAIN m_colorbuffers' -> ColorBufferRef]
        /\ delayed' \in Seq(CloseInfo)
    BY <2>3, <2>4, SetBufsType DEF TypeOK
  <2>6. DOMAIN m_windows' \subseteq Handles /\ m_windows' \in [DOMAIN m_windows' -> WindowEntry]
    BY <2>4 DEF Without, TypeOK
  <2> QED
    BY <1>9, <2>1, <2>5, <2>6 DEF DrainWindowSurface, TypeOK
<1>10. ASSUME NEW t \in Threads, ReapThread(t) PROVE TypeOK'
  <2>1. /\ DOMAIN m_colorbuffers' \subseteq Handles
        /\ m_colorbuffers' \in [DOMAIN m_colorbuffers' -> ColorBufferRef]
    BY <1>10 DEF ReapThread, Without, TypeOK
  <2>2. pthreadCB' \in [Threads -> SUBSET Handles] /\ tinfo' \in [Threads -> ThreadInfo]
    BY <1>10, NoThreadType DEF ReapThread, TypeOK
  <2> QED
    BY <1>10, <2>1, <2>2 DEF ReapThread, TypeOK
<1>11. ASSUME NEW t \in Threads, CreateColorBuffer(t) PROVE TypeOK'
  <2>1. s_nextHandle' \in Handles /\ s_nextHandle' \in 0..MaxHandle
    BY <1>11, DrawType DEF CreateColorBuffer
  <2>2. NewColorBuffer(t, s_nextHandle')
    BY <1>11 DEF CreateColorBuffer
  <2>3. /\ DOMAIN m_colorbuffers' \subseteq DOMAIN m_colorbuffers \cup {s_nextHandle'}
        /\ m_colorbuffers' \in [DOMAIN m_colorbuffers' -> ColorBufferRef]
        /\ procCB' \in [Puids -> [Handles -> Nat]]
        /\ pthreadCB' \in [Threads -> SUBSET Handles]
        /\ guestRefs' \in [Handles -> Nat]
    BY <2>1, <2>2, NewColorBufferType
  <2>4. destroys' \in Seq(Handles) /\ Len(destroys') <= ChannelCap
    BY <1>11, TableAssumption DEF CreateColorBuffer
  <2> QED
    BY <1>11, <2>1, <2>3, <2>4 DEF CreateColorBuffer, TypeOK
<1>12. ASSUME NEW t \in Threads, NEW h \in GuestHandles, CreateColorBufferWithHandle(t, h)
       PROVE  TypeOK'
  <2>1. h \in Handles /\ NewColorBuffer(t, h)
    BY <1>12, TableAssumption DEF CreateColorBufferWithHandle
  <2>2. /\ DOMAIN m_colorbuffers' \subseteq DOMAIN m_colorbuffers \cup {h}
        /\ m_colorbuffers' \in [DOMAIN m_colorbuffers' -> ColorBufferRef]
        /\ procCB' \in [Puids -> [Handles -> Nat]]
        /\ pthreadCB' \in [Threads -> SUBSET Handles]
        /\ guestRefs' \in [Handles -> Nat]
    BY <2>1, NewColorBufferType
  <2>3. destroys' \in Seq(Handles) /\ Len(destroys') <= ChannelCap
    BY <1>12, TableAssumption DEF CreateColorBufferWithHandle
  <2> QED
    BY <1>12, <2>1, <2>2, <2>3 DEF CreateColorBufferWithHandle, TypeOK
<1>13. ASSUME NEW t \in Threads, CreateBuffer(t) PROVE TypeOK'
  <2>1. s_nextHandle' \in Handles /\ s_nextHandle' \in 0..MaxHandle
    BY <1>13, DrawType DEF CreateBuffer
  <2> QED
    BY <1>13, <2>1 DEF CreateBuffer, TypeOK
<1>14. ASSUME NEW t \in Threads, NEW h \in Handles, CloseBuffer(t, h) PROVE TypeOK'
  BY <1>14 DEF CloseBuffer, TypeOK
<1>15. ASSUME NEW t \in Threads, CreateRenderContext(t) PROVE TypeOK'
  <2>1. s_nextHandle' \in Handles /\ s_nextHandle' \in 0..MaxHandle
    BY <1>15, DrawType DEF CreateRenderContext
  <2>2. tinfo[t].puid \in Puids \cup {0}
    BY DEF TypeOK, ThreadInfo
  <2>3. procCtx' \in [Puids -> SUBSET Handles]
    <3>1. procCtx' = procCtx \/ procCtx' = Own(procCtx, tinfo[t].puid, s_nextHandle')
      BY <1>15 DEF CreateRenderContext
    <3>2. procCtx \in [Puids -> SUBSET Handles]
      BY DEF TypeOK
    <3>3. Own(procCtx, tinfo[t].puid, s_nextHandle') \in [Puids -> SUBSET Handles]
      BY <2>1, <2>2, <3>2, OwnType
    <3> QED
      BY <3>1, <3>2, <3>3, Zenon
  <2>4. tinfo' \in [Threads -> ThreadInfo]
    <3>1. tinfo[t] \in ThreadInfo /\ tinfo[t].contextSet \in SUBSET Handles
      BY DEF TypeOK, ThreadInfo
    <3>2. tinfo[t].contextSet \cup {s_nextHandle'} \in SUBSET Handles
      BY <2>1, <3>1
    <3> DEFINE v == [tinfo[t] EXCEPT !.contextSet = tinfo[t].contextSet \cup {s_nextHandle'}]
    <3>3. v \in ThreadInfo
      BY <3>1, <3>2, ThreadInfoFields
    <3>4. tinfo' = tinfo \/ tinfo' = [tinfo EXCEPT ![t] = v]
      BY <1>15 DEF CreateRenderContext
    <3> HIDE DEF v
    <3>5. tinfo \in [Threads -> ThreadInfo] /\ [tinfo EXCEPT ![t] = v] \in [Threads -> ThreadInfo]
      BY <3>3, ThreadUpdate DEF TypeOK
    <3> QED
      BY <3>4, <3>5, Zenon
  <2> QED
    BY <1>15, <2>1, <2>3, <2>4 DEF CreateRenderContext, TypeOK
<1>16. ASSUME NEW t \in Threads, CreateWindowSurface(t) PROVE TypeOK'
  <2>1. s_nextHandle' \in Handles /\ s_nextHandle' \in 0..MaxHandle
    BY <1>16, DrawType DEF CreateWindowSurface
  <2>2. tinfo[t].puid \in Puids \cup {0}
    BY DEF TypeOK, ThreadInfo
  <2>3. procWin' \in [Puids -> SUBSET Handles]
    <3>1. procWin' = procWin \/ procWin' = Own(procWin, tinfo[t].puid, s_nextHandle')
      BY <1>16 DEF CreateWindowSurface
    <3>2. procWin \in [Puids -> SUBSET Handles]
      BY DEF TypeOK
    <3>3. Own(procWin, tinfo[t].puid, s_nextHandle') \in [Puids -> SUBSET Handles]
      BY <2>1, <2>2, <3>2, OwnType
    <3> QED
      BY <3>1, <3>2, <3>3, Zenon
  <2>4. tinfo' \in [Threads -> ThreadInfo]
    <3>1. tinfo[t] \in ThreadInfo /\ tinfo[t].windowSet \in SUBSET Handles
      BY DEF TypeOK, ThreadInfo
    <3>2. tinfo[t].windowSet \cup {s_nextHandle'} \in SUBSET Handles
      BY <2>1, <3>1
    <3> DEFINE v == [tinfo[t] EXCEPT !.windowSet = tinfo[t].windowSet \cup {s_nextHandle'}]
    <3>3. v \in ThreadInfo
      BY <3>1, <3>2, ThreadInfoFields
    <3>4. tinfo' = tinfo \/ tinfo' = [tinfo EXCEPT ![t] = v]
      BY <1>16 DEF CreateWindowSurface
    <3> HIDE DEF v
    <3>5. tinfo \in [Threads -> ThreadInfo] /\ [tinfo EXCEPT ![t] = v] \in [Threads -> ThreadInfo]
      BY <3>3, ThreadUpdate DEF TypeOK
    <3> QED
      BY <3>4, <3>5, Zenon
  <2>5. [cb |-> 0, owned |-> {}] \in WindowEntry
    BY TableAssumption DEF WindowEntry
  <2>6. DOMAIN m_windows' \subseteq Handles /\ m_windows' \in [DOMAIN m_windows' -> WindowEntry]
    BY <1>16, <2>1, <2>5 DEF CreateWindowSurface, Put, TypeOK
  <2> QED
    BY <1>16, <2>1, <2>3, <2>4, <2>6 DEF CreateWindowSurface, TypeOK
<1>17. ASSUME NEW t \in Threads, UnbindContext(t) PROVE TypeOK'
  <2>1. /\ DOMAIN m_colorbuffers' \subseteq Handles
        /\ m_colorbuffers' \in [DOMAIN m_colorbuffers' -> ColorBufferRef]
    BY <1>17, SweptType DEF UnbindContext, TypeOK, IsTable
  <2>2. destroys' \in Seq(Handles) /\ Len(destroys') <= ChannelCap
    BY <1>17, TableAssumption DEF UnbindContext
  <2> QED
    BY <1>17, <2>1, <2>2 DEF UnbindContext, TypeOK
<1>18. ASSUME NEW t \in Threads, NEW h \in Handles, OpenColorBuffer(t, h) PROVE TypeOK'
  <2> DEFINE puid == tinfo[t].puid
             st   == MarkOpened(Bufs, h)
             st1  == [st EXCEPT !.cbs[h].refcount = (@ + 1) % RefMod]
  <2>1. h \in DOMAIN Bufs.cbs /\ BufsOK(Bufs)
    BY <1>18, BufsType DEF OpenColorBuffer
  <2>2. BufsOK(st) /\ h \in DOMAIN st.cbs
    BY <2>1, MarkOpenedType
  <2> HIDE DEF st
  <2>3. BufsOK(st1)
    BY <2>2, AddReferenceType
  <2>4. SetBufs(st1)
    BY <1>18 DEF OpenColorBuffer, st
  <2> HIDE DEF st1
  <2>5. /\ DOMAIN m_colorbuffers' \subseteq Handles
        /\ m_colorbuffers' \in [DOMAIN m_colorbuffers' -> ColorBufferRef]
        /\ delayed' \in Seq(CloseInfo)
    BY <2>3, <2>4, SetBufsType
  <2>6. puid \in Puids \cup {0}
    BY DEF TypeOK, ThreadInfo
  <2>7. /\ procCB' = IF puid = 0 THEN procCB ELSE [procCB EXCEPT ![puid][h] = @ + 1]
        /\ guestRefs' = IF puid = 0 THEN [guestRefs EXCEPT ![h] = @ + 1] ELSE guestRefs
    BY <1>18 DEF OpenColorBuffer
  <2> HIDE DEF puid
  <2>8. procCB' \in [Puids -> [Handles -> Nat]] /\ guestRefs' \in [Handles -> Nat]
    <3>1. procCB \in [Puids -> [Handles -> Nat]] /\ guestRefs \in [Handles -> Nat]
      BY DEF TypeOK
    <3>2. CASE puid = 0
      <4>1. procCB' = procCB /\ guestRefs' = [guestRefs EXCEPT ![h] = @ + 1]
        BY <2>7, <3>2
      <4> QED
        BY <2>7, <3>1, <3>2, <4>1
    <3>3. CASE puid # 0
      <4>1. puid \in Puids /\ guestRefs' = guestRefs /\ procCB' = [procCB EXCEPT ![puid][h] = @ + 1]
        BY <2>6, <2>7, <3>3
      <4> QED
        BY <2>7, <3>1, <3>3, <4>1, CountType
    <3> QED
      BY <3>2, <3>3
  <2> QED
    BY <1>18, <2>5, <2>8 DEF OpenColorBuffer, TypeOK
<1>19. ASSUME NEW t \in Threads, NEW h \in Handles, CloseColorBuffer(t, h) PROVE TypeOK'
  <2> DEFINE puid == tinfo[t].puid
  <2>1. BufsOK(CloseLocked(Bufs, One(h)))
    BY BufsType, OneType, CloseLockedType DEF TypeOK
  <2>2. SetBufs(CloseLocked(Bufs, One(h)))
    BY <1>19 DEF CloseColorBuffer
  <2>3. /\ DOMAIN m_colorbuffers' \subseteq Handles
        /\ m_colorbuffers' \in [DOMAIN m_colorbuffers' -> ColorBufferRef]
        /\ delayed' \in Seq(CloseInfo)
    BY <2>1, <2>2, SetBufsType
  <2>4. puid \in Puids \cup {0}
    BY DEF TypeOK, ThreadInfo
  <2>5. /\ (IF puid = 0 THEN guestRefs[h] ELSE procCB[puid][h]) > 0
        /\ procCB' = IF puid = 0 THEN procCB ELSE [procCB EXCEPT ![puid][h] = @ - 1]
        /\ guestRefs' = IF puid = 0 THEN [guestRefs EXCEPT ![h] = @ - 1] ELSE guestRefs
    BY <1>19 DEF CloseColorBuffer
  <2> HIDE DEF puid
  <2>6. procCB' \in [Puids -> [Handles -> Nat]] /\ guestRefs' \in [Handles -> Nat]
    <3>1. procCB \in [Puids -> [Handles -> Nat]] /\ guestRefs \in [Handles -> Nat]
      BY DEF TypeOK
    <3>2. CASE puid = 0
      <4>1. procCB' = procCB /\ guestRefs' = [guestRefs EXCEPT ![h] = @ - 1]
        BY <2>5, <3>2
      <4> QED
        BY <2>5, <3>1, <3>2, <4>1
    <3>3. CASE puid # 0
      <4>1. puid \in Puids /\ guestRefs' = guestRefs /\ procCB' = [procCB EXCEPT ![puid][h] = @ - 1]
        BY <2>4, <2>5, <3>3
      <4> QED
        BY <2>5, <3>1, <3>3, <4>1, CountType
    <3> QED
      BY <3>2, <3>3
  <2> QED
    BY <1>19, <2>3, <2>6 DEF CloseColorBuffer, TypeOK
<1>20. ASSUME NEW t \in Threads, PostMark(t) PROVE TypeOK'
  <2> DEFINE h  == posting[t]
             st == IF h \in DOMAIN m_colorbuffers THEN MarkOpened(Bufs, h) ELSE Bufs
  <2>1. BufsOK(Bufs) /\ Bufs.cbs = m_colorbuffers
    BY BufsType
  <2>2. BufsOK(st)
    BY <2>1, MarkOpenedType
  <2>3. SetBufs(st)
    BY <1>20 DEF PostMark
  <2> HIDE DEF st
  <2>4. /\ DOMAIN m_colorbuffers' \subseteq Handles
        /\ m_colorbuffers' \in [DOMAIN m_colorbuffers' -> ColorBufferRef]
        /\ delayed' \in Seq(CloseInfo)
    BY <2>2, <2>3, SetBufsType
  <2>5. /\ posting' = [posting EXCEPT ![t] = 0]
        /\ showing' = [showing EXCEPT ![t] = posting[t]]
    BY <1>20 DEF PostMark
  <2>6. 0 \in 0..MaxHandle /\ posting[t] \in 0..MaxHandle
    BY TableAssumption DEF TypeOK
  <2>7. posting' \in [Threads -> 0..MaxHandle] /\ showing' \in [Threads -> 0..MaxHandle]
    BY <2>5, <2>6, Zenon DEF TypeOK
  <2> QED
    BY <1>20, <2>4, <2>7 DEF PostMark, TypeOK
<1>21. ASSUME NEW t \in Threads, NEW c \in Handles, DestroyRenderContext(t, c) PROVE TypeOK'
  <2>1. /\ DOMAIN m_colorbuffers' \subseteq Handles
        /\ m_colorbuffers' \in [DOMAIN m_colorbuffers' -> ColorBufferRef]
    BY <1>21, SweptType DEF DestroyRenderContext, TypeOK, IsTable
  <2>2. destroys' \in Seq(Handles) /\ Len(destroys') <= ChannelCap
    BY <1>21, TableAssumption DEF DestroyRenderContext
  <2>3. tinfo[t].puid \in Puids \cup {0}
    BY DEF TypeOK, ThreadInfo
  <2>4. procCtx' \in [Puids -> SUBSET Handles]
    BY <1>21, <2>3, OwnType DEF DestroyRenderContext, TypeOK
  <2>5. tinfo' \in [Threads -> ThreadInfo]
    <3>1. tinfo[t] \in ThreadInfo /\ tinfo[t].contextSet \in SUBSET Handles
      BY DEF TypeOK, ThreadInfo
    <3>2. tinfo[t].contextSet \ {c} \in SUBSET Handles
      BY <3>1
    <3> DEFINE v == [tinfo[t] EXCEPT !.contextSet = tinfo[t].contextSet \ {c}]
    <3>3. v \in ThreadInfo
      BY <3>1, <3>2, ThreadInfoFields
    <3>4. tinfo' = tinfo \/ tinfo' = [tinfo EXCEPT ![t] = v]
      BY <1>21 DEF DestroyRenderContext
    <3> HIDE DEF v
    <3>5. tinfo \in [Threads -> ThreadInfo] /\ [tinfo EXCEPT ![t] = v] \in [Threads -> ThreadInfo]
      BY <3>3, ThreadUpdate DEF TypeOK
    <3> QED
      BY <3>4, <3>5, Zenon
  <2> QED
    BY <1>21, <2>1, <2>2, <2>4, <2>5 DEF DestroyRenderContext, TypeOK
<1>22. ASSUME NEW t \in Threads, NEW w \in Handles, DestroyWindowSurface(t, w) PROVE TypeOK'
  <2>1. BufsOK(ReleaseWindows({w}, TRUE)) /\ SetBufs(ReleaseWindows({w}, TRUE))
    BY <1>22, ReleaseWindowsType DEF DestroyWindowSurface
  <2>2. /\ DOMAIN m_colorbuffers' \subseteq Handles
        /\ m_colorbuffers' \in [DOMAIN m_colorbuffers' -> ColorBufferRef]
        /\ delayed' \in Seq(CloseInfo)
    BY <2>1, SetBufsType
  <2>3. tinfo[t].puid \in Puids \cup {0}
    BY DEF TypeOK, ThreadInfo
  <2>4. procWin' \in [Puids -> SUBSET Handles]
    BY <1>22, <2>3, OwnType DEF DestroyWindowSurface, TypeOK
  <2>5. tinfo' \in [Threads -> ThreadInfo]
    <3>1. tinfo[t] \in ThreadInfo /\ tinfo[t].windowSet \in SUBSET Handles
      BY DEF TypeOK, ThreadInfo
    <3>2. tinfo[t].windowSet \ {w} \in SUBSET Handles
      BY <3>1
    <3> DEFINE v == [tinfo[t] EXCEPT !.windowSet = tinfo[t].windowSet \ {w}]
    <3>3. v \in ThreadInfo
      BY <3>1, <3>2, ThreadInfoFields
    <3>4. tinfo' = tinfo \/ tinfo' = [tinfo EXCEPT ![t] = v]
      BY <1>22 DEF DestroyWindowSurface
    <3> HIDE DEF v
    <3>5. tinfo \in [Threads -> ThreadInfo] /\ [tinfo EXCEPT ![t] = v] \in [Threads -> ThreadInfo]
      BY <3>3, ThreadUpdate DEF TypeOK
    <3> QED
      BY <3>4, <3>5, Zenon
  <2>6. DOMAIN m_windows' \subseteq Handles /\ m_windows' \in [DOMAIN m_windows' -> WindowEntry]
    BY <1>22 DEF DestroyWindowSurface, Without, TypeOK
  <2> QED
    BY <1>22, <2>2, <2>4, <2>5, <2>6 DEF DestroyWindowSurface, TypeOK
<1>23. ASSUME NEW t \in Threads, NEW w \in Handles, NEW h \in Handles,
              SetWindowSurfaceColorBuffer(t, w, h)
       PROVE  TypeOK'
  <2>1. /\ BufsOK(AfterAttach(w, h)) /\ SetBufs(AfterAttach(w, h))
    BY <1>23, AttachType DEF SetWindowSurfaceColorBuffer
  <2>2. /\ DOMAIN m_colorbuffers' \subseteq Handles
        /\ m_colorbuffers' \in [DOMAIN m_colorbuffers' -> ColorBufferRef]
        /\ delayed' \in Seq(CloseInfo)
    BY <2>1, SetBufsType
  <2>3. h \in 0..MaxHandle
    BY TableAssumption DEF Handles
  <2>4. DOMAIN m_windows' \subseteq Handles /\ m_windows' \in [DOMAIN m_windows' -> WindowEntry]
    <3> DEFINE e == [m_windows[w] EXCEPT !.cb = h, !.owned = @ \cup {h}]
    <3>1. m_windows[w] \in WindowEntry
      BY <1>23 DEF SetWindowSurfaceColorBuffer, TypeOK
    <3>2. m_windows[w].owned \cup {h} \in SUBSET Handles
      BY <3>1 DEF WindowEntry
    <3>3. e \in WindowEntry
      BY <2>3, <3>1, <3>2, Zenon DEF WindowEntry
    <3>4. m_windows' = [m_windows EXCEPT ![w] = e]
      BY <1>23 DEF SetWindowSurfaceColorBuffer
    <3> HIDE DEF e
    <3> QED
      BY <3>3, <3>4 DEF TypeOK
  <2>5. winToCB' \in [Handles -> 0..MaxHandle]
    BY <1>23, <2>3 DEF SetWindowSurfaceColorBuffer, TypeOK
  <2> QED
    BY <1>23, <2>2, <2>4, <2>5 DEF SetWindowSurfaceColorBuffer, TypeOK
<1>24. ASSUME NEW t \in Threads, NEW p \in Puids, SetPuid(t, p) PROVE TypeOK'
  <2>1. tinfo[t] \in ThreadInfo
    BY DEF TypeOK
  <2>2. [tinfo[t] EXCEPT !.puid = p] \in ThreadInfo
    BY <2>1, Zenon DEF ThreadInfo
  <2>3. tinfo' \in [Threads -> ThreadInfo]
    BY <1>24, <2>2, ThreadUpdate DEF SetPuid
  <2> QED
    BY <1>24, <2>3 DEF SetPuid, TypeOK
<1>25. ASSUME NEW t \in Threads, DrainRenderContext(t) PROVE TypeOK'
  <2>1. tinfo[t] \in ThreadInfo
    BY DEF TypeOK
  <2>2. /\ [tinfo[t] EXCEPT !.life = "finished"] \in ThreadInfo
        /\ [tinfo[t] EXCEPT !.life = "finished", !.contextSet = {}] \in ThreadInfo
    BY <2>1, ThreadInfoFields
  <2>3. tinfo' \in {[tinfo EXCEPT ![t] = [@ EXCEPT !.life = "finished"]],
                   [tinfo EXCEPT ![t] = [@ EXCEPT !.life = "finished", !.contextSet = {}]]}
    BY <1>25 DEF DrainRenderContext
  <2>4. tinfo' \in [Threads -> ThreadInfo]
    BY <2>2, <2>3, ThreadUpdate
  <2> QED
    BY <1>25, <2>4 DEF DrainRenderContext, TypeOK
<1>26. ASSUME NEW t \in Threads, (\E h \in Handles : PostFind(t, h)) \/ PostDone(t)
       PROVE  TypeOK'
  <2>1. Handles \subseteq 0..MaxHandle /\ 0 \in 0..MaxHandle
    BY TableAssumption DEF Handles
  <2>2. posting' \in [Threads -> 0..MaxHandle] /\ showing' \in [Threads -> 0..MaxHandle]
    BY <1>26, <2>1 DEF PostFind, PostDone, TypeOK
  <2> QED
    BY <1>26, <2>2 DEF PostFind, PostDone, TypeOK
<1> QED
  BY <1>1, <1>2, <1>3, <1>4, <1>5, <1>6, <1>7, <1>8, <1>9, <1>10, <1>11, <1>12, <1>13,
     <1>14, <1>15, <1>16, <1>17, <1>18, <1>19, <1>20, <1>21, <1>22, <1>23, <1>24, <1>25,
     <1>26 DEF Next

\* The empty tables are well typed.
LEMMA TypeInit == Init => TypeOK
<1> SUFFICES ASSUME Init
             PROVE  TypeOK
  OBVIOUS
<1>1. now \in Nat /\ s_nextHandle \in 0..MaxHandle /\ winToCB \in [Handles -> 0..MaxHandle]
  BY TableAssumption DEF Init
<1>2. /\ DOMAIN m_windows \subseteq Handles /\ m_windows \in [DOMAIN m_windows -> WindowEntry]
      /\ DOMAIN m_colorbuffers \subseteq Handles
      /\ m_colorbuffers \in [DOMAIN m_colorbuffers -> ColorBufferRef]
  BY DEF Init
<1>3. /\ delayed \in Seq(CloseInfo)
      /\ destroys \in Seq(Handles) /\ Len(destroys) <= ChannelCap
  BY TableAssumption DEF Init
<1>4. /\ procCB \in [Puids -> [Handles -> Nat]]
      /\ posting \in [Threads -> 0..MaxHandle] /\ showing \in [Threads -> 0..MaxHandle]
      /\ guestRefs \in [Handles -> Nat]
  BY TableAssumption DEF Init
<1>5. tinfo \in [Threads -> ThreadInfo]
  BY NoThreadType DEF Init
<1> QED
  BY <1>1, <1>2, <1>3, <1>4, <1>5 DEF Init, TypeOK

\* The tables keep their types through every operation, however the threads,
\* the cleanup thread and the clock interleave: in particular the unsigned
\* count stays within its width and the channel of outstanding destroys within
\* its slots.
THEOREM TypeCorrect == Spec => []TypeOK
  BY TypeInit, TypeStep, PTL DEF Spec

-----------------------------------------------------------------------------
(* Handles. *)

\* The tables only lose entries, and no handle is drawn.
Shrinks ==
    /\ s_nextHandle' = s_nextHandle
    /\ m_contexts' \subseteq m_contexts
    /\ DOMAIN m_windows' \subseteq DOMAIN m_windows
    /\ DOMAIN m_colorbuffers' \subseteq DOMAIN m_colorbuffers
    /\ m_buffers' \subseteq m_buffers

Creation ==
    \E t \in Threads :
        \/ CreateColorBuffer(t) \/ CreateBuffer(t)
        \/ CreateRenderContext(t) \/ CreateWindowSurface(t)
        \/ \E h \in GuestHandles : CreateColorBufferWithHandle(t, h)

\* Only the five creations add an entry to a table.
LEMMA TableStep == TypeOK /\ [Next]_vars => Shrinks \/ Creation
<1> SUFFICES ASSUME TypeOK, [Next]_vars, ~ Creation
             PROVE  Shrinks
  OBVIOUS
<1> USE DEF tables, owners, guest, flags
<1>1. CASE UNCHANGED vars
  BY <1>1 DEF vars, Shrinks
<1>2. CASE Tick \/ SetShuttingDown
  BY <1>2 DEF Tick, SetShuttingDown, Shrinks
<1>3. CASE CloseAllColorBuffer
  <2>1. [h \in Handles |-> 1] \in [Handles -> Nat]
    OBVIOUS
  <2>2. DOMAIN CloseLocked(Bufs, [h \in Handles |-> 1]).cbs \subseteq DOMAIN m_colorbuffers
    BY <2>1, BufsType, CloseLockedType DEF TypeOK
  <2> QED
    BY <1>3, <2>2 DEF CloseAllColorBuffer, SetBufs, Shrinks
<1>4. ASSUME NEW p \in Puids, CleanupProcGLObjects(p) PROVE Shrinks
  <2> DEFINE W  == procWin[p] \cap DOMAIN m_windows
             st == ReleaseWindows(W, FALSE)
  <2>1. W \subseteq Handles /\ procCB[p] \in [Handles -> Nat]
    BY DEF TypeOK
  <2>2. BufsOK(st) /\ DOMAIN st.cbs \subseteq DOMAIN m_colorbuffers
    BY <2>1, ReleaseWindowsType
  <2>3. m_colorbuffers' = CloseLocked(st, procCB[p]).cbs
    BY <1>4 DEF CleanupProcGLObjects, SetBufs
  <2> HIDE DEF st
  <2>4. DOMAIN CloseLocked(st, procCB[p]).cbs \subseteq DOMAIN st.cbs
    BY <2>1, <2>2, CloseLockedType DEF TypeOK
  <2>5. DOMAIN m_colorbuffers' \subseteq DOMAIN m_colorbuffers
    BY <2>2, <2>3, <2>4
  <2> QED
    BY <1>4, <2>5 DEF CleanupProcGLObjects, Without, Shrinks
<1>5. ASSUME NEW h \in Handles, OnLastColorBufferRef(h) PROVE Shrinks
  BY <1>5 DEF OnLastColorBufferRef, Shrinks
<1>6. ASSUME NEW t \in Threads,
             \/ StartThread(t) \/ (\E p \in Puids : SetPuid(t, p)) \/ DrainRenderContext(t)
             \/ (\E h \in Handles : PostFind(t, h)) \/ PostDone(t)
      PROVE  Shrinks
  BY <1>6 DEF StartThread, SetPuid, DrainRenderContext, PostFind, PostDone, Shrinks
<1>7. ASSUME NEW t \in Threads, ExitThread(t) \/ UnbindContext(t) \/ ReapThread(t)
      PROVE  Shrinks
  <2>1. DOMAIN m_colorbuffers' \subseteq DOMAIN m_colorbuffers
    BY <1>7, SweptType DEF ExitThread, UnbindContext, ReapThread, Without
  <2> QED
    BY <1>7, <2>1 DEF ExitThread, UnbindContext, ReapThread, Shrinks
<1>8. ASSUME NEW t \in Threads, DrainWindowSurface(t) PROVE Shrinks
  <2> DEFINE W == {w \in tinfo[t].windowSet \cap DOMAIN m_windows : m_windows[w].cb # 0}
  <2>1. W \subseteq Handles
    BY DEF TypeOK
  <2>2. DOMAIN ReleaseWindows(W, TRUE).cbs \subseteq DOMAIN m_colorbuffers
    BY <2>1, ReleaseWindowsType
  <2>3. \/ UNCHANGED <<m_windows, m_colorbuffers>>
        \/ /\ m_colorbuffers' = ReleaseWindows(W, TRUE).cbs
           /\ m_windows' = Without(m_windows, W)
    BY <1>8 DEF DrainWindowSurface, SetBufs
  <2> HIDE DEF W
  <2>4. /\ DOMAIN m_colorbuffers' \subseteq DOMAIN m_colorbuffers
        /\ DOMAIN m_windows' \subseteq DOMAIN m_windows
    BY <2>2, <2>3 DEF Without
  <2> QED
    BY <1>8, <2>4 DEF DrainWindowSurface, Shrinks
<1>9. ASSUME NEW t \in Threads, NEW h \in Handles, CloseBuffer(t, h) PROVE Shrinks
  BY <1>9 DEF CloseBuffer, Shrinks
<1>10. ASSUME NEW t \in Threads, NEW h \in Handles, OpenColorBuffer(t, h)
       PROVE  Shrinks
  <2> DEFINE st  == MarkOpened(Bufs, h)
             st1 == [st EXCEPT !.cbs[h].refcount = (@ + 1) % RefMod]
  <2>1. h \in DOMAIN Bufs.cbs /\ BufsOK(Bufs) /\ Bufs.cbs = m_colorbuffers
    BY <1>10, BufsType DEF OpenColorBuffer
  <2>2. BufsOK(st) /\ DOMAIN st.cbs = DOMAIN m_colorbuffers
    BY <2>1, MarkOpenedType
  <2>3. m_colorbuffers' = st1.cbs
    BY <1>10 DEF OpenColorBuffer, SetBufs
  <2> HIDE DEF st
  <2>4. DOMAIN st1.cbs = DOMAIN m_colorbuffers
    BY <2>1, <2>2, AddReferenceType
  <2> HIDE DEF st1
  <2> QED
    BY <1>10, <2>3, <2>4 DEF OpenColorBuffer, Shrinks
<1>11. ASSUME NEW t \in Threads, PostMark(t) PROVE Shrinks
  <2> DEFINE h  == posting[t]
             st == IF h \in DOMAIN m_colorbuffers THEN MarkOpened(Bufs, h) ELSE Bufs
  <2>1. BufsOK(Bufs) /\ Bufs.cbs = m_colorbuffers
    BY BufsType
  <2>2. DOMAIN st.cbs = DOMAIN m_colorbuffers
    BY <2>1, MarkOpenedType
  <2>3. m_colorbuffers' = st.cbs
    BY <1>11 DEF PostMark, SetBufs
  <2> HIDE DEF st
  <2> QED
    BY <1>11, <2>2, <2>3 DEF PostMark, Shrinks
<1>12. ASSUME NEW t \in Threads, NEW h \in Handles, CloseColorBuffer(t, h)
       PROVE  Shrinks
  <2>1. DOMAIN CloseLocked(Bufs, One(h)).cbs \subseteq DOMAIN m_colorbuffers
    BY BufsType, OneType, CloseLockedType DEF TypeOK
  <2> QED
    BY <1>12, <2>1 DEF CloseColorBuffer, SetBufs, Shrinks
<1>13. ASSUME NEW t \in Threads, NEW c \in Handles, DestroyRenderContext(t, c)
       PROVE  Shrinks
  BY <1>13, SweptType DEF DestroyRenderContext, Shrinks
<1>14. ASSUME NEW t \in Threads, NEW w \in Handles, DestroyWindowSurface(t, w)
       PROVE  Shrinks
  <2>1. DOMAIN ReleaseWindows({w}, TRUE).cbs \subseteq DOMAIN m_colorbuffers
    BY ReleaseWindowsType
  <2> QED
    BY <1>14, <2>1 DEF DestroyWindowSurface, SetBufs, Without, Shrinks
<1>15. ASSUME NEW t \in Threads, NEW w \in Handles, NEW h \in Handles,
              SetWindowSurfaceColorBuffer(t, w, h)
       PROVE  Shrinks
  <2>1. DOMAIN AfterAttach(w, h).cbs \subseteq DOMAIN m_colorbuffers
    BY <1>15, AttachType DEF SetWindowSurfaceColorBuffer
  <2>2. DOMAIN m_windows' = DOMAIN m_windows
    BY <1>15 DEF SetWindowSurfaceColorBuffer
  <2> QED
    BY <1>15, <2>1, <2>2 DEF SetWindowSurfaceColorBuffer, SetBufs, Shrinks
<1> QED
  BY <1>1, <1>2, <1>3, <1>4, <1>5, <1>6, <1>7, <1>8, <1>9, <1>10, <1>11, <1>12, <1>13,
     <1>14, <1>15 DEF Next, Creation

\* Every step keeps the handles of distinct objects distinct.
LEMMA DistinctStep == TypeOK /\ HandlesDistinct /\ [Next]_vars => HandlesDistinct'
<1> SUFFICES ASSUME TypeOK, HandlesDistinct, [Next]_vars
             PROVE  HandlesDistinct'
  OBVIOUS
<1> USE DEF tables, owners, guest, flags
<1>1. CASE Shrinks
  BY <1>1 DEF Shrinks, HandlesDistinct
<1>2. ASSUME NEW t \in Threads, CreateColorBuffer(t) PROVE HandlesDistinct'
  <2>1. s_nextHandle' \in FreeHandles(SweptColorBuffers) /\ s_nextHandle' \in Handles
    BY <1>2, DrawType DEF CreateColorBuffer
  <2>2. DOMAIN m_colorbuffers' \subseteq DOMAIN m_colorbuffers \cup {s_nextHandle'}
    BY <1>2, <2>1, NewColorBufferType DEF CreateColorBuffer
  <2>3. s_nextHandle' \notin m_contexts \cup DOMAIN m_windows \cup m_buffers
    BY <2>1 DEF FreeHandles
  <2>4. UNCHANGED <<m_contexts, m_windows, m_buffers>>
    BY <1>2 DEF CreateColorBuffer
  <2> QED
    BY <2>2, <2>3, <2>4 DEF HandlesDistinct
<1>3. ASSUME NEW t \in Threads, NEW h \in GuestHandles, CreateColorBufferWithHandle(t, h)
       PROVE  HandlesDistinct'
  <2>1. h \in Handles /\ NewColorBuffer(t, h)
    BY <1>3, TableAssumption DEF CreateColorBufferWithHandle
  <2>2. DOMAIN m_colorbuffers' \subseteq DOMAIN m_colorbuffers \cup {h}
    BY <2>1, NewColorBufferType
  <2>3. UNCHANGED <<m_contexts, m_windows, m_buffers>>
    BY <1>3 DEF CreateColorBufferWithHandle
  <2> QED
    BY <2>2, <2>3 DEF HandlesDistinct
<1>4. ASSUME NEW t \in Threads,
              CreateBuffer(t) \/ CreateRenderContext(t) \/ CreateWindowSurface(t)
       PROVE  HandlesDistinct'
  <2>1. s_nextHandle' \in FreeHandles(m_colorbuffers)
    BY <1>4, DrawType DEF CreateBuffer, CreateRenderContext, CreateWindowSurface
  <2>2. s_nextHandle' \notin m_contexts \cup DOMAIN m_windows \cup m_buffers
                              \cup DOMAIN m_colorbuffers
    BY <2>1 DEF FreeHandles
  <2>3. CASE CreateBuffer(t)
    BY <2>2, <2>3 DEF CreateBuffer, HandlesDistinct
  <2>4. CASE CreateRenderContext(t)
    BY <2>2, <2>4 DEF CreateRenderContext, HandlesDistinct
  <2>5. CASE CreateWindowSurface(t)
    <3>1. DOMAIN m_windows' \subseteq DOMAIN m_windows \cup {s_nextHandle'}
      BY <2>5 DEF CreateWindowSurface, Put
    <3> QED
      BY <2>2, <2>5, <3>1 DEF CreateWindowSurface, HandlesDistinct
  <2> QED
    BY <1>4, <2>3, <2>4, <2>5
<1> QED
  BY <1>1, <1>2, <1>3, <1>4, TableStep DEF Creation

\* However often s_nextHandle wraps around, and whatever is alive when it does,
\* genHandle_locked never gives a context, a window surface, a colour buffer or
\* a buffer the handle of another object: two objects share a handle only when
\* a guest chose it with rcCreateColorBufferWithHandle.
THEOREM NoHandleReuse == Spec => []HandlesDistinct
<1>1. Init => HandlesDistinct
  BY DEF Init, HandlesDistinct
<1> QED
  BY <1>1, TypeCorrect, DistinctStep, PTL DEF Spec

-----------------------------------------------------------------------------
(* What closing and marking do to the colour buffers and the delayed close *)
(* list.  DueIn is a buffer whose delayed close has expired, Listed that no *)
(* closed buffer has been forgotten; Shrunk relates the state before some   *)
(* closes and marks to the state after them, and is transitive, so an       *)
(* operation's parts can be taken one by one.                               *)

DueIn(q, h) == \E i \in DOMAIN q : q[i].h = h /\ q[i].ts < now

Entry(q, x) == \E i \in DOMAIN q : q[i] = x

Listed(st) ==
    \A h \in DOMAIN st.cbs : st.cbs[h].closedTs # 0 =>
        Entry(st.delayed, [ts |-> st.cbs[h].closedTs, h |-> h])

AtOnce == RefCountPipe \/ NoDelay

\* What the list and the table have in common before (a) and after (b).
ListKept(a, b) ==
    /\ BufsOK(b)
    /\ DOMAIN b.cbs \subseteq DOMAIN a.cbs
    /\ Listed(a) => Listed(b)
    /\ \A h \in Handles : DueIn(b.delayed, h) => DueIn(a.delayed, h)
    /\ ~ AtOnce => \A h \in DOMAIN a.cbs \ DOMAIN b.cbs : DueIn(a.delayed, h)

Shrunk(a, b) ==
    /\ ListKept(a, b)
    /\ AtOnce => \A h \in DOMAIN b.cbs :
          a.cbs[h].refcount # 0 => b.cbs[h].refcount \in 1..a.cbs[h].refcount

Follows(a, b) ==
    /\ ListKept(a, b)
    /\ AtOnce => \A h \in DOMAIN b.cbs :
          a.cbs[h].refcount \in 1..RefMod - 2 => b.cbs[h].refcount # 0

\* A count in the table is a number within its width.
LEMMA CountOf ==
  ASSUME NEW st, BufsOK(st), NEW h \in DOMAIN st.cbs
  PROVE  /\ st.cbs[h] \in ColorBufferRef
         /\ st.cbs[h].refcount \in 0..RefMod - 1 /\ st.cbs[h].refcount \in Nat
         /\ h \in Handles
<1>1. st.cbs[h] \in ColorBufferRef /\ h \in Handles
  BY DEF BufsOK, IsTable
<1>2. st.cbs[h].refcount \in 0..RefMod - 1
  BY <1>1 DEF ColorBufferRef
<1> QED
  BY <1>1, <1>2, TableAssumption

\* Doing nothing is a way to close.
LEMMA ShrunkRefl ==
  ASSUME NEW st, BufsOK(st)
  PROVE  Shrunk(st, st)
<1>1. ASSUME NEW h \in DOMAIN st.cbs, st.cbs[h].refcount # 0
      PROVE  st.cbs[h].refcount \in 1..st.cbs[h].refcount
  BY <1>1, CountOf
<1> QED
  BY <1>1 DEF Shrunk, ListKept

\* One after the other.
LEMMA ShrunkTrans ==
  ASSUME NEW a, NEW b, NEW c, BufsOK(a), Shrunk(a, b), Shrunk(b, c)
  PROVE  Shrunk(a, c)
<1>1. BufsOK(b) /\ BufsOK(c) /\ DOMAIN b.cbs \subseteq DOMAIN a.cbs /\ DOMAIN c.cbs \subseteq DOMAIN b.cbs
  BY DEF Shrunk, ListKept
<1>2. Listed(a) => Listed(c)
  BY DEF Shrunk, ListKept
<1>3. \A h \in Handles : DueIn(c.delayed, h) => DueIn(a.delayed, h)
  BY DEF Shrunk, ListKept
<1>4. ASSUME ~ AtOnce, NEW h \in DOMAIN a.cbs \ DOMAIN c.cbs
      PROVE  DueIn(a.delayed, h)
  <2>1. h \in Handles
    BY CountOf
  <2>2. CASE h \in DOMAIN b.cbs
    BY <1>4, <2>1, <2>2 DEF Shrunk, ListKept
  <2>3. CASE h \notin DOMAIN b.cbs
    BY <1>4, <2>3 DEF Shrunk, ListKept
  <2> QED
    BY <2>2, <2>3
<1>5. ASSUME AtOnce, NEW h \in DOMAIN c.cbs, a.cbs[h].refcount # 0
      PROVE  c.cbs[h].refcount \in 1..a.cbs[h].refcount
  <2>1. a.cbs[h].refcount \in Nat /\ b.cbs[h].refcount \in Nat /\ c.cbs[h].refcount \in Nat
    BY <1>1, CountOf
  <2>2. b.cbs[h].refcount \in 1..a.cbs[h].refcount
    BY <1>1, <1>5 DEF Shrunk
  <2>3. b.cbs[h].refcount # 0
    BY <2>2
  <2>4. c.cbs[h].refcount \in 1..b.cbs[h].refcount
    BY <1>1, <1>5, <2>3 DEF Shrunk
  <2> QED
    BY <2>1, <2>2, <2>4
<1> QED
  BY <1>1, <1>2, <1>3, <1>4, <1>5 DEF Shrunk, ListKept

\* Closing at once takes references away and never the last one of a buffer
\* that stays.
LEMMA DropShrunk ==
  ASSUME NEW st, BufsOK(st), NEW n \in [Handles -> Nat], AtOnce
  PROVE  Shrunk(st, [st EXCEPT !.cbs = Drop(@, n)])
<1> DEFINE b == [st EXCEPT !.cbs = Drop(@, n)]
<1>1. b = [cbs |-> Drop(st.cbs, n), delayed |-> st.delayed]
  BY DEF BufsOK
<1>2. b.cbs = Drop(st.cbs, n) /\ b.delayed = st.delayed
  BY <1>1
<1> HIDE DEF b
<1>3. IsTable(st.cbs, ColorBufferRef)
  BY DEF BufsOK
<1>4. /\ IsTable(Drop(st.cbs, n), ColorBufferRef)
      /\ DOMAIN Drop(st.cbs, n) = DOMAIN st.cbs \ ReachZero(st.cbs, n)
  BY <1>3, DropType
<1>5. BufsOK(b)
  BY <1>1, <1>2, <1>4 DEF BufsOK
<1>6. ASSUME NEW h \in DOMAIN b.cbs, st.cbs[h].refcount # 0
      PROVE  b.cbs[h].refcount \in 1..st.cbs[h].refcount
  <2> DEFINE r == st.cbs[h].refcount
             k == n[h]
  <2>1. h \in DOMAIN st.cbs /\ h \notin ReachZero(st.cbs, n)
    BY <1>2, <1>4, <1>6
  <2>2. r \in 0..RefMod - 1 /\ r \in Nat /\ k \in Nat /\ st.cbs[h] \in ColorBufferRef
    BY <2>1, CountOf
  <2>3. ~ (r \in 1..k)
    BY <2>1 DEF ReachZero
  <2>4. b.cbs[h] = [st.cbs[h] EXCEPT !.refcount = Minus(@, k)]
    <3> DEFINE m == n
    <3>1. \A x \in DOMAIN Drop(st.cbs, m) :
            Drop(st.cbs, m)[x] = [st.cbs[x] EXCEPT !.refcount = Minus(@, m[x])]
      BY <1>3, DropType
    <3>2. h \in DOMAIN Drop(st.cbs, m)
      BY <1>2, <1>6
    <3> QED
      BY <1>2, <3>1, <3>2
  <2>5. b.cbs[h].refcount = Minus(r, k)
    BY <2>2, <2>4 DEF ColorBufferRef
  <2>6. r # 0
    BY <1>6
  <2> HIDE DEF r, k
  <2>7. k < r
    BY <2>2, <2>3, <2>6
  <2>8. Minus(r, k) = r - k
    BY <2>2, <2>7, MinusType
  <2>9. Minus(r, k) \in 1..r
    BY <2>2, <2>7, <2>8
  <2> QED
    BY <2>5, <2>9 DEF r
<1>7. \A h \in DOMAIN b.cbs : h \in DOMAIN st.cbs /\ b.cbs[h].closedTs = st.cbs[h].closedTs
  <2> SUFFICES ASSUME NEW h \in DOMAIN b.cbs
               PROVE  h \in DOMAIN st.cbs /\ b.cbs[h].closedTs = st.cbs[h].closedTs
    OBVIOUS
  <2>1. b.cbs[h] = [st.cbs[h] EXCEPT !.refcount = Minus(@, n[h])]
    <3> DEFINE m == n
    <3>1. \A x \in DOMAIN Drop(st.cbs, m) :
            Drop(st.cbs, m)[x] = [st.cbs[x] EXCEPT !.refcount = Minus(@, m[x])]
      BY <1>3, DropType
    <3> QED
      BY <1>2, <3>1
  <2>2. h \in DOMAIN st.cbs /\ st.cbs[h] \in ColorBufferRef
    BY <1>2, <1>4, CountOf
  <2> QED
    BY <2>1, <2>2 DEF ColorBufferRef
<1>8. Listed(st) => Listed(b)
  BY <1>2, <1>7 DEF Listed
<1>9. ListKept(st, b)
  BY <1>2, <1>4, <1>5, <1>8 DEF ListKept
<1>10. Shrunk(st, b)
  BY <1>6, <1>9 DEF Shrunk
<1> QED
  BY <1>10 DEF b

\* New entries go to the end of the list with the time of now.
LEMMA PushKept ==
  ASSUME NEW q \in Seq(CloseInfo), NEW S, S \subseteq Handles, now \in Nat
  PROVE  /\ \A i \in DOMAIN q : Entry(PushDelayed(q, S), q[i])
         /\ \A h \in S : Entry(PushDelayed(q, S), [ts |-> now, h |-> h])
         /\ \A h \in Handles : DueIn(PushDelayed(q, S), h) => DueIn(q, h)
<1> DEFINE e == [i \in 1..Cardinality(S) |-> [ts |-> now, h |-> SetToSeq(S)[i]]]
           r == PushDelayed(q, S)
<1>1. IsFiniteSet(S)
  BY HandlesFinite, FS_Subset
<1>2. /\ SetToSeq(S) \in [1..Cardinality(S) -> S] /\ Cardinality(S) \in Nat
      /\ \A x \in S : \E i \in 1..Cardinality(S) : SetToSeq(S)[i] = x
  BY <1>1, SetToSeqType
<1>3. e \in Seq(CloseInfo)
  BY <1>2, StampedType
<1>a. \A h \in S : \E i \in 1..Len(e) : e[i] = [ts |-> now, h |-> h]
  BY <1>2
<1>4. \A i \in 1..Len(e) : e[i].ts = now
  BY <1>2
<1>5. r = q \o e
  BY DEF PushDelayed
<1> HIDE DEF e, r
<1>6. Len(q) \in Nat /\ Len(e) \in Nat /\ Len(r) = Len(q) + Len(e) /\ DOMAIN r = 1..Len(r)
      /\ DOMAIN q = 1..Len(q)
  BY <1>3, <1>5
<1>7. ASSUME NEW i \in DOMAIN r
      PROVE  \/ i \in DOMAIN q /\ r[i] = q[i]
             \/ i > Len(q) /\ r[i].ts = now
  <2>1. CASE i <= Len(q)
    BY <1>3, <1>5, <1>6, <2>1, ConcatProperties
  <2>2. CASE i > Len(q)
    <3>1. i \in Nat /\ i - Len(q) \in 1..Len(e)
      BY <1>6, <2>2
    <3>2. r[i] = e[i - Len(q)]
      BY <1>3, <1>5, <1>6, <2>2, <3>1, ConcatProperties
    <3> QED
      BY <1>4, <2>2, <3>1, <3>2
  <2> QED
    BY <1>6, <2>1, <2>2
<1>b. ASSUME NEW i \in DOMAIN q PROVE Entry(r, q[i])
  <2>1. i \in DOMAIN r /\ r[i] = q[i]
    BY <1>3, <1>5, <1>6, ConcatProperties
  <2> QED
    BY <2>1 DEF Entry
<1>8. ASSUME NEW h \in S PROVE Entry(r, [ts |-> now, h |-> h])
  <2>1. PICK j \in 1..Len(e) : e[j] = [ts |-> now, h |-> h]
    BY <1>a
  <2>2. j + Len(q) \in DOMAIN r /\ j + Len(q) > Len(q) /\ (j + Len(q)) - Len(q) = j
    BY <1>6
  <2>3. r[j + Len(q)] = e[j]
    BY <1>3, <1>5, <1>6, <2>2, ConcatProperties
  <2> QED
    BY <2>1, <2>2, <2>3 DEF Entry
<1>9. ASSUME NEW h \in Handles, DueIn(r, h) PROVE DueIn(q, h)
  <2>1. PICK i \in DOMAIN r : r[i].h = h /\ r[i].ts < now
    BY <1>9 DEF DueIn
  <2>2. ~ (r[i].ts = now)
    BY <2>1
  <2>3. i \in DOMAIN q /\ r[i] = q[i]
    BY <1>7, <2>2
  <2> QED
    BY <2>1, <2>3 DEF DueIn
<1> QED
  BY <1>8, <1>9, <1>b DEF r

\* A close that queues removes nothing.
LEMMA DropDelayedShrunk ==
  ASSUME NEW st, BufsOK(st), NEW n \in [Handles -> Nat], now \in Nat, ~ AtOnce
  PROVE  Shrunk(st, DropDelayed(st, n))
<1> DEFINE b == DropDelayed(st, n)
           zero == ReachZero(st.cbs, n)
<1>1. BufsOK(b) /\ DOMAIN b.cbs = DOMAIN st.cbs
  BY DropDelayedType
<1>2. zero \subseteq Handles /\ st.delayed \in Seq(CloseInfo)
  BY DEF ReachZero, BufsOK, IsTable
<1>3. b.delayed = PushDelayed(st.delayed, zero)
  BY DEF DropDelayed
<1>a. ASSUME NEW h \in DOMAIN st.cbs
      PROVE  b.cbs[h].closedTs = IF h \in zero THEN now ELSE st.cbs[h].closedTs
  <2>1. st.cbs[h] \in ColorBufferRef
    BY CountOf
  <2>2. b.cbs[h] = [st.cbs[h] EXCEPT !.refcount = Minus(@, n[h]),
                                     !.closedTs = IF h \in zero THEN now ELSE @]
    BY DEF DropDelayed
  <2> HIDE DEF b, zero
  <2> QED
    BY <2>1, <2>2 DEF ColorBufferRef
<1> HIDE DEF b, zero
<1>4. /\ \A i \in DOMAIN st.delayed : Entry(b.delayed, st.delayed[i])
      /\ \A h \in zero : Entry(b.delayed, [ts |-> now, h |-> h])
      /\ \A h \in Handles : DueIn(b.delayed, h) => DueIn(st.delayed, h)
  BY <1>2, <1>3, PushKept
<1>5. ASSUME Listed(st), NEW h \in DOMAIN b.cbs, b.cbs[h].closedTs # 0
      PROVE  Entry(b.delayed, [ts |-> b.cbs[h].closedTs, h |-> h])
  <2>1. CASE h \in zero
    BY <1>1, <1>4, <1>a, <2>1
  <2>2. CASE h \notin zero
    <3>1. Entry(st.delayed, [ts |-> b.cbs[h].closedTs, h |-> h])
      BY <1>1, <1>5, <1>a, <2>2 DEF Listed
    <3> QED
      BY <1>4, <3>1 DEF Entry
  <2> QED
    BY <2>1, <2>2
<1>6. Shrunk(st, b)
  BY <1>1, <1>4, <1>5 DEF Shrunk, ListKept, Listed
<1> QED
  BY <1>6 DEF b

\* The number of leading expired entries counts expired entries.
LEMMA LeadingExpired ==
  ASSUME NEW q \in Seq(CloseInfo),
         NEW n, n = Cardinality({k \in 1..Len(q) : \A i \in 1..k : Expired(q[i])})
  PROVE  n \in 0..Len(q) /\ \A i \in 1..n : Expired(q[i])
<1> DEFINE L == Len(q)
           K == {k \in 1..L : \A i \in 1..k : Expired(q[i])}
           C == (1..L) \ K
<1>1. L \in Nat
  OBVIOUS
<1>2. PICK m \in 0..L : K = 1..m
  <2>1. CASE C = {}
    <3>1. K = 1..L /\ L \in 0..L
      BY <1>1, <2>1
    <3> QED
      BY <3>1
  <2>2. CASE C # {}
    <3>1. C \subseteq Nat
      OBVIOUS
    <3>2. PICK x \in C : \A y \in C : x <= y
      BY <2>2, <3>1, LeastNat
    <3>3. x \in 1..L /\ x \notin K /\ x - 1 \in 0..L
      BY <1>1, <3>2
    <3>4. \A k \in 1..x - 1 : k \in K
      BY <1>1, <3>2, <3>3
    <3>5. ASSUME NEW k \in K PROVE k \in 1..x - 1
      <4>1. k \in 1..L /\ \A i \in 1..k : Expired(q[i])
        OBVIOUS
      <4>2. PICK j \in 1..x : ~ Expired(q[j])
        BY <3>3
      <4>3. ~ (x <= k)
        BY <3>3, <4>1, <4>2
      <4> QED
        BY <3>3, <4>1, <4>3
    <3>6. K = 1..x - 1
      BY <3>4, <3>5
    <3> QED
      BY <3>3, <3>6
  <2> QED
    BY <2>1, <2>2
<1>3. Cardinality(1..m) = m
  BY <1>1, <1>2, FS_Interval
<1>4. n = m
  BY <1>2, <1>3
<1>5. ASSUME NEW i \in 1..n PROVE Expired(q[i])
  <2>1. i \in K /\ i \in 1..i
    BY <1>1, <1>2, <1>4
  <2> QED
    BY <2>1
<1> QED
  BY <1>1, <1>4, <1>5

\* Running the expired delayed closes erases only what is due.
LEMMA PerformDelayedShrunk ==
  ASSUME NEW st, BufsOK(st), now \in Nat, ~ AtOnce
  PROVE  Shrunk(st, PerformDelayed(st))
<1> DEFINE q == st.delayed
           n == Cardinality({k \in 1..Len(q) : \A i \in 1..k : Expired(q[i])})
           b == PerformDelayed(st)
           r == SubSeq(q, n + 1, Len(q))
<1>1. q \in Seq(CloseInfo)
  BY DEF BufsOK
<1>2. n \in 0..Len(q) /\ \A i \in 1..n : Expired(q[i])
  BY <1>1, LeadingExpired
<1>3. b.cbs = Without(st.cbs, {q[i].h : i \in 1..n}) /\ b.delayed = r
  BY DEF PerformDelayed
<1>4. BufsOK(b) /\ DOMAIN b.cbs \subseteq DOMAIN st.cbs
  BY PerformDelayedType
<1> HIDE DEF n, q, b
<1>5. Len(q) \in Nat /\ n \in Nat /\ DOMAIN q = 1..Len(q)
  BY <1>1, <1>2
<1>6. /\ DOMAIN r = 1..Len(q) - n
      /\ \A i \in DOMAIN r : r[i] = q[i + n] /\ i + n \in DOMAIN q
  <2>1. \A i \in n + 1..Len(q) : q[i] \in CloseInfo
    BY <1>1, <1>5
  <2>2. r \in Seq(CloseInfo) /\ Len(r) = Len(q) - n
    <3> DEFINE f == n + 1
    <3>0. f \in Int /\ Len(q) \in Int /\ \A i \in f..Len(q) : q[i] \in CloseInfo
      BY <1>5, <2>1
    <3>1. /\ SubSeq(q, f, Len(q)) \in Seq(CloseInfo)
          /\ Len(SubSeq(q, f, Len(q))) = IF f <= Len(q) THEN Len(q) - f + 1 ELSE 0
      <4> HIDE DEF f
      <4> QED
        BY <3>0, SubSeqProperties
    <3>2. n <= Len(q)
      BY <1>2, <1>5
    <3>3. r \in Seq(CloseInfo) /\ Len(r) = IF f <= Len(q) THEN Len(q) - f + 1 ELSE 0
      BY <3>1
    <3> DEFINE L == Len(q)
               M == Len(r)
    <3>4. L \in Nat /\ n \in Nat /\ n <= L /\ M = IF f <= L THEN L - f + 1 ELSE 0
      BY <1>5, <3>2, <3>3
    <3>5. M = L - n
      <4> HIDE DEF L, M
      <4> QED
        BY <3>4
    <3> QED
      BY <3>3, <3>5
  <2>3. ASSUME NEW i \in 1..Len(q) - n PROVE r[i] = q[i + n] /\ i + n \in 1..Len(q)
    BY <1>1, <1>5, <2>1
  <2> HIDE DEF r
  <2>4. DOMAIN r = 1..Len(r)
    BY <2>2
  <2> QED
    BY <1>5, <2>2, <2>3, <2>4
<1> HIDE DEF r
<1>7. ASSUME Listed(st) PROVE Listed(b)
  <2> SUFFICES ASSUME NEW h \in DOMAIN b.cbs, b.cbs[h].closedTs # 0
               PROVE  Entry(r, [ts |-> b.cbs[h].closedTs, h |-> h])
    BY <1>3 DEF Listed
  <2>1. h \in DOMAIN st.cbs /\ b.cbs[h] = st.cbs[h] /\ \A i \in 1..n : q[i].h # h
    BY <1>3 DEF Without
  <2>2. PICK i \in DOMAIN q : q[i] = [ts |-> b.cbs[h].closedTs, h |-> h]
    BY <1>7, <2>1 DEF Listed, Entry, q
  <2>3. i > n
    BY <1>5, <2>1, <2>2
  <2>4. i - n \in DOMAIN r /\ (i - n) + n = i
    BY <1>5, <1>6, <2>3
  <2>5. r[i - n] = q[i]
    BY <1>6, <2>4
  <2> QED
    BY <2>2, <2>4, <2>5 DEF Entry
<1>8. ASSUME NEW h \in Handles, DueIn(r, h) PROVE DueIn(q, h)
  BY <1>6, <1>8 DEF DueIn
<1>9. ASSUME NEW h \in DOMAIN st.cbs \ DOMAIN b.cbs PROVE DueIn(q, h)
  <2>1. PICK i \in 1..n : q[i].h = h
    BY <1>3, <1>9 DEF Without
  <2>2. i \in DOMAIN q /\ q[i] \in CloseInfo
    <3>1. i \in 1..Len(q)
      BY <1>2, <1>5
    <3> QED
      BY <1>1, <1>5, <3>1
  <2>3. q[i].ts + 1 <= now /\ q[i].ts \in Nat
    BY <1>2, <2>1, <2>2 DEF Expired, CloseInfo
  <2>4. q[i].ts < now
    BY <2>3
  <2> QED
    BY <2>1, <2>2, <2>4 DEF DueIn
<1>10. Shrunk(st, b)
  BY <1>3, <1>4, <1>7, <1>8, <1>9 DEF Shrunk, ListKept, q
<1> QED
  BY <1>10 DEF b

\* Clearing an entry of the list leaves the times alone.
LEMMA MarkOpenedShrunk ==
  ASSUME NEW st, BufsOK(st), NEW h \in DOMAIN st.cbs
  PROVE  Shrunk(st, MarkOpened(st, h))
<1> DEFINE q == st.delayed
           b == MarkOpened(st, h)
           r == EraseDelayed(q, h, st.cbs[h].closedTs)
<1>1. q \in Seq(CloseInfo)
  BY DEF BufsOK
<1>2. /\ BufsOK(b) /\ DOMAIN b.cbs = DOMAIN st.cbs
      /\ \A k \in DOMAIN st.cbs : b.cbs[k].refcount = st.cbs[k].refcount
  BY MarkOpenedType
<1>3. b.delayed = r
  BY DEF MarkOpened
<1>4. DOMAIN r = DOMAIN q
  BY <1>1 DEF EraseDelayed
<1>a. \A i \in DOMAIN q : q[i].h # h => r[i] = q[i]
  BY <1>1 DEF EraseDelayed
<1>b. /\ b.cbs[h].closedTs = 0
      /\ \A k \in DOMAIN st.cbs \ {h} : b.cbs[k] = st.cbs[k]
  <2>1. b.cbs = [st.cbs EXCEPT ![h].opened = TRUE, ![h].closedTs = 0]
    BY DEF MarkOpened
  <2>2. st.cbs[h] \in ColorBufferRef
    BY CountOf
  <2>3. st.cbs \in [DOMAIN st.cbs -> ColorBufferRef]
    BY DEF BufsOK, IsTable
  <2> HIDE DEF b
  <2> QED
    BY <2>1, <2>2, <2>3 DEF ColorBufferRef
<1>5. ASSUME NEW i \in DOMAIN q
      PROVE  r[i].ts = q[i].ts /\ (r[i].h = q[i].h \/ r[i].h = 0)
  <2>1. q[i] \in CloseInfo
    BY <1>1
  <2>2. r[i] = q[i] \/ r[i] = [q[i] EXCEPT !.h = 0]
    BY <1>1 DEF EraseDelayed
  <2> HIDE DEF r, q
  <2> QED
    BY <2>1, <2>2 DEF CloseInfo
<1> HIDE DEF r, q, b
<1>6. ASSUME Listed(st) PROVE Listed(b)
  <2> SUFFICES ASSUME NEW k \in DOMAIN b.cbs, b.cbs[k].closedTs # 0
               PROVE  Entry(r, [ts |-> b.cbs[k].closedTs, h |-> k])
    BY <1>3 DEF Listed
  <2>1. k \in DOMAIN st.cbs \ {h} /\ b.cbs[k] = st.cbs[k]
    BY <1>2, <1>b
  <2>2. PICK i \in DOMAIN q : q[i] = [ts |-> b.cbs[k].closedTs, h |-> k]
    BY <1>6, <2>1 DEF Listed, Entry, q
  <2>3. i \in DOMAIN r /\ r[i] = q[i]
    BY <1>4, <1>a, <2>1, <2>2
  <2> QED
    BY <2>2, <2>3 DEF Entry
<1>7. ASSUME NEW k \in Handles, DueIn(r, k) PROVE DueIn(q, k)
  <2>1. k # 0
    BY TableAssumption DEF Handles
  <2> QED
    BY <1>4, <1>5, <1>7, <2>1 DEF DueIn
<1>8. ASSUME NEW k \in DOMAIN b.cbs, st.cbs[k].refcount # 0
      PROVE  b.cbs[k].refcount \in 1..st.cbs[k].refcount
  <2>1. st.cbs[k].refcount \in Nat /\ b.cbs[k].refcount = st.cbs[k].refcount
    BY <1>2, <1>8, CountOf
  <2> QED
    BY <1>8, <2>1
<1>9. Shrunk(st, b)
  BY <1>2, <1>3, <1>6, <1>7, <1>8 DEF Shrunk, ListKept, q
<1> QED
  BY <1>9 DEF b

\* Closing colour buffers, at once or with the delay.
LEMMA CloseLockedShrunk ==
  ASSUME NEW st, BufsOK(st), NEW n \in [Handles -> Nat], now \in Nat
  PROVE  Shrunk(st, CloseLocked(st, n))
<1> DEFINE found == {h \in DOMAIN st.cbs : n[h] > 0}
           first == CHOOSE h \in found : TRUE
           st1   == DropDelayed(st, One(first))
           st2   == PerformDelayed(st1)
           rest  == [n EXCEPT ![first] = @ - 1]
<1>1. CASE RefCountPipe \/ found = {}
  <2>1. CloseLocked(st, n) = st
    BY <1>1 DEF CloseLocked
  <2> QED
    BY <2>1, ShrunkRefl
<1>2. CASE ~ RefCountPipe /\ found # {} /\ NoDelay
  <2>1. CloseLocked(st, n) = [st EXCEPT !.cbs = Drop(@, n)]
    BY <1>2 DEF CloseLocked
  <2>2. AtOnce
    BY <1>2 DEF AtOnce
  <2> QED
    BY <2>1, <2>2, DropShrunk
<1>3. CASE ~ RefCountPipe /\ found # {} /\ ~ NoDelay
  <2>1. CloseLocked(st, n) = DropDelayed(st2, rest)
    BY <1>3 DEF CloseLocked
  <2>2. first \in DOMAIN st.cbs /\ n[first] > 0
    BY <1>3
  <2>3. first \in Handles
    BY <2>2 DEF BufsOK, IsTable
  <2> HIDE DEF first
  <2>4. One(first) \in [Handles -> Nat] /\ rest \in [Handles -> Nat] /\ ~ AtOnce
    BY <1>3, <2>2, <2>3, OneType DEF AtOnce
  <2> HIDE DEF rest
  <2>5. Shrunk(st, st1) /\ BufsOK(st1)
    BY <2>4, DropDelayedShrunk DEF Shrunk, ListKept
  <2> HIDE DEF st1
  <2>6. Shrunk(st1, st2) /\ BufsOK(st2)
    BY <2>4, <2>5, PerformDelayedShrunk DEF Shrunk, ListKept
  <2> HIDE DEF st2
  <2>7. Shrunk(st2, DropDelayed(st2, rest))
    BY <2>4, <2>6, DropDelayedShrunk
  <2>8. Shrunk(st, st2)
    BY <2>5, <2>6, ShrunkTrans
  <2> QED
    BY <2>1, <2>7, <2>8, ShrunkTrans
<1> QED
  BY <1>1, <1>2, <1>3, TableAssumption

\* Releasing windows.
LEMMA ReleaseWindowsShrunk ==
  ASSUME TypeOK, NEW W, W \subseteq Handles, NEW all \in BOOLEAN
  PROVE  Shrunk(Bufs, ReleaseWindows(W, all))
<1> DEFINE n == [h \in Handles |-> Attached(W, h) + IF all THEN OwnedBy(W, h) ELSE 0]
           a == [h \in Handles |-> Attached(W, h)]
<1>1. n \in [Handles -> Nat] /\ a \in [Handles -> Nat]
  BY AttachedType
<1>2. BufsOK(Bufs) /\ now \in Nat
  BY BufsType DEF TypeOK
<1>3. CASE RefCountPipe
  <2>1. ReleaseWindows(W, all) = [Bufs EXCEPT !.cbs = Drop(@, a)]
    BY <1>3 DEF ReleaseWindows
  <2>2. AtOnce
    BY <1>3 DEF AtOnce
  <2> HIDE DEF a
  <2> QED
    BY <1>1, <1>2, <2>1, <2>2, DropShrunk
<1>4. CASE ~ RefCountPipe
  <2>1. ReleaseWindows(W, all) = CloseLocked(Bufs, n)
    BY <1>4 DEF ReleaseWindows
  <2> HIDE DEF n
  <2> QED
    BY <1>1, <1>2, <2>1, CloseLockedShrunk
<1> QED
  BY <1>3, <1>4

\* After the closes of an operation one reference may be added.
LEMMA AddReferenceFollows ==
  ASSUME NEW a, BufsOK(a), NEW st, Shrunk(a, st), NEW h \in DOMAIN st.cbs
  PROVE  Follows(a, [st EXCEPT !.cbs[h].refcount = (@ + 1) % RefMod])
<1> DEFINE b == [st EXCEPT !.cbs[h].refcount = (@ + 1) % RefMod]
<1>1. BufsOK(st) /\ DOMAIN st.cbs \subseteq DOMAIN a.cbs
  BY DEF Shrunk, ListKept
<1>2. BufsOK(b) /\ DOMAIN b.cbs = DOMAIN st.cbs
  BY <1>1, AddReferenceType
<1>3. b.delayed = st.delayed
  BY <1>1 DEF BufsOK
<1>4. ASSUME NEW k \in DOMAIN st.cbs
      PROVE  /\ b.cbs[k].refcount = IF k = h THEN (st.cbs[h].refcount + 1) % RefMod
                                             ELSE st.cbs[k].refcount
             /\ b.cbs[k].closedTs = st.cbs[k].closedTs
  <2>1. st.cbs[h] \in ColorBufferRef /\ st.cbs[k] \in ColorBufferRef
    BY <1>1, CountOf
  <2>2. b.cbs = [st.cbs EXCEPT ![h].refcount = (st.cbs[h].refcount + 1) % RefMod]
    BY <1>1 DEF BufsOK
  <2>3. st.cbs \in [DOMAIN st.cbs -> ColorBufferRef]
    BY <1>1 DEF BufsOK, IsTable
  <2> HIDE DEF b
  <2> QED
    BY <2>1, <2>2, <2>3 DEF ColorBufferRef
<1> HIDE DEF b
<1>5. ASSUME AtOnce, NEW k \in DOMAIN b.cbs, a.cbs[k].refcount \in 1..RefMod - 2
      PROVE  b.cbs[k].refcount # 0
  <2> DEFINE x == a.cbs[k].refcount
             y == st.cbs[k].refcount
  <2>1. k \in DOMAIN a.cbs /\ k \in DOMAIN st.cbs
    BY <1>1, <1>2
  <2>2. x \in Nat /\ y \in Nat /\ RefMod \in Nat \ {0, 1}
    BY <1>1, <2>1, CountOf, TableAssumption
  <2>3. x \in 1..RefMod - 2 /\ x # 0
    BY <1>5, <2>2
  <2>4. y \in 1..x
    BY <1>5, <2>1, <2>3 DEF Shrunk
  <2>5. b.cbs[k].refcount = y \/ b.cbs[k].refcount = (y + 1) % RefMod
    BY <1>4, <2>1
  <2> HIDE DEF x, y
  <2>6. (y + 1) % RefMod = y + 1
    BY <2>2, <2>3, <2>4
  <2> QED
    BY <2>2, <2>3, <2>4, <2>5, <2>6
<1>a. Listed(st) => Listed(b)
  BY <1>2, <1>3, <1>4 DEF Listed
<1>6. ListKept(a, b)
  BY <1>1, <1>2, <1>3, <1>a DEF Shrunk, ListKept
<1>7. Follows(a, b)
  BY <1>5, <1>6 DEF Follows
<1> QED
  BY <1>7 DEF b

\* A step that only closes and marks.
LEMMA ShrunkFollows ==
  ASSUME NEW a, BufsOK(a), NEW b, Shrunk(a, b)
  PROVE  Follows(a, b)
<1>1. ASSUME AtOnce, NEW h \in DOMAIN b.cbs, a.cbs[h].refcount \in 1..RefMod - 2
      PROVE  b.cbs[h].refcount # 0
  <2>1. h \in DOMAIN a.cbs
    BY DEF Shrunk, ListKept
  <2>2. a.cbs[h].refcount \in Nat /\ a.cbs[h].refcount # 0
    BY <1>1, <2>1, CountOf
  <2>3. b.cbs[h].refcount \in 1..a.cbs[h].refcount
    BY <1>1, <2>2 DEF Shrunk
  <2> QED
    BY <2>2, <2>3
<1> QED
  BY <1>1 DEF Shrunk, Follows

\* Attaching a colour buffer to a window.
LEMMA AttachFollows ==
  ASSUME TypeOK, NEW w \in DOMAIN m_windows, NEW h \in DOMAIN m_colorbuffers
  PROVE  Follows(Bufs, AfterAttach(w, h))
<1> DEFINE old  == m_windows[w].cb
           used == MarkOpened(Bufs, h)
           st   == CASE old = 0 -> used
                     [] old # 0 /\ RefCountPipe -> [used EXCEPT !.cbs = Drop(@, One(old))]
                     [] old # 0 /\ ~ RefCountPipe -> CloseLocked(used, One(old))
<1>1. BufsOK(Bufs) /\ h \in DOMAIN Bufs.cbs
  BY BufsType
<1>2. Shrunk(Bufs, used) /\ BufsOK(used)
  BY <1>1, MarkOpenedShrunk DEF Shrunk, ListKept
<1>3. old \in 0..MaxHandle /\ now \in Nat
  BY DEF TypeOK, WindowEntry
<1> HIDE DEF used, old
<1>4. old # 0 => One(old) \in [Handles -> Nat]
  BY <1>3, OneType, TableAssumption DEF Handles
<1>5. Shrunk(Bufs, st)
  <2>1. CASE old = 0
    BY <1>2, <2>1
  <2>2. CASE old # 0 /\ RefCountPipe
    <3>1. st = [used EXCEPT !.cbs = Drop(@, One(old))] /\ AtOnce
      BY <2>2 DEF AtOnce
    <3> HIDE DEF st
    <3>2. Shrunk(used, st)
      BY <1>2, <1>4, <2>2, <3>1, DropShrunk
    <3> QED
      BY <1>1, <1>2, <3>2, ShrunkTrans
  <2>3. CASE old # 0 /\ ~ RefCountPipe
    <3>1. st = CloseLocked(used, One(old))
      BY <2>3
    <3> HIDE DEF st
    <3>2. Shrunk(used, st)
      BY <1>2, <1>3, <1>4, <2>3, <3>1, CloseLockedShrunk
    <3> QED
      BY <1>1, <1>2, <3>2, ShrunkTrans
  <2> QED
    BY <2>1, <2>2, <2>3, TableAssumption
<1>6. AfterAttach(w, h) = IF h \in DOMAIN st.cbs
                          THEN [st EXCEPT !.cbs[h].refcount = (@ + 1) % RefMod] ELSE st
  BY DEF AfterAttach, used, old
<1> HIDE DEF st
<1>7. CASE h \in DOMAIN st.cbs
  <2> DEFINE st1 == [st EXCEPT !.cbs[h].refcount = (@ + 1) % RefMod]
  <2>1. AfterAttach(w, h) = st1
    BY <1>6, <1>7
  <2>2. Follows(Bufs, st1)
    BY <1>1, <1>5, <1>7, AddReferenceFollows
  <2> HIDE DEF st1
  <2> QED
    BY <2>1, <2>2
<1>8. CASE h \notin DOMAIN st.cbs
  <2>1. AfterAttach(w, h) = st
    BY <1>6, <1>8
  <2> QED
    BY <1>1, <1>5, <2>1, ShrunkFollows
<1> QED
  BY <1>7, <1>8

-----------------------------------------------------------------------------
(* The colour buffers in a step.  Every step but Tick closes and marks      *)
(* (Follows), or creates a colour buffer, or removes a finished thread.     *)

\* Only the guest kernel's pipe queues destroys.
NoDestroys == ~ RefCountPipe => destroys = << >>

LEMMA NoDestroysStep == NoDestroys /\ [Next]_vars => NoDestroys'
<1> SUFFICES ASSUME NoDestroys, [Next]_vars
             PROVE  NoDestroys'
  OBVIOUS
<1> USE DEF tables, owners, guest, flags
<1> DEFINE Goal == RefCountPipe \/ destroys' = destroys \/ destroys' = << >>
<1>1. UNCHANGED vars \/ Tick \/ SetShuttingDown \/ CloseAllColorBuffer => Goal
  BY DEF vars, Tick, SetShuttingDown, CloseAllColorBuffer
<1>2. \A p \in Puids : CleanupProcGLObjects(p) => Goal
  BY DEF CleanupProcGLObjects
<1>3. \A h \in Handles : OnLastColorBufferRef(h) => Goal
  BY DEF OnLastColorBufferRef
<1>4. \A t \in Threads :
        (\/ StartThread(t) \/ ExitThread(t) \/ DrainWindowSurface(t) \/ DrainRenderContext(t)
         \/ ReapThread(t) \/ PostMark(t) \/ PostDone(t) \/ UnbindContext(t)) => Goal
  BY DEF StartThread, ExitThread, DrainWindowSurface, DrainRenderContext, ReapThread,
         PostMark, PostDone, UnbindContext
<1>5. \A t \in Threads : CreateColorBuffer(t) \/ CreateBuffer(t) => Goal
  BY DEF CreateColorBuffer, CreateBuffer
<1>6. \A t \in Threads : CreateRenderContext(t) \/ CreateWindowSurface(t) => Goal
  BY DEF CreateRenderContext, CreateWindowSurface
<1>7. \A t \in Threads, p \in Puids : SetPuid(t, p) => Goal
  BY DEF SetPuid
<1>8. \A t \in Threads, h \in GuestHandles : CreateColorBufferWithHandle(t, h) => Goal
  BY DEF CreateColorBufferWithHandle
<1>9. ASSUME NEW t \in Threads, NEW h \in Handles,
             CloseBuffer(t, h) \/ OpenColorBuffer(t, h) \/ CloseColorBuffer(t, h) \/ PostFind(t, h)
      PROVE  Goal
  BY <1>9 DEF CloseBuffer, OpenColorBuffer, CloseColorBuffer, PostFind
<1>10. ASSUME NEW t \in Threads, NEW h \in Handles,
              DestroyRenderContext(t, h) \/ DestroyWindowSurface(t, h)
       PROVE  Goal
  BY <1>10 DEF DestroyRenderContext, DestroyWindowSurface
<1>11. \A t \in Threads, w \in Handles, h \in Handles :
         SetWindowSurfaceColorBuffer(t, w, h) => Goal
  BY DEF SetWindowSurfaceColorBuffer
<1> HIDE DEF Goal
<1>12. Goal
  BY <1>1, <1>2, <1>3, <1>4, <1>5, <1>6, <1>7, <1>8, <1>9, <1>10, <1>11 DEF Next
<1> QED
  BY <1>12 DEF NoDestroys, Goal

\* A sweep closes at once, and does nothing where closes are delayed.
LEMMA SweptShrunk ==
  ASSUME TypeOK, NoDestroys
  PROVE  Shrunk(Bufs, [cbs |-> SweptColorBuffers, delayed |-> delayed])
<1> DEFINE n == [h \in Handles |-> Queued(h)]
           b == [Bufs EXCEPT !.cbs = Drop(@, n)]
           c == [cbs |-> SweptColorBuffers, delayed |-> delayed]
<1>1. BufsOK(Bufs) /\ Bufs.cbs = m_colorbuffers /\ Bufs.delayed = delayed
  BY BufsType
<1>2. n \in [Handles -> Nat]
  BY QueuedType DEF TypeOK
<1>3. CASE AtOnce
  <2>1. c = b
    BY DEF SweptColorBuffers, Bufs
  <2>2. Shrunk(Bufs, b)
    <3> HIDE DEF n
    <3> QED
      BY <1>1, <1>2, <1>3, DropShrunk
  <2> QED
    BY <2>1, <2>2
<1>4. CASE ~ AtOnce
  <2>1. destroys = << >>
    BY <1>4 DEF NoDestroys, AtOnce
  <2>2. \A h \in Handles : Queued(h) = 0
    <3>1. \A h \in Handles : {i \in DOMAIN destroys : destroys[i] = h} = {}
      BY <2>1
    <3> QED
      BY <3>1, FS_EmptySet DEF Queued
  <2>3. \A h \in Handles : n[h] = 0
    BY <2>2
  <2> HIDE DEF n
  <2>4. IsTable(m_colorbuffers, ColorBufferRef)
    BY DEF TypeOK, IsTable
  <2>5. /\ IsTable(Drop(m_colorbuffers, n), ColorBufferRef)
        /\ DOMAIN Drop(m_colorbuffers, n) = DOMAIN m_colorbuffers \ ReachZero(m_colorbuffers, n)
    BY <1>2, <2>4, DropType
  <2>6. SweptColorBuffers = Drop(m_colorbuffers, n)
    BY DEF SweptColorBuffers, n
  <2>7. ReachZero(m_colorbuffers, n) = {}
    BY <2>3, <2>4 DEF ReachZero, IsTable
  <2>8. DOMAIN SweptColorBuffers = DOMAIN m_colorbuffers /\ IsTable(SweptColorBuffers, ColorBufferRef)
    BY <2>5, <2>6, <2>7
  <2>9. BufsOK(c) /\ c.cbs = SweptColorBuffers /\ c.delayed = delayed
    BY <1>1, <2>8 DEF BufsOK
  <2> HIDE DEF c
  <2>10. \A h \in DOMAIN c.cbs : c.cbs[h].closedTs = m_colorbuffers[h].closedTs
    <3> SUFFICES ASSUME NEW h \in DOMAIN c.cbs
                 PROVE  c.cbs[h].closedTs = m_colorbuffers[h].closedTs
      OBVIOUS
    <3>1. c.cbs[h] = [m_colorbuffers[h] EXCEPT !.refcount = Minus(@, n[h])]
      <4>1. \A x \in DOMAIN Drop(m_colorbuffers, n) :
              Drop(m_colorbuffers, n)[x] = [m_colorbuffers[x] EXCEPT !.refcount = Minus(@, n[x])]
        BY <1>2, <2>4, DropType
      <4> QED
        BY <2>6, <2>9, <4>1
    <3>2. m_colorbuffers[h] \in ColorBufferRef
      BY <2>4, <2>8, <2>9 DEF IsTable
    <3> QED
      BY <3>1, <3>2 DEF ColorBufferRef
  <2>11. Listed(Bufs) => Listed(c)
    BY <1>1, <2>8, <2>9, <2>10 DEF Listed
  <2>12. ListKept(Bufs, c)
    BY <1>1, <2>8, <2>9, <2>11 DEF ListKept
  <2> QED
    BY <1>4, <2>12 DEF Shrunk, c
<1> QED
  BY <1>3, <1>4

\* The threads that have a colour buffer keep it and are not removed.
ThreadsKept ==
    /\ pthreadCB' = pthreadCB
    /\ \A t \in Threads : tinfo[t].life # "none" => tinfo'[t].life # "none"

ClosesOnly ==
    /\ ThreadsKept
    /\ \E st : Follows(Bufs, st) /\ m_colorbuffers' = st.cbs /\ delayed' = st.delayed

Creates ==
    /\ delayed' = delayed /\ tinfo' = tinfo
    /\ \E t \in Threads, h \in Handles : Running(t) /\ NewColorBuffer(t, h)

\* A step that stores the state st, reached from Bufs by closes and marks.
LEMMA ClosesOnlyBy ==
  ASSUME ThreadsKept, NEW st, Follows(Bufs, st), m_colorbuffers' = st.cbs, delayed' = st.delayed
  PROVE  ClosesOnly
  BY DEF ClosesOnly

\* A step that leaves the colour buffers alone.
LEMMA ClosesNothing ==
  ASSUME TypeOK, ThreadsKept, m_colorbuffers' = m_colorbuffers, delayed' = delayed
  PROVE  ClosesOnly
<1>1. BufsOK(Bufs) /\ Bufs.cbs = m_colorbuffers /\ Bufs.delayed = delayed
  BY BufsType
<1>2. Follows(Bufs, Bufs)
  BY <1>1, ShrunkRefl, ShrunkFollows
<1> QED
  BY <1>1, <1>2, ClosesOnlyBy

\* A step that sweeps.
LEMMA ClosesSwept ==
  ASSUME TypeOK, NoDestroys, ThreadsKept, m_colorbuffers' = SweptColorBuffers, delayed' = delayed
  PROVE  ClosesOnly
<1> DEFINE c == [cbs |-> SweptColorBuffers, delayed |-> delayed]
<1>1. Follows(Bufs, c)
  BY SweptShrunk, ShrunkFollows, BufsType
<1>2. c.cbs = SweptColorBuffers /\ c.delayed = delayed
  OBVIOUS
<1> HIDE DEF c
<1> QED
  BY <1>1, <1>2, ClosesOnlyBy

LEMMA BufsStep ==
  ASSUME TypeOK, NoDestroys, [Next]_vars
  PROVE  \/ Tick
         \/ now' = now /\ (ClosesOnly \/ Creates \/ \E t \in Threads : ReapThread(t))
<1> DEFINE Goal == \/ Tick
                   \/ now' = now /\ (ClosesOnly \/ Creates \/ \E t \in Threads : ReapThread(t))
<1> SUFFICES Goal
  OBVIOUS
<1> USE DEF tables, owners, guest, flags
<1>a. BufsOK(Bufs) /\ Bufs.cbs = m_colorbuffers /\ Bufs.delayed = delayed /\ now \in Nat
  BY BufsType DEF TypeOK
<1>b. tinfo \in [Threads -> ThreadInfo]
  BY DEF TypeOK
<1>c. ASSUME pthreadCB' = pthreadCB, NEW t \in Threads,
             \E v : tinfo' = [tinfo EXCEPT ![t] = v] /\ v.life # "none"
      PROVE  ThreadsKept
  BY <1>b, <1>c DEF ThreadsKept
<1>d. ASSUME pthreadCB' = pthreadCB, tinfo' = tinfo
      PROVE  ThreadsKept
  BY <1>d DEF ThreadsKept
<1>e. now' = now /\ ClosesOnly => Goal
  OBVIOUS
<1>f. now' = now /\ Creates => Goal
  OBVIOUS
<1>1. CASE UNCHANGED vars
  BY <1>1, <1>d, <1>e, ClosesNothing DEF vars
<1>2. CASE Tick
  BY <1>2
<1>3. ASSUME NEW t \in Threads, ReapThread(t) PROVE Goal
  BY <1>3 DEF ReapThread
<1> HIDE DEF Goal
<1>4. CASE SetShuttingDown
  BY <1>4, <1>d, <1>e, ClosesNothing DEF SetShuttingDown
<1>5. CASE CloseAllColorBuffer
  <2> DEFINE n == [h \in Handles |-> 1]
  <2>1. n \in [Handles -> Nat]
    OBVIOUS
  <2>2. m_colorbuffers' = CloseLocked(Bufs, n).cbs /\ delayed' = CloseLocked(Bufs, n).delayed
    BY <1>5 DEF CloseAllColorBuffer, SetBufs
  <2> HIDE DEF n
  <2>3. Follows(Bufs, CloseLocked(Bufs, n))
    BY <1>a, <2>1, CloseLockedShrunk, ShrunkFollows
  <2>4. ThreadsKept /\ now' = now
    BY <1>5, <1>d DEF CloseAllColorBuffer
  <2> QED
    BY <1>e, <2>2, <2>3, <2>4, ClosesOnlyBy
<1>6. ASSUME NEW p \in Puids, CleanupProcGLObjects(p) PROVE Goal
  <2> DEFINE W  == procWin[p] \cap DOMAIN m_windows
             st == ReleaseWindows(W, FALSE)
             c  == CloseLocked(st, procCB[p])
  <2>1. W \subseteq Handles /\ procCB[p] \in [Handles -> Nat]
    BY DEF TypeOK
  <2>2. m_colorbuffers' = c.cbs /\ delayed' = c.delayed
    BY <1>6 DEF CleanupProcGLObjects, SetBufs
  <2>3. Shrunk(Bufs, st) /\ BufsOK(st)
    BY <2>1, ReleaseWindowsShrunk DEF Shrunk, ListKept
  <2> HIDE DEF st
  <2>4. Shrunk(st, c)
    BY <1>a, <2>1, <2>3, CloseLockedShrunk
  <2> HIDE DEF c
  <2>5. Follows(Bufs, c)
    BY <1>a, <2>3, <2>4, ShrunkTrans, ShrunkFollows
  <2>6. ThreadsKept /\ now' = now
    BY <1>6, <1>d DEF CleanupProcGLObjects
  <2> QED
    BY <1>e, <2>2, <2>5, <2>6, ClosesOnlyBy
<1>7. ASSUME NEW h \in Handles, OnLastColorBufferRef(h) PROVE Goal
  BY <1>7, <1>d, <1>e, ClosesNothing DEF OnLastColorBufferRef
<1>8. ASSUME NEW t \in Threads, StartThread(t) PROVE Goal
  <2>1. [NoThread EXCEPT !.life = "running"].life # "none"
    BY DEF NoThread
  <2>2. ThreadsKept
    BY <1>8, <1>c, <2>1 DEF StartThread
  <2> QED
    BY <1>8, <1>e, <2>2, ClosesNothing DEF StartThread
<1>9. ASSUME NEW t \in Threads, NEW p \in Puids, SetPuid(t, p) PROVE Goal
  <2>1. [tinfo[t] EXCEPT !.puid = p].life # "none"
    BY <1>9, <1>b DEF SetPuid, Decoding, Running, ThreadInfo
  <2>2. ThreadsKept
    BY <1>9, <1>c, <2>1 DEF SetPuid
  <2> QED
    BY <1>9, <1>e, <2>2, ClosesNothing DEF SetPuid
<1>10. ASSUME NEW t \in Threads, ExitThread(t) PROVE Goal
  <2>1. /\ [tinfo[t] EXCEPT !.life = "finished"].life # "none"
        /\ [tinfo[t] EXCEPT !.life = "unbound"].life # "none"
    BY <1>b DEF ThreadInfo
  <2>2. ThreadsKept
    BY <1>10, <1>c, <2>1 DEF ExitThread
  <2>3. /\ m_colorbuffers' = m_colorbuffers \/ m_colorbuffers' = SweptColorBuffers
        /\ delayed' = delayed /\ now' = now
    BY <1>10 DEF ExitThread
  <2> QED
    BY <1>e, <2>2, <2>3, ClosesNothing, ClosesSwept
<1>11. ASSUME NEW t \in Threads, UnbindContext(t) PROVE Goal
  BY <1>11, <1>d, <1>e, ClosesSwept DEF UnbindContext
<1>12. ASSUME NEW t \in Threads, DrainWindowSurface(t) PROVE Goal
  <2> DEFINE W == {w \in tinfo[t].windowSet \cap DOMAIN m_windows : m_windows[w].cb # 0}
  <2>1. W \subseteq Handles
    BY DEF TypeOK
  <2>2. /\ [tinfo[t] EXCEPT !.life = "drained"].life # "none"
        /\ [tinfo[t] EXCEPT !.life = "drained", !.windowSet = {}].life # "none"
    BY <1>b DEF ThreadInfo
  <2>3. /\ ThreadsKept /\ now' = now
        /\ \/ m_colorbuffers' = m_colorbuffers /\ delayed' = delayed
           \/ /\ m_colorbuffers' = ReleaseWindows(W, TRUE).cbs
              /\ delayed' = ReleaseWindows(W, TRUE).delayed
    <3>1. ThreadsKept
      <4>1. \/ tinfo' = [tinfo EXCEPT ![t] = [@ EXCEPT !.life = "drained"]]
            \/ tinfo' = [tinfo EXCEPT ![t] = [@ EXCEPT !.life = "drained", !.windowSet = {}]]
        BY <1>12 DEF DrainWindowSurface
      <4>2. pthreadCB' = pthreadCB
        BY <1>12 DEF DrainWindowSurface
      <4> QED
        BY <1>c, <2>2, <4>1, <4>2
    <3> QED
      BY <1>12, <3>1 DEF DrainWindowSurface, SetBufs
  <2> HIDE DEF W
  <2>4. Follows(Bufs, ReleaseWindows(W, TRUE))
    BY <1>a, <2>1, ReleaseWindowsShrunk, ShrunkFollows
  <2> QED
    BY <1>e, <2>3, <2>4, ClosesOnlyBy, ClosesNothing
<1>13. ASSUME NEW t \in Threads, DrainRenderContext(t) PROVE Goal
  <2>1. /\ [tinfo[t] EXCEPT !.life = "finished"].life # "none"
        /\ [tinfo[t] EXCEPT !.life = "finished", !.contextSet = {}].life # "none"
    BY <1>b DEF ThreadInfo
  <2>2. ThreadsKept
    <3>1. \/ tinfo' = [tinfo EXCEPT ![t] = [@ EXCEPT !.life = "finished"]]
          \/ tinfo' = [tinfo EXCEPT ![t] = [@ EXCEPT !.life = "finished", !.contextSet = {}]]
      BY <1>13 DEF DrainRenderContext
    <3>2. pthreadCB' = pthreadCB
      BY <1>13 DEF DrainRenderContext
    <3> QED
      BY <1>c, <2>1, <3>1, <3>2
  <2> QED
    BY <1>13, <1>e, <2>2, ClosesNothing DEF DrainRenderContext
<1>14. ASSUME NEW t \in Threads, CreateColorBuffer(t) PROVE Goal
  <2>1. s_nextHandle' \in Handles
    BY <1>14, DrawType DEF CreateColorBuffer
  <2>2. Running(t) /\ NewColorBuffer(t, s_nextHandle') /\ delayed' = delayed /\ tinfo' = tinfo /\ now' = now
    BY <1>14 DEF CreateColorBuffer, Decoding
  <2>3. \E u \in Threads, h \in Handles : Running(u) /\ NewColorBuffer(u, h)
    BY <2>1, <2>2
  <2> QED
    BY <1>f, <2>2, <2>3 DEF Creates
<1>15. ASSUME NEW t \in Threads, NEW h \in GuestHandles, CreateColorBufferWithHandle(t, h)
       PROVE  Goal
  <2>1. Running(t) /\ NewColorBuffer(t, h) /\ delayed' = delayed /\ tinfo' = tinfo /\ now' = now
    BY <1>15 DEF CreateColorBufferWithHandle, Decoding
  <2>2. h \in Handles
    BY TableAssumption
  <2>3. \E u \in Threads, k \in Handles : Running(u) /\ NewColorBuffer(u, k)
    BY <2>1, <2>2
  <2> QED
    BY <1>f, <2>1, <2>3 DEF Creates
<1>16. ASSUME NEW t \in Threads,
              CreateBuffer(t) \/ \E h \in Handles : CloseBuffer(t, h) \/ PostFind(t, h)
       PROVE  Goal
  BY <1>16, <1>d, <1>e, ClosesNothing DEF CreateBuffer, CloseBuffer, PostFind
<1>17. ASSUME NEW t \in Threads, PostDone(t) PROVE Goal
  BY <1>17, <1>d, <1>e, ClosesNothing DEF PostDone
<1>18. ASSUME NEW t \in Threads, PostMark(t) PROVE Goal
  <2> DEFINE h  == posting[t]
             st == IF h \in DOMAIN m_colorbuffers THEN MarkOpened(Bufs, h) ELSE Bufs
  <2>1. m_colorbuffers' = st.cbs /\ delayed' = st.delayed
    BY <1>18 DEF PostMark, SetBufs
  <2>2. Shrunk(Bufs, st)
    BY <1>a, ShrunkRefl, MarkOpenedShrunk
  <2> HIDE DEF st
  <2>3. Follows(Bufs, st)
    BY <1>a, <2>2, ShrunkFollows
  <2>4. ThreadsKept /\ now' = now
    BY <1>18, <1>d DEF PostMark
  <2> QED
    BY <1>e, <2>1, <2>3, <2>4, ClosesOnlyBy
<1>19. ASSUME NEW t \in Threads, CreateRenderContext(t) PROVE Goal
  <2>1. ThreadsKept
    <3>1. tinfo' = tinfo \/ tinfo' = [tinfo EXCEPT ![t].contextSet = @ \cup {s_nextHandle'}]
      BY <1>19 DEF CreateRenderContext
    <3>2. \A u \in Threads : tinfo'[u].life = tinfo[u].life
      BY <1>b, <3>1 DEF ThreadInfo
    <3> QED
      BY <1>19, <3>2 DEF CreateRenderContext, ThreadsKept
  <2> QED
    BY <1>19, <1>e, <2>1, ClosesNothing DEF CreateRenderContext
<1>20. ASSUME NEW t \in Threads, CreateWindowSurface(t) PROVE Goal
  <2>1. ThreadsKept
    <3>1. tinfo' = tinfo \/ tinfo' = [tinfo EXCEPT ![t].windowSet = @ \cup {s_nextHandle'}]
      BY <1>20 DEF CreateWindowSurface
    <3>2. \A u \in Threads : tinfo'[u].life = tinfo[u].life
      BY <1>b, <3>1 DEF ThreadInfo
    <3> QED
      BY <1>20, <3>2 DEF CreateWindowSurface, ThreadsKept
  <2> QED
    BY <1>20, <1>e, <2>1, ClosesNothing DEF CreateWindowSurface
<1>21. ASSUME NEW t \in Threads, NEW h \in Handles, OpenColorBuffer(t, h) PROVE Goal
  <2> DEFINE st  == MarkOpened(Bufs, h)
             st1 == [st EXCEPT !.cbs[h].refcount = (@ + 1) % RefMod]
  <2>1. h \in DOMAIN Bufs.cbs
    BY <1>21, <1>a DEF OpenColorBuffer
  <2>2. Shrunk(Bufs, st) /\ DOMAIN st.cbs = DOMAIN Bufs.cbs
    BY <1>a, <2>1, MarkOpenedShrunk, MarkOpenedType
  <2>3. m_colorbuffers' = st1.cbs /\ delayed' = st1.delayed
    BY <1>21 DEF OpenColorBuffer, SetBufs
  <2> HIDE DEF st
  <2>4. Follows(Bufs, st1)
    BY <1>a, <2>1, <2>2, AddReferenceFollows
  <2> HIDE DEF st1
  <2>5. ThreadsKept /\ now' = now
    BY <1>21, <1>d DEF OpenColorBuffer
  <2> QED
    BY <1>e, <2>3, <2>4, <2>5, ClosesOnlyBy
<1>22. ASSUME NEW t \in Threads, NEW h \in Handles, CloseColorBuffer(t, h) PROVE Goal
  <2>1. Follows(Bufs, CloseLocked(Bufs, One(h)))
    BY <1>a, OneType, CloseLockedShrunk, ShrunkFollows
  <2>2. ThreadsKept /\ now' = now
    BY <1>22, <1>d DEF CloseColorBuffer
  <2>3. /\ m_colorbuffers' = CloseLocked(Bufs, One(h)).cbs
        /\ delayed' = CloseLocked(Bufs, One(h)).delayed
    BY <1>22 DEF CloseColorBuffer, SetBufs
  <2> QED
    BY <1>e, <2>1, <2>2, <2>3, ClosesOnlyBy
<1>23. ASSUME NEW t \in Threads, NEW c \in Handles, DestroyRenderContext(t, c) PROVE Goal
  <2>1. ThreadsKept
    <3>1. tinfo' = tinfo \/ tinfo' = [tinfo EXCEPT ![t].contextSet = @ \ {c}]
      BY <1>23 DEF DestroyRenderContext
    <3>2. \A u \in Threads : tinfo'[u].life = tinfo[u].life
      BY <1>b, <3>1 DEF ThreadInfo
    <3> QED
      BY <1>23, <3>2 DEF DestroyRenderContext, ThreadsKept
  <2> QED
    BY <1>23, <1>e, <2>1, ClosesSwept DEF DestroyRenderContext
<1>24. ASSUME NEW t \in Threads, NEW w \in Handles, DestroyWindowSurface(t, w) PROVE Goal
  <2>1. ThreadsKept
    <3>1. tinfo' = tinfo \/ tinfo' = [tinfo EXCEPT ![t].windowSet = @ \ {w}]
      BY <1>24 DEF DestroyWindowSurface
    <3>2. \A u \in Threads : tinfo'[u].life = tinfo[u].life
      BY <1>b, <3>1 DEF ThreadInfo
    <3> QED
      BY <1>24, <3>2 DEF DestroyWindowSurface, ThreadsKept
  <2>2. Follows(Bufs, ReleaseWindows({w}, TRUE))
    BY <1>a, ReleaseWindowsShrunk, ShrunkFollows
  <2>3. /\ now' = now /\ m_colorbuffers' = ReleaseWindows({w}, TRUE).cbs
        /\ delayed' = ReleaseWindows({w}, TRUE).delayed
    BY <1>24 DEF DestroyWindowSurface, SetBufs
  <2> QED
    BY <1>e, <2>1, <2>2, <2>3, ClosesOnlyBy
<1>25. ASSUME NEW t \in Threads, NEW w \in Handles, NEW h \in Handles,
              SetWindowSurfaceColorBuffer(t, w, h)
       PROVE  Goal
  <2>1. Follows(Bufs, AfterAttach(w, h))
    BY <1>25, AttachFollows DEF SetWindowSurfaceColorBuffer
  <2>2. ThreadsKept /\ now' = now
    BY <1>25, <1>d DEF SetWindowSurfaceColorBuffer
  <2>3. m_colorbuffers' = AfterAttach(w, h).cbs /\ delayed' = AfterAttach(w, h).delayed
    BY <1>25 DEF SetWindowSurfaceColorBuffer, SetBufs
  <2> QED
    BY <1>e, <2>1, <2>2, <2>3, ClosesOnlyBy
<1> QED
  BY <1>1, <1>2, <1>3, <1>4, <1>5, <1>6, <1>7, <1>8, <1>9, <1>10, <1>11, <1>12, <1>13,
     <1>14, <1>15, <1>16, <1>17, <1>18, <1>19, <1>20, <1>21, <1>22, <1>23, <1>24, <1>25
  DEF Next

-----------------------------------------------------------------------------
(* The delayed close list. *)

\* A close that reaches 0 stamps the buffer and queues an entry with the same
\* time, a mark takes the stamp and at most an entry of its own buffer away, and
\* the expired entries that go take their buffers with them.
LEMMA ListedStep ==
  TypeOK /\ NoDestroys /\ PendingListed /\ [Next]_vars => PendingListed'
<1> SUFFICES ASSUME TypeOK, NoDestroys, PendingListed, [Next]_vars
             PROVE  PendingListed'
  OBVIOUS
<1>a. BufsOK(Bufs) /\ Bufs.cbs = m_colorbuffers /\ Bufs.delayed = delayed
  BY BufsType
<1>b. Listed(Bufs)
  BY <1>a DEF PendingListed, Listed, Entry
<1>c. ASSUME NEW st, Listed(st), m_colorbuffers' = st.cbs, delayed' = st.delayed
      PROVE  PendingListed'
  BY <1>c DEF PendingListed, Listed, Entry
<1>1. CASE Tick
  BY <1>1 DEF Tick, tables, PendingListed
<1>2. CASE ClosesOnly
  <2>1. PICK st : Follows(Bufs, st) /\ m_colorbuffers' = st.cbs /\ delayed' = st.delayed
    BY <1>2 DEF ClosesOnly
  <2>2. Listed(st)
    BY <1>b, <2>1 DEF Follows, ListKept
  <2> QED
    BY <1>c, <2>1, <2>2
<1>3. CASE Creates
  <2> DEFINE c == [cbs |-> SweptColorBuffers, delayed |-> delayed]
             v == [refcount |-> 1, opened |-> FALSE, closedTs |-> 0]
  <2>1. Shrunk(Bufs, c) /\ c.cbs = SweptColorBuffers /\ c.delayed = delayed
    BY SweptShrunk
  <2> HIDE DEF c
  <2>2. Listed(c)
    BY <1>b, <2>1 DEF Shrunk, ListKept
  <2>3. PICK h \in Handles : \/ m_colorbuffers' = Put(SweptColorBuffers, h, v)
                             \/ m_colorbuffers' = SweptColorBuffers
    BY <1>3 DEF Creates, NewColorBuffer
  <2>4. \A k \in DOMAIN m_colorbuffers' : m_colorbuffers'[k].closedTs # 0 =>
          k \in DOMAIN SweptColorBuffers /\ m_colorbuffers'[k] = SweptColorBuffers[k]
    BY <2>3 DEF Put
  <2>5. delayed' = delayed
    BY <1>3 DEF Creates
  <2> QED
    BY <2>1, <2>2, <2>4, <2>5 DEF PendingListed, Listed, Entry
<1>4. ASSUME NEW t \in Threads, ReapThread(t) PROVE PendingListed'
  <2>1. /\ delayed' = delayed
        /\ \A h \in DOMAIN m_colorbuffers' :
             h \in DOMAIN m_colorbuffers /\ m_colorbuffers'[h] = m_colorbuffers[h]
    BY <1>4 DEF ReapThread, Without
  <2> QED
    BY <2>1 DEF PendingListed
<1> QED
  BY <1>1, <1>2, <1>3, <1>4, BufsStep

\* A closed colour buffer is never forgotten by the delayed close, whatever closes,
\* opens, posts, cleanups and changes of the clock come in between: the list keeps an
\* entry with the very time the buffer is stamped with.
THEOREM ClosedNotForgotten == Spec => []PendingListed
<1>1. Init => NoDestroys /\ PendingListed
  BY DEF Init, NoDestroys, PendingListed
<1> QED
  BY <1>1, TypeInit, TypeStep, NoDestroysStep, ListedStep, PTL DEF Spec

\* What a step of the table removes was due, or its thread had finished.
LEMMA GraceStep ==
  ASSUME TypeOK, NoDestroys, [Next]_vars, ~ RefCountPipe, ~ NoDelay,
         NEW h \in DOMAIN m_colorbuffers \ DOMAIN m_colorbuffers'
  PROVE  \/ DueIn(delayed, h)
         \/ \E t \in Threads : h \in pthreadCB[t] /\ tinfo[t].life = "finished"
<1>a. ~ AtOnce /\ BufsOK(Bufs) /\ Bufs.cbs = m_colorbuffers /\ Bufs.delayed = delayed
  BY BufsType DEF AtOnce
<1>1. CASE Tick
  BY <1>1 DEF Tick, tables
<1>2. CASE ClosesOnly
  <2>1. PICK st : Follows(Bufs, st) /\ m_colorbuffers' = st.cbs /\ delayed' = st.delayed
    BY <1>2 DEF ClosesOnly
  <2> QED
    BY <1>a, <2>1 DEF Follows, ListKept
<1>3. CASE Creates
  <2> DEFINE c == [cbs |-> SweptColorBuffers, delayed |-> delayed]
  <2>1. h \notin DOMAIN SweptColorBuffers
    BY <1>3 DEF Creates, NewColorBuffer, Put
  <2>2. Shrunk(Bufs, c) /\ c.cbs = SweptColorBuffers
    BY SweptShrunk
  <2> HIDE DEF c
  <2> QED
    BY <1>a, <2>1, <2>2 DEF Shrunk, ListKept
<1>4. ASSUME NEW t \in Threads, ReapThread(t)
      PROVE  h \in pthreadCB[t] /\ tinfo[t].life = "finished"
  BY <1>4 DEF ReapThread, Without
<1> QED
  BY <1>1, <1>2, <1>3, <1>4, BufsStep

\* Where closes are delayed, a colour buffer leaves the table only when the list
\* has an entry for it stamped in an earlier second or when the finished thread
\* that created it is removed, however the operations interleave.
THEOREM GraceHolds == Spec => ErasedWhenDue
<1>1. Init => NoDestroys
  BY DEF Init, NoDestroys
<1>2. ASSUME TypeOK, NEW h, DueIn(delayed, h) PROVE Due(h)
  <2>1. PICK i \in DOMAIN delayed : delayed[i].h = h /\ delayed[i].ts < now
    BY <1>2 DEF DueIn
  <2>2. delayed[i] \in CloseInfo /\ now \in Nat
    BY <1>2 DEF TypeOK
  <2>3. delayed[i].ts \in Nat
    BY <2>2 DEF CloseInfo
  <2>4. delayed[i].ts + 1 <= now
    BY <2>1, <2>2, <2>3
  <2> QED
    BY <2>1, <2>4 DEF Due
<1>3. TypeOK /\ NoDestroys /\ [Next]_vars =>
        [ ~ RefCountPipe /\ ~ NoDelay =>
            \A h \in DOMAIN m_colorbuffers \ DOMAIN m_colorbuffers' :
               Due(h) \/ LeavesWithThread(h) ]_vars
  BY <1>2, GraceStep DEF LeavesWithThread
<1> QED
  BY <1>1, <1>3, TypeInit, TypeStep, NoDestroysStep, PTL DEF Spec, ErasedWhenDue

-----------------------------------------------------------------------------
(* Who cleans up. *)

\* A new colour buffer belongs to the thread that creates it, and a thread
\* leaves only together with its colour buffers.
LEMMA OrphanStep ==
  TypeOK /\ NoDestroys /\ NoOrphanColorBuffer /\ [Next]_vars => NoOrphanColorBuffer'
<1> SUFFICES ASSUME TypeOK, NoDestroys, NoOrphanColorBuffer, [Next]_vars, ~ RefCountPipe,
                    NEW h \in DOMAIN m_colorbuffers'
             PROVE  \E t \in Threads : tinfo'[t].life # "none" /\ h \in pthreadCB'[t]
  BY DEF NoOrphanColorBuffer
<1>a. BufsOK(Bufs) /\ Bufs.cbs = m_colorbuffers
  BY BufsType
<1>b. h \in DOMAIN m_colorbuffers =>
        \E t \in Threads : tinfo[t].life # "none" /\ h \in pthreadCB[t]
  BY DEF NoOrphanColorBuffer
<1>1. CASE Tick
  BY <1>1, <1>b DEF Tick, tables, owners
<1>2. CASE ClosesOnly
  <2>1. h \in DOMAIN m_colorbuffers
    BY <1>2, <1>a DEF ClosesOnly, Follows, ListKept
  <2> QED
    BY <1>2, <1>b, <2>1 DEF ClosesOnly, ThreadsKept
<1>3. CASE Creates
  <2>1. PICK t \in Threads, k \in Handles : Running(t) /\ NewColorBuffer(t, k)
    BY <1>3 DEF Creates
  <2>2. DOMAIN SweptColorBuffers \subseteq DOMAIN m_colorbuffers
    BY SweptType
  <2>3. pthreadCB' = pthreadCB \/ pthreadCB' = [pthreadCB EXCEPT ![t] = @ \cup {k}]
    BY <2>1 DEF NewColorBuffer
  <2>4. \A u \in Threads : pthreadCB[u] \subseteq pthreadCB'[u]
    BY <2>3 DEF TypeOK
  <2>5. CASE h \in DOMAIN m_colorbuffers
    BY <1>3, <1>b, <2>4, <2>5 DEF Creates
  <2>6. CASE h \notin DOMAIN m_colorbuffers
    <3>1. h = k /\ pthreadCB' = [pthreadCB EXCEPT ![t] = @ \cup {k}]
      BY <2>1, <2>2, <2>6 DEF NewColorBuffer, Put
    <3>2. h \in pthreadCB'[t]
      BY <3>1 DEF TypeOK
    <3>3. tinfo'[t].life # "none"
      BY <1>3, <2>1 DEF Creates, Running
    <3> QED
      BY <3>2, <3>3
  <2> QED
    BY <2>5, <2>6
<1>4. ASSUME NEW t \in Threads, ReapThread(t)
      PROVE  \E u \in Threads : tinfo'[u].life # "none" /\ h \in pthreadCB'[u]
  <2>1. h \in DOMAIN m_colorbuffers /\ h \notin pthreadCB[t]
    BY <1>4 DEF ReapThread, Without
  <2>2. PICK u \in Threads : tinfo[u].life # "none" /\ h \in pthreadCB[u]
    BY <1>b, <2>1
  <2>3. u # t
    BY <2>1, <2>2
  <2>4. tinfo'[u] = tinfo[u] /\ pthreadCB'[u] = pthreadCB[u]
    BY <1>4, <2>3 DEF ReapThread, TypeOK
  <2> QED
    BY <2>2, <2>4
<1> QED
  BY <1>1, <1>2, <1>3, <1>4, BufsStep

\* Without the pipe every colour buffer belongs to a render thread that has not
\* been removed, so closePthreadAloneColorBuffer will free it at the latest.
THEOREM BuffersHaveOwner == Spec => []NoOrphanColorBuffer
<1>1. Init => NoDestroys /\ NoOrphanColorBuffer
  BY DEF Init, NoDestroys, NoOrphanColorBuffer
<1> QED
  BY <1>1, TypeInit, TypeStep, NoDestroysStep, OrphanStep, PTL DEF Spec

\* While the renderer runs, a thread that has drained its contexts has none.
DrainedHaveNone ==
    ~ m_shuttingDown => \A t \in Threads :
        tinfo[t].life \in {"finished", "none"} => tinfo[t].contextSet = {}

CtxInv == NoOrphanContext /\ DrainedHaveNone

\* Every step keeps the contexts owned.
LEMMA ContextStep == TypeOK /\ CtxInv /\ [Next]_vars => CtxInv'
<1> SUFFICES ASSUME TypeOK, CtxInv, [Next]_vars
             PROVE  CtxInv'
  OBVIOUS
<1> USE DEF tables, owners, guest, flags
<1>a. /\ tinfo \in [Threads -> ThreadInfo] /\ procCtx \in [Puids -> SUBSET Handles]
      /\ m_shuttingDown \in BOOLEAN
  BY DEF TypeOK
<1>b. ASSUME UNCHANGED <<m_contexts, procCtx, m_shuttingDown>>,
             \A t \in Threads : /\ tinfo'[t].contextSet = tinfo[t].contextSet
                                /\ tinfo'[t].life = tinfo[t].life
                                   \/ tinfo'[t].life \notin {"finished", "none"}
      PROVE  CtxInv'
  BY <1>b DEF CtxInv, NoOrphanContext, DrainedHaveNone
<1>c. m_shuttingDown' = TRUE => CtxInv'
  BY DEF CtxInv, NoOrphanContext, DrainedHaveNone
<1>1. CASE UNCHANGED <<m_contexts, procCtx, m_shuttingDown, tinfo>>
  BY <1>1, <1>b
<1>2. CASE SetShuttingDown
  BY <1>2, <1>c DEF SetShuttingDown
<1>3. ASSUME NEW p \in Puids, CleanupProcGLObjects(p) PROVE CtxInv'
  <2>1. /\ m_contexts' = m_contexts \ procCtx[p] /\ procCtx' = [procCtx EXCEPT ![p] = {}]
        /\ tinfo' = tinfo /\ m_shuttingDown' = m_shuttingDown
    BY <1>3 DEF CleanupProcGLObjects
  <2> QED
    BY <1>a, <2>1 DEF CtxInv, NoOrphanContext, DrainedHaveNone
<1>4. ASSUME NEW t \in Threads, StartThread(t) PROVE CtxInv'
  <2>1. /\ UNCHANGED <<m_contexts, procCtx, m_shuttingDown>> /\ tinfo[t].life = "none"
        /\ tinfo' = [tinfo EXCEPT ![t] = [NoThread EXCEPT !.life = "running"]]
    BY <1>4 DEF StartThread
  <2>2. tinfo'[t].life = "running" /\ \A u \in Threads \ {t} : tinfo'[u] = tinfo[u]
    BY <1>a, <2>1 DEF NoThread
  <2> QED
    BY <2>1, <2>2 DEF CtxInv, NoOrphanContext, DrainedHaveNone
<1>5. ASSUME NEW t \in Threads, NEW p \in Puids, SetPuid(t, p) PROVE CtxInv'
  BY <1>5, <1>a, <1>b DEF SetPuid, ThreadInfo
<1>6. ASSUME NEW t \in Threads, ExitThread(t) PROVE CtxInv'
  <2>1. CASE m_shuttingDown
    BY <1>6, <1>a, <1>c, <2>1 DEF ExitThread
  <2>2. CASE ~ m_shuttingDown
    <3>1. tinfo' = [tinfo EXCEPT ![t].life = "unbound"] /\ UNCHANGED <<m_contexts, procCtx, m_shuttingDown>>
      BY <1>6, <2>2 DEF ExitThread
    <3> QED
      BY <1>a, <1>b, <3>1 DEF ThreadInfo
  <2> QED
    BY <2>1, <2>2
<1>7. ASSUME NEW t \in Threads, DrainWindowSurface(t) PROVE CtxInv'
  <2>1. /\ UNCHANGED <<m_contexts, procCtx, m_shuttingDown>>
        /\ \/ tinfo' = [tinfo EXCEPT ![t].life = "drained"]
           \/ tinfo' = [tinfo EXCEPT ![t].life = "drained", ![t].windowSet = {}]
    BY <1>7 DEF DrainWindowSurface
  <2> QED
    BY <1>a, <1>b, <2>1 DEF ThreadInfo
<1>8. ASSUME NEW t \in Threads, DrainRenderContext(t) PROVE CtxInv'
  <2>1. CASE m_shuttingDown
    BY <1>8, <1>a, <1>c, <2>1 DEF DrainRenderContext
  <2>2. CASE ~ m_shuttingDown
    <3>1. /\ m_contexts' = m_contexts \ tinfo[t].contextSet
          /\ tinfo' = [tinfo EXCEPT ![t].life = "finished", ![t].contextSet = {}]
          /\ UNCHANGED <<procCtx, m_shuttingDown>>
      BY <1>8, <2>2 DEF DrainRenderContext
    <3>2. tinfo'[t].contextSet = {} /\ \A u \in Threads \ {t} : tinfo'[u] = tinfo[u]
      BY <1>a, <3>1 DEF ThreadInfo
    <3> QED
      BY <2>2, <3>1, <3>2 DEF CtxInv, NoOrphanContext, DrainedHaveNone
  <2> QED
    BY <2>1, <2>2
<1>9. ASSUME NEW t \in Threads, ReapThread(t) PROVE CtxInv'
  <2>1. /\ UNCHANGED <<m_contexts, procCtx, m_shuttingDown>> /\ tinfo[t].life = "finished"
        /\ tinfo' = [tinfo EXCEPT ![t] = NoThread]
    BY <1>9 DEF ReapThread
  <2>2. tinfo'[t].contextSet = {} /\ \A u \in Threads \ {t} : tinfo'[u] = tinfo[u]
    BY <1>a, <2>1 DEF NoThread
  <2> QED
    BY <2>1, <2>2 DEF CtxInv, NoOrphanContext, DrainedHaveNone
<1>10. ASSUME NEW t \in Threads, CreateRenderContext(t) PROVE CtxInv'
  <2>1. CASE UNCHANGED <<m_contexts, procCtx, tinfo>>
    BY <1>10, <1>1, <2>1 DEF CreateRenderContext
  <2>2. CASE ~ UNCHANGED <<m_contexts, procCtx, tinfo>>
    <3> DEFINE n == s_nextHandle'
               puid == tinfo[t].puid
    <3>1. /\ m_contexts' = m_contexts \cup {n}
          /\ procCtx' = Own(procCtx, puid, n)
          /\ tinfo' = IF puid # 0 THEN tinfo
                      ELSE [tinfo EXCEPT ![t].contextSet = @ \cup {n}]
          /\ m_shuttingDown' = m_shuttingDown /\ tinfo[t].life = "running"
      BY <1>10, <2>2 DEF CreateRenderContext, Decoding, Running
    <3>2. puid \in Puids \cup {0}
      BY <1>a DEF ThreadInfo
    <3> HIDE DEF n, puid
    <3>3. /\ \A p \in Puids : procCtx[p] \subseteq procCtx'[p]
          /\ \A u \in Threads : /\ tinfo[u].contextSet \subseteq tinfo'[u].contextSet
                                /\ tinfo'[u].life = tinfo[u].life
                                /\ u # t => tinfo'[u] = tinfo[u]
      BY <1>a, <3>1 DEF Own, ThreadInfo
    <3>4. puid # 0 => n \in procCtx'[puid] /\ puid \in Puids
      BY <1>a, <3>1, <3>2 DEF Own
    <3>5. puid = 0 => n \in tinfo'[t].contextSet
      BY <1>a, <3>1 DEF ThreadInfo
    <3>6. NoOrphanContext'
      BY <3>1, <3>3, <3>4, <3>5 DEF CtxInv, NoOrphanContext
    <3>7. DrainedHaveNone'
      BY <3>1, <3>3 DEF CtxInv, DrainedHaveNone
    <3> QED
      BY <3>6, <3>7 DEF CtxInv
  <2> QED
    BY <2>1, <2>2
<1>11. ASSUME NEW t \in Threads, CreateWindowSurface(t) PROVE CtxInv'
  <2>1. /\ UNCHANGED <<m_contexts, procCtx, m_shuttingDown>>
        /\ \/ tinfo' = tinfo
           \/ tinfo' = [tinfo EXCEPT ![t].windowSet = @ \cup {s_nextHandle'}]
    BY <1>11 DEF CreateWindowSurface
  <2> QED
    BY <1>a, <1>b, <2>1 DEF ThreadInfo
<1>12. ASSUME NEW t \in Threads, NEW w \in Handles, DestroyWindowSurface(t, w) PROVE CtxInv'
  <2>1. /\ UNCHANGED <<m_contexts, procCtx, m_shuttingDown>>
        /\ \/ tinfo' = tinfo
           \/ tinfo' = [tinfo EXCEPT ![t].windowSet = @ \ {w}]
    BY <1>12 DEF DestroyWindowSurface
  <2> QED
    BY <1>a, <1>b, <2>1 DEF ThreadInfo
<1>13. ASSUME NEW t \in Threads, NEW c \in Handles, DestroyRenderContext(t, c) PROVE CtxInv'
  <2> DEFINE puid == tinfo[t].puid
  <2>1. /\ m_contexts' = m_contexts \ {c} /\ procCtx' = Disown(procCtx, puid, c)
        /\ tinfo' = IF puid # 0 THEN tinfo ELSE [tinfo EXCEPT ![t].contextSet = @ \ {c}]
        /\ m_shuttingDown' = m_shuttingDown
    BY <1>13 DEF DestroyRenderContext
  <2> HIDE DEF puid
  <2>2. /\ \A p \in Puids : procCtx[p] \ {c} \subseteq procCtx'[p]
        /\ \A u \in Threads : /\ tinfo[u].contextSet \ {c} \subseteq tinfo'[u].contextSet
                              /\ tinfo'[u].contextSet \subseteq tinfo[u].contextSet
                              /\ tinfo'[u].life = tinfo[u].life
    BY <1>a, <2>1 DEF Disown, ThreadInfo
  <2>3. NoOrphanContext'
    BY <2>1, <2>2 DEF CtxInv, NoOrphanContext
  <2>4. DrainedHaveNone'
    BY <2>1, <2>2 DEF CtxInv, DrainedHaveNone
  <2> QED
    BY <2>3, <2>4 DEF CtxInv
<1>14. CASE UNCHANGED vars \/ Tick \/ CloseAllColorBuffer
  BY <1>1, <1>14 DEF vars, Tick, CloseAllColorBuffer
<1>15. ASSUME NEW h \in Handles, OnLastColorBufferRef(h) PROVE CtxInv'
  BY <1>1, <1>15 DEF OnLastColorBufferRef
<1>16. ASSUME NEW t \in Threads,
              \/ PostMark(t) \/ PostDone(t) \/ CreateColorBuffer(t) \/ CreateBuffer(t)
              \/ UnbindContext(t)
       PROVE  CtxInv'
  BY <1>1, <1>16 DEF PostMark, PostDone, CreateColorBuffer, CreateBuffer, UnbindContext
<1>17. ASSUME NEW t \in Threads, NEW h \in GuestHandles, CreateColorBufferWithHandle(t, h)
       PROVE  CtxInv'
  BY <1>1, <1>17 DEF CreateColorBufferWithHandle
<1>18. ASSUME NEW t \in Threads, NEW h \in Handles,
              CloseBuffer(t, h) \/ OpenColorBuffer(t, h) \/ CloseColorBuffer(t, h) \/ PostFind(t, h)
       PROVE  CtxInv'
  BY <1>1, <1>18 DEF CloseBuffer, OpenColorBuffer, CloseColorBuffer, PostFind
<1>19. ASSUME NEW t \in Threads, NEW w \in Handles, NEW h \in Handles,
              SetWindowSurfaceColorBuffer(t, w, h)
       PROVE  CtxInv'
  BY <1>1, <1>19 DEF SetWindowSurfaceColorBuffer
<1> QED
  BY <1>2, <1>3, <1>4, <1>5, <1>6, <1>7, <1>8, <1>9, <1>10, <1>11, <1>12, <1>13, <1>14,
     <1>15, <1>16, <1>17, <1>18, <1>19 DEF Next

\* Until the renderer shuts down every context is in the ownership set of a
\* process, or of a render thread that has not drained it yet, so the cleanup
\* of one of them destroys it.
THEOREM ContextsHaveOwner == Spec => []NoOrphanContext
<1>1. Init => CtxInv
  BY DEF Init, CtxInv, NoOrphanContext, DrainedHaveNone, NoThread
<1>2. CtxInv => NoOrphanContext
  BY DEF CtxInv
<1> QED
  BY <1>1, <1>2, TypeInit, TypeStep, ContextStep, PTL DEF Spec

-----------------------------------------------------------------------------
(* Handles that do not come back.  As long as the counter has not reached   *)
(* the end of its range, a drawn handle is larger than every one drawn      *)
(* before, so what the window sets of the threads never forget cannot be    *)
(* about another window of the same handle.                                 *)

\* Fewer handles are drawn than there are, and the guest does not choose the
\* last one.
NoWrap == HandleLimit <= MaxHandle /\ MaxHandle \notin GuestHandles

Drawn == 1..s_nextHandle

\* Nothing mentions a handle that has not been drawn.
Fresh ==
    /\ m_contexts \cup DOMAIN m_windows \cup m_buffers \subseteq Drawn
    /\ DOMAIN m_colorbuffers \subseteq Drawn \cup GuestHandles
    /\ \A t \in Threads : tinfo[t].windowSet \subseteq Drawn

\* The counter goes round: a handle behind it is reached after all others.
LEMMA StepsRound ==
  ASSUME NEW M \in Nat, NEW s \in 0..M, NEW h \in 1..M
  PROVE  (h - s - 1) % (M + 1) = IF h > s THEN h - s - 1 ELSE h - s + M
<1>1. CASE h > s
  BY <1>1
<1>2. CASE h <= s
  <2>1. h - s - 1 + (M + 1) \in 0..M
    BY <1>2
  <2> QED
    BY <1>2, <2>1
<1> QED
  BY <1>1, <1>2

LEMMA DrawAbove ==
  ASSUME TypeOK, Fresh, NoWrap, NEW cbs, DOMAIN cbs \subseteq DOMAIN m_colorbuffers,
         CanDraw(cbs), s_nextHandle' = GenHandle(cbs)
  PROVE  s_nextHandle' > s_nextHandle /\ s_nextHandle' \in Handles
<1> DEFINE F == FreeHandles(cbs)
           steps(h) == (h - s_nextHandle - 1) % (MaxHandle + 1)
           T == {steps(h) : h \in F}
           M == MaxHandle
           s == s_nextHandle
<1>1. M \in Nat \ {0} /\ s \in 0..M /\ F \subseteq 1..M /\ s < M
  <2>1. HandleLimit \in Nat
    BY TableAssumption
  <2> QED
    BY <2>1, TableAssumption DEF TypeOK, FreeHandles, Handles, NoWrap, CanDraw
<1>2. M \in F
  <2>1. M \in Handles /\ M \notin Drawn /\ M \notin GuestHandles
    BY <1>1 DEF Handles, Drawn, NoWrap
  <2> QED
    BY <2>1 DEF FreeHandles, Fresh
<1>3. \A h \in F : steps(h) = IF h > s THEN h - s - 1 ELSE h - s + M
  BY <1>1, StepsRound
<1> HIDE DEF steps
<1>4. \A h \in F : steps(h) \in Nat
  BY <1>1, <1>3
<1>5. T \subseteq Nat /\ T # {}
  BY <1>2, <1>4
<1>6. \E x \in T : \A y \in T : x <= y
  BY <1>5, LeastNat
<1>7. \E h \in F : \A k \in F : steps(h) <= steps(k)
  BY <1>6
<1>8. s_nextHandle' \in F /\ \A k \in F : steps(s_nextHandle') <= steps(k)
  BY <1>7 DEF GenHandle, steps
<1> DEFINE n == s_nextHandle'
<1>9. n \in F /\ steps(n) <= steps(M)
  BY <1>2, <1>8
<1> HIDE DEF n, F, T
<1>10. n \in 1..M /\ steps(M) = M - s - 1
  BY <1>1, <1>2, <1>3, <1>9
<1> HIDE DEF M, s
<1>11. n > s
  BY <1>1, <1>3, <1>9, <1>10
<1> QED
  BY <1>10, <1>11 DEF n, s, M, Handles

\* The windows and who owns them are left alone.
WindowsQuiet ==
    /\ UNCHANGED <<m_windows, procWin>>
    /\ \A t \in Threads : tinfo'[t].windowSet \subseteq tinfo[t].windowSet

WindowsChange ==
    \/ \E p \in Puids : CleanupProcGLObjects(p)
    \/ \E t \in Threads :
          \/ CreateWindowSurface(t) \/ DrainWindowSurface(t)
          \/ \E w \in Handles : DestroyWindowSurface(t, w)
          \/ \E w \in Handles, h \in Handles : SetWindowSurfaceColorBuffer(t, w, h)

\* Only five operations are about windows.
LEMMA WindowStep == TypeOK /\ [Next]_vars => WindowsQuiet \/ WindowsChange
<1> SUFFICES ASSUME TypeOK, [Next]_vars, ~ WindowsChange
             PROVE  WindowsQuiet
  OBVIOUS
<1> USE DEF tables, owners, guest, flags
<1>a. tinfo \in [Threads -> ThreadInfo]
  BY DEF TypeOK
<1>1. CASE UNCHANGED <<m_windows, procWin, tinfo>>
  BY <1>1 DEF WindowsQuiet
<1>2. CASE UNCHANGED vars \/ Tick \/ SetShuttingDown \/ CloseAllColorBuffer
  BY <1>1, <1>2 DEF vars, Tick, SetShuttingDown, CloseAllColorBuffer
<1>3. ASSUME NEW h \in Handles, OnLastColorBufferRef(h) PROVE WindowsQuiet
  BY <1>1, <1>3 DEF OnLastColorBufferRef
<1>4. ASSUME NEW t \in Threads,
             \/ PostMark(t) \/ PostDone(t) \/ CreateColorBuffer(t) \/ CreateBuffer(t)
             \/ UnbindContext(t)
      PROVE  WindowsQuiet
  BY <1>1, <1>4 DEF PostMark, PostDone, CreateColorBuffer, CreateBuffer, UnbindContext
<1>5. ASSUME NEW t \in Threads, NEW h \in GuestHandles, CreateColorBufferWithHandle(t, h)
      PROVE  WindowsQuiet
  BY <1>1, <1>5 DEF CreateColorBufferWithHandle
<1>6. ASSUME NEW t \in Threads, NEW h \in Handles,
             CloseBuffer(t, h) \/ OpenColorBuffer(t, h) \/ CloseColorBuffer(t, h) \/ PostFind(t, h)
      PROVE  WindowsQuiet
  BY <1>1, <1>6 DEF CloseBuffer, OpenColorBuffer, CloseColorBuffer, PostFind
<1>7. ASSUME NEW t \in Threads, StartThread(t) \/ ReapThread(t) PROVE WindowsQuiet
  <2>1. /\ UNCHANGED <<m_windows, procWin>>
        /\ \/ tinfo' = [tinfo EXCEPT ![t] = NoThread]
           \/ tinfo' = [tinfo EXCEPT ![t] = [NoThread EXCEPT !.life = "running"]]
    BY <1>7 DEF StartThread, ReapThread
  <2>2. tinfo'[t].windowSet = {} /\ \A u \in Threads \ {t} : tinfo'[u] = tinfo[u]
    BY <1>a, <2>1 DEF NoThread
  <2> QED
    BY <2>1, <2>2 DEF WindowsQuiet
<1>8. ASSUME NEW t \in Threads, NEW p \in Puids, SetPuid(t, p) PROVE WindowsQuiet
  BY <1>8, <1>a DEF SetPuid, WindowsQuiet, ThreadInfo
<1>9. ASSUME NEW t \in Threads, ExitThread(t) PROVE WindowsQuiet
  BY <1>9, <1>a DEF ExitThread, WindowsQuiet, ThreadInfo
<1>10. ASSUME NEW t \in Threads, DrainRenderContext(t) PROVE WindowsQuiet
  <2>1. /\ UNCHANGED <<m_windows, procWin>>
        /\ \/ tinfo' = [tinfo EXCEPT ![t].life = "finished"]
           \/ tinfo' = [tinfo EXCEPT ![t].life = "finished", ![t].contextSet = {}]
    BY <1>10 DEF DrainRenderContext
  <2> QED
    BY <1>a, <2>1 DEF WindowsQuiet, ThreadInfo
<1>11. ASSUME NEW t \in Threads, CreateRenderContext(t) PROVE WindowsQuiet
  <2>1. /\ UNCHANGED <<m_windows, procWin>>
        /\ \/ tinfo' = tinfo
           \/ tinfo' = [tinfo EXCEPT ![t].contextSet = @ \cup {s_nextHandle'}]
    BY <1>11 DEF CreateRenderContext
  <2> QED
    BY <1>a, <2>1 DEF WindowsQuiet, ThreadInfo
<1>12. ASSUME NEW t \in Threads, NEW c \in Handles, DestroyRenderContext(t, c) PROVE WindowsQuiet
  <2>1. /\ UNCHANGED <<m_windows, procWin>>
        /\ \/ tinfo' = tinfo
           \/ tinfo' = [tinfo EXCEPT ![t].contextSet = @ \ {c}]
    BY <1>12 DEF DestroyRenderContext
  <2> QED
    BY <1>a, <2>1 DEF WindowsQuiet, ThreadInfo
<1> QED
  BY <1>2, <1>3, <1>4, <1>5, <1>6, <1>7, <1>8, <1>9, <1>10, <1>11, <1>12
  DEF Next, WindowsChange

\* What the operations on windows do to the owners: the sets of a thread only
\* shrink, and no handle is drawn.
LEMMA WindowSets ==
  ASSUME TypeOK, WindowsChange, ~ \E t \in Threads : CreateWindowSurface(t)
  PROVE  /\ \A t \in Threads : tinfo'[t].windowSet \subseteq tinfo[t].windowSet
         /\ s_nextHandle' = s_nextHandle
<1> USE DEF tables, owners, guest, flags
<1> DEFINE Goal == /\ \A t \in Threads : tinfo'[t].windowSet \subseteq tinfo[t].windowSet
                   /\ s_nextHandle' = s_nextHandle
<1>a. tinfo \in [Threads -> ThreadInfo]
  BY DEF TypeOK
<1> SUFFICES Goal
  OBVIOUS
<1>1. ASSUME NEW p \in Puids, CleanupProcGLObjects(p) PROVE Goal
  BY <1>1 DEF CleanupProcGLObjects
<1>2. ASSUME NEW t \in Threads, DrainWindowSurface(t) PROVE Goal
  <2>1. /\ s_nextHandle' = s_nextHandle
        /\ \/ tinfo' = [tinfo EXCEPT ![t].life = "drained"]
           \/ tinfo' = [tinfo EXCEPT ![t].life = "drained", ![t].windowSet = {}]
    BY <1>2 DEF DrainWindowSurface
  <2> QED
    BY <1>a, <2>1 DEF ThreadInfo
<1>3. ASSUME NEW t \in Threads, NEW w \in Handles, DestroyWindowSurface(t, w) PROVE Goal
  <2>1. /\ s_nextHandle' = s_nextHandle
        /\ tinfo' = tinfo \/ tinfo' = [tinfo EXCEPT ![t].windowSet = @ \ {w}]
    BY <1>3 DEF DestroyWindowSurface
  <2> QED
    BY <1>a, <2>1 DEF ThreadInfo
<1>4. ASSUME NEW t \in Threads, NEW w \in Handles, NEW h \in Handles,
             SetWindowSurfaceColorBuffer(t, w, h)
      PROVE  Goal
  BY <1>4, <1>a DEF SetWindowSurfaceColorBuffer
<1> QED
  BY <1>1, <1>2, <1>3, <1>4 DEF WindowsChange

\* A drawn handle is above all the ones before it, so Fresh is kept.
LEMMA FreshStep ==
  ASSUME NoWrap
  PROVE  TypeOK /\ Fresh /\ [Next]_vars => Fresh'
<1> SUFFICES ASSUME TypeOK, Fresh, [Next]_vars
             PROVE  Fresh'
  OBVIOUS
<1> USE DEF tables, owners, guest, flags
<1>a. s_nextHandle \in Nat /\ DOMAIN m_windows \subseteq Drawn
  BY TableAssumption DEF TypeOK, Fresh
<1>b. \/ \E t \in Threads : CreateWindowSurface(t)
      \/ \A t \in Threads : tinfo'[t].windowSet \subseteq tinfo[t].windowSet
  BY WindowStep, WindowSets DEF WindowsQuiet
<1>1. ASSUME Shrinks, ~ \E t \in Threads : CreateWindowSurface(t) PROVE Fresh'
  <2>1. Drawn' = Drawn
    BY <1>1 DEF Shrinks, Drawn
  <2> QED
    BY <1>1, <1>a, <1>b, <2>1 DEF Shrinks, Fresh
<1>2. ASSUME NEW t \in Threads, NEW h \in GuestHandles, CreateColorBufferWithHandle(t, h)
      PROVE  Fresh'
  <2>1. DOMAIN m_colorbuffers' \subseteq DOMAIN m_colorbuffers \cup {h}
    BY <1>2, TableAssumption, NewColorBufferType DEF CreateColorBufferWithHandle
  <2>2. UNCHANGED <<s_nextHandle, m_contexts, m_windows, m_buffers, tinfo>>
    BY <1>2 DEF CreateColorBufferWithHandle
  <2> QED
    BY <2>1, <2>2 DEF Fresh, Drawn
<1>c. ASSUME s_nextHandle' > s_nextHandle, s_nextHandle' \in Handles
      PROVE  Drawn \cup {s_nextHandle'} \subseteq Drawn'
  BY <1>a, <1>c DEF Drawn, Handles
<1>3. ASSUME NEW t \in Threads, CreateColorBuffer(t) PROVE Fresh'
  <2>1. s_nextHandle' > s_nextHandle /\ s_nextHandle' \in Handles
    BY <1>3, SweptType, DrawAbove DEF CreateColorBuffer
  <2>2. DOMAIN m_colorbuffers' \subseteq DOMAIN m_colorbuffers \cup {s_nextHandle'}
    BY <1>3, <2>1, NewColorBufferType DEF CreateColorBuffer
  <2>3. UNCHANGED <<m_contexts, m_windows, m_buffers, tinfo>>
    BY <1>3 DEF CreateColorBuffer
  <2> QED
    BY <1>c, <2>1, <2>2, <2>3 DEF Fresh
<1>4. ASSUME NEW t \in Threads, CreateBuffer(t) PROVE Fresh'
  <2>1. s_nextHandle' > s_nextHandle /\ s_nextHandle' \in Handles
    BY <1>4, DrawAbove DEF CreateBuffer
  <2>2. UNCHANGED <<m_contexts, m_windows, m_colorbuffers, tinfo>>
    BY <1>4 DEF CreateBuffer
  <2>3. m_buffers' \subseteq m_buffers \cup {s_nextHandle'}
    BY <1>4 DEF CreateBuffer
  <2> QED
    BY <1>c, <2>1, <2>2, <2>3 DEF Fresh
<1>5. ASSUME NEW t \in Threads, CreateRenderContext(t) PROVE Fresh'
  <2>1. s_nextHandle' > s_nextHandle /\ s_nextHandle' \in Handles
    BY <1>5, DrawAbove DEF CreateRenderContext
  <2>2. UNCHANGED <<m_buffers, m_windows, m_colorbuffers>>
    BY <1>5 DEF CreateRenderContext
  <2>3. m_contexts' \subseteq m_contexts \cup {s_nextHandle'}
    BY <1>5 DEF CreateRenderContext
  <2>4. \A u \in Threads : tinfo'[u].windowSet = tinfo[u].windowSet
    <3>1. tinfo' = tinfo \/ tinfo' = [tinfo EXCEPT ![t].contextSet = @ \cup {s_nextHandle'}]
      BY <1>5 DEF CreateRenderContext
    <3>2. tinfo \in [Threads -> ThreadInfo]
      BY DEF TypeOK
    <3> QED
      BY <3>1, <3>2 DEF ThreadInfo
  <2> QED
    BY <1>c, <2>1, <2>2, <2>3, <2>4 DEF Fresh
<1>6. ASSUME NEW t \in Threads, CreateWindowSurface(t) PROVE Fresh'
  <2>1. s_nextHandle' > s_nextHandle /\ s_nextHandle' \in Handles
    BY <1>6, DrawAbove DEF CreateWindowSurface
  <2>2. UNCHANGED <<m_buffers, m_contexts, m_colorbuffers>>
    BY <1>6 DEF CreateWindowSurface
  <2>3. DOMAIN m_windows' \subseteq DOMAIN m_windows \cup {s_nextHandle'}
    BY <1>6 DEF CreateWindowSurface, Put
  <2>4. \A u \in Threads : tinfo'[u].windowSet \subseteq tinfo[u].windowSet \cup {s_nextHandle'}
    <3>1. tinfo' = tinfo \/ tinfo' = [tinfo EXCEPT ![t].windowSet = @ \cup {s_nextHandle'}]
      BY <1>6 DEF CreateWindowSurface
    <3>2. tinfo \in [Threads -> ThreadInfo]
      BY DEF TypeOK
    <3> QED
      BY <3>1, <3>2 DEF ThreadInfo
  <2> QED
    BY <1>c, <2>1, <2>2, <2>3, <2>4 DEF Fresh
<1> QED
  BY <1>1, <1>2, <1>3, <1>4, <1>5, <1>6, TableStep DEF Creation

\* A window belongs to one process or to one thread, never to both.
OwnersDisjoint ==
    /\ \A p, q \in Puids : p # q => procWin[p] \cap procWin[q] = {}
    /\ \A p \in Puids, t \in Threads : tinfo[t].windowSet \cap procWin[p] = {}

WinInv == OwnedWindowsExist /\ OwnersDisjoint

LEMMA WinStep ==
  ASSUME NoWrap
  PROVE  TypeOK /\ Fresh /\ WinInv /\ [Next]_vars => WinInv'
<1> SUFFICES ASSUME TypeOK, Fresh, WinInv, [Next]_vars
             PROVE  WinInv'
  OBVIOUS
<1> USE DEF tables, owners, guest, flags
<1>a. /\ tinfo \in [Threads -> ThreadInfo] /\ procWin \in [Puids -> SUBSET Handles]
      /\ DOMAIN m_windows \subseteq Handles
  BY DEF TypeOK
<1>b. OwnedWindowsExist /\ OwnersDisjoint
  BY DEF WinInv
<1>1. CASE WindowsQuiet
  BY <1>1, <1>b DEF WindowsQuiet, WinInv, OwnedWindowsExist, OwnersDisjoint
<1>2. ASSUME NEW p \in Puids, CleanupProcGLObjects(p) PROVE WinInv'
  <2> DEFINE W == procWin[p] \cap DOMAIN m_windows
  <2>1. /\ m_windows' = Without(m_windows, W) /\ procWin' = [procWin EXCEPT ![p] = {}]
        /\ tinfo' = tinfo
    BY <1>2 DEF CleanupProcGLObjects
  <2>2. \A q \in Puids : procWin'[q] \subseteq procWin[q] \ procWin[p]
    BY <1>a, <1>b, <2>1 DEF OwnersDisjoint
  <2>3. /\ DOMAIN m_windows' = DOMAIN m_windows \ W
        /\ \A w \in DOMAIN m_windows' : m_windows'[w] = m_windows[w]
    BY <2>1 DEF Without
  <2>4. OwnedWindowsExist'
    BY <1>b, <2>2, <2>3 DEF OwnedWindowsExist
  <2>5. OwnersDisjoint'
    BY <1>b, <2>1, <2>2 DEF OwnersDisjoint
  <2> QED
    BY <2>4, <2>5 DEF WinInv
<1>3. ASSUME NEW t \in Threads, CreateWindowSurface(t) PROVE WinInv'
  <2> DEFINE n == s_nextHandle'
             puid == tinfo[t].puid
  <2>1. n > s_nextHandle /\ n \in Handles
    BY <1>3, DrawAbove DEF CreateWindowSurface
  <2>2. n \notin Drawn /\ n \notin DOMAIN m_windows
        /\ (\A u \in Threads : n \notin tinfo[u].windowSet)
        /\ (\A q \in Puids : n \notin procWin[q])
    <3>1. n \notin Drawn
      BY <2>1 DEF Drawn, TypeOK
    <3> QED
      BY <1>b, <2>1, <3>1 DEF Fresh, OwnedWindowsExist
  <2>3. CASE UNCHANGED <<m_windows, procWin, tinfo>>
    <3>1. WindowsQuiet
      BY <1>3, <2>3 DEF CreateWindowSurface, WindowsQuiet
    <3> QED
      BY <1>1, <3>1
  <2>4. CASE ~ UNCHANGED <<m_windows, procWin, tinfo>>
    <3>1. /\ m_windows' = Put(m_windows, n, [cb |-> 0, owned |-> {}])
          /\ procWin' = Own(procWin, puid, n)
          /\ tinfo' = IF puid # 0 THEN tinfo
                      ELSE [tinfo EXCEPT ![t].windowSet = @ \cup {n}]
      BY <1>3, <2>4 DEF CreateWindowSurface
    <3>2. puid \in Puids \cup {0} /\ 0 \notin Puids
      BY <1>a, TableAssumption DEF ThreadInfo
    <3> HIDE DEF n, puid
    <3>3. /\ DOMAIN m_windows' = DOMAIN m_windows \cup {n}
          /\ m_windows'[n] = [cb |-> 0, owned |-> {}]
          /\ \A w \in DOMAIN m_windows : m_windows'[w] = m_windows[w]
      BY <2>2, <3>1 DEF Put
    <3>4. \A q \in Puids : procWin'[q] = IF q = puid THEN procWin[q] \cup {n} ELSE procWin[q]
      BY <1>a, <3>1, <3>2 DEF Own
    <3>5. \A u \in Threads : tinfo'[u].windowSet = IF u = t /\ puid = 0
                                                  THEN tinfo[u].windowSet \cup {n}
                                                  ELSE tinfo[u].windowSet
      BY <1>a, <3>1 DEF ThreadInfo
    <3>6. OwnedWindowsExist'
      BY <1>b, <3>3, <3>4 DEF OwnedWindowsExist
    <3>7. OwnersDisjoint'
      <4>1. ASSUME NEW p \in Puids, NEW q \in Puids, p # q
            PROVE  procWin'[p] \cap procWin'[q] = {}
        BY <1>b, <2>2, <3>4, <4>1 DEF OwnersDisjoint
      <4>2. ASSUME NEW p \in Puids, NEW u \in Threads
            PROVE  tinfo'[u].windowSet \cap procWin'[p] = {}
        <5>1. tinfo[u].windowSet \cap procWin[p] = {}
          BY <1>b DEF OwnersDisjoint
        <5>2. n \notin tinfo[u].windowSet /\ n \notin procWin[p]
          BY <2>2
        <5>3. CASE puid = 0
          <6>1. procWin'[p] = procWin[p] /\ tinfo'[u].windowSet \subseteq tinfo[u].windowSet \cup {n}
            BY <3>2, <3>4, <3>5, <5>3
          <6> QED
            BY <5>1, <5>2, <6>1
        <5>4. CASE puid # 0
          <6>1. procWin'[p] \subseteq procWin[p] \cup {n} /\ tinfo'[u].windowSet = tinfo[u].windowSet
            BY <3>4, <3>5, <5>4
          <6> QED
            BY <5>1, <5>2, <6>1
        <5> QED
          BY <5>3, <5>4
      <4> QED
        BY <4>1, <4>2 DEF OwnersDisjoint
    <3> QED
      BY <3>6, <3>7 DEF WinInv
  <2> QED
    BY <2>3, <2>4
<1>4. ASSUME NEW t \in Threads, DrainWindowSurface(t) PROVE WinInv'
  <2> DEFINE W == {w \in tinfo[t].windowSet \cap DOMAIN m_windows : m_windows[w].cb # 0}
  <2>1. \/ m_windows' = m_windows
        \/ m_windows' = Without(m_windows, W)
    BY <1>4 DEF DrainWindowSurface
  <2>2. W \subseteq tinfo[t].windowSet
    OBVIOUS
  <2> HIDE DEF W
  <2>3. /\ DOMAIN m_windows \ W \subseteq DOMAIN m_windows'
        /\ DOMAIN m_windows' \subseteq DOMAIN m_windows
        /\ \A w \in DOMAIN m_windows' : m_windows'[w] = m_windows[w]
    BY <2>1 DEF Without
  <2>4. procWin' = procWin
    BY <1>4 DEF DrainWindowSurface
  <2>5. \A u \in Threads : tinfo'[u].windowSet \subseteq tinfo[u].windowSet
    <3>1. \/ tinfo' = [tinfo EXCEPT ![t].life = "drained"]
          \/ tinfo' = [tinfo EXCEPT ![t].life = "drained", ![t].windowSet = {}]
      BY <1>4 DEF DrainWindowSurface
    <3> QED
      BY <1>a, <3>1 DEF ThreadInfo
  <2>6. OwnedWindowsExist'
    BY <1>b, <2>2, <2>3, <2>4 DEF OwnedWindowsExist, OwnersDisjoint
  <2>7. OwnersDisjoint'
    BY <1>b, <2>4, <2>5 DEF OwnersDisjoint
  <2> QED
    BY <2>6, <2>7 DEF WinInv
<1>5. ASSUME NEW t \in Threads, NEW w \in Handles, DestroyWindowSurface(t, w) PROVE WinInv'
  <2> DEFINE puid == tinfo[t].puid
  <2>1. /\ m_windows' = Without(m_windows, {w}) /\ procWin' = Disown(procWin, puid, w)
        /\ Names(t, procWin, w)
        /\ tinfo' = tinfo \/ tinfo' = [tinfo EXCEPT ![t].windowSet = @ \ {w}]
    BY <1>5 DEF DestroyWindowSurface
  <2>2. /\ DOMAIN m_windows' = DOMAIN m_windows \ {w}
        /\ \A v \in DOMAIN m_windows' : m_windows'[v] = m_windows[v]
    BY <2>1 DEF Without
  <2>3. 0 \notin Puids
    BY TableAssumption
  <2>4. \A q \in Puids : procWin'[q] \subseteq procWin[q] \ {w}
    <3>1. \A q \in Puids : w \in procWin[q] => q = puid /\ puid # 0
      BY <2>1, <2>3 DEF Names
    <3> HIDE DEF puid
    <3> QED
      BY <1>a, <2>1, <3>1 DEF Disown
  <2>5. \A u \in Threads : tinfo'[u].windowSet \subseteq tinfo[u].windowSet
    BY <1>a, <2>1 DEF ThreadInfo
  <2>6. OwnedWindowsExist'
    BY <1>b, <2>2, <2>4 DEF OwnedWindowsExist
  <2>7. OwnersDisjoint'
    BY <1>b, <2>4, <2>5 DEF OwnersDisjoint
  <2> QED
    BY <2>6, <2>7 DEF WinInv
<1>6. ASSUME NEW t \in Threads, NEW w \in Handles, NEW h \in Handles,
             SetWindowSurfaceColorBuffer(t, w, h)
      PROVE  WinInv'
  <2>1. /\ m_windows' = [m_windows EXCEPT ![w].cb = h, ![w].owned = @ \cup {h}]
        /\ procWin' = procWin /\ tinfo' = tinfo
        /\ w \in DOMAIN m_windows
    BY <1>6 DEF SetWindowSurfaceColorBuffer
  <2>2. DOMAIN m_windows' = DOMAIN m_windows
    BY <2>1
  <2>3. OwnedWindowsExist' /\ OwnersDisjoint'
    BY <1>b, <2>1, <2>2 DEF OwnedWindowsExist, OwnersDisjoint
  <2> QED
    BY <2>3 DEF WinInv
<1> QED
  BY <1>1, <1>2, <1>3, <1>4, <1>5, <1>6, WindowStep DEF WindowsChange

\* What holds of the windows as long as handles do not come back.
LEMMA WindowsSound ==
  ASSUME NoWrap
  PROVE  Spec => []WinInv
<1>1. Init => Fresh /\ WinInv
  BY DEF Init, Fresh, WinInv, OwnedWindowsExist, OwnersDisjoint, NoThread
<1>2. TypeOK /\ Fresh /\ [Next]_vars => Fresh'
  BY FreshStep
<1>3. TypeOK /\ Fresh /\ WinInv /\ [Next]_vars => WinInv'
  BY WinStep
<1> QED
  BY <1>1, <1>2, <1>3, TypeInit, TypeStep, PTL DEF Spec

\* As long as the handle counter has not run through its range, the window
\* surfaces a process owns are all in m_windows: cleanupProcGLObjects
\* dereferences no iterator past the end, whatever the threads have destroyed
\* or drained before it.
THEOREM CleanupFindsWindows ==
  ASSUME NoWrap
  PROVE  Spec => []OwnedWindowsExist
<1>1. WinInv => OwnedWindowsExist
  BY DEF WinInv
<1>2. Spec => []WinInv
  BY WindowsSound
<1> QED
  BY <1>1, <1>2, PTL

=============================================================================
