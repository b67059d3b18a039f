------------------------------ MODULE FrameBuffer ------------------------------
(***************************************************************************)
(* The object tables of the host renderer (libOpenglRender/FrameBuffer):   *)
(* contexts, window surfaces, colour buffers and buffers named by one      *)
(* space of 32-bit handles, the reference counts and the delayed close of  *)
(* colour buffers, and the per-process and per-thread ownership sets that  *)
(* decide who cleans up what.                                              *)
(*                                                                         *)
(* Commands of all clients are decoded one at a time, under the render     *)
(* server's lock, and every operation but post also holds                  *)
(* FrameBuffer::m_lock, so each is one step.  post holds the server's lock *)
(* only: it is three steps, between which terminating threads, the render  *)
(* server and the cleanup thread may run.  The three lock acquisitions of  *)
(* a terminating render thread are three steps.  RefCountPipe, NoDelay and *)
(* PreO are the feature flags and the guest API level, fixed when the      *)
(* renderer starts.                                                        *)
(***************************************************************************)
EXTENDS Integers, Sequences, FiniteSets, SequencesExt

CONSTANTS
    Threads,          \* render threads, named by their pthread id
    Puids,            \* non-zero guest process ids
    MaxHandle,        \* HandleType has the values 0..MaxHandle (2^32-1 in the code)
    RefMod,           \* refcount is counted modulo RefMod (2^32 in the code)
    ChannelCap,       \* slots of mOutstandingColorBufferDestroys (1024 in the code)
    RefCountPipe,     \* m_refCountPipeEnabled
    NoDelay,          \* m_noDelayCloseColorBufferEnabled
    PreO,             \* 0 < apiLevel < 26
    ClockStepsBack,   \* the wall clock may be set back
    WindowsClose,     \* the last on-screen window is deleted now and then
    GuestHandles,     \* handles guests pass to rcCreateColorBufferWithHandle
    HandleLimit,      \* bound: no handle is drawn once s_nextHandle reaches it
    MaxContexts, MaxWindows, MaxColorBuffers, MaxBuffers,   \* bounds on the tables
    MaxOpens,         \* bound on the references one client holds
    MaxDelayed,       \* bound on the length of the delayed close list
    MaxTime           \* bound on the clock

Handles == 1..MaxHandle

ASSUME TableAssumption ==
    /\ MaxHandle \in Nat \ {0}
    /\ RefMod \in Nat \ {0, 1}
    /\ ChannelCap \in Nat \ {0}
    /\ Puids \subseteq Nat \ {0}
    /\ GuestHandles \subseteq Handles
    /\ RefCountPipe \in BOOLEAN /\ NoDelay \in BOOLEAN /\ PreO \in BOOLEAN
    /\ ClockStepsBack \in BOOLEAN /\ WindowsClose \in BOOLEAN
    /\ {HandleLimit, MaxContexts, MaxWindows, MaxColorBuffers, MaxBuffers,
        MaxOpens, MaxDelayed, MaxTime} \subseteq Nat

\* The count is wide enough for one reference from each window and the guest's.
ASSUME CountAssumption == RefCountPipe => MaxWindows + 1 < RefMod

VARIABLES
    now,              \* System::getUnixTime, in seconds
    s_nextHandle,
    m_contexts,       \* the keys of m_contexts
    m_windows,        \* handle -> attached colour buffer (0: none) and owned set
    m_colorbuffers,   \* handle -> ColorBufferRef
    m_buffers,        \* the keys of m_buffers
    winToCB,          \* m_windowSurfaceToColorBuffer (0: no entry)
    delayed,          \* m_colorBufferDelayedCloseList
    destroys,         \* mOutstandingColorBufferDestroys
    procCB,           \* m_procOwnedColorBuffers, a multiset for each process
    procWin,          \* m_procOwnedWindowSurfaces
    procCtx,          \* m_procOwnedRenderContext
    pthreadCB,        \* m_pthreadOwnedColorBuffers
    tinfo,            \* RenderThreadInfo and the stage of the render thread
    m_shuttingDown,
    posting,          \* postImpl has found this colour buffer (0: no post)
    showing,          \* the post worker is drawing this one (0: none)
    guestRefs,        \* guest side: references clients without a puid (or, with
                      \* RefCountPipe, the guest kernel's pipe) hold
    leaked            \* guest side: references whose last close was dropped

tables == <<m_contexts, m_windows, m_colorbuffers, m_buffers, winToCB>>
owners == <<procCB, procWin, procCtx, pthreadCB>>
flags  == <<m_shuttingDown, posting, showing>>
guest  == <<guestRefs, leaked>>
vars   == <<now, s_nextHandle, tables, delayed, destroys, owners, tinfo,
            flags, guest>>

NoThread == [life |-> "none", puid |-> 0, windowSet |-> {}, contextSet |-> {}]

ColorBufferRef == [refcount : 0..RefMod - 1, opened : BOOLEAN, closedTs : Nat]
WindowEntry    == [cb : 0..MaxHandle, owned : SUBSET Handles]
CloseInfo      == [ts : Nat, h : 0..MaxHandle]
ThreadInfo     == [life : {"none", "running", "unbound", "drained", "finished"},
                   puid : Puids \cup {0},
                   windowSet : SUBSET Handles, contextSet : SUBSET Handles]

Init ==
    /\ now = 1
    /\ s_nextHandle = 0
    /\ m_contexts = {}
    /\ m_windows = [h \in {} |-> [cb |-> 0, owned |-> {}]]
    /\ m_colorbuffers = [h \in {} |-> [refcount |-> 1, opened |-> FALSE, closedTs |-> 0]]
    /\ m_buffers = {}
    /\ winToCB = [h \in Handles |-> 0]
    /\ delayed = << >>
    /\ destroys = << >>
    /\ procCB = [p \in Puids |-> [h \in Handles |-> 0]]
    /\ procWin = [p \in Puids |-> {}]
    /\ procCtx = [p \in Puids |-> {}]
    /\ pthreadCB = [t \in Threads |-> {}]
    /\ tinfo = [t \in Threads |-> NoThread]
    /\ m_shuttingDown = FALSE
    /\ posting = [t \in Threads |-> 0]
    /\ showing = [t \in Threads |-> 0]
    /\ guestRefs = [h \in Handles |-> 0]
    /\ leaked = {}

-----------------------------------------------------------------------------
(* Handles and maps. *)

Put(f, k, v)  == [x \in DOMAIN f \cup {k} |-> IF x = k THEN v ELSE f[x]]
Without(f, S) == [x \in DOMAIN f \ S |-> f[x]]

\* Mutant: the table of buffers is not looked at.
FreeHandlesSkipBuffers(cbs) ==
    Handles \ (m_contexts \cup DOMAIN m_windows \cup DOMAIN cbs)

\* The handles genHandle_locked may return when the colour buffer table is cbs.
FreeHandles(cbs) ==
    Handles \ (m_contexts \cup DOMAIN m_windows \cup DOMAIN cbs \cup m_buffers)

\* ++s_nextHandle, again and again until it names nothing: the free handle
\* reached first from s_nextHandle when the counter wraps around, 0 skipped.
GenHandle(cbs) ==
    LET steps(h) == (h - s_nextHandle - 1) % (MaxHandle + 1)
    IN CHOOSE h \in FreeHandles(cbs) :
           \A k \in FreeHandles(cbs) : steps(h) <= steps(k)

\* genHandle_locked loops for ever when every handle is taken.
CanDraw(cbs) == s_nextHandle < HandleLimit /\ FreeHandles(cbs) # {}

\* Mutant: a destroyed object stays in its process's ownership set.
DisownNothing(owned, puid, h) == owned

\* The ownership sets when the client of process puid creates or destroys h;
\* without a process id (0) the sets of the render thread are used instead.
Own(owned, puid, h) ==
    IF puid = 0 THEN owned ELSE [owned EXCEPT ![puid] = @ \cup {h}]
Disown(owned, puid, h) ==
    IF puid = 0 THEN owned ELSE [owned EXCEPT ![puid] = @ \ {h}]

-----------------------------------------------------------------------------
(* Reference counts.  n[h] is how many times the operation closes h.  The  *)
(* loops of the code close one handle at a time; closing h does not depend *)
(* on the other handles, so a loop is described by its multiplicities.     *)

One(h) == [k \in Handles |-> IF k = h THEN 1 ELSE 0]

\* Mutant: signed arithmetic.
MinusSigned(r, k) == r - k

\* --refcount, k times, on a uint32_t.
Minus(r, k) == (r - k) % RefMod

\* Mutants: freed one reference early, and freed one reference late.
ReachZeroEarly(cbs, n) == {h \in DOMAIN cbs : n[h] > 0 /\ cbs[h].refcount \in 1..n[h] + 1}
ReachZeroLate(cbs, n)  == {h \in DOMAIN cbs : cbs[h].refcount + 1 \in 1..n[h]}

\* The buffers whose count passes through 0 when closed n times.
ReachZero(cbs, n) == {h \in DOMAIN cbs : cbs[h].refcount \in 1..n[h]}

\* Close n times, erasing at 0: decColorBufferRefCountLocked, and
\* closeColorBufferLocked when it is forced.
Drop(cbs, n) ==
    [h \in DOMAIN cbs \ ReachZero(cbs, n) |->
        [cbs[h] EXCEPT !.refcount = Minus(@, n[h])]]

\* An entry for each colour buffer of S, closed now.
PushDelayed(q, S) ==
    q \o [i \in 1..Cardinality(S) |-> [ts |-> now, h |-> SetToSeq(S)[i]]]

\* Close n times, queueing at 0 for the delayed close.
DropDelayed(st, n) ==
    LET zero == ReachZero(st.cbs, n)
    IN [cbs |-> [h \in DOMAIN st.cbs |->
                    [st.cbs[h] EXCEPT
                        !.refcount = Minus(@, n[h]),
                        !.closedTs = IF h \in zero THEN now ELSE @]],
        delayed |-> PushDelayed(st.delayed, zero)]

\* Mutant: no delay at all.
ExpiredAtOnce(entry) == entry.ts <= now

\* kColorBufferClosingDelaySec = 1.
Expired(entry) == entry.ts + 1 <= now

\* Mutant: a buffer that has been opened is kept, while its entry goes.
PerformDelayedUnopened(st) ==
    LET q == st.delayed
        n == Cardinality({k \in 1..Len(q) : \A i \in 1..k : Expired(q[i])})
        U == {h \in DOMAIN st.cbs : ~ st.cbs[h].opened}
    IN [cbs     |-> Without(st.cbs, U \cap {q[i].h : i \in 1..n}),
        delayed |-> SubSeq(q, n + 1, Len(q))]

\* performDelayedColorBufferCloseLocked(false): erase the buffers of the
\* leading entries stamped in an earlier second, and those entries.
PerformDelayed(st) ==
    LET q == st.delayed
        n == Cardinality({k \in 1..Len(q) : \A i \in 1..k : Expired(q[i])})
    IN [cbs     |-> Without(st.cbs, {q[i].h : i \in 1..n}),
        delayed |-> SubSeq(q, n + 1, Len(q))]

\* closeColorBufferLocked on the handles h with n[h] > 0.  The first one that
\* is found also runs the expired delayed closes; for the rest of the
\* operation nothing more expires.
CloseLocked(st, n) ==
    LET found == {h \in DOMAIN st.cbs : n[h] > 0}
        first == CHOOSE h \in found : TRUE
    IN CASE RefCountPipe \/ found = {} -> st
         [] ~ RefCountPipe /\ found # {} /\ NoDelay ->
                [st EXCEPT !.cbs = Drop(@, n)]
         [] ~ RefCountPipe /\ found # {} /\ ~ NoDelay ->
                DropDelayed(PerformDelayed(DropDelayed(st, One(first))),
                            [n EXCEPT ![first] = @ - 1])

\* eraseDelayedCloseColorBufferLocked: from the first entry not older than ts,
\* through the entries of that second, the first one for h is cleared.
EraseDelayed(q, h, ts) ==
    LET lower == CHOOSE k \in 1..Len(q) + 1 :
                     /\ k > 1 => q[k - 1].ts < ts
                     /\ k <= Len(q) => q[k].ts >= ts
        hits  == {i \in lower..Len(q) : q[i].h = h /\ \A j \in lower..i : q[j].ts = ts}
    IN [i \in 1..Len(q) |->
          IF i \in hits /\ \A j \in hits : i <= j THEN [q[i] EXCEPT !.h = 0] ELSE q[i]]

\* markOpened, on a buffer of the table.
MarkOpened(st, h) ==
    [cbs     |-> [st.cbs EXCEPT ![h].opened = TRUE, ![h].closedTs = 0],
     delayed |-> EraseDelayed(st.delayed, h, st.cbs[h].closedTs)]

\* The colour buffer state an operation starts from and leaves.
Bufs == [cbs |-> m_colorbuffers, delayed |-> delayed]
SetBufs(st) ==
    /\ Len(st.delayed) <= MaxDelayed
    /\ m_colorbuffers' = st.cbs
    /\ delayed' = st.delayed

\* The table after sweepColorBuffersLocked has received every queued destroy.
Queued(h) == Cardinality({i \in DOMAIN destroys : destroys[i] = h})
SweptColorBuffers == Drop(m_colorbuffers, [h \in Handles |-> Queued(h)])

-----------------------------------------------------------------------------
(* Time, render threads and guest clients. *)

Running(t) == tinfo[t].life = "running"

\* t is in no post; t may decode a command: no other thread is in the middle of
\* one.
NotPosting(t) == posting[t] = 0 /\ showing[t] = 0
Decoding(t)   == Running(t) /\ \A u \in Threads : NotPosting(u)

\* A client still holds a reference to colour buffer h.
Held(h) == guestRefs[h] > 0 \/ \E p \in Puids : procCB[p][h] > 0

\* EGL handles are private to the guest process that made them: a thread names
\* an object only if no other process owns it.
Names(t, owned, h) == \A p \in Puids : h \in owned[p] => tinfo[t].puid = p

Tick ==
    /\ now' \in IF ClockStepsBack THEN 1..MaxTime ELSE {now + 1}
    /\ now' <= MaxTime
    /\ UNCHANGED <<s_nextHandle, tables, delayed, destroys, owners, tinfo,
                   flags, guest>>

StartThread(t) ==
    /\ tinfo[t].life = "none"
    /\ tinfo' = [tinfo EXCEPT ![t] = [NoThread EXCEPT !.life = "running"]]
    /\ UNCHANGED <<now, s_nextHandle, tables, delayed, destroys, owners,
                   flags, guest>>

\* rcSetPuid, the first command of a client that knows its process id.
SetPuid(t, p) ==
    /\ Decoding(t) /\ tinfo[t].puid = 0
    /\ tinfo' = [tinfo EXCEPT ![t].puid = p]
    /\ UNCHANGED <<now, s_nextHandle, tables, delayed, destroys, owners,
                   flags, guest>>

SetShuttingDown ==
    /\ ~ m_shuttingDown
    /\ m_shuttingDown' = TRUE
    /\ UNCHANGED <<now, s_nextHandle, tables, delayed, destroys, owners, tinfo,
                   posting, showing, guest>>

-----------------------------------------------------------------------------
(* Creation. *)

\* createColorBufferWithHandleLocked on the swept table; ColorBuffer::create
\* may fail, and then the handle is lost.
NewColorBuffer(t, h) ==
    LET puid == tinfo[t].puid
    IN \/ /\ m_colorbuffers' = Put(SweptColorBuffers, h,
                                   [refcount |-> 1, opened |-> FALSE, closedTs |-> 0])
          /\ procCB' = IF ~ RefCountPipe /\ PreO /\ puid # 0
                       THEN [procCB EXCEPT ![puid][h] = @ + 1] ELSE procCB
          /\ pthreadCB' = IF RefCountPipe THEN pthreadCB
                          ELSE [pthreadCB EXCEPT ![t] = @ \cup {h}]
          /\ guestRefs' = IF RefCountPipe \/ puid = 0
                          THEN [guestRefs EXCEPT ![h] = 1] ELSE guestRefs
       \/ /\ m_colorbuffers' = SweptColorBuffers
          /\ UNCHANGED <<procCB, pthreadCB, guestRefs>>

CreateColorBuffer(t) ==
    /\ Decoding(t)
    /\ Cardinality(DOMAIN SweptColorBuffers) < MaxColorBuffers
    /\ CanDraw(SweptColorBuffers)
    /\ s_nextHandle' = GenHandle(SweptColorBuffers)
    /\ NewColorBuffer(t, s_nextHandle')
    /\ destroys' = << >>
    /\ UNCHANGED <<now, m_contexts, m_windows, m_buffers, winToCB, delayed,
                   procWin, procCtx, tinfo, flags, leaked>>

\* The emulator aborts when the guest's handle already names a colour buffer;
\* the other tables are not looked at.
CreateColorBufferWithHandle(t, h) ==
    /\ Decoding(t)
    /\ h \notin DOMAIN m_colorbuffers
    /\ Cardinality(DOMAIN SweptColorBuffers) < MaxColorBuffers
    /\ NewColorBuffer(t, h)
    /\ destroys' = << >>
    /\ UNCHANGED <<now, s_nextHandle, m_contexts, m_windows, m_buffers, winToCB,
                   delayed, procWin, procCtx, tinfo, flags, leaked>>

CreateBuffer(t) ==
    /\ Decoding(t)
    /\ Cardinality(m_buffers) < MaxBuffers
    /\ CanDraw(m_colorbuffers)
    /\ s_nextHandle' = GenHandle(m_colorbuffers)
    /\ m_buffers' \in {m_buffers, m_buffers \cup {s_nextHandle'}}
    /\ UNCHANGED <<now, m_contexts, m_windows, m_colorbuffers, winToCB, delayed,
                   destroys, owners, tinfo, flags, guest>>

CloseBuffer(t, h) ==
    /\ Decoding(t)
    /\ h \in m_buffers
    /\ m_buffers' = m_buffers \ {h}
    /\ UNCHANGED <<now, s_nextHandle, m_contexts, m_windows, m_colorbuffers,
                   winToCB, delayed, destroys, owners, tinfo, flags,
                   guest>>

CreateRenderContext(t) ==
    LET puid == tinfo[t].puid
    IN /\ Decoding(t)
       /\ Cardinality(m_contexts) < MaxContexts
       /\ CanDraw(m_colorbuffers)
       /\ s_nextHandle' = GenHandle(m_colorbuffers)
       /\ \/ /\ m_contexts' = m_contexts \cup {s_nextHandle'}
             /\ procCtx' = Own(procCtx, puid, s_nextHandle')
             /\ tinfo' = IF puid # 0 THEN tinfo
                         ELSE [tinfo EXCEPT ![t].contextSet = @ \cup {s_nextHandle'}]
          \/ UNCHANGED <<m_contexts, procCtx, tinfo>>
       /\ UNCHANGED <<now, m_windows, m_colorbuffers, m_buffers, winToCB, delayed,
                      destroys, procCB, procWin, pthreadCB, flags, guest>>

CreateWindowSurface(t) ==
    LET puid == tinfo[t].puid
    IN /\ Decoding(t)
       /\ Cardinality(DOMAIN m_windows) < MaxWindows
       /\ CanDraw(m_colorbuffers)
       /\ s_nextHandle' = GenHandle(m_colorbuffers)
       /\ \/ /\ m_windows' = Put(m_windows, s_nextHandle', [cb |-> 0, owned |-> {}])
             /\ procWin' = Own(procWin, puid, s_nextHandle')
             /\ tinfo' = IF puid # 0 THEN tinfo
                         ELSE [tinfo EXCEPT ![t].windowSet = @ \cup {s_nextHandle'}]
          \/ UNCHANGED <<m_windows, procWin, tinfo>>
       /\ UNCHANGED <<now, m_contexts, m_colorbuffers, m_buffers, winToCB, delayed,
                      destroys, procCB, procCtx, pthreadCB, flags, guest>>

-----------------------------------------------------------------------------
(* Colour buffer references. *)

\* With RefCountPipe openColorBuffer and closeColorBuffer do nothing.
OpenColorBuffer(t, h) ==
    LET puid == tinfo[t].puid
        st   == MarkOpened(Bufs, h)
    IN /\ ~ RefCountPipe
       /\ Decoding(t) /\ h \in DOMAIN m_colorbuffers
       /\ (IF puid = 0 THEN guestRefs[h] ELSE procCB[puid][h]) < MaxOpens
       /\ SetBufs([st EXCEPT !.cbs[h].refcount = (@ + 1) % RefMod])
       /\ procCB' = IF puid = 0 THEN procCB ELSE [procCB EXCEPT ![puid][h] = @ + 1]
       /\ guestRefs' = IF puid = 0 THEN [guestRefs EXCEPT ![h] = @ + 1] ELSE guestRefs
       /\ UNCHANGED <<now, s_nextHandle, m_contexts, m_windows, m_buffers, winToCB,
                      destroys, procWin, procCtx, pthreadCB, tinfo, flags,
                      leaked>>

\* A process closes only what it has opened; a client without a process id is
\* taken at its word, and closes only what it holds.
CloseColorBuffer(t, h) ==
    LET puid == tinfo[t].puid
    IN /\ ~ RefCountPipe
       /\ Decoding(t)
       /\ (IF puid = 0 THEN guestRefs[h] ELSE procCB[puid][h]) > 0
       /\ procCB' = IF puid = 0 THEN procCB ELSE [procCB EXCEPT ![puid][h] = @ - 1]
       /\ guestRefs' = IF puid = 0 THEN [guestRefs EXCEPT ![h] = @ - 1] ELSE guestRefs
       /\ SetBufs(CloseLocked(Bufs, One(h)))
       /\ UNCHANGED <<now, s_nextHandle, m_contexts, m_windows, m_buffers, winToCB,
                      destroys, procWin, procCtx, pthreadCB, tinfo, flags,
                      leaked>>

\* onLastColorBufferRef: the guest kernel closed the last descriptor of h.
\* A full channel drops the destroy, and the buffer is never freed.
OnLastColorBufferRef(h) ==
    /\ RefCountPipe
    /\ guestRefs[h] > 0
    /\ \/ /\ Len(destroys) < ChannelCap
          /\ destroys' = Append(destroys, h)
          /\ leaked' = leaked
       \/ /\ Len(destroys) = ChannelCap
          /\ destroys' = destroys
          /\ leaked' = leaked \cup {h}
    /\ guestRefs' = [guestRefs EXCEPT ![h] = 0]
    /\ UNCHANGED <<now, s_nextHandle, tables, delayed, owners, tinfo, flags>>

\* The colour buffers once window w is given h.  The old attachment is released
\* before the new one is counted; if that erases h itself, the increment goes to
\* freed memory.
AfterAttach(w, h) ==
    LET old  == m_windows[w].cb
        used == MarkOpened(Bufs, h)
        st   == CASE old = 0 -> used
                  [] old # 0 /\ RefCountPipe -> [used EXCEPT !.cbs = Drop(@, One(old))]
                  [] old # 0 /\ ~ RefCountPipe -> CloseLocked(used, One(old))
    IN IF h \in DOMAIN st.cbs
       THEN [st EXCEPT !.cbs[h].refcount = (@ + 1) % RefMod] ELSE st

SetWindowSurfaceColorBuffer(t, w, h) ==
    /\ Decoding(t) /\ w \in DOMAIN m_windows /\ Names(t, procWin, w)
    /\ h \in DOMAIN m_colorbuffers /\ Held(h)
    /\ SetBufs(AfterAttach(w, h))
    /\ m_windows' = [m_windows EXCEPT ![w].cb = h, ![w].owned = @ \cup {h}]
    /\ winToCB' = [winToCB EXCEPT ![w] = h]
    /\ UNCHANGED <<now, s_nextHandle, m_contexts, m_buffers, destroys, owners,
                   tinfo, flags, guest>>

\* post: postImpl finds the colour buffer, ...
PostFind(t, h) ==
    /\ Decoding(t) /\ h \in DOMAIN m_colorbuffers
    /\ posting' = [posting EXCEPT ![t] = h]
    /\ UNCHANGED <<now, s_nextHandle, tables, delayed, destroys, owners, tinfo,
                   m_shuttingDown, showing, guest>>

\* ... marks it opened and hands it to the post worker (if it has been freed
\* meanwhile, the mark is written to freed memory), ...
PostMark(t) ==
    LET h == posting[t]
    IN /\ h # 0
       /\ SetBufs(IF h \in DOMAIN m_colorbuffers THEN MarkOpened(Bufs, h) ELSE Bufs)
       /\ posting' = [posting EXCEPT ![t] = 0]
       /\ showing' = [showing EXCEPT ![t] = h]
       /\ UNCHANGED <<now, s_nextHandle, m_contexts, m_windows, m_buffers, winToCB,
                      destroys, owners, tinfo, m_shuttingDown, guest>>

\* ... and waits until the post worker has drawn it.
PostDone(t) ==
    /\ showing[t] # 0
    /\ showing' = [showing EXCEPT ![t] = 0]
    /\ UNCHANGED <<now, s_nextHandle, tables, delayed, destroys, owners, tinfo,
                   m_shuttingDown, posting, guest>>

\* closeAllColorBuffer, when the last on-screen window is deleted.  Bound: not
\* once more after a count has passed below 0.
CloseAllColorBuffer ==
    /\ WindowsClose
    /\ \A h \in DOMAIN m_colorbuffers : m_colorbuffers[h].refcount < RefMod - 1
    /\ SetBufs(CloseLocked(Bufs, [h \in Handles |-> 1]))
    /\ UNCHANGED <<now, s_nextHandle, m_contexts, m_windows, m_buffers, winToCB,
                   destroys, owners, tinfo, flags, guest>>

-----------------------------------------------------------------------------
(* Destruction. *)

\* How often releasing the windows W closes h.
Attached(W, h) == Cardinality({w \in W : m_windows[w].cb = h})
OwnedBy(W, h)  == Cardinality({w \in W : h \in m_windows[w].owned})

\* The colour buffers after the attachments of windows W are released.
\* Destroying a window, or draining it, also closes every colour buffer the
\* window was ever given (all); the cleanup of a process does not.
ReleaseWindows(W, all) ==
    LET n == [h \in Handles |->
                 Attached(W, h) + IF all THEN OwnedBy(W, h) ELSE 0]
    IN IF RefCountPipe
       THEN [Bufs EXCEPT !.cbs = Drop(@, [h \in Handles |-> Attached(W, h)])]
       ELSE CloseLocked(Bufs, n)

DestroyRenderContext(t, c) ==
    LET puid == tinfo[t].puid
    IN /\ Decoding(t) /\ c \in m_contexts /\ Names(t, procCtx, c)
       /\ m_colorbuffers' = SweptColorBuffers
       /\ destroys' = << >>
       /\ m_contexts' = m_contexts \ {c}
       /\ procCtx' = Disown(procCtx, puid, c)
       /\ tinfo' = IF puid # 0 THEN tinfo ELSE [tinfo EXCEPT ![t].contextSet = @ \ {c}]
       /\ UNCHANGED <<now, s_nextHandle, m_windows, m_buffers, winToCB, delayed,
                      procCB, procWin, pthreadCB, flags, guest>>

DestroyWindowSurface(t, w) ==
    LET puid == tinfo[t].puid
    IN /\ ~ m_shuttingDown
       /\ Decoding(t) /\ w \in DOMAIN m_windows /\ Names(t, procWin, w)
       /\ SetBufs(ReleaseWindows({w}, TRUE))
       /\ m_windows' = Without(m_windows, {w})
       /\ procWin' = Disown(procWin, puid, w)
       /\ tinfo' = IF puid # 0 THEN tinfo ELSE [tinfo EXCEPT ![t].windowSet = @ \ {w}]
       /\ UNCHANGED <<now, s_nextHandle, m_contexts, m_buffers, winToCB, destroys,
                      procCB, procCtx, pthreadCB, flags, guest>>

\* bindContext(0, 0, 0) sweeps the outstanding destroys.
UnbindContext(t) ==
    /\ Decoding(t) /\ ~ m_shuttingDown
    /\ destroys # << >>
    /\ m_colorbuffers' = SweptColorBuffers
    /\ destroys' = << >>
    /\ UNCHANGED <<now, s_nextHandle, m_contexts, m_windows, m_buffers, winToCB,
                   delayed, owners, tinfo, flags, guest>>

(* A render thread whose stream has ended: unbind, drain its windows, drain *)
(* its contexts, finish.  Each takes m_lock anew.                           *)

\* Mutant: the thread ends without draining.
ExitThreadAtOnce(t) ==
    /\ Running(t) /\ NotPosting(t)
    /\ tinfo' = [tinfo EXCEPT ![t].life = "finished"]
    /\ UNCHANGED <<now, s_nextHandle, tables, delayed, destroys, owners,
                   flags, guest>>

ExitThread(t) ==
    /\ Running(t) /\ NotPosting(t)
    /\ IF m_shuttingDown
       THEN /\ tinfo' = [tinfo EXCEPT ![t].life = "finished"]
            /\ UNCHANGED <<m_colorbuffers, destroys>>
       ELSE /\ tinfo' = [tinfo EXCEPT ![t].life = "unbound"]
            /\ m_colorbuffers' = SweptColorBuffers
            /\ destroys' = << >>
    /\ UNCHANGED <<now, s_nextHandle, m_contexts, m_windows, m_buffers, winToCB,
                   delayed, owners, flags, guest>>

\* A window that never got a colour buffer is not erased.
DrainWindowSurface(t) ==
    LET W == {w \in tinfo[t].windowSet \cap DOMAIN m_windows : m_windows[w].cb # 0}
    IN /\ tinfo[t].life = "unbound"
       /\ IF m_shuttingDown
          THEN /\ tinfo' = [tinfo EXCEPT ![t].life = "drained"]
               /\ UNCHANGED <<m_windows, m_colorbuffers, delayed>>
          ELSE /\ SetBufs(ReleaseWindows(W, TRUE))
               /\ m_windows' = Without(m_windows, W)
               /\ tinfo' = [tinfo EXCEPT ![t].life = "drained", ![t].windowSet = {}]
       /\ UNCHANGED <<now, s_nextHandle, m_contexts, m_buffers, winToCB, destroys,
                      owners, flags, guest>>

DrainRenderContext(t) ==
    /\ tinfo[t].life = "drained"
    /\ IF m_shuttingDown
       THEN /\ tinfo' = [tinfo EXCEPT ![t].life = "finished"]
            /\ UNCHANGED m_contexts
       ELSE /\ m_contexts' = m_contexts \ tinfo[t].contextSet
            /\ tinfo' = [tinfo EXCEPT ![t].life = "finished", ![t].contextSet = {}]
    /\ UNCHANGED <<now, s_nextHandle, m_windows, m_colorbuffers, m_buffers, winToCB,
                   delayed, destroys, owners, flags, guest>>

\* Mutant: buffers that are attached or opened elsewhere are spared.
ReapThreadUnused(t) ==
    /\ tinfo[t].life = "finished"
    /\ m_colorbuffers' = Without(m_colorbuffers,
                            {h \in pthreadCB[t] \cap DOMAIN m_colorbuffers :
                                m_colorbuffers[h].refcount <= 1})
    /\ pthreadCB' = [pthreadCB EXCEPT ![t] = {}]
    /\ tinfo' = [tinfo EXCEPT ![t] = NoThread]
    /\ UNCHANGED <<now, s_nextHandle, m_contexts, m_windows, m_buffers, winToCB,
                   delayed, destroys, procCB, procWin, procCtx, flags,
                   guest>>

\* The render server removes a finished thread: closePthreadAloneColorBuffer
\* erases every colour buffer it created, whoever still uses it.
ReapThread(t) ==
    /\ tinfo[t].life = "finished"
    /\ m_colorbuffers' = Without(m_colorbuffers, pthreadCB[t])
    /\ pthreadCB' = [pthreadCB EXCEPT ![t] = {}]
    /\ tinfo' = [tinfo EXCEPT ![t] = NoThread]
    /\ UNCHANGED <<now, s_nextHandle, m_contexts, m_windows, m_buffers, winToCB,
                   delayed, destroys, procCB, procWin, procCtx, flags,
                   guest>>

\* cleanupProcGLObjects, by the cleanup thread.
CleanupProcGLObjects(p) ==
    LET W  == procWin[p] \cap DOMAIN m_windows
        st == ReleaseWindows(W, FALSE)
    IN /\ SetBufs(CloseLocked(st, procCB[p]))
       /\ m_windows' = Without(m_windows, W)
       /\ m_contexts' = m_contexts \ procCtx[p]
       /\ procWin' = [procWin EXCEPT ![p] = {}]
       /\ procCtx' = [procCtx EXCEPT ![p] = {}]
       /\ procCB' = [procCB EXCEPT ![p] = [h \in Handles |-> 0]]
       /\ UNCHANGED <<now, s_nextHandle, m_buffers, winToCB, destroys, pthreadCB,
                      tinfo, flags, guest>>

-----------------------------------------------------------------------------

Next ==
    \/ Tick \/ SetShuttingDown \/ CloseAllColorBuffer
    \/ \E p \in Puids : CleanupProcGLObjects(p)
    \/ \E h \in Handles : OnLastColorBufferRef(h)
    \/ \E t \in Threads :
          \/ StartThread(t) \/ ExitThread(t)
          \/ DrainWindowSurface(t) \/ DrainRenderContext(t) \/ ReapThread(t)
          \/ PostMark(t) \/ PostDone(t)
          \/ \E p \in Puids : SetPuid(t, p)
          \/ CreateColorBuffer(t) \/ CreateBuffer(t)
          \/ CreateRenderContext(t) \/ CreateWindowSurface(t) \/ UnbindContext(t)
          \/ \E h \in GuestHandles : CreateColorBufferWithHandle(t, h)
          \/ \E h \in Handles :
                \/ CloseBuffer(t, h)
                \/ OpenColorBuffer(t, h) \/ CloseColorBuffer(t, h) \/ PostFind(t, h)
                \/ DestroyRenderContext(t, h) \/ DestroyWindowSurface(t, h)
                \/ \E w \in Handles : SetWindowSurfaceColorBuffer(t, w, h)

Spec == Init /\ [][Next]_vars

-----------------------------------------------------------------------------
(* Properties. *)

\* The tables hold what their C++ types hold.
TypeOK ==
    /\ now \in Nat
    /\ s_nextHandle \in 0..MaxHandle
    /\ m_contexts \subseteq Handles
    /\ DOMAIN m_windows \subseteq Handles
    /\ m_windows \in [DOMAIN m_windows -> WindowEntry]
    /\ DOMAIN m_colorbuffers \subseteq Handles
    /\ m_colorbuffers \in [DOMAIN m_colorbuffers -> ColorBufferRef]
    /\ m_buffers \subseteq Handles
    /\ winToCB \in [Handles -> 0..MaxHandle]
    /\ delayed \in Seq(CloseInfo)
    /\ destroys \in Seq(Handles) /\ Len(destroys) <= ChannelCap
    /\ procCB \in [Puids -> [Handles -> Nat]]
    /\ procWin \in [Puids -> SUBSET Handles]
    /\ procCtx \in [Puids -> SUBSET Handles]
    /\ pthreadCB \in [Threads -> SUBSET Handles]
    /\ tinfo \in [Threads -> ThreadInfo]
    /\ m_shuttingDown \in BOOLEAN
    /\ posting \in [Threads -> 0..MaxHandle]
    /\ showing \in [Threads -> 0..MaxHandle]
    /\ guestRefs \in [Handles -> Nat]
    /\ leaked \subseteq Handles

\* genHandle_locked hands out no handle that is in use, however often the
\* counter has wrapped: two objects share a handle only when a guest chose it
\* itself with rcCreateColorBufferWithHandle.
HandlesDistinct ==
    /\ m_contexts \cap DOMAIN m_windows = {}
    /\ m_contexts \cap m_buffers = {}
    /\ DOMAIN m_windows \cap m_buffers = {}
    /\ DOMAIN m_colorbuffers \cap (m_contexts \cup DOMAIN m_windows \cup m_buffers)
          \subseteq GuestHandles

\* The references to h that exist with RefCountPipe: one for each window it is
\* attached to, and the guest's descriptor, until its close has been swept.
Descriptor(h) == guestRefs[h] + Queued(h) + IF h \in leaked THEN 1 ELSE 0
References(h) == Attached(DOMAIN m_windows, h) + Descriptor(h)

\* With RefCountPipe refcount counts the references exactly, so a colour buffer
\* is in the table as long as somebody can reach it and not longer: no window
\* is attached to a freed buffer, and no buffer outlives its last reference.
RefCountExact ==
    RefCountPipe => \A h \in Handles :
        IF h \in DOMAIN m_colorbuffers
        THEN References(h) > 0 /\ m_colorbuffers[h].refcount = References(h)
        ELSE References(h) = 0

\* When a close at 0 erases at once, refcount never reaches or passes 0 in the
\* table: the unsigned counter cannot wrap below zero.
LiveMeansReferenced ==
    RefCountPipe \/ NoDelay =>
        \A h \in DOMAIN m_colorbuffers : m_colorbuffers[h].refcount # 0

\* cleanupProcGLObjects dereferences the iterator of every window its process
\* owns without looking at it: they must all be in m_windows.
OwnedWindowsExist == \A p \in Puids : procWin[p] \subseteq DOMAIN m_windows

\* Every context is in an ownership set that somebody will still drain.
NoOrphanContext ==
    ~ m_shuttingDown => \A c \in m_contexts :
        \/ \E p \in Puids : c \in procCtx[p]
        \/ \E t \in Threads : tinfo[t].life # "none" /\ c \in tinfo[t].contextSet

\* Without RefCountPipe every colour buffer belongs to a render thread that the
\* render server has not removed yet, which is what bounds its life.
NoOrphanColorBuffer ==
    ~ RefCountPipe => \A h \in DOMAIN m_colorbuffers :
        \E t \in Threads : tinfo[t].life # "none" /\ h \in pthreadCB[t]

\* A closed colour buffer is never forgotten: as long as it is in the table with the
\* time of its close, the delayed close list has an entry for it with that very time,
\* which either frees it or is found by markOpened.  However the clock is set.
PendingListed ==
    \A h \in DOMAIN m_colorbuffers : m_colorbuffers[h].closedTs # 0 =>
        \E i \in DOMAIN delayed : delayed[i] = [ts |-> m_colorbuffers[h].closedTs, h |-> h]

\* h goes with the render thread that created it.
LeavesWithThread(h) ==
    \E t \in Threads : h \in pthreadCB[t] /\ tinfo[t].life = "finished"

\* The list has an entry for h stamped in an earlier second.
Due(h) == \E i \in DOMAIN delayed : delayed[i].h = h /\ delayed[i].ts + 1 <= now

\* In the delayed mode no operation, whatever it closes on the way, erases a colour
\* buffer that was not closed in an earlier second of the clock, except with the
\* render thread that created it.  That is less than a second of grace: a buffer
\* closed at the end of a second may go at the start of the next.  Nor does it say
\* that a buffer that was used again since stays: an entry that the open did not
\* clear may still erase it.
ErasedWhenDue ==
    [][ ~ RefCountPipe /\ ~ NoDelay =>
          \A h \in DOMAIN m_colorbuffers \ DOMAIN m_colorbuffers' :
             Due(h) \/ LeavesWithThread(h) ]_vars

-----------------------------------------------------------------------------
(* What a comment of FrameBuffer.h says of posts. *)

\* "|needLockAndBind| is used to indicate whether the operation requires
\* acquiring/releasing the FrameBuffer instance's lock": a post that took it has
\* its colour buffer from the time it finds it until it is drawn.
PostedIsAlive ==
    \A t \in Threads :
        {posting[t], showing[t]} \ {0} \subseteq DOMAIN m_colorbuffers

=============================================================================
