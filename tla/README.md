# fde_emugl: a TLA+ model of the host renderer

fde_emugl renders the OpenGL ES of Android applications on a Linux host. Guest
processes connect over a unix socket to the *render server*; each connection gets
a *render thread* that decodes a stream of commands and runs them against one
global *FrameBuffer*, which owns every context, window surface and colour buffer.
The project models the parts where several actors share state: the object tables
and their reference counts, the message channel the threads use among themselves,
the life of the render threads, the worker threads that post frames to on-screen
windows and read them back for a recorder, and the fences by which the guest learns
that the GPU is done.

Paths below are relative to `src/android-emugl/host/libs/libOpenglRender/` (R/) and
`src/android-emu/android/base/` (B/).

## Inventory

| Part | State | Operations | Hard because | Correct when |
|---|---|---|---|---|
| FrameBuffer (R/FrameBuffer.cpp) | four tables keyed by 32-bit handles; refcount, opened, closedTs; delayed close list; channel of outstanding destroys; ownership by process and by thread | create, open, close, attach, post, destroy, drain, reap, cleanup, sweep | render threads, the reaper and the cleanup thread all free objects; counts are unsigned; closes arrive late or are lost; post runs without the lock | a handle names one object; a buffer lives exactly as long as it is referenced; the ownership sets agree with the tables |
| MessageChannel (B/synchronization/MessageChannel) | ring of slots, position, count, stopped | send, trySend, receive, tryReceive, timedReceive, waitForEmpty, stop | two condition variables, one signal for each operation, spurious wake-ups, timeouts | it is a FIFO queue; nobody sleeps who could proceed; stop releases everybody |
| RenderServer, RenderThread (R/RenderServer.cpp, R/RenderThread.cpp, B/threads) | set of thread objects, exit flag, decoding lock | accept, reject, start, reap, stop, join; read, lock, decode, answer, finish | objects are deleted by another thread; blocking I/O under a lock; failing starts | nothing freed is touched; every client is served; exit ends |
| WorkerThread (B/threads/WorkerThread.h) | command queue, taken commands, sync points on the callers' stacks, started and finished flags | start, enqueue, waitQueuedItems, the loop, stop | a signal only for an empty queue; a second start; waiters behind a Stop command | a wait means that the work is done; the worker does not sleep on work; every waiter returns |
| On-screen windows, PostWorker (R/FrameBuffer.cpp) | map of displays to cells to windows, times of deletion, the post thread | update, delete, show, hide, post, compose, screenshot | posts run without m_lock; windows are freed while posts are queued; surfaces can fail | nothing is drawn to a window that is gone, hidden or just deleted; none is leaked |
| ReadbackWorker, post callbacks (R/ReadbackWorker.cpp) | callbacks by display, mailbox of four buffers, count of reads, copy flag | register, remove, read back, copy, flush, exit | the post, the copying thread and the flushing thread share a mailbox; registration in two tables | reads alternate; no buffer is read into and copied at once; frames only go forward |
| SyncThread, FenceSync (R/SyncThread.cpp, R/FenceSync.cpp) | fences with counts, timeline with expiry times, command channel, one reply channel | create, wait, destroy, trigger, block, sweep | destroy races waits and the sweep; expiry by counting signals; replies without a name | counts are exact; a native fence outlives its signal; every command is answered |
| RendererImpl (R/RendererImpl.cpp) | cleanup thread with a channel of process ids, list of render channels | cleanup, waitForProcessCleanup, stop | ids sent between the wait and the stop | each dead process is cleaned up once |
| RenderChannelImpl, BufferQueue (R/RenderChannelImpl.cpp) | two queues, event state | tryWrite, tryRead, stop from either side | events and stop race | no event is lost; stop is seen at both ends |
| ring_buffer, RingStream (B/ring_buffer.c) | shared-memory ring, read and write positions | produce, consume, with and without view | single producer and consumer without a lock | FIFO, no overwrite |
| ReadBuffer, SubAllocator | offsets | getData, consume; alloc, free | arithmetic at boundaries | no overlap, no loss |
| RenderControl, decoders, Translator, ColorBuffer, guest libraries, ANGLE | | | OpenGL data, generated or vendored | not modelled |

Interaction: a render thread calls FrameBuffer operations while it holds the
server's `m_lock`; the reaper in RenderServer::main calls
closePthreadAloneColorBuffer; the cleanup thread calls cleanupProcGLObjects; the
guest kernel's pipe calls onLastColorBufferRef, which only fills a MessageChannel
that later operations sweep. postImpl hands a colour buffer and the cell of a window to
the post thread and waits; then it reads the frame back for each recorded display, while
the recorder has the readback thread copy an earlier one. The guest's sync device asks
the sync thread to wait for fences that render threads create and destroy. These calls are actions of the module of the callee;
the caller's module says when they happen.

## Modules

| Module | What it is |
|---|---|
| FrameBuffer | the object tables; one action for each public operation |
| FrameBufferProofs | types, handles, who owns what, what the delayed close frees and forgets |
| RefCountProofs | what the reference counts are worth |
| Fifo | abstract specification: what a message channel promises |
| MessageChannel | the ring, the lock, the condition variables |
| ChannelProofs | types, refinement of Fifo, no lost wake-up of receivers or senders |
| RenderServer | accept loop, thread objects, pthreads, clients |
| ServerProofs | types and lock, main touches nothing freed |
| WorkerThread | the queue, its sync points and its thread; extended by the next two |
| WorkerProofs | what the queue and its sync points guarantee their users: lemmas for the next two |
| Recording | callbacks, mailboxes, the readback thread |
| RecordingProofs | what the comment of doNextReadback claims of the buffers; order of frames, waits, registries |
| Posting | the map of on-screen windows, the post thread |
| PostingProofs | no window is leaked or shared, or drawn to when it is gone or hidden |
| FenceSync | fences, timeline, sync thread |
| FenceProofs | types, exact counts through the steps of decRef, what is held is there, expiry, replies |
| MC... | definitions for TLC's instances of each |

### FrameBuffer

The variables have the names of the members of the class (`winToCB` is
m_windowSurfaceToColorBuffer, `delayed` is m_colorBufferDelayedCloseList,
`destroys` is mOutstandingColorBufferDestroys). EGL objects are abstracted to their
handles. Handles and counts keep their width as the constants MaxHandle and RefMod.

Commands are decoded one at a time under the render server's lock, and every
operation except post also takes FrameBuffer::m_lock, so each is one step.
`postImpl` takes m_lock only inside the braces of an `if`, which releases it at
once; a post is therefore three steps (PostFind, PostMark, PostDone) between
which the reaper, terminating threads and the cleanup thread may run. A terminating
render thread takes m_lock three times (ExitThread, DrainWindowSurface,
DrainRenderContext), and is removed later by the server (ReapThread).

A loop of the code that closes several colour buffers is described by a
multiplicity for each handle: the effect of closing one handle does not depend on
the others. `guestRefs` and `leaked` are history: the references clients hold, which
the host cannot see but which say what the counts should be. Clients close only what
they hold and name only EGL objects of their own process.

Feature flags: `RefCountPipe` (the guest's kernel reports the last close),
`NoDelay` (no grace period), `PreO` (creation counts as opening for processes).

### MessageChannel

A call holds mLock except while it waits, so what it does between two waits is one
step. `mCanRead` and `mCanWrite` are the sets of blocked threads; a signal takes an
arbitrary one out of its set; WakeUp is the spurious wake-up that the comments of
ConditionVariable.h warn of. The woken thread contends with all other threads and
tests its condition again. Fifo has only the queue, the stopped flag and the outcome
of each call; the refinement maps `queue` to the mCount slots from mPos on.

### RenderServer

A client, its stream, the RenderThread object and its pthread carry one name. `pc`
is where the accept loop is: `header` and `flags` are its two blocking reads, `greet` the
"OK" it writes to the transfer pipe, `reap` the loop over finished threads (one step for
each thread visited), `assert` and `delete` the destructor of one of them, `join` and
`wait` the exit loop. A client opens with a header (the opengles pipe, the transfer pipe,
an unknown one) and flags that ask to be served or to exit; either may never come, and
the client may hang up at any time. A deaf client does not read: an answer to it
blocks in send, under m_lock, and so does its greeting, in the accept loop.

A pthread passes through `finished` (RenderThread::setFinished has stored its own
mFinished and holds mLock), `unlocked`, `flagged` (Thread::thread_main has written the
base class' mFinished) and `gone`. main deletes a thread once it reads the first of these
flags: the stream, then mLock and mCondVar, then the assertion of ~Thread, which is in the
build since NDEBUG is not defined (AssertFinished), then pthread_join. A failed assertion
and the second delete of a stream end the process and the model. Destroying mLock
while setFinished holds it happens in the same states as the failed assertion, which follows at once.

A thread object whose start failed is deleted by the code and inserted in the set all
the same; ReapFreed lets isFinished read either value from it.

### WorkerThread, Recording, Posting

WorkerThread has the members of the class under their names, and one action for
each access to the queue under mLock; `todo` is the local queue the loop has taken.
start() is two steps, because isStarted() is true before the thread exists. What
the commands do is in the modules that extend it.

Recording: `pc` and `job` are where each caller is inside setPostCallback, getPixels,
flushReadPipeline or the tail of a post. ReadbackWorker::mLock is held for one step; a copy is
BeginCopy and EndCopy. A GL buffer is abstracted to the age of the frame in it, counted in
reads of its display up to MaxAge, and `shown` is the age of what the consumer has: this is
what FramesForward compares. The embedder does not fetch frames of a display while it
configures that display (ReadbackWorker.h:43 asks this of it); another one may be configured meanwhile. A post that finds a callback without a mailbox indexes an empty
vector: Crash.

Posting: subWindowsMap leads to a cell (`RendererWindowAttri**`) and the cell to a window;
commands carry the cell, which the code never frees. `recent` is the five-second guard.
Each call changes the map under the locks and then has a list of commands to send, one by
one (`job[c].cmds`). With m_useSubWindow a window is drawn in a native child of its parent;
`children` counts those of each parent. The child is made before the surface and stays when
the surface fails. Production runs without it (opengles.cpp:87 and 147), and so does
post_windows; what is said of the children is proved. Refuse is every `return false` of postImpl. FrameBuffer keeps the three steps
of a post (PostFind, PostMark, PostDone) for the life of the colour buffer; Posting has
the hand-over itself.

### FenceSync

Fences carry their addresses, which are reused. A fence has its count and whether the
first reference is still held; `mFences` and `expires` are the timeline's StaticMap; `owed` are
native fences the sync device has not asked for yet. The sync thread passes through
found (the registry lookup), waiting (after incRef), sweep and flag (between the two
accesses of the sweep to one fence).

`mCount == 1 || --mCount == 0` is two accesses to an atomic, and the delete a third step: a
decRef is at `decrement` when it has seen another count than 1, at `last` when it has seen 1,
at `zero` when it has counted down to 0. The render thread and the sync thread can both be inside one.
An access to a deleted fence ends the model (Crash).

Any number of threads (`Blockers`) may be in waitForGpu or waitForGpuVulkan, whose command
has no fence; they share one reply channel, and GetReply takes the first reply whoever it
answers (each is 0). rcTriggerWait of a
Vulkan fence sends its two commands one after the other. The number of outstanding fences
goes down with the increment of the guest's timeline, one statement after the guest's
descriptor is signaled.

## Runs

All bounds are CONSTANTS with a comment, or sets in the cfg.

| Run | Checks | Instance and why it is enough |
|---|---|---|
| fb_pipe | LiveMeansReferenced, RefCountExact, OwnedWindowsExist | two threads, one process, two windows and two buffers: a buffer attached to both, replaced, drained, cleaned up; one slot for destroys, so some are dropped |
| fb_wrap | HandlesDistinct, RefCountExact, NoOrphanContext | three handles for one object of each kind; the counter wraps without limit, a guest chooses handle 2, a destroy may still be queued when its handle comes back |
| fb_delay | TypeOK, NoOrphanColorBuffer, PendingListed, ErasedWhenDue | two threads that come and go, two seconds of a clock that may step back, all buffers closed at once when the last on-screen window goes |
| ch_fifo | TypeOK, ReadersAwake, ImplementsFifo | three threads, two slots, two messages, all operations: the ring wraps, two threads wait for one |
| ch_wake | WritersAwake, StopReleases | the same without waitForEmpty and with one message |
| rs_serve | TypeOK, ThreadsAlive | three clients with any opening or none, all may stop reading or hang up: one served, one reaped, one arriving; starts may fail |
| rs_live | ClientsAccepted, ExitTerminates | three clients of the transfer pipe, which has all three places where the accept loop can block: one that holds m_lock and may be deaf, one that waits for it, one that asks for the exit; all may be silent or hang up |
| rec_mail | TypeOK, MappedNotRead, AlternatesBuffers, FramesForward, WaitMeansDone, WorkerAwake, RegistriesAgree | one display, three threads, so that one posts, one copies, one flushes; ages up to 3 reads tell all four buffers apart; two commands queued when a call starts; the count wraps at 2 (only its parity is used); the thread may fail to start |
| post_windows | TypeOK, DrawnShown, QuietAfterDelete, OneWindowEach, WaitMeansDone, WaitsEnd | two displays, two parents, two windows and cells: one is updated while the other is drawn to; a screenshot beside the render thread, both may be the first to start the post thread |
| fence | TypeOK, CountExact, HeldIsLive, NativeOutlives, RepliesMatch, Answered | two addresses, reused; at most two fences outstanding (16 in the code), three native fences in all, so that the timeline expires one before the next is made; two blocked callers, room for two commands |
| fb_post | PostedIsAlive is violated | see below |
| fence_wait | WaitsOnLive is violated | see below |

Deadlock is not checked in the rs runs (clients may stop coming and the server may
exit), nor in rec_mail and the fence runs (what is undefined in the code ends the model, and all
native fences may have been used). The others never stop.

The properties of Posting and Recording that need a worker are claimed while no start of
its thread was refused (`~mFinished`): see below what happens otherwise. NativeOutlives is
claimed for a device that asks for fences in the order of creation; with InOrder FALSE TLC
finds a fence that expires while the device has still to ask for it.

The code stamps closes with the wall clock, and the runs let it step back where that
matters. What holds then is PendingListed (a closed buffer that nobody used since has an
entry on the list, so its close is not forgotten) and ErasedWhenDue (nothing goes before an
entry for it is due). What the comments claim beyond that, the order of the list, a whole
second of grace and the safety of a buffer that is used again, does not hold: see the
disagreements below.

OwnedWindowsExist needs handles that do not come back (in the
code, fewer than 2^32 objects). TLC shows why: once the counter has gone round, the window set of a
thread, in which a window stays that was destroyed after the thread got its process id,
is about a new window of the same handle; draining the thread then frees the window of another process.

ClientsAccepted and ExitTerminates say under which condition alone the server does not make
progress: that from some time on it waits for ever for the client it is opening, and that
from some time on the holder of m_lock is blocked in a send.

The mode without delay (NoDelay) and the one before Android O (PreO) have no run of their own; the
theorems cover every setting of the flags.

### Fairness

MessageChannel: weak fairness of the steps of every thread inside a call (a thread
that contends for the mutex gets it, and time passes for a timed wait), none for
callers, stop or spurious wake-ups. RenderServer: weak fairness of the accept loop and of
what a render thread does by itself; strong fairness of taking m_lock, because other
threads take it again and again and a pthread mutex is assumed to starve nobody; nothing
is assumed of clients, which need not send, read or hang up.
Posting: weak fairness of the post thread and of each caller inside a call (a queue whose
lock is held for one access, and OpenGL calls that end); none for new calls, time or
spurious wake-ups. FenceSync: weak fairness of the sync thread, whose waits end by their
timeout at the latest; strong fairness of each blocked caller taking a reply, since several
contend for them. FrameBuffer and Recording have
only safety properties and no fairness.

### Disagreements with the code's own statements

- fb_post: the buffer being posted can be freed before it is marked or drawn.
- fence_wait: the sync thread takes the reference for a blocked wait between the test of another decRef and its
  delete, and waits on a fence that is gone; FenceSync.h:68 says the reference prevents that.

Met while modelling, present in the models, and without a run of their own:

FrameBuffer
- m_windowSurfaceToColorBuffer is never erased from, so
  getWindowSurfaceColorBufferHandle answers for a window that is gone, or for a new one with its handle,
  where FrameBuffer.h:340 says 0 (`winToCB`).
- After the wall clock was set back the delayed close list is not "ordered by |ts| field"
  (FrameBuffer.h:723), which its search relies on (Tick with ClockStepsBack).
- Stamps are whole seconds, so a buffer closed at the end of one goes at the start of the next,
  which the comment at FrameBuffer.cpp:1579 says is waited out (Expired).
- A buffer with two entries on the list, because it was closed twice or attached to the window it was
  attached to already, is freed by the entry that opening it did not clear, although "if the color buffer was used
  then we don't care about timestamps anymore" (FrameBuffer.h:720; MarkOpened, PerformDelayed).
- DestroyWindowSurface closes every buffer the window was ever given a second time, so
  `refcount` is not the "number of client-side references" FrameBuffer.h:50 calls it
  (ReleaseWindows).
- A post after the last close leaves a buffer at count 0 off the delayed close list
  (PostMark); a window without a colour buffer survives its thread (DrainWindowSurface).

MessageChannel
- waitForEmpty waits on the senders' condition variable: it can take the signal meant for a
  blocked sender and does not pass it on (EmptyDone); WritersAwake is checked without it.

RenderServer
- The accept loop reads header and flags, and greets the transfer pipe, without a timeout: one silent client keeps
  all others out (AtMercy).
- The exit loop stops and joins one thread after the other. It waits for ever for a
  thread that waits for m_lock, whose holder is not stopped yet and sends to a client that does
  not read ("Wait for all threads to finish", RenderServer.cpp:195); ExitTerminates says that nothing else keeps it.
- main deletes a thread between setFinished and the write of Thread::mFinished, which
  `assert(!mStarted || mFinished)` in ~Thread notices (AssertFinished); mLock may be destroyed while it is held.
- A thread that failed to start is inserted in the set and its stream is deleted twice (StartFails).

WorkerThread and its users
- Stop returns past `mFinished = true`, and drops the sync points behind it: a later or
  pending waitQueuedItems of the readback thread never returns (Stopped).
- Two first callers of sendPostWorkerCmd: the second start is refused and sets mFinished, after
  which waits return at once, so that posts are no longer waited for; it also replaces the
  PostWorker (StartThread). When the first start fails, a caller between the two halves
  waits for ever.
- UpdateWindowAttri shows a hidden window when its parent changes, leaks the native sub-window
  when no surface can be made, and returns the freed window when there is no parent.
- A post between the registration of a callback and the creation of its mailbox, or after
  its deletion, indexes an empty vector (doNextReadback, Crash).
- flushPipeline does nothing while a copy is in progress, also when the copy is of an older
  frame; the count of reads is read after the unlock.
- finalize of a FrameBuffer that is shutting down sends no Exit to the readback thread, and
  the destructor joins it.

FenceSync
- Of two threads that wait for the GPU, one can return by the reply to the other's
  command, before its own is done, where SyncThread.h:113 speaks of "the result of the command" (GetReply).
- The sweep reads the flag of a fence after giving its reference back (SweepFlag) and can meet a deleted
  fence, and so can a blocked wait before it has its reference (BeginWait).
- rcTriggerWait of a Vulkan fence goes on after its own command and increments the guest's
  timeline twice (TriggerVulkan). Waits that fail the lookup, and blocked ones, do not count as
  signals, so fences of a guest that only blocks are never swept. mTime is an int.

## Proofs

Every invariant and every action property of the passing runs is proved for every value of
the constants that satisfies the named ASSUMEs and, where a theorem has one, its own
hypothesis. In each case the invariant is strengthened until it is inductive.

FrameBufferProofs
- **TypeCorrect**: TypeOK. One lemma for each operator on the
  colour buffer state (Drop, DropDelayed, PerformDelayed, CloseLocked, MarkOpened,
  ReleaseWindows, AfterAttach), then one step for each action.
- **NoHandleReuse**: HandlesDistinct is inductive together with TypeOK. The core is
  GenHandleFree: the handle the wrapping counter stops at is a free one, which needs
  that a non-empty set of numbers has a least element (LeastNat).
- **ClosedNotForgotten, GraceHolds**: PendingListed and ErasedWhenDue, for any clock. All operations change
  the table and the list by a few operators. `Shrunk` says what a close or a mark may do to both (the table only
  loses buffers, and where closes are delayed only due ones; nothing becomes due; a list that has an entry for each stamped
  buffer keeps one; a count goes down and not to 0), and it is transitive (ShrunkTrans), so the parts of an operation are taken one by one.
  Where the list has an entry twice, or out of order, is left open: both happen.
- **BuffersHaveOwner**: the same relation; a buffer appears only with an entry in the set of its
  creator, and a thread is removed only with the buffers of that set.
- **ContextsHaveOwner**: CtxInv adds that a thread that has drained its contexts has none: otherwise
  its removal would orphan them.
- **CleanupFindsWindows** (hypothesis NoWrap: the counter stays below the end of its
  range, which no guest-chosen handle occupies): Fresh, nothing mentions a handle that has not
  been drawn, and OwnersDisjoint, no window is owned by two. OwnedWindowsExist does not survive a step without
  them: a new window could already be in some old set, and cleaning up one owner would take the window
  of another.

RefCountProofs
- **RefCountCorrect**: RefCountExact, with
  PipeInv as the strengthening: each buffer has at most one guest descriptor, open, in the
  channel or lost; the ownership sets of the other mode are empty; and there are fewer
  windows than the count can hold. Without the first part the sweep could close a buffer
  more often than it is referenced. The heart is DropExact: closing no more often than there
  are references keeps the table exact.
- **CountsStayAbove**: LiveMeansReferenced. With the pipe it follows from the exact
  count. Without it the theorem is relative to behaviours in which no count reaches the maximum of
  its type (CountsBelowMax): one more open would wrap it to 0, and the code has no guard.

ChannelProofs
- **ChannelTypeCorrect, ChannelImplementsFifo**: TypeOK is the
  invariant the refinement needs; Write is Accept, Read is Deliver, failing calls are
  Refuse, waits and wake-ups are stutters.
- **NoLostReader**: ReadersAwake together with "a stopped channel is empty" (AwakeInv)
  is inductive; each send adds a message and wakes a receiver if one is blocked.
- **NoLostWriter** (hypothesis: nobody calls waitForEmpty, which waits on the same condition
  variable and takes signals away): WriteInv adds that stop has woken all senders. Each receive frees a
  slot and wakes a sender, a send that fails to find one goes back to sleep with no slot free.

ServerProofs
- **ServerTypeCorrect**: NoThreadYet adds that a connection main has not made a thread for has none; TypeOK
  alone is not inductive, because starting a thread that already decodes would break the
  clause on m_lock.
- **NothingFreedTwice**: AliveInv follows each connection from the queue to the join (`Life`): the
  one being opened has no object yet, the stream of a live object is deleted only while its destructor
  runs, and a freed object that did start is in the set only at exit, once it has been visited. It says nothing of
  mLock, which main may destroy too early.

WorkerProofs has only lemmas. `Line` is what the thread has taken followed by the queue; `Ordered`
says, for the callers that may have commands there and those that wait, that a sync point is the
last of its caller and that a caller that was signaled has nothing left. Each access to the queue
keeps it, so that each user proves only which of its own steps put what in line.

RecordingProofs
- **MailboxSafe, ReadsAlternate**: MailboxInv says of each mailbox which of
  three pairs of buffers reads alternate between, and ties the parity of the count to
  the buffer read last: the third buffer was read last only if a copy of the one it replaced, or
  the fourth, is still what would be mapped. MappedNotRead alone does not survive a copy that
  ends between two reads. The wrap of the count keeps parity because CountMod is even.
- **RecordingTyped**: TypeOK.
- **ReadbackAwake, ReadbackWaitsDone**: CallInv. The signal for an empty queue is enough because the
  thread looks at the queue before it sleeps (AwakeInv); a call returns only behind its own sync
  point (OrderInv), as long as no start was refused (`~mFinished`, a part of the property).
- **CallbacksMatch**: RegInv. A command in line is the one its caller is at, and a display
  whose two registries differ is one a caller is still configuring. That there is at most one such caller
  comes from m_lock (LockInv); until the thread is started, a display with a callback is the one being
  configured (StartInv), so that no fetch meets a thread that was never started.
- **FramesInOrder**: AgeInv, with MailboxInv. The buffer read last has the youngest frame, and the one that would be
  mapped is not older than what the consumer has.

PostingProofs
- **WindowsAccounted**: OneWindowEach with the addition that no two displays
  share a window through two cells (MapInv); otherwise deleting one would free the other's.
- **SubWindowsKept**: SubWindowsCover, for m_useSubWindow, on which no run is spent: a parent has at least as many children as
  windows. The proof needs MapInv, since what is destroyed with a window must be that window's.
- **PostingTyped**: TypeOK, with JobInv and LineCells: what callers send, and what is in line, names a
  cell. TypeOK alone is not inductive, because the thread reads the window through it.
- **PostWaitsDone**: OrderInv, as for the readback thread.
- **OnlyShownDrawn, DeletedQuiet**: DrawInv. A caller at a post has found the window there and shown, and this
  stays true until it returns, because the map and the flag change only by the same render thread, which waits for
  its post (PostOK); a command in line is the one its caller is at (Own), so what the thread draws to
  is covered by that. Both fail once a start was refused and waits return early.

FenceProofs
- **FenceTypeCorrect, FenceCountCorrect**: FenceInv, that is TypeOK and CountExact with ThreadInv (where the
  threads are, and with which fence), SweepInv (the entries still to be visited are entries of the timeline, the one
  being visited is not among them, and a fence that is destroyed when signaled has its first reference until
  then) and RefInv (what a decRef may rely on between its steps). CountExact alone is not inductive: the sweep might give a
  reference back twice, or a decRef count down a fence that another has deleted. RefInv is not symmetric: once the sync
  thread has found itself the last, nobody can take another reference; once the render thread has, the sync
  thread still can. They hold for every order in which the device asks.
- **RepliesBalance**: ReplyInv, for any number of blocked callers. Counting in the channel is done by `Rank`, the number
  of commands of a kind among the first i.
- **NoWaitOnFreed**: HeldIsLive, from RefInv and the next one: what the render thread waits for, what the timeline holds, and
  what the sync thread waits for on behalf of a device that asks in order, is there through every decRef. The blocked
  waits are left out, since for them it is false: fence_wait.
- **NativesOutlive**: NativeInv. The native fences the thread has yet to wait for form a queue (the one it is at,
  those asked for, those the device owes), and the n-th of them expires at least n
  signals from now (PlacesLast), since each fence ahead of it causes one signal; and the sweep visits only
  what has expired. Without the count a signal could expire any fence that is due next. The limit of outstanding
  fences in CreateNative is what makes a new fence last as long as its place requires.

Assumptions on the constants: TableAssumption, CountAssumption (the count is wider than the
number of windows), ChannelAssumption (finitely many threads, a capacity above 0),
ServerAssumption (None is not a client), FenceAssumption, WorkerAssumption, RecordingAssumption (the range of
the count is even), RecordAssumption (NoRecord is not a mailbox) and PostingAssumption (names are distinct, windows finitely many). TLC
evaluates them in every run. Hypotheses of single theorems: NoWrap, no waitForEmpty, and
CountsBelowMax, as above; the instances of the runs that check these properties satisfy them.

Only model-checked: liveness (StopReleases, ClientsAccepted, ExitTerminates, WaitsEnd,
Answered), because the prover does not reason about fairness and ENABLED.

## Not modelled

In FrameBuffer: the current contexts and surfaces of bindContext, EGL images, finalize
beyond its Exit, snapshots. In RenderThread: the snapshot state machine and the packet buffer. In the workers:
what is drawn, synchronous readback, the PostWorker object. In SyncThread: start and exit. Elsewhere: what
PROJECT.json lists as not_modelled, with its reason.

Most of the repository's lines have no protocol a model could check: ANGLE, astc-codec and the Vulkan and OpenGL
headers are vendored, the decoders and entry points are generated, the Translator and the guest libraries convert
OpenGL data, and most of android-emu is not called by the renderer. What has shared state, threads or
lifetimes is a few thousand lines of R/ and B/, and the models stay there.
R/FrameBuffer-mainWindown.cpp and R/UnixStream--A23.cpp are not part of the build.

## Plan

1. The cleanup thread of RendererImpl composed with MessageChannel (through Fifo): every
   dead process is cleaned up, and what waitForProcessCleanup promises.
2. bindContext: the current pointers that keep contexts and surfaces alive.
3. RenderChannelImpl and BufferQueue, ring_buffer; ReadBuffer and SubAllocator as
   functions against reference definitions.
4. The snapshot state machine of RenderThread.
5. Theorems: what the next components promise; for the hazard without a property (a window without a
   colour buffer that survives its thread) a property first. CountsBelowMax could be replaced by a bound on the references a guest holds.
