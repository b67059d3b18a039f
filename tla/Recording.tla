------------------------------- MODULE Recording -------------------------------
(***************************************************************************)
(* Recording: FrameBuffer's readback thread, and the mailbox of            *)
(* ReadbackWorker between the thread that posts frames and the consumer    *)
(* that fetches them.                                                      *)
(*                                                                         *)
(* Render threads decode one at a time under the render server's lock, so  *)
(* one name stands for whichever posts.  The other callers belong to the   *)
(* embedding program.  ReadbackWorker::mLock is held for one step; the     *)
(* copying of getPixels happens between two such steps.  FrameBuffer's     *)
(* m_lock is held across a whole setPostCallback, but not by a post, nor   *)
(* by getPixels or flushReadPipeline.                                      *)
(*                                                                         *)
(* A GL buffer is abstracted to the age of the frame it holds: the number  *)
(* of reads of its display since.  postImpl is called with repaint only    *)
(* for display 0, which it refuses, so doNextReadback makes one round.     *)
(* A post is modelled after its frame was drawn.  Asynchronous readback    *)
(* (GLES 3) is supported.  The callback itself belongs to the embedder.    *)
(***************************************************************************)
EXTENDS WorkerThread, Integers

CONSTANTS
    Render,      \* the render thread that holds the server's lock
    Apis,        \* threads of the embedding program
    Displays,    \* displays that may be recorded
    None,        \* no thread
    NoRecord,    \* no mailbox
    CountMod,    \* 2^32, the range of m_readbackCount
    MaxAge,      \* the age of frames this old or older, and of no frame
    MaxQueue     \* bound on the queue when a new call starts

ASSUME RecordingAssumption ==
    /\ Callers = Apis \cup {Render} /\ Render \notin Apis
    /\ None \notin Callers
    /\ Displays \subseteq Nat
    /\ CountMod \in Nat /\ CountMod > 0 /\ CountMod % 2 = 0
    /\ MaxAge \in Nat \ {0} /\ MaxQueue \in Nat

VARIABLES
    m_lock,           \* holder of FrameBuffer::m_lock
    m_onPost,         \* displays with a post callback
    mRecordDisplays,  \* the mailbox of each display, or NoRecord
    shown,            \* the age of the frame the consumer was given last
    pc,               \* where each caller is
    job,              \* the command it sends, or the display it is at
    crashed           \* the process has died

recordVars == <<m_onPost, mRecordDisplays, shown>>
callVars == <<m_lock, pc, job>>
vars == <<workerVars, recordVars, callVars, crashed>>

Slots == 0..3

\* recordDisplay as AddRecordDisplay makes it.
NewRecord ==
    [even |-> 0, odd |-> 1, prev |-> 1, map |-> 0, copying |-> FALSE,
     count |-> 0, pix |-> [s \in Slots |-> MaxAge]]

Recorded(d) == mRecordDisplays[d] # NoRecord

NoJob == [op |-> "none", display |-> 0]
Command(c, op, d) == [op |-> op, by |-> c, display |-> d]

Init ==
    /\ WorkerInit
    /\ m_lock = None
    /\ m_onPost = {}
    /\ mRecordDisplays = [d \in Displays |-> NoRecord]
    /\ shown = [d \in Displays |-> MaxAge]
    /\ pc = [c \in Callers |-> "idle"]
    /\ job = [c \in Callers |-> NoJob]
    /\ crashed = FALSE

Goto(c, label) == pc' = [pc EXCEPT ![c] = label]

Begin(c, op, d, label) ==
    /\ pc[c] = "idle" /\ Len(mQueue) < MaxQueue
    /\ Goto(c, label)
    /\ job' = [job EXCEPT ![c] = [op |-> op, display |-> d]]
    /\ UNCHANGED <<workerVars, mRecordDisplays, shown, crashed>>

\* An access to the elements of an empty mBuffers.
Crash == crashed' = TRUE /\ UNCHANGED <<workerVars, recordVars, callVars>>

-----------------------------------------------------------------------------
(* Calls.                                                                   *)

\* postImpl, when its frame was drawn.
Post ==
    /\ Begin(Render, "Post", -1, "next")
    /\ UNCHANGED <<m_lock, m_onPost>>

\* The client does not fetch from a display while it adds or removes its callback
\* (ReadbackWorker.h asks its users to synchronize).
Configures(c) == job[c].op \in {"AddRecordDisplay", "DelRecordDisplay"}
Fetches(c) == job[c].op \in {"GetPixels", "Flush"}
ConfiguredBy(d) == {e \in Apis : Configures(e) /\ job[e].display = d}
FetchedBy(d) == {e \in Apis : Fetches(e) /\ job[e].display = d}

\* setPostCallback with a callback: refused when the display has one.
AddPostCallback(c, d) ==
    /\ m_lock = None /\ d \notin m_onPost
    /\ Begin(c, "AddRecordDisplay", d, IF mStarted THEN "enqueue" ELSE "start")
    /\ m_lock' = c
    /\ m_onPost' = m_onPost \cup {d}

\* setPostCallback without one, for a display that has one; nothing starts the
\* thread here.
RemovePostCallback(c, d) ==
    /\ m_lock = None /\ d \in m_onPost /\ FetchedBy(d) = {}
    /\ Begin(c, "DelRecordDisplay", d, "enqueue")
    /\ m_lock' = c
    /\ UNCHANGED <<m_onPost>>

\* FrameBuffer::getPixels and flushReadPipeline look m_onPost up without a lock.
GetPixels(c, d) ==
    /\ d \in m_onPost /\ ConfiguredBy(d) = {}
    /\ Begin(c, "GetPixels", d, "enqueue")
    /\ UNCHANGED <<m_lock, m_onPost>>

FlushReadPipeline(c, d) ==
    /\ d \in m_onPost /\ ConfiguredBy(d) = {}
    /\ Begin(c, "Flush", d, "flush")
    /\ UNCHANGED <<m_lock, m_onPost>>

\* finalize of a FrameBuffer that is not shutting down.  A second Exit behind
\* the first would change nothing.
Finalize ==
    /\ \A i \in DOMAIN mQueue : mQueue[i].op # "Exit"
    /\ enqueueImpl(Command(None, "Exit", 0))
    /\ UNCHANGED <<signaled, recordVars, callVars, crashed>>

-----------------------------------------------------------------------------
(* The inside of a call: start the thread if need be, enqueue, wait.        *)

Start(c) ==
    /\ pc[c] = "start"
    /\ start
    /\ Goto(c, "spawn")
    /\ UNCHANGED <<recordVars, m_lock, job, crashed>>

StartThread(c) ==
    /\ pc[c] = "spawn"
    /\ startThread
    /\ Goto(c, "init")
    /\ UNCHANGED <<recordVars, m_lock, job, crashed>>

EnqueueInit(c) ==
    /\ pc[c] = "init"
    /\ enqueueImpl(Command(c, "Init", 0))
    /\ Goto(c, "enqueue")
    /\ UNCHANGED <<signaled, recordVars, m_lock, job, crashed>>

Enqueue(c) ==
    /\ pc[c] = "enqueue"
    /\ enqueueImpl(Command(c, job[c].op, job[c].display))
    /\ Goto(c, "drain")
    /\ UNCHANGED <<signaled, recordVars, m_lock, job, crashed>>

waitQueuedItems(c) ==
    /\ pc[c] = "drain"
    /\ IF MustWait
       THEN EnqueueSync(c) /\ Goto(c, "sync")
       ELSE Goto(c, "done") /\ UNCHANGED workerVars
    /\ UNCHANGED <<recordVars, m_lock, job, crashed>>

Released(c) ==
    /\ pc[c] = "sync" /\ Release(c)
    /\ Goto(c, "done")
    /\ UNCHANGED <<recordVars, m_lock, job, crashed>>

\* Mutant: a removed callback stays registered.
ReturnKeeps(c) ==
    /\ pc[c] = "done"
    /\ Goto(c, "idle") /\ job' = [job EXCEPT ![c] = NoJob]
    /\ m_lock' = IF m_lock = c THEN None ELSE m_lock
    /\ UNCHANGED <<workerVars, recordVars, crashed>>

\* Removing a callback forgets the display only now.
Return(c) ==
    /\ pc[c] = "done"
    /\ Goto(c, "idle") /\ job' = [job EXCEPT ![c] = NoJob]
    /\ m_lock' = IF m_lock = c THEN None ELSE m_lock
    /\ m_onPost' = IF job[c].op = "DelRecordDisplay"
                   THEN m_onPost \ {job[c].display} ELSE m_onPost
    /\ UNCHANGED <<workerVars, mRecordDisplays, shown, crashed>>

-----------------------------------------------------------------------------
(* The rest of a post: each recorded display reads the frame back.  The     *)
(* loop walks a std::map, in order, while others may change it.             *)

NextDisplay ==
    /\ pc[Render] = "next"
    /\ \E d \in m_onPost :
        /\ d > job[Render].display
        /\ \A e \in m_onPost : e > job[Render].display => e >= d
        /\ job' = [job EXCEPT ![Render].display = d]
        /\ \/ Goto(Render, "read")
           \/ d # 0 /\ UNCHANGED pc    \* the display has no colour buffer
    /\ UNCHANGED <<workerVars, recordVars, m_lock, crashed>>

LastDisplay ==
    /\ pc[Render] = "next"
    /\ \A d \in m_onPost : d <= job[Render].display
    /\ Goto(Render, "idle")
    /\ job' = [job EXCEPT ![Render] = NoJob]
    /\ UNCHANGED <<workerVars, recordVars, m_lock, crashed>>

\* Mutants of the second case: it reads to the buffer that is copied, swaps even
\* and odd, or reads to the fourth buffer.
AimCase(r, even, odd) ==
    IF r.copying
    THEN CASE r.map = 0 -> [r EXCEPT !.even = 2, !.odd = 1]
           [] r.map = 1 -> [r EXCEPT !.even = even, !.odd = odd]
           [] r.map = 2 -> [r EXCEPT !.even = 0, !.odd = 1]
           [] OTHER -> r
    ELSE [r EXCEPT !.even = 0, !.odd = 1, !.map = r.prev]
AimSame(r) == AimCase(r, 0, 1)
AimSwapped(r) == AimCase(r, 2, 0)
AimFlush(r) == AimCase(r, 0, 3)

\* Where doNextReadback may read to, and what a consumer may map from now on.
Aim(r) ==
    IF r.copying
    THEN CASE r.map = 0 -> [r EXCEPT !.even = 2, !.odd = 1]
           [] r.map = 1 -> [r EXCEPT !.even = 0, !.odd = 2]
           [] r.map = 2 -> [r EXCEPT !.even = 0, !.odd = 1]
           [] OTHER -> r
    ELSE [r EXCEPT !.even = 0, !.odd = 1, !.map = r.prev]

ReadAt(r) == IF r.count % 2 = 0 THEN r.even ELSE r.odd

Older(age) == IF age < MaxAge THEN age + 1 ELSE MaxAge

AfterRead(r) ==
    LET at == ReadAt(Aim(r))
    IN  [Aim(r) EXCEPT !.count = (@ + 1) % CountMod, !.prev = at,
             !.pix = [s \in Slots |-> IF s = at THEN 0 ELSE Older(@[s])]]

doNextReadback ==
    LET d == job[Render].display IN
    /\ pc[Render] = "read"
    /\ IF Recorded(d)
       THEN /\ mRecordDisplays' = [mRecordDisplays EXCEPT ![d] = AfterRead(@)]
            /\ shown' = [shown EXCEPT ![d] = Older(@)]
            /\ Goto(Render, "next")
            /\ UNCHANGED <<workerVars, m_onPost, m_lock, job, crashed>>
       ELSE Crash

\* Mutant: the frame is not copied to the fourth buffer.
AfterFlushNoCopy(r) == IF r.copying THEN r ELSE [r EXCEPT !.map = 3]

\* The last frame goes to the fourth buffer, unless one is being copied.
AfterFlush(r) ==
    IF r.copying THEN r ELSE [r EXCEPT !.pix[3] = r.pix[r.prev], !.map = 3]

flushPipeline(c) ==
    LET d == job[c].display IN
    /\ pc[c] = "flush"
    /\ IF Recorded(d)
       THEN /\ mRecordDisplays' = [mRecordDisplays EXCEPT ![d] = AfterFlush(@)]
            /\ Goto(c, "idle")
            /\ job' = [job EXCEPT ![c] = NoJob]
            /\ UNCHANGED <<workerVars, m_onPost, shown, m_lock, crashed>>
       ELSE Crash

-----------------------------------------------------------------------------
(* The readback thread: sendReadbackWorkerCmd.                              *)

InitGL ==
    /\ At("Init")
    /\ Processed
    /\ UNCHANGED <<recordVars, callVars, crashed>>

AddRecordDisplay ==
    LET d == Head(todo).display IN
    /\ At("AddRecordDisplay")
    /\ Processed
    /\ mRecordDisplays' = [mRecordDisplays EXCEPT ![d] = IF Recorded(d) THEN @ ELSE NewRecord]
    /\ shown' = [shown EXCEPT ![d] = MaxAge]
    /\ UNCHANGED <<m_onPost, callVars, crashed>>

DelRecordDisplay ==
    LET d == Head(todo).display IN
    /\ At("DelRecordDisplay")
    /\ Processed
    /\ mRecordDisplays' = [mRecordDisplays EXCEPT ![d] = NoRecord]
    /\ UNCHANGED <<m_onPost, shown, callVars, crashed>>

\* getPixels announces the copy under mLock, copies without it, ...
BeginCopy ==
    LET d == Head(todo).display IN
    /\ At("GetPixels")
    /\ IF Recorded(d)
       THEN /\ ~mRecordDisplays[d].copying
            /\ mRecordDisplays' = [mRecordDisplays EXCEPT ![d].copying = TRUE]
            /\ UNCHANGED <<workerVars, m_onPost, shown, callVars, crashed>>
       ELSE Crash

\* ... and takes mLock again to end it.
EndCopy ==
    LET d == Head(todo).display IN
    /\ At("GetPixels")
    /\ Recorded(d) /\ mRecordDisplays[d].copying
    /\ shown' = [shown EXCEPT ![d] = mRecordDisplays[d].pix[mRecordDisplays[d].map]]
    /\ mRecordDisplays' = [mRecordDisplays EXCEPT ![d].copying = FALSE]
    /\ Processed
    /\ UNCHANGED <<m_onPost, callVars, crashed>>

Exit ==
    /\ At("Exit")
    /\ Stopped
    /\ UNCHANGED <<recordVars, callVars, crashed>>

Loop ==
    /\ Sleep \/ Take \/ Signal
    /\ UNCHANGED <<recordVars, callVars, crashed>>

Spurious ==
    /\ WakeUp
    /\ UNCHANGED <<recordVars, callVars, crashed>>

-----------------------------------------------------------------------------
NewCall ==
    \/ Post \/ Finalize
    \/ \E c \in Apis, d \in Displays :
        \/ AddPostCallback(c, d) \/ RemovePostCallback(c, d)
        \/ GetPixels(c, d) \/ FlushReadPipeline(c, d)

CallerStep(c) ==
    \/ Start(c) \/ StartThread(c) \/ EnqueueInit(c) \/ Enqueue(c)
    \/ waitQueuedItems(c) \/ Released(c) \/ Return(c) \/ flushPipeline(c)

RenderStep == NextDisplay \/ LastDisplay \/ doNextReadback

ReadbackItem ==
    \/ InitGL \/ AddRecordDisplay \/ DelRecordDisplay
    \/ BeginCopy \/ EndCopy \/ Exit

Next ==
    /\ ~crashed
    /\ \/ NewCall \/ RenderStep \/ ReadbackItem
       \/ \E c \in Callers : CallerStep(c)
       \/ Loop \/ Spurious

Spec == Init /\ [][Next]_vars

-----------------------------------------------------------------------------
(* Properties.                                                              *)

Labels == {"idle", "start", "spawn", "init", "enqueue", "drain", "sync", "done",
           "next", "read", "flush"}
Operations == {"none", "Post", "AddRecordDisplay", "DelRecordDisplay", "GetPixels",
               "Flush", "Init", "Exit"}
Record ==
    [even : 0..2, odd : 0..2, prev : 0..2, map : Slots, copying : BOOLEAN,
     count : 0..(CountMod - 1), pix : [Slots -> 0..MaxAge]]

ASSUME RecordAssumption == NoRecord \notin Record

Commands ==
    [op : Operations, by : Callers \cup {None}, display : Displays \cup {-1, 0}]
        \cup [op : {Sync}, by : Callers]

\* Types.
TypeOK ==
    /\ mStarted \in BOOLEAN /\ mFinished \in BOOLEAN
    /\ thread \in {"none", "running", "asleep", "gone"}
    /\ mQueue \in Seq(Commands) /\ todo \in Seq(Commands)
    /\ signaled \in [Callers -> BOOLEAN]
    /\ m_lock \in Callers \cup {None}
    /\ m_onPost \subseteq Displays
    /\ mRecordDisplays \in [Displays -> Record \cup {NoRecord}]
    /\ shown \in [Displays -> 0..MaxAge]
    /\ pc \in [Callers -> Labels]
    /\ job \in [Callers -> [op : Operations, display : Displays \cup {-1, 0}]]
    /\ crashed \in BOOLEAN

\* The buffer a consumer maps is never the one glReadPixels was last called on:
\* so no buffer is read into while it is copied, and none is mapped right after
\* (second and third invariant of the comment in doNextReadback).
MappedNotRead ==
    \A d \in Displays : Recorded(d) => mRecordDisplays[d].map # mRecordDisplays[d].prev

\* glReadPixels is called on a different buffer every time (the first invariant
\* of the same comment), whatever copies and flushes happen between two calls.
AlternatesBuffers ==
    [][\A d \in Displays :
         Recorded(d) /\ Recorded(d)' /\ mRecordDisplays'[d].count # mRecordDisplays[d].count
         => mRecordDisplays'[d].prev # mRecordDisplays[d].prev]_vars

\* The consumer of a display never gets a frame older than one it has had: what
\* it was given ages by reads only.
FramesForward ==
    [][\A d \in Displays :
         Recorded(d) /\ Recorded(d)' /\ mRecordDisplays'[d].count = mRecordDisplays[d].count
         => shown'[d] <= shown[d]]_vars

\* The commands in the worker's hands.
Pending == {mQueue[i] : i \in DOMAIN mQueue} \cup {todo[i] : i \in DOMAIN todo}

\* waitQueuedItems "waits for all enqueue()'d items to finish", as long as no
\* start was refused: the commands the worker holds are those of callers that
\* still wait for them.
WaitMeansDone ==
    ~mFinished =>
        \A x \in Pending : x.by # None => pc[x.by] \in {"enqueue", "drain", "sync"}

\* The worker does not sleep on its condition variable while it has commands.
WorkerAwake == thread = "asleep" => Pending = {}

\* Between two calls of setPostCallback the displays with a callback are those
\* with a mailbox, as long as the readback thread could be started.
RegistriesAgree ==
    \/ mFinished
    \/ \E c \in Apis : Configures(c)
    \/ m_onPost = {d \in Displays : Recorded(d)}

=============================================================================
