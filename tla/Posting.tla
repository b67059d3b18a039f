-------------------------------- MODULE Posting --------------------------------
(***************************************************************************)
(* Posting: the map of on-screen windows, and the post thread that draws   *)
(* to them.                                                                *)
(*                                                                         *)
(* Posts and compositions of render threads, and the embedding program's   *)
(* calls to update or delete a window, happen under the render server's    *)
(* lock; one name stands for its holder.  Screenshots are taken by other   *)
(* threads.  All but a post also hold FrameBuffer's m_lock to the end.     *)
(*                                                                         *)
(* The map leads from a display to a cell, and the cell points to the      *)
(* window.  Commands carry the cell, which is never freed, so a command    *)
(* that comes late finds no window in it.  A cell that nothing refers to   *)
(* any more is used again here, to keep their number finite.               *)
(*                                                                         *)
(* With m_useSubWindow each window is drawn in a native child of its       *)
(* parent, counted here for each parent; UpdateWindowAttri makes the child *)
(* before it knows whether there will be a window.                         *)
(*                                                                         *)
(* A window that is made has a surface, so postImpl never has to make one. *)
(* Sizes and rotation, and the PostWorker object, are left out.            *)
(***************************************************************************)
EXTENDS WorkerThread, Integers, FiniteSets

CONSTANTS
    Render,        \* the holder of the render server's lock
    Apis,          \* threads that take screenshots
    Displays,      \* displays (above 0; postImpl refuses the others)
    Parents,       \* windows of the window system
    Cells,         \* the bound on cells somebody refers to
    Windows,       \* the bound on windows
    Main,          \* main_window_attri, the root window
    None,          \* no thread, cell or window
    UseSubWindow,  \* m_useSubWindow
    MaxQueue,      \* bound on the queue when a new call starts
    MaxChildren    \* bound on the native children of a parent

ASSUME PostingAssumption ==
    /\ Callers = Apis \cup {Render} /\ Render \notin Apis
    /\ None \notin Callers \cup Cells \cup Windows \cup Parents \cup {Main}
    /\ None \notin [parent : Parents, disableShow : BOOLEAN]
    /\ Main \notin Cells \cup Windows
    /\ IsFiniteSet(Windows)
    /\ UseSubWindow \in BOOLEAN /\ MaxQueue \in Nat /\ MaxChildren \in Nat

VARIABLES
    m_lock,         \* holder of FrameBuffer::m_lock
    subWindowsMap,  \* the cell of each display
    pointer,        \* the window each cell points to
    window,         \* RendererWindowAttri of each window that exists
    children,       \* how many native sub-windows each parent has
    recent,         \* displays deleted less than five seconds ago
    pc,             \* where each caller is
    job,            \* the commands it has still to send, and their target
    drawing         \* the window the post thread draws to

mapVars == <<subWindowsMap, pointer, window, children, recent>>
callVars == <<m_lock, pc, job>>
vars == <<workerVars, mapVars, callVars, drawing>>

NoJob == [cmds |-> <<>>, display |-> None, cell |-> None]

Init ==
    /\ WorkerInit
    /\ m_lock = None
    /\ subWindowsMap = [d \in Displays |-> None]
    /\ pointer = [c \in Cells \cup {Main} |-> IF c = Main THEN Main ELSE None]
    /\ window = [w \in Windows |-> None]
    /\ children = [p \in Parents |-> 0]
    /\ recent = {}
    /\ pc = [c \in Callers |-> "idle"]
    /\ job = [c \in Callers |-> NoJob]
    /\ drawing = None

WindowOf(d) == IF subWindowsMap[d] = None THEN None ELSE pointer[subWindowsMap[d]]

\* The commands in the worker's hands.
Pending == {mQueue[i] : i \in DOMAIN mQueue} \cup {todo[i] : i \in DOMAIN todo}

FreeWindows == {w \in Windows : window[w] = None /\ drawing # w}
FreeCells ==
    {c \in Cells : /\ \A d \in Displays : subWindowsMap[d] # c
                   /\ \A x \in Pending : x.op # Sync => x.cell # c
                   /\ \A a \in Callers : job[a].cell # c}

Goto(c, label) == pc' = [pc EXCEPT ![c] = label]

-----------------------------------------------------------------------------
(* Calls.  Each does what it does to the map, and has commands to send.     *)

Begin(c, d, cmds) ==
    /\ pc[c] = "idle" /\ Len(mQueue) < MaxQueue
    /\ Goto(c, "next")
    /\ job' = [job EXCEPT ![c] = [cmds |-> cmds, display |-> d, cell |-> None]]
    /\ UNCHANGED <<workerVars, drawing>>

BeginLocked(c, d, cmds) ==
    /\ m_lock = None /\ m_lock' = c
    /\ Begin(c, d, cmds)

\* FrameBuffer::post, for each display of rcPostAllVirtualDisplaysDone.
Post(d) == Begin(Render, d, <<"Post">>) /\ UNCHANGED <<m_lock, mapVars>>

\* The post to display 0 at the end of a composition is always refused.
Compose == BeginLocked(Render, None, <<"Compose">>) /\ UNCHANGED mapVars

\* getScreenshot, when its colour buffer was found.
GetScreenshot(c) ==
    c \in Apis /\ BeginLocked(c, None, <<"Screenshot">>) /\ UNCHANGED mapVars

\* The guest's application goes to the background or comes back.
setDisplayShowStatus(d, hide) ==
    LET w == WindowOf(d) IN
    /\ w # None /\ BeginLocked(Render, d, <<>>)
    /\ window' = [window EXCEPT ![w].disableShow = hide]
    /\ UNCHANGED <<subWindowsMap, pointer, children, recent>>

freeRenderWindow(d) ==
    /\ pointer' = [pointer EXCEPT ![subWindowsMap[d]] = None]
    /\ window' = [window EXCEPT ![WindowOf(d)] = None]

\* The native sub-windows once the one of display d's window is destroyed, if there is
\* a window, and one is made for each parent of made.
SubWindows(d, made) ==
    LET shows(p) == WindowOf(d) # None /\ window[WindowOf(d)].parent = p
    IN children' = IF ~UseSubWindow THEN children
                   ELSE [p \in Parents |-> (children[p] - (IF shows(p) THEN 1 ELSE 0))
                                                      + (IF p \in made THEN 1 ELSE 0)]

\* Without sub-windows, the root window is bound and cleared at the end.
DeleteWindowAttri(d) ==
    /\ WindowOf(d) # None
    /\ BeginLocked(Render, d, IF UseSubWindow THEN <<>> ELSE <<"Viewport", "Clear">>)
    /\ freeRenderWindow(d) /\ SubWindows(d, {})
    /\ subWindowsMap' = [subWindowsMap EXCEPT ![d] = None]
    /\ recent' = recent \cup {d}

Elapse(d) ==
    /\ d \in recent
    /\ recent' = recent \ {d}
    /\ UNCHANGED <<workerVars, subWindowsMap, pointer, window, children, callVars, drawing>>

PostIf(needpost) == IF needpost THEN <<"Post">> ELSE <<>>

\* UpdateWindowAttri of a window that has parent p already.
Resize(d, p, needpost) ==
    /\ WindowOf(d) # None /\ window[WindowOf(d)].parent = p
    /\ BeginLocked(Render, d, PostIf(needpost))
    /\ UNCHANGED mapVars

Moved(d, p) == WindowOf(d) # None => window[WindowOf(d)].parent # p

\* UpdateWindowAttri frees the window that has another parent.
Unmap(d) ==
    /\ IF WindowOf(d) # None THEN freeRenderWindow(d) ELSE UNCHANGED <<pointer, window>>
    /\ subWindowsMap' = [subWindowsMap EXCEPT ![d] = None]
    /\ UNCHANGED recent

\* No surface could be made: the old window is gone all the same, and the child that
\* was made for the new one, if it could be, stays with nothing referring to it.
UpdateFails(d, p) ==
    /\ Moved(d, p)
    /\ BeginLocked(Render, d, <<>>)
    /\ Unmap(d)
    /\ \E made \in {{}, {p}} :
         (made # {} => children[p] < MaxChildren) /\ SubWindows(d, made)

\* No parent at all: nothing is made, and nothing will be posted.
UpdateToNone(d, needpost) ==
    /\ BeginLocked(Render, d, <<"Post">> \o PostIf(needpost))
    /\ Unmap(d) /\ SubWindows(d, {})

\* Mutant: the window that has another parent is not freed.
UpdateLeaks(d, p, needpost) ==
    /\ Moved(d, p) /\ FreeWindows # {} /\ FreeCells # {}
    /\ BeginLocked(Render, d, <<"Post">> \o PostIf(needpost))
    /\ LET w == CHOOSE x \in FreeWindows : TRUE
           cell == IF subWindowsMap[d] # None THEN subWindowsMap[d]
                   ELSE CHOOSE x \in FreeCells : TRUE
       IN  /\ subWindowsMap' = [subWindowsMap EXCEPT ![d] = cell]
           /\ pointer' = [pointer EXCEPT ![cell] = w]
           /\ window' = [window EXCEPT ![w] = [parent |-> p, disableShow |-> FALSE]]
    /\ UNCHANGED <<children, recent>>

\* A new window, shown at first, in the old one's cell if there was one.
Update(d, p, needpost) ==
    /\ Moved(d, p) /\ FreeWindows # {} /\ FreeCells # {}
    /\ BeginLocked(Render, d, <<"Post">> \o PostIf(needpost))
    /\ LET w == CHOOSE x \in FreeWindows : TRUE
           cell == IF subWindowsMap[d] # None THEN subWindowsMap[d]
                   ELSE CHOOSE x \in FreeCells : TRUE
       IN  /\ subWindowsMap' = [subWindowsMap EXCEPT ![d] = cell]
           /\ pointer' = [pointer EXCEPT ![cell] = w]
           /\ window' = [v \in Windows |->
                  CASE v = w -> [parent |-> p, disableShow |-> FALSE]
                    [] v = WindowOf(d) -> None
                    [] OTHER -> window[v]]
    /\ SubWindows(d, {p})
    /\ UNCHANGED recent

-----------------------------------------------------------------------------
(* The commands of a call.                                                  *)

\* Mutants: hidden windows are posted to; the time of the delete is not asked.
MayPostHidden(d) == d \notin recent /\ WindowOf(d) # None
MayPostSoon(d) == WindowOf(d) # None /\ ~window[WindowOf(d)].disableShow

\* What postImpl asks of the display.
MayPost(d) ==
    d \notin recent /\ WindowOf(d) # None /\ ~window[WindowOf(d)].disableShow

Command(c) == Head(job[c].cmds)
Sending(c) == pc[c] = "next" /\ job[c].cmds # <<>>

\* postImpl returns false: also when the colour buffer is not found.
Refuse(c) ==
    /\ Sending(c) /\ Command(c) = "Post"
    /\ job' = [job EXCEPT ![c].cmds = Tail(@)]
    /\ UNCHANGED <<workerVars, mapVars, m_lock, pc, drawing>>

\* Mutant: a command carries its window.
TargetWindow(c) ==
    CASE Command(c) = "Post" -> WindowOf(job[c].display)
      [] Command(c) \in {"Viewport", "Clear"} -> Main
      [] OTHER -> None

\* The cell a command carries, None if it is not about a window.
Target(c) ==
    CASE Command(c) = "Post" -> subWindowsMap[job[c].display]
      [] Command(c) \in {"Viewport", "Clear"} -> Main
      [] OTHER -> None

\* sendPostWorkerCmd finds out whether it has to start the thread, ...
Send(c) ==
    /\ Sending(c) /\ (Command(c) = "Post" => MayPost(job[c].display))
    /\ Goto(c, IF mStarted THEN "enqueue" ELSE "start")
    /\ job' = [job EXCEPT ![c].cell = Target(c)]
    /\ UNCHANGED <<workerVars, mapVars, m_lock, drawing>>

\* ... starts it, which another caller may have done since, ...
Start(c) ==
    /\ pc[c] = "start"
    /\ start
    /\ Goto(c, "spawn")
    /\ UNCHANGED <<mapVars, m_lock, job, drawing>>

StartThread(c) ==
    /\ pc[c] = "spawn"
    /\ startThread
    /\ Goto(c, "enqueue")
    /\ UNCHANGED <<mapVars, m_lock, job, drawing>>

\* ... and waits for its command.
Enqueue(c) ==
    /\ pc[c] = "enqueue"
    /\ enqueueImpl([op |-> Command(c), by |-> c, cell |-> job[c].cell])
    /\ Goto(c, "drain")
    /\ UNCHANGED <<signaled, mapVars, m_lock, job, drawing>>

Sent(c) ==
    /\ Goto(c, "next")
    /\ job' = [job EXCEPT ![c].cmds = Tail(@), ![c].cell = None]

waitQueuedItems(c) ==
    /\ pc[c] = "drain"
    /\ IF MustWait
       THEN EnqueueSync(c) /\ Goto(c, "sync") /\ UNCHANGED job
       ELSE Sent(c) /\ UNCHANGED workerVars
    /\ UNCHANGED <<mapVars, m_lock, drawing>>

Released(c) ==
    /\ pc[c] = "sync" /\ Release(c)
    /\ Sent(c)
    /\ UNCHANGED <<mapVars, m_lock, drawing>>

Return(c) ==
    /\ pc[c] = "next" /\ job[c].cmds = <<>>
    /\ Goto(c, "idle")
    /\ job' = [job EXCEPT ![c] = NoJob]
    /\ m_lock' = IF m_lock = c THEN None ELSE m_lock
    /\ UNCHANGED <<workerVars, mapVars, drawing>>

-----------------------------------------------------------------------------
(* The post thread: postWorkerFunc.                                         *)

OnWindow == \E op \in {"Post", "Viewport", "Clear"} : At(op)

\* The cell is read, ...
Bind ==
    /\ OnWindow /\ drawing = None
    /\ pointer[Head(todo).cell] # None
    /\ drawing' = pointer[Head(todo).cell]
    /\ UNCHANGED <<workerVars, mapVars, callVars>>

\* ... it is empty, or the surface cannot be bound, ...
Ignore ==
    /\ OnWindow /\ drawing = None
    /\ Processed
    /\ UNCHANGED <<mapVars, callVars, drawing>>

\* ... or the window is drawn to.
Draw ==
    /\ OnWindow /\ drawing # None
    /\ Processed
    /\ drawing' = None
    /\ UNCHANGED <<mapVars, callVars>>

\* Composition and screenshots do not touch a window.
OffScreen ==
    /\ At("Compose") \/ At("Screenshot")
    /\ Processed
    /\ UNCHANGED <<mapVars, callVars, drawing>>

Loop ==
    /\ Sleep \/ Take \/ Signal
    /\ UNCHANGED <<mapVars, callVars, drawing>>

Spurious ==
    /\ WakeUp
    /\ UNCHANGED <<mapVars, callVars, drawing>>

-----------------------------------------------------------------------------
NewCall ==
    \/ Compose
    \/ \E c \in Apis : GetScreenshot(c)
    \/ \E d \in Displays :
        \/ Post(d) \/ DeleteWindowAttri(d)
        \/ \E hide \in BOOLEAN : setDisplayShowStatus(d, hide)
        \/ \E needpost \in BOOLEAN :
            \/ UpdateToNone(d, needpost)
            \/ \E p \in Parents : Resize(d, p, needpost) \/ Update(d, p, needpost)
        \/ \E p \in Parents : UpdateFails(d, p)

CallerStep(c) ==
    \/ Refuse(c) \/ Send(c) \/ Start(c) \/ StartThread(c) \/ Enqueue(c)
    \/ waitQueuedItems(c) \/ Released(c) \/ Return(c)

PostThreadStep == Bind \/ Ignore \/ Draw \/ OffScreen \/ Loop

Next ==
    \/ NewCall \/ PostThreadStep \/ Spurious
    \/ \E c \in Callers : CallerStep(c)
    \/ \E d \in Displays : Elapse(d)

\* Callers and the post thread go on; nobody has to call.
Spec ==
    /\ Init /\ [][Next]_vars
    /\ WF_vars(PostThreadStep)
    /\ \A c \in Callers : WF_vars(CallerStep(c))

-----------------------------------------------------------------------------
(* Properties.                                                              *)

RendererWindowAttri == [parent : Parents, disableShow : BOOLEAN]
Ops == {"Post", "Viewport", "Clear", "Compose", "Screenshot"}
Commands ==
    [op : Ops, by : Callers, cell : Cells \cup {Main, None}] \cup [op : {Sync}, by : Callers]

\* Types.
TypeOK ==
    /\ mStarted \in BOOLEAN /\ mFinished \in BOOLEAN
    /\ thread \in {"none", "running", "asleep", "gone"}
    /\ mQueue \in Seq(Commands) /\ todo \in Seq(Commands)
    /\ signaled \in [Callers -> BOOLEAN]
    /\ m_lock \in Callers \cup {None}
    /\ subWindowsMap \in [Displays -> Cells \cup {None}]
    /\ pointer \in [Cells \cup {Main} -> Windows \cup {Main, None}]
    /\ window \in [Windows -> RendererWindowAttri \cup {None}]
    /\ children \in [Parents -> Int]
    /\ recent \subseteq Displays
    /\ pc \in [Callers -> {"idle", "next", "start", "spawn", "enqueue", "drain", "sync"}]
    /\ job \in [Callers -> [cmds : Seq(Ops), display : Displays \cup {None},
                            cell : Cells \cup {Main, None}]]
    /\ drawing \in Windows \cup {Main, None}

\* The post thread draws to a window that exists and that the guest has not sent
\* to the background, as long as no start of the thread was refused: a window is
\* freed or hidden only after all its posts are done.
DrawnShown ==
    ~mFinished /\ drawing \in Windows =>
        window[drawing] # None /\ ~window[drawing].disableShow

\* Nothing is drawn for a display within five seconds of its deletion, under the
\* same condition, though the display may have a new window by then.
QuietAfterDelete ==
    ~mFinished => \A d \in recent : WindowOf(d) # None => drawing # WindowOf(d)

\* Every window that exists belongs to one display, and every entry of the map
\* leads to a window: updates that change the parent or fail leak none.
OneWindowEach ==
    /\ \A w \in Windows :
        window[w] # None => \E d \in Displays : WindowOf(d) = w
    /\ \A d \in Displays : subWindowsMap[d] # None =>
        /\ WindowOf(d) \in Windows /\ window[WindowOf(d)] # None
        /\ \A e \in Displays : subWindowsMap[e] = subWindowsMap[d] => e = d

\* The windows of parent p.
WindowsIn(p) == {w \in Windows : window[w] # None /\ window[w].parent = p}

\* With m_useSubWindow every window that exists has its native sub-window: no update,
\* failed update or delete destroys one twice, or one of another display in the same
\* parent.  There may be more: what failed updates leave behind.
SubWindowsCover ==
    UseSubWindow => \A p \in Parents : Cardinality(WindowsIn(p)) <= children[p]

\* A command that is pending belongs to a caller that still waits for it, under the
\* same condition: its colour buffer and its pixels are on that caller's stack.
WaitMeansDone ==
    ~mFinished => \A x \in Pending : pc[x.by] \in {"drain", "sync"}

\* Every wait for the post thread ends.
WaitsEnd == \A c \in Callers : pc[c] = "sync" ~> pc[c] # "sync"

=============================================================================
