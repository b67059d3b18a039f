----------------------------- MODULE PostingProofs -----------------------------
(***************************************************************************)
(* Proofs about Posting, for any displays, windows, callers and bounds.    *)
(*                                                                         *)
(* The map: no window is leaked or shared, and no entry of the map leads   *)
(* nowhere (MapInv).  The queue: until a start of the thread is refused,   *)
(* who waits and who was signaled follows what is in line (OrderInv), so   *)
(* that no caller leaves a command behind.  Both together: what is drawn   *)
(* to is what the caller that waits has found (DrawInv).                   *)
(* With m_useSubWindow, every window keeps its native child.               *)
(***************************************************************************)
EXTENDS Posting, WorkerProofs, FiniteSetTheorems

\* The types of the map, its cells and the windows.
MapTypes ==
    /\ subWindowsMap \in [Displays -> Cells \cup {None}]
    /\ pointer \in [Cells \cup {Main} -> Windows \cup {Main, None}]
    /\ window \in [Windows -> RendererWindowAttri \cup {None}]

\* OneWindowEach says that displays do not share a cell; they must not share a window
\* through two cells either, or deleting one display would free the other's.
MapInv ==
    /\ MapTypes
    /\ OneWindowEach
    /\ \A d, e \in Displays :
         subWindowsMap[d] # None /\ WindowOf(d) = WindowOf(e) => d = e

-----------------------------------------------------------------------------
\* What the names of the model exclude.
LEMMA Names ==
  /\ None \notin Cells /\ None \notin Windows /\ None # Main /\ Main \notin Cells
  /\ Main \notin Windows /\ None \notin RendererWindowAttri
BY PostingAssumption DEF RendererWindowAttri

\* A display loses its entry and its window, if it has one.
LEMMA Unmapping ==
  ASSUME MapInv, NEW d \in Displays,
         subWindowsMap' = [subWindowsMap EXCEPT ![d] = None],
         IF WindowOf(d) # None THEN freeRenderWindow(d) ELSE UNCHANGED <<pointer, window>>
  PROVE  MapInv'
<1> USE Names
<1>1. CASE WindowOf(d) = None
  <2>1. subWindowsMap[d] = None
    BY <1>1 DEF MapInv, OneWindowEach
  <2>2. UNCHANGED <<subWindowsMap, pointer, window>>
    BY <1>1, <2>1 DEF MapInv, MapTypes
  <2> QED
    BY <2>2 DEF MapInv, MapTypes, OneWindowEach, WindowOf
<1>2. CASE WindowOf(d) # None
  <2> DEFINE c == subWindowsMap[d]
             w == pointer[c]
  <2>1. /\ c \in Cells /\ w = WindowOf(d) /\ w \in Windows
        /\ pointer' = [pointer EXCEPT ![c] = None] /\ window' = [window EXCEPT ![w] = None]
    BY <1>2 DEF freeRenderWindow, WindowOf, MapInv, MapTypes, OneWindowEach
  <2>2. /\ MapTypes' /\ subWindowsMap'[d] = None /\ window'[w] = None
        /\ \A e \in Displays : e # d => subWindowsMap'[e] = subWindowsMap[e]
        /\ \A b \in Cells : b # c => pointer'[b] = pointer[b]
        /\ \A v \in Windows : v # w => window'[v] = window[v]
    BY <2>1 DEF MapInv, MapTypes
  <2>3. ASSUME NEW e \in Displays, e # d
        PROVE  /\ (WindowOf(e))' = WindowOf(e) /\ WindowOf(e) # w
               /\ subWindowsMap[e] # None => subWindowsMap[e] # c
    BY <2>1, <2>2, <2>3 DEF MapInv, MapTypes, OneWindowEach, WindowOf
  <2>4. (WindowOf(d))' = None
    BY <2>2 DEF WindowOf
  <2>5. OneWindowEach'
    <3>1. ASSUME NEW v \in Windows, window'[v] # None
          PROVE  \E e \in Displays : (WindowOf(e))' = v
      <4>1. v # w /\ window[v] # None
        BY <2>2, <3>1
      <4>2. PICK e \in Displays : WindowOf(e) = v
        BY <4>1 DEF MapInv, OneWindowEach
      <4> QED
        BY <2>1, <2>3, <4>1, <4>2
    <3>2. ASSUME NEW e \in Displays, subWindowsMap'[e] # None
          PROVE  /\ (WindowOf(e))' \in Windows /\ window'[(WindowOf(e))'] # None
                 /\ \A g \in Displays : subWindowsMap'[g] = subWindowsMap'[e] => g = e
      <4>1. e # d /\ subWindowsMap'[e] = subWindowsMap[e]
        BY <2>2, <3>2
      <4> QED
        BY <2>2, <2>3, <3>2, <4>1 DEF MapInv, OneWindowEach
    <3> QED
      BY <3>1, <3>2 DEF OneWindowEach
  <2>6. \A e, g \in Displays :
           subWindowsMap'[e] # None /\ (WindowOf(e))' = (WindowOf(g))' => e = g
    <3> SUFFICES ASSUME NEW e \in Displays, NEW g \in Displays,
                        subWindowsMap'[e] # None, (WindowOf(e))' = (WindowOf(g))'
                 PROVE  e = g
      OBVIOUS
    <3>1. e # d /\ subWindowsMap[e] # None /\ WindowOf(e) \in Windows
      BY <2>2 DEF MapInv, OneWindowEach
    <3> QED
      BY <2>3, <2>4, <3>1 DEF MapInv
  <2> QED
    BY <2>2, <2>5, <2>6 DEF MapInv
<1> QED
  BY <1>1, <1>2

\* A display gets a window that was free, in its cell or one that no display has, and
\* loses the one it had.
LEMMA Mapping ==
  ASSUME MapInv, NEW d \in Displays, NEW w \in Windows, window[w] = None,
         NEW c \in Cells, NEW a \in RendererWindowAttri,
         subWindowsMap[d] # None => c = subWindowsMap[d],
         subWindowsMap[d] = None => \A e \in Displays : subWindowsMap[e] # c,
         subWindowsMap' = [subWindowsMap EXCEPT ![d] = c],
         pointer' = [pointer EXCEPT ![c] = w],
         window' = [v \in Windows |->
             CASE v = w -> a [] v = WindowOf(d) -> None [] OTHER -> window[v]]
  PROVE  MapInv'
<1> USE Names
<1>a. WindowOf(d) # w
  BY DEF MapInv, OneWindowEach, WindowOf
<1>0. window'[w] = a
  BY <1>a
<1>1. /\ subWindowsMap'[d] = c /\ pointer'[c] = w
      /\ \A e \in Displays : e # d => subWindowsMap'[e] = subWindowsMap[e]
      /\ \A b \in Cells : b # c => pointer'[b] = pointer[b]
      /\ subWindowsMap' \in [Displays -> Cells \cup {None}]
      /\ pointer' \in [Cells \cup {Main} -> Windows \cup {Main, None}]
  BY DEF MapInv, MapTypes
<1>2. /\ \A v \in Windows : v # w => window'[v] = IF v = WindowOf(d) THEN None ELSE window[v]
      /\ window' \in [Windows -> RendererWindowAttri \cup {None}]
  BY DEF MapInv, MapTypes
<1>3. (WindowOf(d))' = w
  BY <1>1 DEF WindowOf
<1>4. ASSUME NEW e \in Displays, e # d
      PROVE  /\ (WindowOf(e))' = WindowOf(e) /\ WindowOf(e) # w
             /\ subWindowsMap[e] # c
  <2>1. subWindowsMap[e] # c
    BY <1>4 DEF MapInv, OneWindowEach
  <2>2. (WindowOf(e))' = WindowOf(e)
    BY <1>1, <1>4, <2>1 DEF MapInv, MapTypes, WindowOf
  <2>3. WindowOf(e) # w
    BY DEF MapInv, OneWindowEach, WindowOf
  <2> QED
    BY <2>1, <2>2, <2>3
<1>5. OneWindowEach'
  <2>1. ASSUME NEW v \in Windows, window'[v] # None
        PROVE  \E e \in Displays : (WindowOf(e))' = v
    <3>1. CASE v = w
      BY <1>3, <3>1
    <3>2. CASE v # w
      <4>1. v # WindowOf(d) /\ window[v] # None
        BY <1>2, <2>1, <3>2
      <4>2. PICK e \in Displays : WindowOf(e) = v
        BY <4>1 DEF MapInv, OneWindowEach
      <4> QED
        BY <1>4, <4>1, <4>2
    <3> QED
      BY <3>1, <3>2
  <2>2. ASSUME NEW e \in Displays, subWindowsMap'[e] # None
        PROVE  /\ (WindowOf(e))' \in Windows /\ window'[(WindowOf(e))'] # None
               /\ \A g \in Displays : subWindowsMap'[g] = subWindowsMap'[e] => g = e
    <3>1. CASE e = d
      BY <1>0, <1>1, <1>3, <1>4, <3>1
    <3>2. CASE e # d
      <4>1. subWindowsMap[e] # None /\ subWindowsMap'[e] = subWindowsMap[e]
        BY <1>1, <2>2, <3>2
      <4>2. WindowOf(e) \in Windows /\ window[WindowOf(e)] # None /\ WindowOf(e) # WindowOf(d)
        BY <3>2, <4>1 DEF MapInv, OneWindowEach
      <4>3. \A g \in Displays : subWindowsMap'[g] = subWindowsMap'[e] => g = e
        BY <1>1, <1>4, <3>2, <4>1 DEF MapInv, OneWindowEach
      <4> QED
        BY <1>2, <1>4, <3>2, <4>2, <4>3
    <3> QED
      BY <3>1, <3>2
  <2> QED
    BY <2>1, <2>2 DEF OneWindowEach
<1>6. \A e, g \in Displays :
         subWindowsMap'[e] # None /\ (WindowOf(e))' = (WindowOf(g))' => e = g
  <2> SUFFICES ASSUME NEW e \in Displays, NEW g \in Displays,
                      subWindowsMap'[e] # None, (WindowOf(e))' = (WindowOf(g))'
               PROVE  e = g
    OBVIOUS
  <2>1. CASE e = d \/ g = d
    BY <1>3, <1>4, <2>1
  <2>2. CASE e # d /\ g # d
    BY <1>1, <1>4, <2>2 DEF MapInv
  <2> QED
    BY <2>1, <2>2
<1> QED
  BY <1>1, <1>2, <1>5, <1>6 DEF MapInv, MapTypes

\* Steps that leave the map, the cells and the windows alone.
LEMMA MapKept ==
  ASSUME MapInv, UNCHANGED <<subWindowsMap, pointer, window>>
  PROVE  MapInv'
BY DEF MapInv, MapTypes, OneWindowEach, WindowOf

\* Every step keeps the map so.
LEMMA MapStep ==
  ASSUME MapInv, [Next]_vars
  PROVE  MapInv'
<1> USE DEF mapVars
<1>1. CASE UNCHANGED vars
  BY <1>1, MapKept DEF vars
<1>2. CASE \/ Compose \/ \E c \in Apis : GetScreenshot(c)
           \/ \E d \in Displays :
                \/ Post(d) \/ Elapse(d)
                \/ \E p \in Parents, needpost \in BOOLEAN : Resize(d, p, needpost)
  BY <1>2, MapKept DEF Compose, GetScreenshot, Post, Elapse, Resize
<1>3. ASSUME NEW d \in Displays, NEW hide \in BOOLEAN, setDisplayShowStatus(d, hide)
      PROVE  MapInv'
  <2> DEFINE w == WindowOf(d)
  <2>1. w \in Windows /\ window[w] \in RendererWindowAttri
    BY <1>3, Names DEF setDisplayShowStatus, MapInv, MapTypes, OneWindowEach, WindowOf
  <2>2. window' = [window EXCEPT ![w].disableShow = hide] /\ UNCHANGED <<subWindowsMap, pointer>>
    BY <1>3 DEF setDisplayShowStatus
  <2>3. [window[w] EXCEPT !.disableShow = hide] \in RendererWindowAttri
    BY <2>1 DEF RendererWindowAttri
  <2>4. MapTypes' /\ \A v \in Windows : window'[v] = None <=> window[v] = None
    BY <2>1, <2>2, <2>3, Names DEF MapInv, MapTypes
  <2>5. \A e \in Displays : (WindowOf(e))' = WindowOf(e)
    BY <2>2 DEF WindowOf
  <2> QED
    BY <2>2, <2>4, <2>5 DEF MapInv, OneWindowEach
<1>4. ASSUME NEW d \in Displays, DeleteWindowAttri(d) PROVE MapInv'
  BY <1>4, Unmapping DEF DeleteWindowAttri
<1>5. ASSUME NEW d \in Displays, NEW p \in Parents, UpdateFails(d, p) PROVE MapInv'
  BY <1>5, Unmapping DEF UpdateFails, Unmap
<1>6. ASSUME NEW d \in Displays, NEW needpost \in BOOLEAN, UpdateToNone(d, needpost) PROVE MapInv'
  BY <1>6, Unmapping DEF UpdateToNone, Unmap
<1>7. ASSUME NEW d \in Displays, NEW p \in Parents, NEW needpost \in BOOLEAN,
             Update(d, p, needpost)
      PROVE  MapInv'
  <2> DEFINE w == CHOOSE x \in FreeWindows : TRUE
             f == CHOOSE x \in FreeCells : TRUE
             c == IF subWindowsMap[d] # None THEN subWindowsMap[d] ELSE f
             a == [parent |-> p, disableShow |-> FALSE]
  <2>1. w \in FreeWindows /\ f \in FreeCells
    BY <1>7 DEF Update
  <2>2. a \in RendererWindowAttri
    BY DEF RendererWindowAttri
  <2>3. /\ subWindowsMap' = [subWindowsMap EXCEPT ![d] = c]
        /\ pointer' = [pointer EXCEPT ![c] = w]
        /\ window' = [v \in Windows |->
              CASE v = w -> a [] v = WindowOf(d) -> None [] OTHER -> window[v]]
    BY <1>7 DEF Update
  <2> HIDE DEF w, f, a
  <2>4. w \in Windows /\ window[w] = None
    BY <2>1 DEF FreeWindows
  <2>5. c \in Cells /\ (subWindowsMap[d] # None => c = subWindowsMap[d])
        /\ (subWindowsMap[d] = None => \A e \in Displays : subWindowsMap[e] # c)
    BY <2>1 DEF FreeCells, MapInv, MapTypes
  <2> HIDE DEF c
  <2> QED
    BY <2>2, <2>3, <2>4, <2>5, Mapping
<1>8. ASSUME NEW c \in Callers, CallerStep(c) PROVE MapInv'
  BY <1>8, MapKept DEF CallerStep, Refuse, Send, Start, StartThread, Enqueue,
     waitQueuedItems, Released, Return
<1>9. CASE PostThreadStep \/ Spurious
  BY <1>9, MapKept DEF PostThreadStep, Bind, Ignore, Draw, OffScreen, Loop, Spurious
<1> QED
  BY <1>1, <1>2, <1>3, <1>4, <1>5, <1>6, <1>7, <1>8, <1>9 DEF Next, NewCall

\* Every on-screen window belongs to exactly one display and every display in the map
\* has a window, through moves to another parent, failing surfaces and deletions.
THEOREM WindowsAccounted == Spec => []OneWindowEach
<1>1. Init => MapInv
  BY Names DEF Init, MapInv, MapTypes, OneWindowEach, WindowOf
<1>2. MapInv /\ [Next]_vars => MapInv'
  BY MapStep
<1>3. MapInv => OneWindowEach
  BY DEF MapInv
<1> QED
  BY <1>1, <1>2, <1>3, PTL DEF Spec

-----------------------------------------------------------------------------
(* Types.  What the post thread reads as a cell must be one, so the type    *)
(* invariant rests on what callers send.                                    *)

OnWindowOps == {"Post", "Viewport", "Clear"}

\* c has decided on a command and is not through with it.
Busy(c) == pc[c] \in {"start", "spawn", "enqueue", "drain", "sync"}

\* What each caller may still send, and where the command it is at goes to.
JobOK(c) ==
    /\ Busy(c) => job[c].cmds # <<>>
    /\ \A i \in 1..Len(job[c].cmds) :
         /\ job[c].cmds[i] = "Post" => job[c].display \in Displays
         /\ c # Render => job[c].cmds[i] = "Screenshot"
    /\ Busy(c) /\ Command(c) = "Post" => job[c].cell \in Cells
    /\ Busy(c) /\ Command(c) \in {"Viewport", "Clear"} => job[c].cell = Main

JobInv == \A c \in Callers : JobOK(c)

\* A command that the post thread looks up a window for has a cell.
LineCells ==
    \A i \in 1..Len(Line) :
        Line[i].op \in OnWindowOps => Line[i].cell \in Cells \cup {Main}

CallInv == TypeOK /\ MapInv /\ JobInv /\ LineCells

\* A caller that has started the thread knows of it.
StartInv ==
    \A c \in Callers : pc[c] \in {"spawn", "enqueue", "drain", "sync"} => mStarted

Holders == {c \in Callers : pc[c] \in {"drain", "sync"}}
Waiters == {c \in Callers : pc[c] = "sync"}

\* Until a start is refused, who waits and who was signaled follows the queue.
OrderInv == ~mFinished => Ordered(Line, signaled, Holders, Waiters)

\* A command that is pending is the one its caller is at.
Own(L) ==
    \A i \in 1..Len(L) : L[i].op # Sync =>
        L[i].op = Command(L[i].by) /\ L[i].cell = job[L[i].by].cell

\* A caller at a post has found the window there, shown, and it stays.
PostOK(c) ==
    Busy(c) /\ Command(c) = "Post" =>
        MayPost(job[c].display) /\ job[c].cell = subWindowsMap[job[c].display]

PostInv == \A c \in Callers : PostOK(c)

\* The window that is drawn to is the one the cell of the first command leads to.
DrawInv ==
    /\ pointer[Main] = Main
    /\ PostInv
    /\ ~mFinished =>
         /\ Own(Line)
         /\ drawing # None =>
              /\ todo # <<>> /\ Head(todo).op \in OnWindowOps
              /\ drawing = pointer[Head(todo).cell]

-----------------------------------------------------------------------------
Labels == {"idle", "next", "start", "spawn", "enqueue", "drain", "sync"}
Job == [cmds : Seq(Ops), display : Displays \cup {None}, cell : Cells \cup {Main, None}]

\* One caller moves, with a new job or the one it had.
LEMMA JobMoves ==
  ASSUME TypeOK, JobInv, NEW c \in Callers, NEW l \in Labels, NEW j \in Job,
         pc' = [pc EXCEPT ![c] = l], job' = [job EXCEPT ![c] = j], JobOK(c)'
  PROVE  /\ JobInv' /\ pc' \in [Callers -> Labels] /\ job' \in [Callers -> Job]
         /\ pc'[c] = l /\ job'[c] = j
<1>1. pc \in [Callers -> Labels] /\ job \in [Callers -> Job]
  BY DEF TypeOK, Labels, Job
<1>2. \A d \in Callers : d # c => pc'[d] = pc[d] /\ job'[d] = job[d]
  BY <1>1
<1>3. \A d \in Callers : d # c => JobOK(d)'
  BY <1>2 DEF JobInv, JobOK, Busy, Command
<1>4. JobInv'
  BY <1>3 DEF JobInv
<1> QED
  BY <1>1, <1>4

\* The worker's types follow from the commands it gets.
WorkTypes ==
    /\ mStarted \in BOOLEAN /\ mFinished \in BOOLEAN
    /\ thread \in {"none", "running", "asleep", "gone"}
    /\ mQueue \in Seq(Commands) /\ todo \in Seq(Commands)
    /\ signaled \in [Callers -> BOOLEAN]

\* Steps that leave the queue alone.
LEMMA LineKept ==
  ASSUME LineCells, UNCHANGED <<mQueue, todo>>
  PROVE  LineCells'
BY DEF LineCells, Line

\* A command is put at the end.
LEMMA LineAppended ==
  ASSUME WorkTypes, LineCells, NEW x \in Commands, enqueueImpl(x),
         x.op \in OnWindowOps => x.cell \in Cells \cup {Main}
  PROVE  LineCells' /\ thread' \in {"none", "running", "asleep", "gone"}
         /\ mQueue' \in Seq(Commands) /\ todo' \in Seq(Commands)
<1>1. Line \in Seq(Commands) /\ Line' = Append(Line, x)
  BY LineEnqueue DEF WorkTypes
<1>2. LineCells'
  <2> DEFINE n == Len(Line)
  <2>1. n \in Nat /\ Len(Line') = n + 1 /\ Line'[n + 1] = x
    BY <1>1
  <2>2. \A i \in 1..n : Line'[i] = Line[i]
    BY <1>1
  <2> HIDE DEF n
  <2>3. \A i \in 1..Len(Line') : i \in 1..n \/ i = n + 1
    BY <2>1
  <2> QED
    BY <2>1, <2>2, <2>3 DEF LineCells, n
<1>3. mQueue' \in Seq(Commands) /\ todo' \in Seq(Commands)
  BY DEF enqueueImpl, WorkTypes
<1>4. thread' \in {"none", "running", "asleep", "gone"}
  BY DEF enqueueImpl, WorkTypes, Notified
<1> QED
  BY <1>2, <1>3, <1>4

\* The first command is processed.
LEMMA LineAdvanced ==
  ASSUME WorkTypes, LineCells, todo # <<>>, todo' = Tail(todo), mQueue' = mQueue
  PROVE  LineCells' /\ todo' \in Seq(Commands)
<1>1. Line \in Seq(Commands) /\ Line # <<>> /\ Line' = Tail(Line)
  BY LineProcessed DEF WorkTypes
<1>2. Len(Line') \in Nat /\ Len(Line) = Len(Line') + 1
  BY <1>1
<1>3. \A i \in 1..Len(Line') : Line'[i] = Line[i + 1]
  BY <1>1
<1>4. \A i \in 1..Len(Line') : i + 1 \in 1..Len(Line)
  BY <1>2
<1>5. LineCells'
  BY <1>3, <1>4 DEF LineCells
<1>6. todo' \in Seq(Commands)
  BY DEF WorkTypes
<1> QED
  BY <1>5, <1>6

\* A call starts.
LEMMA BeginTyped ==
  ASSUME CallInv, MapInv', recent' \in SUBSET Displays, m_lock' \in Callers \cup {None},
         children' \in [Parents -> Int],
         NEW c \in Callers, NEW d \in Displays \cup {None}, NEW cmds \in Seq(Ops),
         \A i \in 1..Len(cmds) : /\ cmds[i] = "Post" => d \in Displays
                                 /\ c # Render => cmds[i] = "Screenshot",
         Begin(c, d, cmds)
  PROVE  CallInv'
<1> DEFINE j == [cmds |-> cmds, display |-> d, cell |-> None]
<1>1. j \in Job /\ j.cmds = cmds /\ j.display = d
  BY DEF Job
<1>2. pc' = [pc EXCEPT ![c] = "next"] /\ job' = [job EXCEPT ![c] = j]
      /\ UNCHANGED <<workerVars, drawing>>
  BY DEF Begin, Goto
<1> HIDE DEF j
<1>3. pc'[c] = "next" /\ job'[c] = j
  BY <1>2 DEF CallInv, TypeOK
<1>4. JobOK(c)'
  BY <1>1, <1>3 DEF JobOK, Busy
<1>5. JobInv' /\ pc' \in [Callers -> Labels] /\ job' \in [Callers -> Job]
  BY <1>1, <1>2, <1>4, JobMoves DEF CallInv, Labels
<1>6. LineCells'
  BY <1>2, LineKept DEF workerVars, CallInv
<1>7. TypeOK'
  BY <1>2, <1>5 DEF CallInv, TypeOK, workerVars, MapInv, MapTypes, Labels, Job
<1> QED
  BY <1>5, <1>6, <1>7 DEF CallInv

\* Which commands the calls have to send.
LEMMA CallCommands ==
  /\ \A needpost \in BOOLEAN : /\ PostIf(needpost) \in Seq(Ops)
                              /\ <<"Post">> \o PostIf(needpost) \in Seq(Ops)
  /\ \A op \in Ops : <<op>> \in Seq(Ops) /\ \A i \in 1..Len(<<op>>) : <<op>>[i] = op
  /\ <<>> \in Seq(Ops) /\ <<"Viewport", "Clear">> \in Seq(Ops)
  /\ \A i \in 1..Len(<<"Viewport", "Clear">>) :
        <<"Viewport", "Clear">>[i] \in {"Viewport", "Clear"}
BY DEF Ops, PostIf

\* The calls keep the types.
LEMMA NewCallTyped ==
  ASSUME CallInv, MapInv', NewCall
  PROVE  CallInv'
<1> USE CallCommands
<1>0. /\ Render \in Callers /\ m_lock \in Callers \cup {None} /\ recent \in SUBSET Displays
      /\ children \in [Parents -> Int]
  BY PostingAssumption DEF CallInv, TypeOK
<1> DEFINE Opening(c, d, cmds) ==
             /\ Begin(c, d, cmds) /\ recent' \in SUBSET Displays /\ m_lock' \in Callers \cup {None}
             /\ children' \in [Parents -> Int]
<1>a. ASSUME NEW d, NEW made, SubWindows(d, made) PROVE children' \in [Parents -> Int]
  BY <1>0, <1>a DEF SubWindows
<1>1. ASSUME NEW d \in Displays, NEW cmds \in Seq(Ops), Opening(Render, d, cmds) PROVE CallInv'
  BY <1>0, <1>1, BeginTyped
<1>2. ASSUME Compose PROVE CallInv'
  <2>1. Opening(Render, None, <<"Compose">>)
    BY <1>0, <1>2 DEF Compose, BeginLocked, mapVars
  <2>2. <<"Compose">> \in Seq(Ops) /\ \A i \in 1..Len(<<"Compose">>) : <<"Compose">>[i] = "Compose"
    BY DEF Ops
  <2> QED
    BY <1>0, <2>1, <2>2, BeginTyped
<1>3. ASSUME NEW c \in Apis, GetScreenshot(c) PROVE CallInv'
  <2>0. c \in Callers
    BY PostingAssumption
  <2>1. Opening(c, None, <<"Screenshot">>)
    BY <1>0, <1>3, <2>0 DEF GetScreenshot, BeginLocked, mapVars
  <2>2. <<"Screenshot">> \in Seq(Ops)
        /\ \A i \in 1..Len(<<"Screenshot">>) : <<"Screenshot">>[i] = "Screenshot"
    BY DEF Ops
  <2> QED
    BY <1>0, <2>0, <2>1, <2>2, BeginTyped
<1>4. ASSUME NEW d \in Displays, Post(d) PROVE CallInv'
  <2>1. Opening(Render, d, <<"Post">>) /\ <<"Post">> \in Seq(Ops)
    BY <1>0, <1>4 DEF Post, mapVars, Ops
  <2> QED
    BY <1>1, <2>1
<1>5. ASSUME NEW d \in Displays, DeleteWindowAttri(d) PROVE CallInv'
  <2>1. \E cmds \in Seq(Ops) : Opening(Render, d, cmds)
    BY <1>0, <1>a, <1>5 DEF DeleteWindowAttri, BeginLocked
  <2> QED
    BY <1>1, <2>1
<1>6. ASSUME NEW d \in Displays, NEW hide \in BOOLEAN, setDisplayShowStatus(d, hide) PROVE CallInv'
  <2>1. Opening(Render, d, <<>>)
    BY <1>0, <1>6 DEF setDisplayShowStatus, BeginLocked
  <2> QED
    BY <1>1, <2>1
<1>7. ASSUME NEW d \in Displays, NEW needpost \in BOOLEAN, UpdateToNone(d, needpost) PROVE CallInv'
  <2>1. Opening(Render, d, <<"Post">> \o PostIf(needpost))
    BY <1>0, <1>a, <1>7 DEF UpdateToNone, BeginLocked, Unmap
  <2> QED
    BY <1>1, <2>1
<1>8. ASSUME NEW d \in Displays, NEW p \in Parents, NEW needpost \in BOOLEAN,
             Resize(d, p, needpost) \/ Update(d, p, needpost)
      PROVE  CallInv'
  <2>1. CASE Resize(d, p, needpost)
    <3>1. Opening(Render, d, PostIf(needpost))
      BY <1>0, <2>1 DEF Resize, BeginLocked, mapVars
    <3> QED
      BY <1>1, <3>1
  <2>2. CASE Update(d, p, needpost)
    <3>1. Opening(Render, d, <<"Post">> \o PostIf(needpost))
      BY <1>0, <1>a, <2>2 DEF Update, BeginLocked
    <3> QED
      BY <1>1, <3>1
  <2> QED
    BY <1>8, <2>1, <2>2
<1>9. ASSUME NEW d \in Displays, NEW p \in Parents, UpdateFails(d, p) PROVE CallInv'
  <2>1. Opening(Render, d, <<>>)
    BY <1>0, <1>a, <1>9 DEF UpdateFails, BeginLocked, Unmap
  <2> QED
    BY <1>1, <2>1
<1> HIDE DEF Opening
<1> QED
  BY <1>2, <1>3, <1>4, <1>5, <1>6, <1>7, <1>8, <1>9 DEF NewCall

\* A caller drops its first command, or its cell.
LEMMA JobRest ==
  ASSUME CallInv, NEW c \in Callers, job[c].cmds # <<>>
  PROVE  /\ Command(c) \in Ops /\ Command(c) = job[c].cmds[1] /\ 1 \in 1..Len(job[c].cmds)
         /\ job[c] \in Job /\ Tail(job[c].cmds) \in Seq(Ops)
         /\ \A i \in 1..Len(Tail(job[c].cmds)) :
               /\ Tail(job[c].cmds)[i] = "Post" => job[c].display \in Displays
               /\ c # Render => Tail(job[c].cmds)[i] = "Screenshot"
<1>1. job[c] \in Job /\ job[c].cmds \in Seq(Ops)
  BY DEF CallInv, TypeOK, Job
<1>2. JobOK(c)
  BY DEF CallInv, JobInv
<1> DEFINE s == job[c].cmds
<1>3. \A i \in 1..Len(s) :
        /\ s[i] = "Post" => job[c].display \in Displays
        /\ c # Render => s[i] = "Screenshot"
  BY <1>2 DEF JobOK
<1>4. Command(c) \in Ops /\ Command(c) = s[1] /\ 1 \in 1..Len(s)
  BY <1>1 DEF Command
<1>5. Tail(s) \in Seq(Ops)
  BY <1>1
<1>6. \A i \in 1..Len(Tail(s)) : Tail(s)[i] = s[i + 1] /\ i + 1 \in 1..Len(s)
  BY <1>1
<1>7. \A i \in 1..Len(Tail(s)) :
        /\ Tail(s)[i] = "Post" => job[c].display \in Displays
        /\ c # Render => Tail(s)[i] = "Screenshot"
  BY <1>3, <1>6
<1> QED
  BY <1>1, <1>4, <1>5, <1>7

\* A caller stays with its job and goes on to another label.
LEMMA GoesOn ==
  ASSUME CallInv, NEW c \in Callers, NEW l \in Labels, Goto(c, l), UNCHANGED job,
         Busy(c) \/ l \in {"idle", "next"}
  PROVE  JobInv' /\ pc' \in [Callers -> Labels] /\ job' \in [Callers -> Job]
<1>1. pc' = [pc EXCEPT ![c] = l] /\ job' = [job EXCEPT ![c] = job[c]]
  BY DEF Goto, CallInv, TypeOK
<1>2. pc'[c] = l /\ job[c] \in Job
  BY <1>1 DEF CallInv, TypeOK, Job
<1>3. JobOK(c)'
  BY <1>1, <1>2 DEF JobOK, JobInv, CallInv, Busy, Command
<1> QED
  BY <1>1, <1>2, <1>3, JobMoves DEF CallInv

\* The command was sent.
LEMMA SentTyped ==
  ASSUME CallInv, NEW c \in Callers, Busy(c), Sent(c)
  PROVE  JobInv' /\ pc' \in [Callers -> Labels] /\ job' \in [Callers -> Job]
<1> DEFINE s == Tail(job[c].cmds)
           j == [job[c] EXCEPT !.cmds = s, !.cell = None]
<1>1. job[c].cmds # <<>>
  BY DEF CallInv, JobInv, JobOK
<1>2. j \in Job /\ j.cmds = s /\ j.display = job[c].display
  BY <1>1, JobRest DEF Job
<1>3. pc' = [pc EXCEPT ![c] = "next"] /\ job' = [job EXCEPT ![c] = j]
  BY DEF Sent, Goto, CallInv, TypeOK
<1>4. pc'[c] = "next" /\ job'[c] = j
  BY <1>3 DEF CallInv, TypeOK
<1> HIDE DEF j
<1>5. JobOK(c)'
  BY <1>1, <1>2, <1>4, JobRest DEF JobOK, Busy
<1> QED
  BY <1>2, <1>3, <1>5, JobMoves DEF CallInv, Labels

\* Callers keep the types.
LEMMA CallerTyped ==
  ASSUME CallInv, MapInv', NEW c \in Callers, CallerStep(c)
  PROVE  CallInv'
<1> DEFINE Calls == JobInv' /\ pc' \in [Callers -> Labels] /\ job' \in [Callers -> Job]
<1>0. WorkTypes /\ LineCells /\ m_lock \in Callers \cup {None} /\ drawing \in Windows \cup {Main, None}
      /\ recent \subseteq Displays /\ children \in [Parents -> Int]
  BY DEF CallInv, TypeOK, WorkTypes
<1>1. SUFFICES /\ WorkTypes' /\ LineCells' /\ Calls
               /\ m_lock' \in Callers \cup {None}
               /\ drawing' = drawing /\ recent' = recent /\ children' = children
  BY <1>0 DEF CallInv, TypeOK, WorkTypes, MapInv, MapTypes, Labels, Job
<1> HIDE DEF Calls
<1>2. ASSUME Refuse(c) PROVE Calls
  <2> DEFINE s == Tail(job[c].cmds)
             j == [job[c] EXCEPT !.cmds = s]
  <2>1. pc[c] = "next" /\ job[c].cmds # <<>>
    BY <1>2 DEF Refuse, Sending
  <2>2. j \in Job /\ j.cmds = s /\ j.display = job[c].display
    BY <2>1, JobRest DEF Job
  <2>3. pc' = [pc EXCEPT ![c] = "next"] /\ job' = [job EXCEPT ![c] = j]
    BY <1>2, <2>1 DEF Refuse, CallInv, TypeOK
  <2>4. pc'[c] = "next" /\ job'[c] = j
    BY <2>3 DEF CallInv, TypeOK
  <2> HIDE DEF j
  <2>5. JobOK(c)'
    BY <2>1, <2>2, <2>4, JobRest DEF JobOK, Busy
  <2> QED
    BY <2>2, <2>3, <2>5, JobMoves DEF CallInv, Labels, Calls
<1>3. ASSUME Send(c) PROVE Calls
  <2> DEFINE l == IF mStarted THEN "enqueue" ELSE "start"
             j == [job[c] EXCEPT !.cell = Target(c)]
  <2>1. job[c].cmds # <<>>
    BY <1>3 DEF Send, Sending
  <2>2. JobOK(c)
    BY DEF CallInv, JobInv
  <2>3. Command(c) = "Post" => job[c].display \in Displays
    BY <2>1, <2>2, JobRest DEF JobOK
  <2>4. /\ Command(c) = "Post" => Target(c) \in Cells
        /\ Command(c) \in {"Viewport", "Clear"} => Target(c) = Main
        /\ Target(c) \in Cells \cup {Main, None}
    BY <1>3, <2>3 DEF Send, MayPost, WindowOf, Target, CallInv, MapInv, MapTypes
  <2>5. j \in Job /\ j.cmds = job[c].cmds /\ j.display = job[c].display /\ j.cell = Target(c)
    BY <2>1, <2>4, JobRest DEF Job
  <2>6. pc' = [pc EXCEPT ![c] = l] /\ job' = [job EXCEPT ![c] = j] /\ l \in Labels
    BY <1>3 DEF Send, Goto, Labels
  <2>7. job'[c] = j
    BY <2>6 DEF CallInv, TypeOK
  <2> HIDE DEF j, l
  <2>8. JobOK(c)'
    BY <2>1, <2>2, <2>4, <2>5, <2>7 DEF JobOK, Busy, Command
  <2> QED
    BY <2>5, <2>6, <2>8, JobMoves DEF CallInv, Calls
<1>4. ASSUME Start(c) \/ StartThread(c) PROVE Calls
  BY <1>4, GoesOn DEF Start, StartThread, Busy, Labels, Calls
<1>5. ASSUME Enqueue(c) PROVE Calls
  BY <1>5, GoesOn DEF Enqueue, Busy, Labels, Calls
<1>6. ASSUME waitQueuedItems(c) PROVE Calls
  BY <1>6, GoesOn, SentTyped DEF waitQueuedItems, Busy, Labels, Calls
<1>7. ASSUME Released(c) PROVE Calls
  BY <1>7, SentTyped DEF Released, Busy, Calls
<1>8. ASSUME Return(c) PROVE Calls
  <2>1. NoJob \in Job /\ NoJob.cmds = <<>>
    BY DEF NoJob, Job
  <2>2. pc' = [pc EXCEPT ![c] = "idle"] /\ job' = [job EXCEPT ![c] = NoJob]
    BY <1>8 DEF Return, Goto
  <2>3. pc'[c] = "idle" /\ job'[c] = NoJob
    BY <2>2 DEF CallInv, TypeOK
  <2>4. JobOK(c)'
    BY <2>1, <2>3 DEF JobOK, Busy
  <2> QED
    BY <2>1, <2>2, <2>4, JobMoves DEF CallInv, Labels, Calls
<1>9. Calls
  BY <1>2, <1>3, <1>4, <1>5, <1>6, <1>7, <1>8 DEF CallerStep
<1>10. m_lock' \in Callers \cup {None} /\ drawing' = drawing /\ recent' = recent
       /\ children' = children
  BY <1>0 DEF CallerStep, Refuse, Send, Start, StartThread, Enqueue, waitQueuedItems, Released,
     Return, mapVars
<1>11. ASSUME Enqueue(c) PROVE WorkTypes' /\ LineCells'
  <2> DEFINE x == [op |-> Command(c), by |-> c, cell |-> job[c].cell]
  <2>1. JobOK(c) /\ Busy(c) /\ job[c].cmds # <<>>
    BY <1>11 DEF CallInv, JobInv, JobOK, Enqueue, Busy
  <2>2. x \in Commands
    BY <2>1, JobRest DEF Commands, Job
  <2>3. x.op \in OnWindowOps => x.cell \in Cells \cup {Main}
    BY <2>1 DEF JobOK, OnWindowOps
  <2>4. enqueueImpl(x) /\ UNCHANGED <<signaled, mStarted, mFinished>>
    BY <1>11 DEF Enqueue, enqueueImpl
  <2> HIDE DEF x
  <2> QED
    BY <1>0, <2>2, <2>3, <2>4, LineAppended DEF WorkTypes
<1>12. ASSUME waitQueuedItems(c) PROVE WorkTypes' /\ LineCells'
  <2>1. CASE EnqueueSync(c)
    <3>1. SyncPoint(c) \in Commands /\ SyncPoint(c).op \notin OnWindowOps
      BY DEF SyncPoint, Commands, OnWindowOps, Sync
    <3>2. enqueueImpl(SyncPoint(c)) /\ UNCHANGED <<signaled, mStarted, mFinished>>
      BY <2>1 DEF EnqueueSync, enqueueImpl
    <3> QED
      BY <1>0, <3>1, <3>2, LineAppended DEF WorkTypes
  <2>2. CASE UNCHANGED workerVars
    BY <1>0, <2>2, LineKept DEF workerVars, WorkTypes
  <2> QED
    BY <1>12, <2>1, <2>2 DEF waitQueuedItems
<1>13. ASSUME Refuse(c) \/ Send(c) \/ Return(c) PROVE WorkTypes' /\ LineCells'
  <2>1. UNCHANGED workerVars
    BY <1>13 DEF Refuse, Send, Return
  <2> QED
    BY <1>0, <2>1, LineKept DEF workerVars, WorkTypes
<1>14. ASSUME Start(c) \/ StartThread(c) \/ Released(c) PROVE WorkTypes' /\ LineCells'
  <2>1. UNCHANGED <<mQueue, todo>>
    BY <1>14 DEF Start, StartThread, Released, start, startThread, Release
  <2>2. /\ mStarted' \in BOOLEAN /\ mFinished' \in BOOLEAN
        /\ thread' \in {"none", "running", "asleep", "gone"} /\ signaled' \in [Callers -> BOOLEAN]
    BY <1>0, <1>14 DEF Start, StartThread, Released, start, startThread, Release, WorkTypes
  <2> QED
    BY <1>0, <2>1, <2>2, LineKept DEF WorkTypes
<1>15. WorkTypes' /\ LineCells'
  BY <1>11, <1>12, <1>13, <1>14 DEF CallerStep
<1> QED
  BY <1>9, <1>10, <1>15

\* The post thread keeps the types.
LEMMA ThreadTyped ==
  ASSUME CallInv, MapInv', PostThreadStep \/ Spurious
  PROVE  CallInv'
<1>0. WorkTypes /\ LineCells /\ drawing \in Windows \cup {Main, None}
  BY DEF CallInv, TypeOK, WorkTypes
<1>1. UNCHANGED <<mapVars, callVars>>
  BY DEF PostThreadStep, Bind, Ignore, Draw, OffScreen, Loop, Spurious
<1>2. JobInv'
  BY <1>1 DEF CallInv, JobInv, JobOK, Busy, Command, callVars
<1>3. SUFFICES WorkTypes' /\ LineCells' /\ drawing' \in Windows \cup {Main, None}
  BY <1>1, <1>2 DEF CallInv, TypeOK, WorkTypes, MapInv, MapTypes, mapVars, callVars
<1>4. CASE Bind
  <2>1. todo # <<>> /\ Head(todo).op \in OnWindowOps
    BY <1>4 DEF Bind, OnWindow, At, OnWindowOps
  <2>2. Line \in Seq(Commands) /\ Line # <<>> /\ Head(Line) = Head(todo)
    BY <1>0, <2>1 DEF WorkTypes, Line
  <2>3. Line[1] = Head(todo) /\ 1 \in 1..Len(Line)
    BY <2>2
  <2>4. Head(todo).cell \in Cells \cup {Main}
    BY <1>0, <2>1, <2>3 DEF LineCells
  <2>5. drawing' \in Windows \cup {Main, None}
    BY <1>4, <2>4 DEF Bind, CallInv, MapInv, MapTypes
  <2> QED
    BY <1>0, <1>4, <2>5, LineKept DEF Bind, workerVars, WorkTypes
<1>5. CASE Ignore \/ Draw \/ OffScreen
  <2>1. todo # <<>> /\ Processed /\ drawing' \in {drawing, None}
    BY <1>5 DEF Ignore, Draw, OffScreen, OnWindow, At
  <2>2. LineCells' /\ todo' \in Seq(Commands)
    BY <1>0, <2>1, LineAdvanced DEF Processed
  <2> QED
    BY <1>0, <2>1, <2>2 DEF Processed, WorkTypes
<1>6. CASE (Sleep \/ WakeUp) /\ UNCHANGED drawing
  BY <1>0, <1>6, LineKept DEF Sleep, WakeUp, WorkTypes
<1>7. CASE Take /\ UNCHANGED drawing
  <2>1. Line' = Line
    BY <1>0, <1>7, LineTake DEF WorkTypes
  <2>2. LineCells'
    BY <1>0, <2>1 DEF LineCells
  <2>3. mQueue' \in Seq(Commands) /\ todo' \in Seq(Commands)
    BY <1>0, <1>7 DEF Take, WorkTypes
  <2> QED
    BY <1>0, <1>7, <2>2, <2>3 DEF Take, WorkTypes
<1>8. CASE Signal /\ UNCHANGED drawing
  <2>1. todo # <<>> /\ todo' = Tail(todo) /\ mQueue' = mQueue
    BY <1>8 DEF Signal, At
  <2>2. LineCells' /\ todo' \in Seq(Commands)
    BY <1>0, <2>1, LineAdvanced
  <2>3. signaled' \in [Callers -> BOOLEAN]
    BY <1>0, <1>8 DEF Signal, WorkTypes
  <2> QED
    BY <1>0, <1>8, <2>2, <2>3 DEF Signal, WorkTypes
<1> QED
  BY <1>4, <1>5, <1>6, <1>7, <1>8 DEF PostThreadStep, Loop, Spurious

\* Every step keeps the types.
LEMMA CallStep ==
  ASSUME CallInv, [Next]_vars
  PROVE  CallInv'
<1>1. MapInv'
  BY MapStep DEF CallInv
<1>2. CASE UNCHANGED vars
  <2>1. LineCells'
    BY <1>2, LineKept DEF vars, workerVars, CallInv
  <2>2. JobInv'
    BY <1>2 DEF CallInv, JobInv, JobOK, Busy, Command, vars, callVars
  <2>3. TypeOK'
    BY <1>2 DEF CallInv, TypeOK, vars, callVars, mapVars, workerVars
  <2> QED
    BY <1>1, <2>1, <2>2, <2>3 DEF CallInv
<1>3. ASSUME NEW d \in Displays, Elapse(d) PROVE CallInv'
  <2>1. LineCells'
    BY <1>3, LineKept DEF Elapse, workerVars, CallInv
  <2>2. JobInv'
    BY <1>3 DEF Elapse, CallInv, JobInv, JobOK, Busy, Command, callVars
  <2>3. TypeOK'
    BY <1>3 DEF Elapse, CallInv, TypeOK, callVars, workerVars
  <2> QED
    BY <1>1, <2>1, <2>2, <2>3 DEF CallInv
<1> QED
  BY <1>1, <1>2, <1>3, NewCallTyped, CallerTyped, ThreadTyped DEF Next

\* The first state has the types.
LEMMA CallInit ==
  ASSUME Init
  PROVE  CallInv
<1>1. MapInv
  BY Names DEF Init, MapInv, MapTypes, OneWindowEach, WindowOf
<1>2. Line = <<>>
  BY DEF Init, WorkerInit, Line
<1>3. LineCells
  BY <1>2 DEF LineCells
<1>0. NoJob \in Job /\ NoJob.cmds = <<>> /\ Len(NoJob.cmds) = 0
  BY DEF NoJob, Job
<1>a. \A c \in Callers : pc[c] = "idle" /\ job[c] = NoJob
  BY DEF Init
<1>4. JobInv
  <2> SUFFICES ASSUME NEW c \in Callers PROVE JobOK(c)
    BY DEF JobInv
  <2>1. ~Busy(c) /\ 1..Len(job[c].cmds) = {}
    BY <1>0, <1>a DEF Busy
  <2> QED
    BY <2>1 DEF JobOK
<1>b. job \in [Callers -> Job] /\ recent \subseteq Displays /\ children \in [Parents -> Int]
  BY <1>0 DEF Init
<1>c. WorkTypes
  <2>1. <<>> \in Seq(Commands)
    OBVIOUS
  <2> QED
    BY <2>1 DEF Init, WorkerInit, WorkTypes
<1>d. /\ m_lock = None /\ drawing = None
      /\ pc \in [Callers -> Labels]
  BY DEF Init, Labels
<1>5. TypeOK
  BY <1>1, <1>b, <1>c, <1>d DEF TypeOK, WorkTypes, MapInv, MapTypes, Job, Labels
<1> QED
  BY <1>1, <1>3, <1>4, <1>5 DEF CallInv

\* The post thread never looks for a window where there is no cell, and nothing that
\* the callers do to the map, to their jobs or to the queue leaves its type.
THEOREM PostingTyped == Spec => []TypeOK
<1>1. Init => CallInv
  BY CallInit
<1>2. CallInv /\ [Next]_vars => CallInv'
  BY CallStep
<1>3. CallInv => TypeOK
  BY DEF CallInv
<1> QED
  BY <1>1, <1>2, <1>3, PTL DEF Spec

-----------------------------------------------------------------------------
(* Waits.                                                                   *)

\* A caller that moves among the labels where it has nothing with the worker.
LEMMA HoldersKept ==
  ASSUME TypeOK, NEW c \in Callers, NEW l, Goto(c, l),
         pc[c] \notin {"drain", "sync"}, l \notin {"drain", "sync"}
  PROVE  Holders' = Holders /\ Waiters' = Waiters
BY DEF TypeOK, Goto, Holders, Waiters

LEMMA OrderKept ==
  ASSUME OrderInv, UNCHANGED <<mFinished, mQueue, todo, signaled>>,
         Holders' = Holders, Waiters' = Waiters
  PROVE  OrderInv'
BY DEF OrderInv, Line

\* Only the holder of the render server's lock changes the map.
LEMMA NewCallBegins ==
  ASSUME NewCall
  PROVE  \E c \in Callers :
            /\ \E d, cmds : Begin(c, d, cmds)
            /\ c = Render \/ UNCHANGED mapVars
<1>1. Render \in Callers /\ \A c \in Apis : c \in Callers
  BY PostingAssumption
<1>2. CASE \E c \in Apis : GetScreenshot(c)
  BY <1>1, <1>2 DEF GetScreenshot, BeginLocked
<1>3. ASSUME ~\E c \in Apis : GetScreenshot(c) PROVE \E d, cmds : Begin(Render, d, cmds)
  BY <1>3 DEF NewCall, Compose, Post, DeleteWindowAttri, setDisplayShowStatus,
     UpdateToNone, Resize, Update, UpdateFails, BeginLocked
<1> QED
  BY <1>1, <1>2, <1>3

\* Every step keeps the callers in step with the queue.
LEMMA OrderStep ==
  ASSUME CallInv, StartInv, OrderInv, [Next]_vars
  PROVE  StartInv' /\ OrderInv'
<1>0. TypeOK /\ todo \in Seq(Commands) /\ mQueue \in Seq(Commands) /\ DOMAIN signaled = Callers
      /\ pc \in [Callers -> Labels]
  BY DEF CallInv, TypeOK, Labels
<1>1. CASE UNCHANGED vars
  <2>1. Holders' = Holders /\ Waiters' = Waiters
    BY <1>1 DEF vars, callVars, Holders, Waiters
  <2> QED
    BY <1>1, <2>1, OrderKept DEF vars, callVars, workerVars, StartInv
<1>2. CASE NewCall
  <2>1. PICK c \in Callers : pc[c] = "idle" /\ Goto(c, "next") /\ UNCHANGED workerVars
    BY <1>2, NewCallBegins DEF Begin
  <2>2. Holders' = Holders /\ Waiters' = Waiters
    BY <1>0, <2>1, HoldersKept
  <2>3. StartInv'
    BY <1>0, <2>1 DEF StartInv, Goto, workerVars
  <2> QED
    BY <2>1, <2>2, <2>3, OrderKept DEF workerVars
<1>3. ASSUME NEW d \in Displays, Elapse(d) PROVE StartInv' /\ OrderInv'
  <2>1. Holders' = Holders /\ Waiters' = Waiters
    BY <1>3 DEF Elapse, callVars, Holders, Waiters
  <2> QED
    BY <1>3, <2>1, OrderKept DEF Elapse, callVars, workerVars, StartInv
<1>4. ASSUME NEW c \in Callers, Refuse(c) \/ Send(c) \/ Return(c)
      PROVE  StartInv' /\ OrderInv'
  <2>1. UNCHANGED workerVars
    BY <1>4 DEF Refuse, Send, Return
  <2>2. PICK l \in {"next", "enqueue", "start", "idle"} :
          pc[c] = "next" /\ Goto(c, l) /\ (l = "enqueue" => mStarted)
    BY <1>0, <1>4 DEF Refuse, Send, Return, Sending, Goto
  <2>3. Holders' = Holders /\ Waiters' = Waiters
    BY <1>0, <2>2, HoldersKept
  <2>4. StartInv'
    BY <1>0, <2>1, <2>2 DEF StartInv, Goto, workerVars
  <2> QED
    BY <2>1, <2>3, <2>4, OrderKept DEF workerVars
<1>5. ASSUME NEW c \in Callers, Start(c) PROVE StartInv' /\ OrderInv'
  <2>1. Holders' = Holders /\ Waiters' = Waiters
    BY <1>0, <1>5, HoldersKept DEF Start
  <2>2. StartInv'
    BY <1>5 DEF Start, start, StartInv
  <2> QED
    BY <1>5, <2>1, <2>2, OrderKept DEF Start, start
<1>6. ASSUME NEW c \in Callers, StartThread(c) PROVE StartInv' /\ OrderInv'
  <2>1. Holders' = Holders /\ Waiters' = Waiters
    BY <1>0, <1>6, HoldersKept DEF StartThread
  <2>2. StartInv'
    BY <1>0, <1>6 DEF StartThread, startThread, StartInv, Goto
  <2>3. mFinished' = TRUE \/ UNCHANGED <<mFinished, mQueue, todo, signaled>>
    BY <1>6 DEF StartThread, startThread
  <2> QED
    BY <2>1, <2>2, <2>3, OrderKept DEF OrderInv
<1>7. ASSUME NEW c \in Callers, Enqueue(c) PROVE StartInv' /\ OrderInv'
  <2> DEFINE x == [op |-> Command(c), by |-> c, cell |-> job[c].cell]
  <2>1. StartInv'
    BY <1>0, <1>7 DEF Enqueue, enqueueImpl, StartInv, Goto
  <2>2. ASSUME ~mFinished' PROVE Ordered(Line', signaled', Holders', Waiters')
    <3>1. Ordered(Line, signaled, Holders, Waiters)
      BY <1>7, <2>2 DEF OrderInv, Enqueue, enqueueImpl
    <3>2. /\ Holders \subseteq Holders' /\ Waiters' = Waiters /\ Waiters' \subseteq Holders'
          /\ c \notin Waiters /\ c \in Holders'
      BY <1>0, <1>7 DEF Enqueue, Goto, Holders, Waiters
    <3>3. x \in Commands /\ x.op # Sync /\ x.by = c
      <4>1. job[c].cmds # <<>>
        BY <1>7 DEF CallInv, JobInv, JobOK, Enqueue, Busy
      <4>2. Command(c) \in Ops /\ job[c] \in Job
        BY <4>1, JobRest
      <4> QED
        BY <4>2 DEF Commands, Ops, Sync, Job
    <3>4. enqueueImpl(x) /\ signaled' = signaled
      BY <1>7 DEF Enqueue
    <3> HIDE DEF x
    <3>5. Line \in Seq(Commands) /\ Line' = Append(Line, x)
      BY <1>0, <3>3, <3>4, LineEnqueue
    <3>6. Ordered(Append(Line, x), signaled, Holders', Waiters')
      BY <3>1, <3>2, <3>3, <3>5, OrdAppend
    <3> QED
      BY <3>4, <3>5, <3>6
  <2> QED
    BY <2>1, <2>2 DEF OrderInv
<1>8. ASSUME NEW c \in Callers, waitQueuedItems(c) PROVE StartInv' /\ OrderInv'
  <2>1. mStarted
    BY <1>8 DEF waitQueuedItems, StartInv
  <2>2. StartInv'
    BY <1>0, <1>8, <2>1 DEF waitQueuedItems, EnqueueSync, enqueueImpl, workerVars, StartInv
  <2>3. ASSUME ~mFinished' PROVE Ordered(Line', signaled', Holders', Waiters')
    <3>1. ~mFinished /\ EnqueueSync(c) /\ Goto(c, "sync")
      <4>1. mFinished' = mFinished
        BY <1>8 DEF waitQueuedItems, EnqueueSync, enqueueImpl, workerVars
      <4>2. MustWait
        BY <2>1, <2>3, <4>1 DEF MustWait
      <4> QED
        BY <1>8, <2>3, <4>1, <4>2 DEF waitQueuedItems
    <3>2. Ordered(Line, signaled, Holders, Waiters)
      BY <3>1 DEF OrderInv
    <3>3. /\ Holders' = Holders /\ Waiters \subseteq Waiters' /\ Waiters' \subseteq Holders'
          /\ Waiters' \subseteq Waiters \cup {c}
          /\ c \notin Waiters /\ c \in Holders' /\ c \in Waiters'
      BY <1>0, <1>8, <3>1 DEF waitQueuedItems, Goto, Holders, Waiters
    <3>4. SyncPoint(c) \in Commands /\ SyncPoint(c).by = c
      BY DEF SyncPoint, Commands
    <3>5. enqueueImpl(SyncPoint(c)) /\ signaled' = signaled
      BY <3>1 DEF EnqueueSync
    <3>6. Line \in Seq(Commands) /\ Line' = Append(Line, SyncPoint(c))
      BY <1>0, <3>4, <3>5, LineEnqueue
    <3>7. Ordered(Append(Line, SyncPoint(c)), signaled, Holders', Waiters')
      BY <3>2, <3>3, <3>4, <3>6, OrdAppend
    <3> QED
      BY <3>5, <3>6, <3>7
  <2> QED
    BY <2>2, <2>3 DEF OrderInv
<1>9. ASSUME NEW c \in Callers, Released(c) PROVE StartInv' /\ OrderInv'
  <2>1. StartInv'
    BY <1>0, <1>9 DEF Released, Release, Sent, Goto, StartInv
  <2>2. ASSUME ~mFinished' PROVE Ordered(Line', signaled', Holders', Waiters')
    <3>1. Ordered(Line, signaled, Holders, Waiters) /\ signaled[c] /\ Line' = Line
          /\ signaled' = [signaled EXCEPT ![c] = FALSE]
      BY <1>9, <2>2 DEF OrderInv, Released, Release, Line
    <3>2. Holders' = Holders \ {c} /\ Waiters' = Waiters \ {c}
      BY <1>0, <1>9 DEF Released, Sent, Goto, Holders, Waiters
    <3> QED
      BY <1>0, <3>1, <3>2, OrdRelease
  <2> QED
    BY <2>1, <2>2 DEF OrderInv
<1>10. CASE PostThreadStep \/ Spurious
  <2>1. UNCHANGED <<mStarted, mFinished, pc>>
    BY <1>10 DEF PostThreadStep, Bind, Ignore, Draw, OffScreen, Loop, Spurious, callVars, workerVars,
       Processed, Sleep, Take, Signal, WakeUp
  <2>2. StartInv' /\ Holders' = Holders /\ Waiters' = Waiters
    BY <2>1 DEF StartInv, Holders, Waiters
  <2>3. UNCHANGED workerVars \/ Sleep \/ WakeUp \/ Take \/ Signal \/ (todo # <<>> /\ Processed)
    BY <1>10 DEF PostThreadStep, Bind, Ignore, Draw, OffScreen, OnWindow, At, Loop, Spurious
  <2>4. Ordered(Line, signaled, Holders, Waiters) => Ordered(Line', signaled', Holders, Waiters)
    BY <1>0, <2>3, OrdWorker
  <2> QED
    BY <2>1, <2>2, <2>4 DEF OrderInv
<1> QED
  BY <1>1, <1>2, <1>3, <1>4, <1>5, <1>6, <1>7, <1>8, <1>9, <1>10 DEF Next, CallerStep

\* The invariants together, from the start.
LEMMA OrderHolds == Spec => [](CallInv /\ StartInv /\ OrderInv)
<1>1. Init => CallInv /\ StartInv /\ OrderInv
  <2> SUFFICES ASSUME Init PROVE CallInv /\ StartInv /\ OrderInv
    OBVIOUS
  <2>1. CallInv
    BY CallInit
  <2>2. \A c \in Callers : pc[c] = "idle" /\ ~signaled[c]
    BY DEF Init, WorkerInit
  <2>3. Line = <<>> /\ Len(Line) = 0
    BY DEF Init, WorkerInit, Line
  <2>4. 1..Len(Line) = {}
    BY <2>3
  <2>5. Ordered(Line, signaled, Holders, Waiters)
    BY <2>2, <2>4 DEF Ordered, Holders, Waiters
  <2> QED
    BY <2>1, <2>2, <2>5 DEF StartInv, OrderInv
<1>2. CallInv /\ StartInv /\ OrderInv /\ [Next]_vars => (CallInv /\ StartInv /\ OrderInv)'
  BY CallStep, OrderStep
<1> QED
  BY <1>1, <1>2, PTL DEF Spec

\* As long as no start of the thread was refused, no caller of the post thread goes on
\* while one of its commands is pending: the colour buffer and the pixels it points to
\* are still there when the command is processed.
THEOREM PostWaitsDone == Spec => []WaitMeansDone
<1>1. CallInv /\ OrderInv => WaitMeansDone
  <2> SUFFICES ASSUME CallInv, OrderInv, ~mFinished, NEW x \in Pending
               PROVE  pc[x.by] \in {"drain", "sync"}
    BY DEF WaitMeansDone
  <2>1. todo \in Seq(Commands) /\ mQueue \in Seq(Commands)
    BY DEF CallInv, TypeOK
  <2>2. PICK i \in 1..Len(Line) : x = Line[i]
    BY <2>1, LineItems DEF Pending
  <2>3. Line \in Seq(Commands)
    BY <2>1, LineItems
  <2>4. x \in Commands
    BY <2>2, <2>3
  <2>5. x.by \in Callers
    BY <2>4 DEF Commands
  <2> QED
    BY <2>2, <2>5 DEF OrderInv, Ordered, Holders
<1> QED
  BY <1>1, OrderHolds, PTL

-----------------------------------------------------------------------------
(* Windows that are drawn to.                                               *)

\* Only the holder of the render server's lock posts.
LEMMA RenderPosts ==
  ASSUME CallInv, NEW c \in Callers, Busy(c), Command(c) \in OnWindowOps
  PROVE  c = Render
<1>1. JobOK(c) /\ job[c].cmds # <<>>
  BY DEF CallInv, JobInv, JobOK
<1>2. Command(c) = job[c].cmds[1] /\ 1 \in 1..Len(job[c].cmds)
  BY <1>1, JobRest
<1> QED
  BY <1>1, <1>2 DEF JobOK, OnWindowOps

\* What is in line is a command of a caller that waits for it.
LEMMA LineOwners ==
  ASSUME CallInv, Ordered(Line, signaled, Holders, Waiters)
  PROVE  /\ Line \in Seq(Commands)
         /\ \A i \in 1..Len(Line) :
               Line[i] \in Commands /\ Line[i].by \in Callers /\ Line[i].by \in Holders
<1>1. Line \in Seq(Commands)
  BY LineItems DEF CallInv, TypeOK
<1>2. \A i \in 1..Len(Line) : Line[i] \in Commands
  BY <1>1
<1>3. \A x \in Commands : x.by \in Callers
  BY DEF Commands
<1> QED
  BY <1>1, <1>2, <1>3 DEF Ordered

\* While a window is drawn to, the holder of the render server's lock waits.
LEMMA DrawingWaits ==
  ASSUME CallInv, OrderInv, DrawInv, ~mFinished, drawing # None
  PROVE  /\ Render \in Holders /\ Render \in Callers
         /\ Command(Render) \in OnWindowOps /\ drawing = pointer[job[Render].cell]
<1>1. Line \in Seq(Commands)
      /\ \A i \in 1..Len(Line) :
            Line[i] \in Commands /\ Line[i].by \in Callers /\ Line[i].by \in Holders
  BY LineOwners DEF OrderInv
<1>2. todo # <<>> /\ Head(todo).op \in OnWindowOps /\ drawing = pointer[Head(todo).cell]
  BY DEF DrawInv
<1>3. 1 \in 1..Len(Line) /\ Line[1] = Head(todo)
  BY <1>2 DEF CallInv, TypeOK, Line
<1> DEFINE x == Line[1]
<1>4. x.by \in Callers /\ x.by \in Holders /\ x.op \in OnWindowOps /\ x.op # Sync
      /\ drawing = pointer[x.cell]
  BY <1>1, <1>2, <1>3 DEF OnWindowOps, Sync
<1>5. x.op = Command(x.by) /\ x.cell = job[x.by].cell
  BY <1>3, <1>4 DEF DrawInv, Own
<1>6. Busy(x.by)
  BY <1>4 DEF Holders, Busy
<1>7. x.by = Render
  BY <1>4, <1>5, <1>6, RenderPosts
<1> QED
  BY <1>4, <1>5, <1>7

\* A caller whose job changes has nothing in line.
LEMMA OwnKept ==
  ASSUME CallInv, Ordered(Line, signaled, Holders, Waiters), Own(Line), Line' = Line,
         NEW c \in Callers, NEW j, job' = [job EXCEPT ![c] = j], c \notin Holders
  PROVE  Own(Line)'
<1>1. \A i \in 1..Len(Line) : Line[i].by \in Callers /\ Line[i].by # c
  BY LineOwners
<1>2. \A d \in Callers : d # c => job'[d] = job[d]
  BY DEF CallInv, TypeOK
<1>3. \A i \in 1..Len(Line) : (job[Line[i].by])' = job[Line[i].by]
  BY <1>1, <1>2
<1> QED
  BY <1>3 DEF Own, Command

\* The root window stays where it is.
LEMMA MainKept ==
  ASSUME CallInv, NewCall
  PROVE  pointer'[Main] = pointer[Main]
<1>0. Main \notin Cells /\ Main # None /\ pointer \in [Cells \cup {Main} -> Windows \cup {Main, None}]
      /\ subWindowsMap \in [Displays -> Cells \cup {None}]
  BY Names DEF CallInv, MapInv, MapTypes
<1>1. ASSUME NEW d \in Displays, WindowOf(d) # None, freeRenderWindow(d)
      PROVE  pointer'[Main] = pointer[Main]
  BY <1>0, <1>1 DEF freeRenderWindow, WindowOf
<1>2. ASSUME NEW d \in Displays, NEW p \in Parents, NEW needpost \in BOOLEAN, Update(d, p, needpost)
      PROVE  pointer'[Main] = pointer[Main]
  <2> DEFINE f == CHOOSE x \in FreeCells : TRUE
             w == CHOOSE x \in FreeWindows : TRUE
             e == IF subWindowsMap[d] # None THEN subWindowsMap[d] ELSE f
  <2>1. f \in FreeCells /\ pointer' = [pointer EXCEPT ![e] = w]
    BY <1>2 DEF Update
  <2> HIDE DEF f, w
  <2>2. e \in Cells
    BY <1>0, <2>1 DEF FreeCells
  <2> QED
    BY <1>0, <2>1, <2>2
<1>3. ASSUME NEW d \in Displays,
             \/ DeleteWindowAttri(d)
             \/ \E needpost \in BOOLEAN : UpdateToNone(d, needpost)
             \/ \E p \in Parents : UpdateFails(d, p)
      PROVE  pointer'[Main] = pointer[Main]
  BY <1>1, <1>3 DEF DeleteWindowAttri, UpdateToNone, UpdateFails, Unmap
<1> QED
  BY <1>2, <1>3 DEF NewCall, Compose, GetScreenshot, Post, setDisplayShowStatus, Resize, mapVars

\* The first command is processed, or the queue is taken.
LEMMA OwnProcessed ==
  ASSUME CallInv, Own(Line), UNCHANGED job,
         \/ todo # <<>> /\ todo' = Tail(todo) /\ mQueue' = mQueue
         \/ Take \/ UNCHANGED <<todo, mQueue>>
  PROVE  Own(Line)'
<1>0. todo \in Seq(Commands) /\ mQueue \in Seq(Commands)
  BY DEF CallInv, TypeOK
<1>1. CASE todo # <<>> /\ todo' = Tail(todo) /\ mQueue' = mQueue
  <2>1. Line \in Seq(Commands) /\ Line # <<>> /\ Line' = Tail(Line)
    BY <1>0, <1>1, LineProcessed
  <2>2. Len(Line') \in Nat /\ Len(Line) = Len(Line') + 1
    BY <2>1
  <2>3. \A i \in 1..Len(Line') : Line'[i] = Line[i + 1]
    BY <2>1
  <2>4. \A i \in 1..Len(Line') : i + 1 \in 1..Len(Line)
    BY <2>2
  <2> QED
    BY <2>3, <2>4 DEF Own, Command
<1>2. CASE Take \/ UNCHANGED <<todo, mQueue>>
  <2>1. Line' = Line
    BY <1>0, <1>2, LineTake DEF Line
  <2> QED
    BY <2>1 DEF Own, Command
<1> QED
  BY <1>1, <1>2

\* A caller adds its own command, or a sync point.
LEMMA OwnEnqueued ==
  ASSUME CallInv, Own(Line), UNCHANGED job, NEW x \in Commands, enqueueImpl(x),
         x.op # Sync => x.op = Command(x.by) /\ x.cell = job[x.by].cell
  PROVE  Own(Line)'
<1> DEFINE n == Len(Line)
<1>1. Line \in Seq(Commands) /\ Line' = Append(Line, x)
  BY LineEnqueue DEF CallInv, TypeOK
<1>2. n \in Nat /\ Len(Line') = n + 1 /\ Line'[n + 1] = x
  BY <1>1
<1>3. \A i \in 1..n : Line'[i] = Line[i]
  BY <1>1
<1>4. \A i \in 1..Len(Line') : i \in 1..n \/ i = n + 1
  BY <1>2
<1>5. \A i \in 1..Len(Line') : Line'[i].op # Sync =>
         Line'[i].op = Command(Line'[i].by) /\ Line'[i].cell = job[Line'[i].by].cell
  <2> SUFFICES ASSUME NEW i \in 1..Len(Line'), Line'[i].op # Sync
               PROVE  Line'[i].op = Command(Line'[i].by) /\ Line'[i].cell = job[Line'[i].by].cell
    OBVIOUS
  <2>1. CASE i \in 1..n
    BY <1>3, <2>1 DEF Own
  <2>2. CASE i = n + 1
    BY <1>2, <2>2
  <2> QED
    BY <1>4, <2>1, <2>2
<1> QED
  BY <1>5 DEF Own, Command

\* Steps of the post thread.
LEMMA ThreadDraws ==
  ASSUME CallInv, OrderInv, DrawInv, PostThreadStep \/ Spurious
  PROVE  DrawInv'
<1>0. UNCHANGED <<mapVars, callVars, mFinished>>
  BY DEF PostThreadStep, Bind, Ignore, Draw, OffScreen, Loop, Spurious, workerVars,
     Processed, Sleep, Take, Signal, WakeUp
<1>1. pointer'[Main] = Main /\ PostInv'
  BY <1>0 DEF DrawInv, PostInv, PostOK, Busy, Command, MayPost, WindowOf, mapVars, callVars
<1>2. SUFFICES ASSUME ~mFinished
               PROVE  /\ Own(Line)'
                      /\ drawing' # None =>
                           /\ todo' # <<>> /\ Head(todo').op \in OnWindowOps
                           /\ drawing' = pointer'[Head(todo').cell]
  BY <1>0, <1>1 DEF DrawInv
<1>3. Own(Line)'
  <2>1. \/ todo # <<>> /\ todo' = Tail(todo) /\ mQueue' = mQueue
        \/ Take \/ UNCHANGED <<todo, mQueue>>
    BY DEF PostThreadStep, Bind, Ignore, Draw, OffScreen, Loop, Spurious, workerVars, OnWindow, At,
       Processed, Sleep, Signal, WakeUp
  <2> QED
    BY <1>0, <1>2, <2>1, OwnProcessed DEF DrawInv, callVars
<1>4. CASE Bind
  BY <1>3, <1>4 DEF Bind, OnWindow, At, OnWindowOps, workerVars, mapVars
<1>5. CASE Ignore \/ Draw
  BY <1>3, <1>5 DEF Ignore, Draw
<1>6. CASE OffScreen \/ (Signal /\ UNCHANGED drawing)
  <2>1. todo # <<>> /\ Head(todo).op \notin OnWindowOps /\ drawing' = drawing
    BY <1>6 DEF OffScreen, Signal, At, OnWindowOps, Sync
  <2> QED
    BY <1>2, <1>3, <2>1 DEF DrawInv
<1>7. CASE (Sleep \/ WakeUp \/ Take) /\ UNCHANGED drawing
  BY <1>0, <1>2, <1>3, <1>7 DEF Sleep, Take, WakeUp, Idle, DrawInv, mapVars
<1> QED
  BY <1>3, <1>4, <1>5, <1>6, <1>7 DEF PostThreadStep, Loop, Spurious

\* One caller moves: what the others are at stays good.
LEMMA PostMoves ==
  ASSUME CallInv, PostInv, NEW c \in Callers, NEW l, NEW j,
         pc' = [pc EXCEPT ![c] = l], job' = [job EXCEPT ![c] = j],
         c = Render \/ UNCHANGED mapVars, PostOK(c)'
  PROVE  PostInv'
<1> SUFFICES ASSUME NEW d \in Callers, d # c PROVE PostOK(d)'
  BY DEF PostInv
<1>1. pc'[d] = pc[d] /\ job'[d] = job[d]
  BY DEF CallInv, TypeOK
<1>2. CASE UNCHANGED mapVars
  BY <1>1, <1>2 DEF PostInv, PostOK, Busy, Command, MayPost, WindowOf, mapVars
<1>3. CASE c = Render
  <2>1. ~(Busy(d) /\ Command(d) = "Post")
    BY <1>3, RenderPosts DEF OnWindowOps
  <2> QED
    BY <1>1, <2>1 DEF PostOK, Busy, Command
<1> QED
  BY <1>2, <1>3

\* New calls.
LEMMA CallDraws ==
  ASSUME CallInv, OrderInv, DrawInv, NewCall
  PROVE  DrawInv'
<1>1. PICK c \in Callers : (\E d, cmds : Begin(c, d, cmds)) /\ (c = Render \/ UNCHANGED mapVars)
  BY NewCallBegins
<1>2. PICK j : /\ pc[c] = "idle" /\ pc' = [pc EXCEPT ![c] = "next"] /\ job' = [job EXCEPT ![c] = j]
               /\ UNCHANGED <<workerVars, drawing>>
  BY <1>1 DEF Begin, Goto
<1>3. pc'[c] = "next"
  BY <1>2 DEF CallInv, TypeOK
<1>4. PostInv'
  BY <1>1, <1>2, <1>3, PostMoves DEF PostOK, Busy, DrawInv
<1>5. pointer'[Main] = Main
  BY MainKept DEF DrawInv
<1>6. Line' = Line /\ UNCHANGED <<mFinished, todo, signaled>> /\ c \notin Holders
  BY <1>2 DEF workerVars, Line, Holders
<1>7. ASSUME ~mFinished
      PROVE  /\ Own(Line)'
             /\ drawing' # None =>
                  /\ todo' # <<>> /\ Head(todo').op \in OnWindowOps
                  /\ drawing' = pointer'[Head(todo').cell]
  <2>1. Own(Line)'
    BY <1>2, <1>6, <1>7, OwnKept DEF OrderInv, DrawInv
  <2>2. drawing # None => c # Render
    BY <1>6, <1>7, DrawingWaits
  <2> QED
    BY <1>1, <1>2, <1>6, <1>7, <2>1, <2>2 DEF DrawInv, mapVars
<1> QED
  BY <1>4, <1>5, <1>6, <1>7 DEF DrawInv

\* Callers.
LEMMA CallerDraws ==
  ASSUME CallInv, StartInv, OrderInv, DrawInv, NEW c \in Callers, CallerStep(c)
  PROVE  DrawInv'
<1>0. UNCHANGED <<mapVars, drawing, todo>>
  BY DEF CallerStep, Refuse, Send, Start, StartThread, Enqueue, waitQueuedItems, Released, Return,
     workerVars, start, startThread, enqueueImpl, EnqueueSync, Release
<1>1. pointer'[Main] = Main
  BY <1>0 DEF DrawInv, mapVars
<1>2. PostInv'
  <2>1. ASSUME NEW l, NEW j, pc' = [pc EXCEPT ![c] = l], job' = [job EXCEPT ![c] = j], PostOK(c)'
        PROVE  PostInv'
    BY <1>0, <2>1, PostMoves DEF DrawInv
  <2>2. ASSUME Busy(c), NEW l, Goto(c, l), UNCHANGED job PROVE PostInv'
    <3>1. pc' = [pc EXCEPT ![c] = l] /\ job' = [job EXCEPT ![c] = job[c]]
      BY <2>2 DEF Goto, CallInv, TypeOK
    <3>2. PostOK(c)'
      BY <1>0, <2>2 DEF DrawInv, PostInv, PostOK, Command, MayPost, WindowOf, mapVars
    <3> QED
      BY <2>1, <3>1, <3>2
  <2>3. ASSUME NEW l \in {"idle", "next"}, NEW j,
               pc' = [pc EXCEPT ![c] = l], job' = [job EXCEPT ![c] = j]
        PROVE  PostInv'
    <3>1. pc'[c] = l
      BY <2>3 DEF CallInv, TypeOK
    <3>2. PostOK(c)'
      BY <3>1 DEF PostOK, Busy
    <3> QED
      BY <2>1, <2>3, <3>2
  <2>4. CASE Start(c) \/ StartThread(c) \/ Enqueue(c)
    BY <2>2, <2>4 DEF Start, StartThread, Enqueue, Busy
  <2>5. CASE waitQueuedItems(c)
    BY <2>2, <2>3, <2>5 DEF waitQueuedItems, Sent, Goto, Busy
  <2>6. CASE Released(c) \/ Return(c)
    BY <2>3, <2>6 DEF Released, Sent, Return, Goto
  <2>7. CASE Refuse(c)
    <3>1. pc' = [pc EXCEPT ![c] = "next"]
      BY <2>7 DEF Refuse, Sending, CallInv, TypeOK
    <3> QED
      BY <2>3, <2>7, <3>1 DEF Refuse
  <2>8. CASE Send(c)
    <3> DEFINE j == [job[c] EXCEPT !.cell = Target(c)]
               l == IF mStarted THEN "enqueue" ELSE "start"
    <3>1. pc' = [pc EXCEPT ![c] = l] /\ job' = [job EXCEPT ![c] = j]
      BY <2>8 DEF Send, Goto
    <3>2. job'[c] = j /\ j.cmds = job[c].cmds /\ j.display = job[c].display /\ j.cell = Target(c)
      BY <3>1 DEF CallInv, TypeOK
    <3> HIDE DEF j, l
    <3>3. PostOK(c)'
      BY <1>0, <2>8, <3>2 DEF PostOK, Send, Command, Target, MayPost, WindowOf, mapVars
    <3> QED
      BY <2>1, <3>1, <3>3
  <2> QED
    BY <2>4, <2>5, <2>6, <2>7, <2>8 DEF CallerStep
<1>3. ASSUME ~mFinished' PROVE ~mFinished /\ Own(Line)'
  <2>1. ~mFinished
    BY <1>3 DEF CallerStep, Refuse, Send, Start, StartThread, Enqueue, waitQueuedItems, Released, Return,
       workerVars, start, startThread, enqueueImpl, EnqueueSync, Release
  <2>2. Ordered(Line, signaled, Holders, Waiters) /\ Own(Line)
    BY <2>1 DEF OrderInv, DrawInv
  <2>3. ASSUME UNCHANGED mQueue, NEW j, job' = [job EXCEPT ![c] = j], c \notin Holders
        PROVE  Own(Line)'
    BY <1>0, <2>2, <2>3, OwnKept DEF Line
  <2>4. CASE Refuse(c) \/ Send(c) \/ Return(c)
    BY <2>1, <2>3, <2>4 DEF Refuse, Send, Return, Sending, Holders, workerVars
  <2>5. CASE Start(c) \/ StartThread(c)
    BY <1>0, <2>1, <2>2, <2>5, OwnProcessed DEF Start, StartThread, start, startThread
  <2>6. CASE Enqueue(c)
    <3> DEFINE x == [op |-> Command(c), by |-> c, cell |-> job[c].cell]
    <3>1. job[c].cmds # <<>>
      BY <2>6 DEF CallInv, JobInv, JobOK, Enqueue, Busy
    <3>2. x \in Commands
      BY <3>1, JobRest DEF Commands, Job
    <3>3. enqueueImpl(x) /\ UNCHANGED job /\ x.op = Command(x.by) /\ x.cell = job[x.by].cell
      BY <2>6 DEF Enqueue
    <3> HIDE DEF x
    <3> QED
      BY <2>1, <2>2, <3>2, <3>3, OwnEnqueued
  <2>7. CASE waitQueuedItems(c)
    <3>1. MustWait
      BY <2>1, <2>7 DEF waitQueuedItems, MustWait, StartInv
    <3>2. enqueueImpl(SyncPoint(c)) /\ UNCHANGED job
      BY <2>7, <3>1 DEF waitQueuedItems, EnqueueSync
    <3>3. SyncPoint(c) \in Commands /\ SyncPoint(c).op = Sync
      BY DEF SyncPoint, Commands
    <3> QED
      BY <2>1, <2>2, <3>2, <3>3, OwnEnqueued
  <2>8. CASE Released(c)
    <3>1. signaled[c] /\ UNCHANGED <<mQueue, todo>> /\ DOMAIN signaled = Callers
      BY <2>8 DEF Released, Release, CallInv, TypeOK
    <3>2. Ordered(Line, [signaled EXCEPT ![c] = FALSE], Holders \ {c}, Waiters \ {c})
          /\ \A i \in 1..Len(Line) : Line[i].by # c
      BY <2>2, <3>1, OrdRelease
    <3>3. Line' = Line /\ \A i \in 1..Len(Line) : Line[i].by \in Callers
      BY <2>2, <3>1, LineOwners DEF Line
    <3>4. \A d \in Callers : d # c => job'[d] = job[d]
      BY <2>8 DEF Released, Sent, CallInv, TypeOK
    <3>5. \A i \in 1..Len(Line) : (job[Line[i].by])' = job[Line[i].by]
      BY <3>2, <3>3, <3>4
    <3> QED
      BY <2>1, <2>2, <3>3, <3>5 DEF Own, Command
  <2> QED
    BY <2>1, <2>4, <2>5, <2>6, <2>7, <2>8 DEF CallerStep
<1> QED
  BY <1>0, <1>1, <1>2, <1>3 DEF DrawInv, mapVars

\* Every step keeps what is drawn to in step with the map.
LEMMA DrawStep ==
  ASSUME CallInv, StartInv, OrderInv, DrawInv, [Next]_vars
  PROVE  DrawInv'
<1>1. CASE UNCHANGED vars
  BY <1>1 DEF vars, mapVars, callVars, workerVars, DrawInv, PostInv, PostOK, Busy, Command, MayPost,
     WindowOf, Own, Line
<1>2. ASSUME NEW d \in Displays, Elapse(d) PROVE DrawInv'
  <2>1. PostInv'
    BY <1>2 DEF Elapse, callVars, DrawInv, PostInv, PostOK, Busy, Command, MayPost, WindowOf
  <2>2. Own(Line) => Own(Line)'
    BY <1>2 DEF Elapse, callVars, workerVars, Own, Line, Command
  <2> QED
    BY <1>2, <2>1, <2>2 DEF Elapse, workerVars, DrawInv
<1> QED
  BY <1>1, <1>2, CallDraws, CallerDraws, ThreadDraws DEF Next

LEMMA DrawHolds == Spec => [](CallInv /\ StartInv /\ OrderInv /\ DrawInv)
<1>1. Init => DrawInv
  <2> SUFFICES ASSUME Init PROVE DrawInv
    OBVIOUS
  <2>1. pointer[Main] = Main /\ drawing = None /\ \A c \in Callers : pc[c] = "idle"
    BY DEF Init
  <2>2. Line = <<>> /\ Len(Line) = 0
    BY DEF Init, WorkerInit, Line
  <2>3. 1..Len(Line) = {}
    BY <2>2
  <2> QED
    BY <2>1, <2>3 DEF DrawInv, PostInv, PostOK, Busy, Own
<1>2. CallInv /\ StartInv /\ OrderInv /\ DrawInv /\ [Next]_vars => DrawInv'
  BY DrawStep
<1> QED
  BY <1>1, <1>2, OrderHolds, PTL DEF Spec

\* The window that is drawn to is the one of the display that is posted.
LEMMA DrawnDisplay ==
  ASSUME CallInv, OrderInv, DrawInv, ~mFinished, drawing \in Windows
  PROVE  \E d \in Displays : MayPost(d) /\ drawing = WindowOf(d) /\ subWindowsMap[d] # None
<1>1. /\ Render \in Holders /\ Render \in Callers
      /\ Command(Render) \in OnWindowOps /\ drawing = pointer[job[Render].cell]
  BY Names, DrawingWaits
<1>2. Busy(Render) /\ JobOK(Render) /\ PostOK(Render)
  BY <1>1 DEF Holders, Busy, CallInv, JobInv, DrawInv, PostInv
<1>3. Command(Render) = "Post"
  BY <1>1, <1>2, Names DEF JobOK, OnWindowOps, DrawInv
<1>4. job[Render].display \in Displays
  <2>1. Command(Render) = job[Render].cmds[1] /\ 1 \in 1..Len(job[Render].cmds)
    BY <1>1, <1>2, JobRest DEF JobOK
  <2> QED
    BY <1>2, <1>3, <2>1 DEF JobOK
<1> QED
  BY <1>1, <1>2, <1>3, <1>4, Names DEF JobOK, PostOK, MayPost, WindowOf

\* As long as no start of the post thread was refused, it draws only to windows that
\* exist and that the guest has not sent to the background, whichever way posts, moves,
\* deletions and screenshots of several threads meet.
THEOREM OnlyShownDrawn == Spec => []DrawnShown
<1>1. CallInv /\ OrderInv /\ DrawInv => DrawnShown
  <2> SUFFICES ASSUME CallInv, OrderInv, DrawInv, ~mFinished, drawing \in Windows
               PROVE  window[drawing] # None /\ ~window[drawing].disableShow
    BY DEF DrawnShown
  <2>1. PICK d \in Displays : MayPost(d) /\ drawing = WindowOf(d) /\ subWindowsMap[d] # None
    BY DrawnDisplay
  <2> QED
    BY <2>1 DEF MayPost, CallInv, MapInv, OneWindowEach
<1> QED
  BY <1>1, DrawHolds, PTL

\* Under the same condition nothing is drawn for a display within five seconds of its
\* deletion, even when it has a new window by then.
THEOREM DeletedQuiet == Spec => []QuietAfterDelete
<1>1. CallInv /\ OrderInv /\ DrawInv => QuietAfterDelete
  <2> SUFFICES ASSUME CallInv, OrderInv, DrawInv, ~mFinished, NEW d \in recent,
                      WindowOf(d) # None, drawing = WindowOf(d)
               PROVE  FALSE
    BY DEF QuietAfterDelete
  <2>1. d \in Displays
    BY DEF CallInv, TypeOK
  <2>2. subWindowsMap[d] # None /\ WindowOf(d) \in Windows
    BY <2>1 DEF WindowOf, CallInv, MapInv, OneWindowEach
  <2>3. PICK e \in Displays : MayPost(e) /\ drawing = WindowOf(e) /\ subWindowsMap[e] # None
    BY <2>2, DrawnDisplay
  <2>4. e = d
    BY <2>1, <2>3 DEF CallInv, MapInv
  <2> QED
    BY <2>3, <2>4 DEF MayPost
<1> QED
  BY <1>1, DrawHolds, PTL

-----------------------------------------------------------------------------
(* Native sub-windows.                                                      *)

\* One window less or more in a parent.
LEMMA CoverOne ==
  ASSUME NEW S, IsFiniteSet(S), NEW n \in Int, Cardinality(S) <= n, NEW x
  PROVE  /\ x \in S => Cardinality(S \ {x}) <= n - 1
         /\ Cardinality(S \ {x}) <= n
         /\ Cardinality(S \cup {x}) <= n + 1
<1>1. Cardinality(S) \in Nat
  BY FS_CardinalityType
<1>2. IF x \in S THEN Cardinality(S \ {x}) = Cardinality(S) - 1 ELSE S \ {x} = S
  BY FS_RemoveElement
<1>3. Cardinality(S \cup {x}) = IF x \in S THEN Cardinality(S) ELSE Cardinality(S) + 1
  BY FS_AddElement
<1> DEFINE k == Cardinality(S)
<1>4. x \in S => Cardinality(S \ {x}) = k - 1
  BY <1>2
<1>5. x \notin S => Cardinality(S \ {x}) = k
  BY <1>2
<1>6. k \in Nat /\ k <= n
  BY <1>1
<1>7. Cardinality(S \cup {x}) \in {k, k + 1}
  BY <1>3
<1> HIDE DEF k
<1> QED
  BY <1>4, <1>5, <1>6, <1>7

\* A display loses its window, if it has one, with its child; other children may be made.
LEMMA UnmapCovers ==
  ASSUME TypeOK, MapInv, SubWindowsCover, UseSubWindow, NEW d \in Displays,
         IF WindowOf(d) # None THEN freeRenderWindow(d) ELSE UNCHANGED <<pointer, window>>,
         NEW made, SubWindows(d, made)
  PROVE  SubWindowsCover'
<1> SUFFICES ASSUME NEW p \in Parents PROVE Cardinality(WindowsIn(p)') <= children'[p]
  BY DEF SubWindowsCover
<1> DEFINE w == WindowOf(d)
           shows == w # None /\ window[w].parent = p
<1>1. Cardinality(WindowsIn(p)) <= children[p] /\ children[p] \in Int
  BY DEF SubWindowsCover, TypeOK
<1>2. IsFiniteSet(WindowsIn(p))
  BY PostingAssumption, FS_Subset DEF WindowsIn
<1>3. children'[p] >= children[p] - (IF shows THEN 1 ELSE 0)
  BY <1>1 DEF SubWindows
<1>4. w # None => w \in Windows /\ window[w] # None /\ window' = [window EXCEPT ![w] = None]
  BY DEF freeRenderWindow, MapInv, OneWindowEach, WindowOf
<1>5. w = None => window' = window
  OBVIOUS
<1> HIDE DEF w
<1>6. IF shows THEN w \in WindowsIn(p) /\ WindowsIn(p)' = WindowsIn(p) \ {w}
      ELSE WindowsIn(p)' = WindowsIn(p)
  BY <1>4, <1>5 DEF WindowsIn, MapInv, MapTypes
<1> HIDE DEF shows
<1>7. children'[p] \in Int
  BY <1>1 DEF SubWindows
<1>8. CASE shows
  <2>1. w \in WindowsIn(p) /\ WindowsIn(p)' = WindowsIn(p) \ {w}
    BY <1>6, <1>8
  <2>2. Cardinality(WindowsIn(p) \ {w}) <= children[p] - 1
    BY <1>1, <1>2, <2>1, CoverOne
  <2>3. children'[p] >= children[p] - 1
    BY <1>3, <1>8
  <2>4. Cardinality(WindowsIn(p) \ {w}) \in Nat
    BY <1>2, FS_RemoveElement, FS_CardinalityType
  <2> QED
    BY <1>1, <1>7, <2>1, <2>2, <2>3, <2>4
<1>9. CASE ~shows
  <2>1. WindowsIn(p)' = WindowsIn(p) /\ children'[p] >= children[p]
    BY <1>1, <1>3, <1>6, <1>9
  <2>2. Cardinality(WindowsIn(p)) \in Nat
    BY <1>2, FS_CardinalityType
  <2> QED
    BY <1>1, <1>7, <2>1, <2>2
<1> QED
  BY <1>8, <1>9

\* Every window keeps its native sub-window with m_useSubWindow, through all moves,
\* failing updates and deletes of all displays, for any number of displays, parents and
\* windows: what destroys a sub-window destroys the window's own, once.
THEOREM SubWindowsKept == Spec => []SubWindowsCover
<1>1. Init => SubWindowsCover
  <2> SUFFICES ASSUME Init, NEW p \in Parents PROVE Cardinality(WindowsIn(p)) <= children[p]
    BY DEF SubWindowsCover
  <2>1. WindowsIn(p) = {} /\ children[p] = 0
    BY DEF Init, WindowsIn
  <2> QED
    BY <2>1, FS_EmptySet
<1>2. ASSUME CallInv, SubWindowsCover, [Next]_vars PROVE SubWindowsCover'
  <2> SUFFICES ASSUME UseSubWindow PROVE SubWindowsCover'
    BY DEF SubWindowsCover
  <2> USE DEF mapVars
  <2>0. TypeOK /\ MapInv
    BY <1>2 DEF CallInv
  <2>1. ASSUME UNCHANGED <<window, children>> PROVE SubWindowsCover'
    BY <1>2, <2>1 DEF SubWindowsCover, WindowsIn
  <2>2. CASE UNCHANGED vars
    BY <2>1, <2>2 DEF vars
  <2>3. CASE \/ Compose \/ \E c \in Apis : GetScreenshot(c)
             \/ \E d \in Displays :
                  \/ Post(d) \/ Elapse(d)
                  \/ \E p \in Parents, needpost \in BOOLEAN : Resize(d, p, needpost)
    BY <2>1, <2>3 DEF Compose, GetScreenshot, Post, Elapse, Resize
  <2>4. ASSUME NEW d \in Displays, NEW hide \in BOOLEAN, setDisplayShowStatus(d, hide)
        PROVE  SubWindowsCover'
    <3> DEFINE w == WindowOf(d)
    <3>1. w \in Windows /\ window[w] \in RendererWindowAttri
      BY <2>0, <2>4, Names DEF setDisplayShowStatus, MapInv, MapTypes, OneWindowEach, WindowOf
    <3>2. window' = [window EXCEPT ![w].disableShow = hide] /\ children' = children
      BY <2>4 DEF setDisplayShowStatus
    <3>3. /\ [window[w] EXCEPT !.disableShow = hide] \in RendererWindowAttri
          /\ [window[w] EXCEPT !.disableShow = hide].parent = window[w].parent
      BY <3>1 DEF RendererWindowAttri
    <3> HIDE DEF w
    <3>4. \A v \in Windows : /\ window'[v] = None <=> window[v] = None
                             /\ window[v] # None => window'[v].parent = window[v].parent
      BY <2>0, <3>1, <3>2, <3>3, Names DEF MapInv, MapTypes
    <3>5. \A p \in Parents : WindowsIn(p)' = WindowsIn(p)
      BY <3>4 DEF WindowsIn
    <3> QED
      BY <1>2, <3>2, <3>5 DEF SubWindowsCover
  <2>5. ASSUME NEW d \in Displays, DeleteWindowAttri(d) PROVE SubWindowsCover'
    BY <1>2, <2>0, <2>5, UnmapCovers DEF DeleteWindowAttri
  <2>6. ASSUME NEW d \in Displays, NEW p \in Parents, UpdateFails(d, p) PROVE SubWindowsCover'
    BY <1>2, <2>0, <2>6, UnmapCovers DEF UpdateFails, Unmap
  <2>7. ASSUME NEW d \in Displays, NEW needpost \in BOOLEAN, UpdateToNone(d, needpost)
        PROVE  SubWindowsCover'
    BY <1>2, <2>0, <2>7, UnmapCovers DEF UpdateToNone, Unmap
  <2>8. ASSUME NEW d \in Displays, NEW q \in Parents, NEW needpost \in BOOLEAN,
               Update(d, q, needpost)
        PROVE  SubWindowsCover'
    <3> DEFINE v == CHOOSE x \in FreeWindows : TRUE
               a == [parent |-> q, disableShow |-> FALSE]
               w == WindowOf(d)
    <3>1. v \in Windows /\ window[v] = None
      BY <2>8 DEF Update, FreeWindows
    <3>2. /\ window' = [u \in Windows |->
                CASE u = v -> a [] u = w -> None [] OTHER -> window[u]]
          /\ SubWindows(d, {q})
      BY <2>8 DEF Update
    <3> HIDE DEF v
    <3>3. w # None => w \in Windows /\ window[w] # None
      BY <2>0 DEF MapInv, OneWindowEach, WindowOf
    <3> SUFFICES ASSUME NEW p \in Parents PROVE Cardinality(WindowsIn(p)') <= children'[p]
      BY DEF SubWindowsCover
    <3>4. Cardinality(WindowsIn(p)) <= children[p] /\ children[p] \in Int
      BY <1>2, <2>0 DEF SubWindowsCover, TypeOK
    <3>5. IsFiniteSet(WindowsIn(p))
      BY PostingAssumption, FS_Subset DEF WindowsIn
    <3> DEFINE shows == w # None /\ window[w].parent = p
               less == children[p] - (IF shows THEN 1 ELSE 0)
               rest == WindowsIn(p) \ {w}
    <3>6. children'[p] = less + (IF p = q THEN 1 ELSE 0)
      BY <3>2 DEF SubWindows
    <3> HIDE DEF w
    <3>7. /\ shows => w \in WindowsIn(p)
          /\ ~shows => rest = WindowsIn(p)
      BY <3>3, Names DEF WindowsIn
    <3>8. WindowsIn(p)' = IF p = q THEN rest \cup {v} ELSE rest
      <4>1. /\ a # None /\ a.parent = q /\ v # w
        <5>1. a \in RendererWindowAttri /\ a.parent = q
          BY DEF RendererWindowAttri
        <5>2. v # None
          BY <3>1, Names
        <5> HIDE DEF a
        <5>3. a # None
          BY <5>1, Names
        <5> QED
          BY <3>1, <3>3, <5>1, <5>2, <5>3
      <4>2. \A u \in Windows : window'[u] = IF u = v THEN a ELSE IF u = w THEN None ELSE window[u]
        BY <3>2, <4>1
      <4> HIDE DEF a
      <4>3. \A u : u \in WindowsIn(p)' <=> u \in (IF p = q THEN rest \cup {v} ELSE rest)
        <5>1. v \notin WindowsIn(p)
          BY <3>1 DEF WindowsIn
        <5>2. v \in WindowsIn(p)' <=> p = q
          BY <3>1, <4>1, <4>2 DEF WindowsIn
        <5>3. ASSUME NEW u \in Windows, u # v PROVE u \in WindowsIn(p)' <=> u \in rest
          BY <4>2, <5>3 DEF WindowsIn
        <5>4. WindowsIn(p)' \subseteq Windows /\ rest \subseteq Windows
          BY DEF WindowsIn
        <5> HIDE DEF rest
        <5>5. v \notin rest
          BY <5>1 DEF rest
        <5> QED
          BY <3>1, <5>2, <5>3, <5>4, <5>5
      <4> QED
        BY <4>3 DEF WindowsIn
    <3>9. Cardinality(rest) <= less /\ less \in Int
      <4>1. CASE shows
        <5>1. Cardinality(rest) <= children[p] - 1
          BY <3>4, <3>5, <3>7, <4>1, CoverOne
        <5> QED
          BY <3>4, <4>1, <5>1
      <4>2. CASE ~shows
        BY <3>4, <3>7, <4>2
      <4> QED
        BY <4>1, <4>2
    <3>10. IsFiniteSet(rest)
      BY <3>5, FS_Subset
    <3> HIDE DEF rest, less, shows
    <3>11. Cardinality(rest \cup {v}) <= less + 1
      BY <3>9, <3>10, CoverOne
    <3> QED
      BY <3>6, <3>8, <3>9, <3>11
  <2>9. ASSUME NEW c \in Callers, CallerStep(c) PROVE SubWindowsCover'
    BY <2>1, <2>9 DEF CallerStep, Refuse, Send, Start, StartThread, Enqueue,
       waitQueuedItems, Released, Return
  <2>10. CASE PostThreadStep \/ Spurious
    BY <2>1, <2>10 DEF PostThreadStep, Bind, Ignore, Draw, OffScreen, Loop, Spurious
  <2> QED
    BY <1>2, <2>2, <2>3, <2>4, <2>5, <2>6, <2>7, <2>8, <2>9, <2>10 DEF Next, NewCall
<1>3. Init => CallInv
  BY CallInit
<1>4. CallInv /\ [Next]_vars => CallInv'
  BY CallStep
<1> QED
  BY <1>1, <1>2, <1>3, <1>4, PTL DEF Spec

=============================================================================
