------------------------------- MODULE FenceSync -------------------------------
(***************************************************************************)
(* FenceSync objects: reference counts, the timeline that gives back the   *)
(* reference of native fences, and SyncThread, which waits for fences so   *)
(* that the sync device can signal the guest's.                            *)
(*                                                                         *)
(* The callers are the render thread that holds the server's lock, the     *)
(* sync device, and the threads that block for the GPU.  SyncThread runs   *)
(* beside them.  A fence is named by its address, as in the code, and the  *)
(* address of a deleted fence may be given to a new one.                   *)
(*                                                                         *)
(* What touches a deleted fence, and a fence deleted under another thread  *)
(* that has a reference, is undefined and ends the model.  A fence that is *)
(* destroyed when signaled (destroyWhenSignaled) is native, and the guest  *)
(* only has it waited for.                                                 *)
(***************************************************************************)
EXTENDS Naturals, Sequences, FiniteSets

CONSTANTS
    Fences,              \* addresses
    Blockers,            \* the threads that call waitForGpu and waitForGpuVulkan
    None,                \* the null pointer
    kMaxGuestTimelines,  \* 16 in the code
    Capacity,            \* kSyncThreadChannelCapacity
    InOrder,             \* the device asks for fences in the order of creation
    MaxCreated           \* bound on the native fences ever created

ASSUME FenceAssumption ==
    /\ None \notin Fences /\ None \notin Blockers /\ IsFiniteSet(Blockers)
    /\ None \notin [count : Nat, first : BOOLEAN, destroyWhenSignaled : BOOLEAN]
    /\ kMaxGuestTimelines \in Nat \ {0} /\ Capacity \in Nat \ {0}
    /\ InOrder \in BOOLEAN /\ MaxCreated \in Nat

VARIABLES
    fence,      \* FenceSync of each address, None where there is none
    mFences,    \* Timeline::mFences: the fences with a reference of the timeline
    expires,    \* their times
    mTime,      \* Timeline::mTime
    created,    \* how many native fences there were
    owed,       \* native fences the device has not yet asked for
    device,     \* whether the device is between two commands of one call
    mInput,     \* the commands of the sync thread
    mOutput,    \* its replies: the result of a wait is always 0
    sync,       \* what the sync thread is at
    sweeping,   \* the entries its sweep has still to visit
    render,     \* what the render thread is at
    waiting,    \* the blockers in their call
    crashed     \* undefined from here

timelineVars == <<mFences, expires, mTime>>
deviceVars == <<created, owed, device>>
channelVars == <<mInput, mOutput>>
vars == <<fence, timelineVars, deviceVars, channelVars, sync, sweeping, render,
          waiting, crashed>>

\* Where a thread is, in which operation, with which fence.
At(label, op, f) == [at |-> label, op |-> op, fence |-> f]
Idle == At("idle", "none", None)

Init ==
    /\ fence = [f \in Fences |-> None]
    /\ mFences = {}
    /\ expires = [f \in Fences |-> 0]
    /\ mTime = 0
    /\ created = 0
    /\ owed = <<>>
    /\ device = FALSE
    /\ mInput = <<>>
    /\ mOutput = <<>>
    /\ sync = Idle
    /\ sweeping = {}
    /\ render = Idle
    /\ waiting = {}
    /\ crashed = FALSE

\* getFromHandle finds the address in the registry.
Live(f) == f # None /\ fence[f] # None

-----------------------------------------------------------------------------
(* Reference counts.  decRef is "mCount == 1 || --mCount == 0", then        *)
(* destroy and delete: three steps, between which others may come.          *)

Incremented(f) == [fence EXCEPT ![f].count = @ + 1]
Decremented(f) == [fence EXCEPT ![f].count = @ - 1]
FirstDropped(f) == [fence EXCEPT ![f].first = FALSE]

\* Mutant: the object goes with the last reference but one.
TestedEarly(f) == IF fence[f].count <= 2 THEN "last" ELSE "decrement"

\* The test of mCount: the last reference is not decremented.
Tested(f) == IF fence[f].count = 1 THEN "last" ELSE "decrement"

\* Mutant: nobody deletes what went to 0.
DroppedOnly(f) == "kept"

\* The decrement: whether it was the last reference after all.
Dropped(f) == IF fence[f].count = 1 THEN "zero" ELSE "kept"

Bit(b) == IF b THEN 1 ELSE 0

\* delete this, by thread t, in "last" or "zero".  The object leaves the registry,
\* even if another thread took a reference since the test.
Delete(t) ==
    /\ fence' = [fence EXCEPT ![t.fence] = None]
    /\ crashed' = (fence[t.fence].count # Bit(t.at = "last"))

-----------------------------------------------------------------------------
(* The guest, through the render thread.                                    *)

Idles(t) == t.at = "idle"

\* Fences the guest has a handle of and may use.
Held(f) == Live(f) /\ fence[f].first /\ ~fence[f].destroyWhenSignaled

\* Mutant: the fence expires one signal early.
addFenceEarly(f) ==
    /\ mFences' = mFences \cup {f}
    /\ expires' = [expires EXCEPT ![f] = mTime + kMaxGuestTimelines - 1]

\* Timeline::addFence takes the lock that a sweep holds.
addFence(f) ==
    /\ mFences' = mFences \cup {f}
    /\ expires' = [expires EXCEPT ![f] = mTime + kMaxGuestTimelines]

\* The sync thread is in a sweep.
InSweep == sync.op \in {"Sweep", "Signaled"}

\* Native fences that were created and for which mTime was not incremented yet.
Asked == {i \in DOMAIN mInput : mInput[i].op = "Wait" /\ mInput[i].fence # None}
Outstanding == Len(owed) + Cardinality(Asked) + Bit(sync.op = "Wait")

\* rcCreateSyncKHR.  The timeline assumes that the guest has at most
\* kMaxGuestTimelines native fences outstanding.
CreateNative(f, destroyWhenSignaled) ==
    /\ Idles(render) /\ ~Live(f)
    /\ ~InSweep
    /\ created < MaxCreated /\ Outstanding < kMaxGuestTimelines
    /\ fence' = [fence EXCEPT ![f] =
           [count |-> 2, first |-> TRUE, destroyWhenSignaled |-> destroyWhenSignaled]]
    /\ addFence(f)
    /\ created' = created + 1
    /\ owed' = Append(owed, f)
    /\ UNCHANGED <<mTime, device, channelVars, sync, sweeping, render, waiting, crashed>>

Create(f) ==
    /\ Idles(render) /\ ~Live(f)
    /\ fence' = [fence EXCEPT ![f] =
           [count |-> 1, first |-> TRUE, destroyWhenSignaled |-> FALSE]]
    /\ UNCHANGED <<timelineVars, deviceVars, channelVars, sync, sweeping, render,
                   waiting, crashed>>

\* rcDestroySyncKHR gives the first reference back.
Destroy(f) ==
    /\ Idles(render) /\ Held(f)
    /\ fence' = FirstDropped(f)
    /\ render' = At(Tested(f), "Destroy", f)
    /\ UNCHANGED <<timelineVars, deviceVars, channelVars, sync, sweeping, waiting, crashed>>

\* rcClientWaitSyncKHR: the guest's reference keeps the fence from the lookup to the
\* wait, which may take long, ...
ClientWait(f) ==
    /\ Idles(render) /\ Held(f)
    /\ fence' = Incremented(f)
    /\ render' = At("waiting", "ClientWait", f)
    /\ UNCHANGED <<timelineVars, deviceVars, channelVars, sync, sweeping, waiting, crashed>>

\* ... and its end, by signal or timeout.
ClientWaited ==
    /\ render.at = "waiting"
    /\ render' = At(Tested(render.fence), "ClientWait", render.fence)
    /\ UNCHANGED <<fence, timelineVars, deviceVars, channelVars, sync, sweeping, waiting,
                   crashed>>

\* decRef on the render thread.
RenderDecrement ==
    /\ render.at = "decrement"
    /\ fence' = Decremented(render.fence)
    /\ render' = IF Dropped(render.fence) = "zero"
                 THEN [render EXCEPT !.at = "zero"] ELSE Idle
    /\ UNCHANGED <<timelineVars, deviceVars, channelVars, sync, sweeping, waiting, crashed>>

RenderDelete ==
    /\ render.at \in {"last", "zero"}
    /\ Delete(render)
    /\ render' = Idle
    /\ UNCHANGED <<timelineVars, deviceVars, channelVars, sync, sweeping, waiting>>

-----------------------------------------------------------------------------
(* Commands to the sync thread.                                             *)

Wait(f) == [op |-> "Wait", fence |-> f]
BlockedWait(f) == [op |-> "Blocked", fence |-> f]

\* mInput.send, when there is room.
Send(cmd) ==
    /\ Len(mInput) < Capacity
    /\ mInput' = Append(mInput, cmd)

\* rcTriggerWait of an EGL fence, which may have been deleted.
TriggerWait ==
    /\ ~device
    /\ \E i \in DOMAIN owed :
        /\ InOrder => i = 1
        /\ Send(Wait(owed[i]))
        /\ owed' = SubSeq(owed, 1, i - 1) \o SubSeq(owed, i + 1, Len(owed))
    /\ UNCHANGED <<fence, timelineVars, created, device, mOutput, sync, sweeping, render,
                   waiting, crashed>>

\* rcTriggerWait of a Vulkan fence: a command without a fence, and then one more with
\* the handle, which is no FenceSync's.
TriggerVulkan ==
    /\ Send(Wait(None))
    /\ device' = ~device
    /\ UNCHANGED <<fence, timelineVars, created, owed, mOutput, sync, sweeping, render,
                   waiting, crashed>>

\* sendAndWaitForResult sends, ...
SendBlocked(b, f) ==
    /\ b \notin waiting
    /\ Send(BlockedWait(f))
    /\ waiting' = waiting \cup {b}
    /\ UNCHANGED <<fence, timelineVars, deviceVars, mOutput, sync, sweeping, render, crashed>>

\* waitForGpu has found the fence; waitForGpuVulkan never has one.
WaitForGpu(b, f) == Held(f) /\ SendBlocked(b, f)
WaitForGpuVulkan(b) == SendBlocked(b, None)

\* ... and takes the first reply there is, whoever's command it answers.
GetReply(b) ==
    /\ b \in waiting /\ mOutput # <<>>
    /\ mOutput' = Tail(mOutput)
    /\ waiting' = waiting \ {b}
    /\ UNCHANGED <<fence, timelineVars, deviceVars, mInput, sync, sweeping, render, crashed>>

-----------------------------------------------------------------------------
(* The sync thread.                                                         *)

\* Mutants: the thread stays at a command whose fence is gone, or drops it.
ReceiveLive ==
    /\ Idles(sync) /\ mInput # <<>> /\ Live(Head(mInput).fence)
    /\ mInput' = Tail(mInput)
    /\ sync' = At("found", Head(mInput).op, Head(mInput).fence)
    /\ UNCHANGED <<fence, timelineVars, deviceVars, mOutput, sweeping, render, waiting,
                   crashed>>
ReceiveForgets ==
    /\ Idles(sync) /\ mInput # <<>>
    /\ mInput' = Tail(mInput)
    /\ LET cmd == Head(mInput) IN
       sync' = IF Live(cmd.fence) THEN At("found", cmd.op, cmd.fence) ELSE Idle
    /\ UNCHANGED <<fence, timelineVars, deviceVars, mOutput, sweeping, render, waiting,
                   crashed>>

\* The next command.  Without a fence it is done at once: the guest's timeline is
\* incremented, FenceSync's is not.
Receive ==
    /\ Idles(sync) /\ mInput # <<>>
    /\ mInput' = Tail(mInput)
    /\ LET cmd == Head(mInput) IN
       sync' = IF Live(cmd.fence) THEN At("found", cmd.op, cmd.fence)
               ELSE IF cmd.op = "Blocked" THEN At("done", cmd.op, None)
               ELSE Idle
    /\ UNCHANGED <<fence, timelineVars, deviceVars, mOutput, sweeping, render, waiting,
                   crashed>>

Crash ==
    /\ crashed' = TRUE
    /\ UNCHANGED <<fence, timelineVars, deviceVars, channelVars, sync, sweeping, render,
                   waiting>>

\* Mutant: the wait takes no reference.
BeginWaitUncounted ==
    /\ sync.at = "found" /\ Live(sync.fence)
    /\ sync' = [sync EXCEPT !.at = "waiting"]
    /\ UNCHANGED <<fence, timelineVars, deviceVars, channelVars, sweeping, render, waiting,
                   crashed>>

\* FenceSync::wait takes a reference, of a fence that was deleted since it was found
\* or whose count has gone to 0 (asserted), too, ...
BeginWait ==
    /\ sync.at = "found"
    /\ IF Live(sync.fence) /\ fence[sync.fence].count > 0
       THEN /\ fence' = Incremented(sync.fence)
            /\ sync' = [sync EXCEPT !.at = "waiting"]
            /\ UNCHANGED <<timelineVars, deviceVars, channelVars, sweeping, render, waiting,
                           crashed>>
       ELSE Crash

\* ... and gives it back.
EndWait ==
    /\ sync.at = "waiting"
    /\ sync' = [sync EXCEPT !.at = Tested(sync.fence)]
    /\ UNCHANGED <<fence, timelineVars, deviceVars, channelVars, sweeping, render, waiting,
                   crashed>>

eraseFence(f) ==
    /\ mFences' = mFences \ {f}
    /\ expires' = [expires EXCEPT ![f] = 0]

ToSweep == At("sweep", "Sweep", None)

\* What the sync thread does after decRef has returned.  The sweep looks at a fence
\* again that it has not deleted.
AfterDecRef(deleted) ==
    \/ /\ sync.op \in {"Wait", "Blocked"}
       /\ sync' = [sync EXCEPT !.at = "done"]
       /\ UNCHANGED <<mFences, expires>>
    \/ /\ sync.op = "Sweep" /\ ~deleted
       /\ sync' = [sync EXCEPT !.at = "flag"]
       /\ UNCHANGED <<mFences, expires>>
    \/ /\ sync.op = "Signaled" \/ (sync.op = "Sweep" /\ deleted)
       /\ eraseFence(sync.fence)
       /\ sync' = ToSweep

\* decRef on the sync thread.
SyncDecrement ==
    /\ sync.at = "decrement"
    /\ fence' = Decremented(sync.fence)
    /\ IF Dropped(sync.fence) = "zero"
       THEN sync' = [sync EXCEPT !.at = "zero"] /\ UNCHANGED <<mFences, expires>>
       ELSE AfterDecRef(FALSE)
    /\ UNCHANGED <<mTime, deviceVars, channelVars, sweeping, render, waiting, crashed>>

SyncDelete ==
    /\ sync.at \in {"last", "zero"}
    /\ Delete(sync)
    /\ AfterDecRef(TRUE)
    /\ UNCHANGED <<mTime, deviceVars, channelVars, sweeping, render, waiting>>

Expired == {f \in mFences : ~Live(f) \/ expires[f] <= mTime'}

\* The timeline goes on even if the wait failed or timed out.
IncrementTimeline ==
    /\ sync.at = "done" /\ sync.op = "Wait"
    /\ mTime' = mTime + 1
    /\ sweeping' = Expired
    /\ sync' = ToSweep
    /\ UNCHANGED <<fence, mFences, expires, deviceVars, channelVars, render, waiting, crashed>>

\* mOutput.send, when there is room.
Reply ==
    /\ sync.at = "done" /\ sync.op = "Blocked"
    /\ Len(mOutput) < Capacity
    /\ mOutput' = Append(mOutput, 0)
    /\ sync' = Idle
    /\ UNCHANGED <<fence, timelineVars, deviceVars, mInput, sweeping, render, waiting, crashed>>

\* The sweep gives the timeline's reference back ...
Sweep(f) ==
    /\ sync.at = "sweep" /\ f \in sweeping
    /\ sweeping' = sweeping \ {f}
    /\ IF Live(f)
       THEN sync' = At(Tested(f), "Sweep", f) /\ UNCHANGED <<mFences, expires>>
       ELSE eraseFence(f) /\ UNCHANGED sync
    /\ UNCHANGED <<fence, mTime, deviceVars, channelVars, render, waiting, crashed>>

\* ... and then looks at the fence again, which the guest may have destroyed; a fence
\* that is destroyed when signaled loses its first reference, too.
SweepFlag ==
    /\ sync.at = "flag"
    /\ IF ~Live(sync.fence) THEN Crash
       ELSE /\ IF fence[sync.fence].destroyWhenSignaled
               THEN /\ fence' = FirstDropped(sync.fence)
                    /\ sync' = At(Tested(sync.fence), "Signaled", sync.fence)
                    /\ UNCHANGED <<mFences, expires>>
               ELSE /\ eraseFence(sync.fence)
                    /\ sync' = ToSweep
                    /\ UNCHANGED fence
            /\ UNCHANGED <<mTime, deviceVars, channelVars, sweeping, render, waiting, crashed>>

SweepEnd ==
    /\ sync.at = "sweep" /\ sweeping = {}
    /\ sync' = Idle
    /\ UNCHANGED <<fence, timelineVars, deviceVars, channelVars, sweeping, render, waiting,
                   crashed>>

-----------------------------------------------------------------------------
Guest ==
    \/ \E f \in Fences :
          \/ \E d \in BOOLEAN : CreateNative(f, d)
          \/ Create(f) \/ Destroy(f) \/ ClientWait(f)
    \/ ClientWaited \/ RenderDecrement \/ RenderDelete

Block(b) == WaitForGpuVulkan(b) \/ \E f \in Fences : WaitForGpu(b, f)

SyncThreadStep ==
    \/ Receive \/ BeginWait \/ EndWait \/ SyncDecrement \/ SyncDelete
    \/ IncrementTimeline \/ Reply \/ SweepFlag \/ SweepEnd
    \/ \E f \in Fences : Sweep(f)

Next ==
    /\ ~crashed
    /\ \/ Guest
       \/ TriggerWait \/ TriggerVulkan
       \/ \E b \in Blockers : Block(b) \/ GetReply(b)
       \/ SyncThreadStep

\* Waits end by their timeout at the latest, and mOutput starves nobody.
Spec ==
    /\ Init /\ [][Next]_vars
    /\ WF_vars(~crashed /\ SyncThreadStep)
    /\ \A b \in Blockers : SF_vars(~crashed /\ GetReply(b))

-----------------------------------------------------------------------------
(* Properties.                                                              *)

Object == [count : Nat, first : BOOLEAN, destroyWhenSignaled : BOOLEAN]
Labels == {"idle", "found", "waiting", "decrement", "last", "zero", "done", "sweep", "flag"}
Doings ==
    [at : Labels, op : {"none", "Wait", "Blocked", "Sweep", "Signaled", "ClientWait", "Destroy"},
     fence : Fences \cup {None}]
SyncCommands == [op : {"Wait", "Blocked"}, fence : Fences \cup {None}]

\* Thread t is about to delete f.
AtZero(t, f) == t.at = "zero" /\ t.fence = f

\* Types; an object whose count is 0 is about to be deleted.
TypeOK ==
    /\ fence \in [Fences -> Object \cup {None}]
    /\ \A f \in Fences : Live(f) /\ fence[f].count = 0 => AtZero(sync, f) \/ AtZero(render, f)
    /\ mFences \subseteq Fences
    /\ expires \in [Fences -> Nat]
    /\ mTime \in Nat /\ created \in Nat
    /\ owed \in Seq(Fences) /\ device \in BOOLEAN
    /\ mInput \in Seq(SyncCommands) /\ Len(mInput) <= Capacity
    /\ mOutput \in Seq({0}) /\ Len(mOutput) <= Capacity
    /\ sync \in Doings
    /\ sweeping \subseteq Fences
    /\ render \in Doings
    /\ waiting \subseteq Blockers /\ crashed \in BOOLEAN

\* Thread t has a reference of f, which it took for a wait or is giving back.
Refers(t, f) == t.at \in {"waiting", "decrement", "last"} /\ t.fence = f
TimelineHolds(f) == f \in mFences /\ ~(InSweep /\ sync.fence = f)

\* The count of every fence is the number of its references: the first one, the
\* timeline's, and those of the waits in progress and of the decRefs under way.  So
\* nothing leaks and nothing is counted twice, whoever comes between the two reads of
\* a decRef.
CountExact ==
    \A f \in Fences : Live(f) =>
        fence[f].count = Bit(fence[f].first) + Bit(TimelineHolds(f))
                         + Bit(Refers(render, f)) + Bit(Refers(sync, f))

\* A fence that the render thread waits on, that the timeline has yet to let go, or,
\* when the device asks in order, that the sync thread waits on for the device, is
\* there: whoever gives references back meanwhile deletes nothing (first issue of
\* FenceSync.h).  Nothing is said of the waits of waitForGpu.
HeldIsLive ==
    \A f \in Fences :
        \/ Refers(render, f) \/ TimelineHolds(f)
        \/ InOrder /\ sync.op = "Wait" /\ Refers(sync, f)
        => Live(f)

\* "We need to increment the reference count while the wait is active, in case there
\* is a concurrent call to eglDestroySyncKHR": every fence that is waited on is there.
WaitsOnLive == \A f \in Fences : Refers(render, f) \/ Refers(sync, f) => Live(f)

\* A native fence is there until the sync thread has waited for it, whatever the
\* guest does (second issue of FenceSync.h), if the guest keeps to the limit and the
\* device to the order of creation: signals of other fences cannot expire it first.
NativeOutlives ==
    InOrder =>
        /\ \A i \in DOMAIN owed : TimelineHolds(owed[i])
        /\ \A i \in Asked : TimelineHolds(mInput[i].fence)
        /\ sync.op = "Wait" => TimelineHolds(sync.fence)

\* There are as many commands with a reply and replies under way as callers that
\* wait for one: none waits for a reply that will not come, whether its fence was
\* found or not, and none is left for the next caller to take.
RepliesMatch ==
    Cardinality({i \in DOMAIN mInput : mInput[i].op = "Blocked"})
        + Bit(sync.op = "Blocked") + Len(mOutput) = Cardinality(waiting)

\* The device has asked for f.
Given(f) ==
    \/ \E i \in DOMAIN mInput : mInput[i] = Wait(f)
    \/ sync.op = "Wait" /\ sync.fence = f

\* Every caller that waits for the GPU returns, however many others call meanwhile,
\* and the sync thread gets through everything the device asked for: no fence of the
\* guest stays unsignaled.
Answered ==
    /\ \A b \in Blockers : b \in waiting ~> b \notin waiting \/ crashed
    /\ \A f \in Fences : Given(f) ~> ~Given(f) \/ crashed

=============================================================================
