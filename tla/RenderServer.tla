------------------------------ MODULE RenderServer ------------------------------
(***************************************************************************)
(* The accept loop of the host renderer (RenderServer::main), the life of  *)
(* the RenderThread objects it creates, and the lock under which they      *)
(* decode their clients' commands.                                         *)
(*                                                                         *)
(* A client is one connection: its stream, the RenderThread object made    *)
(* for it and the pthread that runs it carry its name.  What the commands  *)
(* do to the object tables is in FrameBuffer; here a command takes m_lock, *)
(* is answered, and gives m_lock back.                                     *)
(***************************************************************************)
EXTENDS Naturals, FiniteSets

CONSTANTS
    Clients,
    None,           \* no client
    StartMayFail,   \* pthread_create may fail
    DeafClients,    \* the clients that may stop reading their answers
    Headers,        \* what clients may open with
    Requests        \* what their client flags may ask for

PipeNames == {"opengles", "transfer"}

ASSUME ServerAssumption ==
    /\ None \notin Clients
    /\ StartMayFail \in BOOLEAN
    /\ DeafClients \subseteq Clients
    /\ Headers \subseteq PipeNames \cup {"other"}
    /\ Requests \subseteq {"serve", "exit"}

VARIABLES
    \* the clients
    net,            \* "away", "queued" for accept, "accepted"
    header,         \* the pipe name it has sent ("nothing": not yet)
    request,        \* the client flags it has sent ("nothing": not yet)
    deaf,           \* the client does not read its answers
    hung,           \* the client has closed its end
    \* RenderServer::main
    pc,             \* where the accept loop is
    cur,            \* the connection it is working on
    threads,        \* the RenderThreadsSet
    toVisit,        \* what its loop over threads has still to visit
    victim,         \* the thread object it is deleting
    m_exiting,
    \* the RenderThread objects
    object,         \* "none", "alive", "freed"
    streamDeletes,  \* how often the client's ChannelStream was deleted
    stopped,        \* forceStop has shut the stream down
    thr,            \* where the pthread is
    m_lock          \* which thread holds the server's lock

clients == <<net, header, request, deaf, hung>>
server  == <<pc, cur, threads, toVisit, victim, m_exiting>>
objects == <<object, streamDeletes, stopped>>
vars    == <<clients, server, objects, thr, m_lock>>

\* The stages of a pthread: RenderThread::main ("reading" to "ending"); in
\* setFinished, which has stored mFinished and still holds mLock; after it; after
\* Thread::thread_main has set the base class' mFinished; and after its last use
\* of the object.
Stages == {"none", "reading", "waiting", "decoding", "ending",
           "finished", "unlocked", "flagged", "gone"}

\* Where main is.  After the last two the process is dead.
Places == {"accept", "header", "greet", "flags", "reap", "assert", "delete",
           "join", "wait", "stopped", "assert failed", "double free"}

Init ==
    /\ net = [c \in Clients |-> "away"]
    /\ header = [c \in Clients |-> "nothing"]
    /\ request = [c \in Clients |-> "nothing"]
    /\ deaf = [c \in Clients |-> FALSE]
    /\ hung = [c \in Clients |-> FALSE]
    /\ pc = "accept"
    /\ cur = None
    /\ threads = {}
    /\ toVisit = {}
    /\ victim = None
    /\ m_exiting = FALSE
    /\ object = [c \in Clients |-> "none"]
    /\ streamDeletes = [c \in Clients |-> 0]
    /\ stopped = [c \in Clients |-> FALSE]
    /\ thr = [c \in Clients |-> "none"]
    /\ m_lock = None

-----------------------------------------------------------------------------
(* The clients. *)

Connect(c) ==
    /\ net[c] = "away"
    /\ net' = [net EXCEPT ![c] = "queued"]
    /\ UNCHANGED <<header, request, deaf, hung, server, objects, thr, m_lock>>

\* The thread of c is in the loop that reads and decodes its commands.
Serving(c) == thr[c] \in {"reading", "waiting", "decoding"}

\* main is at the opening of c.
Opening(c) == c = cur /\ pc \in {"header", "greet", "flags"}

\* The header of a client arrives, and after it its flags (what it sent before it
\* was accepted arrives then).  They may never arrive.
SendHeader(c) ==
    /\ Opening(c) /\ ~ hung[c] /\ header[c] = "nothing"
    /\ \E h \in Headers : header' = [header EXCEPT ![c] = h]
    /\ UNCHANGED <<net, request, deaf, hung, server, objects, thr, m_lock>>

SendFlags(c) ==
    /\ Opening(c) /\ ~ hung[c] /\ header[c] \in PipeNames /\ request[c] = "nothing"
    /\ \E r \in Requests : request' = [request EXCEPT ![c] = r]
    /\ UNCHANGED <<net, header, deaf, hung, server, objects, thr, m_lock>>

GoDeaf(c) ==
    /\ c \in DeafClients /\ (Serving(c) \/ Opening(c))
    /\ ~ hung[c] /\ ~ deaf[c]
    /\ deaf' = [deaf EXCEPT ![c] = TRUE]
    /\ UNCHANGED <<net, header, request, hung, server, objects, thr, m_lock>>

HangUp(c) ==
    /\ Serving(c) \/ Opening(c)
    /\ ~ hung[c]
    /\ hung' = [hung EXCEPT ![c] = TRUE]
    /\ UNCHANGED <<net, header, request, deaf, server, objects, thr, m_lock>>

\* What is written to c is taken: with a client that does not read, send blocks
\* until the stream is shut down at either end.
Answered(c) == ~ deaf[c] \/ hung[c] \/ stopped[c]

-----------------------------------------------------------------------------
(* RenderServer::main. *)

Accept(c) ==
    /\ pc = "accept" /\ net[c] = "queued"
    /\ net' = [net EXCEPT ![c] = "accepted"]
    /\ cur' = c
    /\ pc' = "header"
    /\ UNCHANGED <<header, request, deaf, hung, threads, toVisit, victim, m_exiting,
                   objects, thr, m_lock>>

\* readFully of the pipe name: no timeout.
ReadHeader ==
    /\ pc = "header" /\ header[cur] \in PipeNames
    /\ pc' = IF header[cur] = "transfer" THEN "greet" ELSE "flags"
    /\ UNCHANGED <<clients, cur, threads, toVisit, victim, m_exiting, objects, thr, m_lock>>

\* The transfer pipe is told "OK" before its flags are read.
Greet ==
    /\ pc = "greet" /\ Answered(cur)
    /\ pc' = "flags"
    /\ UNCHANGED <<clients, cur, threads, toVisit, victim, m_exiting, objects, thr, m_lock>>

\* readFully has failed, or the header is neither pipe name.
BadOpening ==
    \/ pc = "header" /\ (header[cur] = "other" \/ (header[cur] = "nothing" /\ hung[cur]))
    \/ pc = "flags" /\ request[cur] = "nothing" /\ hung[cur]

DeleteStream(c) == streamDeletes' = [streamDeletes EXCEPT ![c] = @ + 1]

\* Mutant: break where the code says continue.
RejectBreak ==
    /\ BadOpening
    /\ DeleteStream(cur)
    /\ pc' = "stopped"
    /\ UNCHANGED <<clients, cur, threads, toVisit, victim, m_exiting, object,
                   stopped, thr, m_lock>>

Reject ==
    /\ BadOpening
    /\ DeleteStream(cur)
    /\ cur' = None
    /\ pc' = "accept"
    /\ UNCHANGED <<clients, threads, toVisit, victim, m_exiting, object,
                   stopped, thr, m_lock>>

\* The flags ask the server to exit.
ExitServer ==
    /\ pc = "flags" /\ request[cur] = "exit"
    /\ m_exiting' = TRUE
    /\ DeleteStream(cur)
    /\ cur' = None
    /\ toVisit' = threads
    /\ pc' = "join"
    /\ UNCHANGED <<clients, threads, victim, object, stopped, thr, m_lock>>

\* RenderThread::create and start.
StartThread ==
    /\ pc = "flags" /\ request[cur] = "serve"
    /\ object' = [object EXCEPT ![cur] = "alive"]
    /\ thr' = [thr EXCEPT ![cur] = "reading"]
    /\ toVisit' = threads
    /\ pc' = "reap"
    /\ UNCHANGED <<clients, cur, threads, victim, m_exiting, streamDeletes,
                   stopped, m_lock>>

\* start fails: the object is deleted, which deletes its stream, and then the
\* stream is deleted; rt is not reset.
StartFails ==
    /\ StartMayFail
    /\ pc = "flags" /\ request[cur] = "serve"
    /\ object' = [object EXCEPT ![cur] = "freed"]
    /\ streamDeletes' = [streamDeletes EXCEPT ![cur] = @ + 2]
    /\ toVisit' = threads
    /\ pc' = "reap"
    /\ UNCHANGED <<clients, cur, threads, victim, m_exiting, stopped, thr, m_lock>>

\* RenderThread::isFinished: setFinished has been called.
IsFinished(c) == thr[c] \in {"finished", "unlocked", "flagged", "gone"}

ReapRunning(c) ==
    /\ pc = "reap" /\ c \in toVisit
    /\ object[c] = "alive" /\ ~ IsFinished(c)
    /\ toVisit' = toVisit \ {c}
    /\ UNCHANGED <<clients, pc, cur, threads, victim, m_exiting, objects, thr, m_lock>>

\* A finished thread: its colour buffers are closed (FrameBuffer!ReapThread) and
\* its object is deleted.  ~RenderThread deletes the stream and destroys mLock and
\* mCondVar, even while setFinished has not unlocked mLock yet; then comes ~Thread.
ReapFinished(c) ==
    /\ pc = "reap" /\ c \in toVisit
    /\ object[c] = "alive" /\ IsFinished(c)
    /\ DeleteStream(c)
    /\ victim' = c
    /\ pc' = "assert"
    /\ UNCHANGED <<clients, cur, threads, toVisit, m_exiting, object, stopped,
                   thr, m_lock>>

\* ~Thread asserts that a started thread has its base mFinished set.
AssertFinished ==
    /\ pc = "assert"
    /\ pc' = IF thr[victim] \in {"flagged", "gone"} THEN "delete" ELSE "assert failed"
    /\ UNCHANGED <<clients, cur, threads, toVisit, victim, m_exiting, objects, thr, m_lock>>

\* isFinished is read from a freed object: it may be false, or true and the
\* object is closed and deleted once more, which the allocator may notice.
ReapFreed(c) ==
    /\ pc = "reap" /\ c \in toVisit
    /\ object[c] = "freed"
    /\ toVisit' = toVisit \ {c}
    /\ \/ UNCHANGED <<pc, threads, streamDeletes>>
       \/ threads' = threads \ {c} /\ DeleteStream(c) /\ pc' \in {"reap", "double free"}
    /\ UNCHANGED <<clients, cur, victim, m_exiting, object, stopped, thr, m_lock>>

\* Mutant: the set keeps the deleted object.
DeletedNotErased ==
    /\ pc = "delete" /\ thr[victim] = "gone"
    /\ object' = [object EXCEPT ![victim] = "freed"]
    /\ toVisit' = toVisit \ {victim}
    /\ victim' = None
    /\ pc' = "reap"
    /\ UNCHANGED <<clients, cur, threads, m_exiting, streamDeletes, stopped, thr, m_lock>>

\* The assertion held and pthread_join has returned; the memory is freed.
Deleted ==
    /\ pc = "delete" /\ thr[victim] = "gone"
    /\ object' = [object EXCEPT ![victim] = "freed"]
    /\ threads' = threads \ {victim}
    /\ toVisit' = toVisit \ {victim}
    /\ victim' = None
    /\ pc' = "reap"
    /\ UNCHANGED <<clients, cur, m_exiting, streamDeletes, stopped, thr, m_lock>>

Insert ==
    /\ pc = "reap" /\ toVisit = {}
    /\ threads' = threads \cup {cur}
    /\ cur' = None
    /\ pc' = "accept"
    /\ UNCHANGED <<clients, toVisit, victim, m_exiting, objects, thr, m_lock>>

\* Mutant: the threads are waited for without being stopped.
ForceStopNot(c) ==
    /\ pc = "join" /\ c \in toVisit
    /\ victim' = c
    /\ pc' = "wait"
    /\ UNCHANGED <<clients, cur, threads, toVisit, m_exiting, objects, thr, m_lock>>

\* The exit loop: one thread after the other is stopped, ...
ForceStop(c) ==
    /\ pc = "join" /\ c \in toVisit
    /\ stopped' = [stopped EXCEPT ![c] = TRUE]
    /\ victim' = c
    /\ pc' = "wait"
    /\ UNCHANGED <<clients, cur, threads, toVisit, m_exiting, object, streamDeletes,
                   thr, m_lock>>

\* ... joined and deleted.  (Joining a freed object that never ran returns.)
Joined ==
    /\ pc = "wait" /\ thr[victim] \in {"gone", "none"}
    /\ object' = [object EXCEPT ![victim] = "freed"]
    /\ DeleteStream(victim)
    /\ toVisit' = toVisit \ {victim}
    /\ victim' = None
    /\ pc' = "join"
    /\ UNCHANGED <<clients, cur, threads, m_exiting, stopped, thr, m_lock>>

Stopped ==
    /\ pc = "join" /\ toVisit = {}
    /\ threads' = {}
    /\ pc' = "stopped"
    /\ UNCHANGED <<clients, cur, toVisit, victim, m_exiting, objects, thr, m_lock>>

-----------------------------------------------------------------------------
(* RenderThread::main and Thread::thread_main. *)

Go(c, from, to) ==
    /\ thr[c] = from
    /\ thr' = [thr EXCEPT ![c] = to]
    /\ UNCHANGED <<clients, server, objects>>

\* A packet arrives, ...
GetData(c) == ~ hung[c] /\ ~ stopped[c] /\ Go(c, "reading", "waiting") /\ UNCHANGED m_lock

\* ... or the stream ends.
EndOfStream(c) == (hung[c] \/ stopped[c]) /\ Go(c, "reading", "ending") /\ UNCHANGED m_lock

\* Mutant: the lock is taken without waiting for it.
LockTaken(c) == Go(c, "waiting", "decoding") /\ m_lock' = c

Lock(c) == m_lock = None /\ Go(c, "waiting", "decoding") /\ m_lock' = c

\* The command is decoded and its answer written under m_lock, or it is malformed
\* and ends the thread.
Decode(c)    == Answered(c) /\ Go(c, "decoding", "reading") /\ m_lock' = None
BadPacket(c) == Answered(c) /\ Go(c, "decoding", "ending") /\ m_lock' = None

\* The drains of FrameBuffer, then setFinished, which takes mLock, stores mFinished
\* and unlocks; thread_main; the pthread is gone.
SetFinished(c) == Go(c, "ending", "finished") /\ UNCHANGED m_lock
Unlock(c)      == Go(c, "finished", "unlocked") /\ UNCHANGED m_lock
ThreadMain(c)  == Go(c, "unlocked", "flagged") /\ UNCHANGED m_lock
ThreadGone(c)  == Go(c, "flagged", "gone") /\ UNCHANGED m_lock

-----------------------------------------------------------------------------

ServerStep ==
    \/ ReadHeader \/ Greet \/ Reject \/ ExitServer \/ StartThread \/ StartFails
    \/ AssertFinished \/ Deleted \/ Insert \/ Joined \/ Stopped
    \/ \E c \in Clients : Accept(c) \/ ForceStop(c)
    \/ \E c \in Clients : ReapRunning(c) \/ ReapFinished(c) \/ ReapFreed(c)

\* What a render thread does without waiting for its client.
ThreadStep(c) ==
    \/ EndOfStream(c) \/ Decode(c)
    \/ SetFinished(c) \/ Unlock(c) \/ ThreadMain(c) \/ ThreadGone(c)

\* A failed assertion or a double free has ended the process.
Aborted == pc \in {"assert failed", "double free"}

Next ==
    /\ ~ Aborted
    /\ \/ ServerStep
       \/ \E c \in Clients :
             \/ Connect(c) \/ SendHeader(c) \/ SendFlags(c) \/ GoDeaf(c) \/ HangUp(c)
             \/ ThreadStep(c) \/ GetData(c) \/ Lock(c) \/ BadPacket(c)

\* main and the render threads are scheduled while the process lives, and m_lock
\* starves nobody.  Nothing is assumed of the clients: they need not send anything,
\* read anything or hang up.
Fairness ==
    /\ WF_vars(~ Aborted /\ ServerStep)
    /\ \A c \in Clients : /\ WF_vars(~ Aborted /\ ThreadStep(c))
                          /\ SF_vars(~ Aborted /\ Lock(c))

Spec == Init /\ [][Next]_vars /\ Fairness

-----------------------------------------------------------------------------
(* Properties. *)

\* Types, and m_lock is held by the thread that is decoding.
TypeOK ==
    /\ net \in [Clients -> {"away", "queued", "accepted"}]
    /\ header \in [Clients -> PipeNames \cup {"other", "nothing"}]
    /\ request \in [Clients -> {"serve", "exit", "nothing"}]
    /\ deaf \in [Clients -> BOOLEAN]
    /\ hung \in [Clients -> BOOLEAN]
    /\ pc \in Places
    /\ cur \in Clients \cup {None}
    /\ pc \in {"header", "greet", "flags", "reap", "assert", "delete"} => cur # None
    /\ threads \subseteq Clients /\ toVisit \subseteq threads
    /\ victim \in Clients \cup {None}
    /\ pc \in {"assert", "delete", "wait"} => victim \in toVisit
    /\ m_exiting \in BOOLEAN
    /\ object \in [Clients -> {"none", "alive", "freed"}]
    /\ streamDeletes \in [Clients -> Nat]
    /\ stopped \in [Clients -> BOOLEAN]
    /\ thr \in [Clients -> Stages]
    /\ m_lock \in Clients \cup {None}
    /\ \A c \in Clients : m_lock = c <=> thr[c] = "decoding"

\* The pthread of c could not be created.
StartFailed(c) == object[c] = "freed" /\ thr[c] = "none"

\* Of the threads that did start, the set of main holds live objects only, until
\* they are joined at exit, and each stream is deleted at most once: nothing main
\* touches there is freed.
ThreadsAlive ==
    /\ \A c \in threads : \/ object[c] = "alive" \/ StartFailed(c)
                          \/ m_exiting /\ c \notin toVisit
    /\ \A c \in Clients : streamDeletes[c] <= 1 \/ StartFailed(c)

\* main waits for the client it is opening: for its header, for its flags, or for
\* it to read the greeting.
AtMercy ==
    \/ pc = "header" /\ header[cur] = "nothing" /\ ~ hung[cur]
    \/ pc = "flags" /\ request[cur] = "nothing" /\ ~ hung[cur]
    \/ pc = "greet" /\ ~ Answered(cur)

\* A client that connects is accepted, unless the server exits or aborts first; one
\* thing alone can keep it out, another client that main waits for from some time on
\* for ever, as the accept loop does its reads and its greeting without a timeout.
ClientsAccepted ==
    \A c \in Clients :
       net[c] = "queued" ~> (net[c] = "accepted" \/ m_exiting \/ Aborted \/ []AtMercy)

\* A client that has stopped reading holds up the thread that has m_lock.
LockStuck == m_lock # None /\ ~ Answered(m_lock)

\* Once asked to exit the server ends, or the exit loop, which stops and joins one
\* thread after the other, waits for a thread that waits for m_lock, whose holder is
\* not stopped yet and blocked for ever in a send.
ExitTerminates == m_exiting ~> (pc = "stopped" \/ []LockStuck)

=============================================================================
