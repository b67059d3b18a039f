------------------------------- MODULE ServerProofs -------------------------------
(***************************************************************************)
(* Proofs about RenderServer, for any number of clients, with or without   *)
(* failing thread starts: type correctness, which includes that m_lock is  *)
(* held by the one thread that decodes, and that main touches no object    *)
(* that is freed.                                                          *)
(***************************************************************************)
EXTENDS RenderServer, TLAPS

\* A connection main has not made a thread for has none.
NoThreadYet ==
    /\ \A c \in Clients : net[c] # "accepted" => thr[c] = "none"
    /\ pc \in {"header", "greet", "flags"} => net[cur] = "accepted" /\ thr[cur] = "none"

\* The initial state is type correct.
LEMMA TypeInit == Init => TypeOK /\ NoThreadYet
<1> SUFFICES ASSUME Init PROVE TypeOK /\ NoThreadYet
  OBVIOUS
<1>1. /\ net \in [Clients -> {"away", "queued", "accepted"}]
      /\ header \in [Clients -> PipeNames \cup {"other", "nothing"}]
      /\ request \in [Clients -> {"serve", "exit", "nothing"}]
      /\ deaf \in [Clients -> BOOLEAN] /\ hung \in [Clients -> BOOLEAN]
  BY DEF Init
<1>2. /\ object \in [Clients -> {"none", "alive", "freed"}]
      /\ streamDeletes \in [Clients -> Nat] /\ stopped \in [Clients -> BOOLEAN]
      /\ thr \in [Clients -> Stages] /\ m_lock \in Clients \cup {None}
  BY DEF Init, Stages
<1>3. \A c \in Clients : m_lock = c <=> thr[c] = "decoding"
  BY ServerAssumption DEF Init
<1>4. NoThreadYet
  BY DEF Init, NoThreadYet
<1> QED
  BY <1>1, <1>2, <1>3, <1>4 DEF Init, TypeOK, Places

\* A step of a render thread that leaves m_lock alone.
LEMMA GoType ==
  ASSUME TypeOK, NEW c \in Clients,
         NEW from \in Stages \ {"decoding"}, NEW to \in Stages \ {"decoding"},
         Go(c, from, to), UNCHANGED m_lock
  PROVE  TypeOK'
  <1>1. thr' \in [Clients -> Stages] /\ \A d \in Clients : m_lock' = d <=> thr'[d] = "decoding"
    BY DEF Go, TypeOK
  <1> QED
    BY <1>1 DEF Go, TypeOK, clients, server, objects

\* A step of main that touches neither clients, threads nor m_lock.
LEMMA ServerType ==
  ASSUME TypeOK, UNCHANGED <<clients, thr, m_lock>>,
         pc' \in Places, cur' \in Clients \cup {None},
         pc' \in {"header", "greet", "flags", "reap", "assert", "delete"} => cur' # None,
         threads' \subseteq Clients, toVisit' \subseteq threads',
         victim' \in Clients \cup {None},
         pc' \in {"assert", "delete", "wait"} => victim' \in toVisit',
         m_exiting' \in BOOLEAN, object' \in [Clients -> {"none", "alive", "freed"}],
         streamDeletes' \in [Clients -> Nat], stopped' \in [Clients -> BOOLEAN]
  PROVE  TypeOK'
  BY DEF TypeOK, clients

\* Every step keeps TypeOK.
LEMMA TypeStep == TypeOK /\ NoThreadYet /\ [Next]_vars => TypeOK'
<1> SUFFICES ASSUME TypeOK, NoThreadYet, [Next]_vars PROVE TypeOK'
  OBVIOUS
<1> USE DEF clients, server, objects, Places
<1>a. pc \in {"header", "greet", "flags", "reap"} => cur \in Clients
  BY ServerAssumption DEF TypeOK
<1>b. pc \in {"assert", "delete", "wait"} => victim \in Clients
  BY DEF TypeOK
<1>c. /\ streamDeletes \in [Clients -> Nat]
      /\ header \in [Clients -> PipeNames \cup {"other", "nothing"}]
      /\ request \in [Clients -> {"serve", "exit", "nothing"}]
      /\ thr \in [Clients -> Stages] /\ m_lock \in Clients \cup {None}
      /\ \A c \in Clients : m_lock = c <=> thr[c] = "decoding"
  BY DEF TypeOK
<1>1. CASE UNCHANGED vars
  BY <1>1 DEF vars, TypeOK
<1>2. ASSUME NEW c \in Clients,
             Connect(c) \/ SendHeader(c) \/ SendFlags(c) \/ GoDeaf(c) \/ HangUp(c)
      PROVE  TypeOK'
  <2>1. CASE Connect(c)
    <3>1. net' \in [Clients -> {"away", "queued", "accepted"}]
      BY <2>1 DEF Connect, TypeOK
    <3> QED
      BY <2>1, <3>1 DEF Connect, TypeOK
  <2>2. CASE SendHeader(c)
    <3>1. PICK h \in Headers : header' = [header EXCEPT ![c] = h]
      BY <2>2 DEF SendHeader
    <3>2. h \in PipeNames \cup {"other", "nothing"}
      BY ServerAssumption
    <3>3. header' \in [Clients -> PipeNames \cup {"other", "nothing"}]
      BY <3>1, <3>2, <1>c
    <3> QED
      BY <2>2, <3>3 DEF SendHeader, TypeOK
  <2>4. CASE SendFlags(c)
    <3>1. PICK r \in Requests : request' = [request EXCEPT ![c] = r]
      BY <2>4 DEF SendFlags
    <3>2. r \in {"serve", "exit", "nothing"}
      BY ServerAssumption
    <3>3. request' \in [Clients -> {"serve", "exit", "nothing"}]
      BY <3>1, <3>2, <1>c
    <3> QED
      BY <2>4, <3>3 DEF SendFlags, TypeOK
  <2>3. CASE GoDeaf(c) \/ HangUp(c)
    <3>1. deaf' \in [Clients -> BOOLEAN] /\ hung' \in [Clients -> BOOLEAN]
      BY <2>3 DEF GoDeaf, HangUp, TypeOK
    <3> QED
      BY <2>3, <3>1 DEF GoDeaf, HangUp, TypeOK
  <2> QED
    BY <1>2, <2>1, <2>2, <2>3, <2>4
<1>3. ASSUME NEW c \in Clients, Accept(c) PROVE TypeOK'
  <2>1. net' \in [Clients -> {"away", "queued", "accepted"}]
    BY <1>3 DEF Accept, TypeOK
  <2>2. cur' \in Clients /\ cur' # None /\ pc' = "header"
    BY <1>3, ServerAssumption DEF Accept
  <2> QED
    BY <1>3, <2>1, <2>2 DEF Accept, TypeOK
<1>4. ASSUME NEW c \in Clients, ForceStop(c) PROVE TypeOK'
  <2>1. stopped' \in [Clients -> BOOLEAN]
    BY <1>4 DEF ForceStop, TypeOK
  <2> QED
    BY <1>4, <2>1, ServerType DEF ForceStop, TypeOK
<1>5. ASSUME NEW c \in Clients, ReapRunning(c) \/ ReapFinished(c) \/ ReapFreed(c) PROVE TypeOK'
  <2>0. streamDeletes' = streamDeletes \/ DeleteStream(c)
    BY <1>5 DEF ReapRunning, ReapFinished, ReapFreed
  <2>1. streamDeletes' \in [Clients -> Nat]
    BY <2>0, <1>c DEF DeleteStream
  <2>2. pc = "reap" /\ cur # None /\ cur' = cur /\ toVisit' \subseteq threads' /\ threads' \subseteq Clients
    BY <1>5 DEF ReapRunning, ReapFinished, ReapFreed, TypeOK
  <2>3. \/ pc' \in {"reap", "double free"} /\ victim' = victim
        \/ pc' = "assert" /\ victim' = c /\ c \in toVisit'
    BY <1>5 DEF ReapRunning, ReapFinished, ReapFreed
  <2> QED
    BY <1>5, <2>1, <2>2, <2>3, ServerType DEF ReapRunning, ReapFinished, ReapFreed, TypeOK
<1>6. CASE Reject \/ ExitServer
  <2>0. cur \in Clients /\ DeleteStream(cur)
    BY <1>6, <1>a DEF Reject, BadOpening, ExitServer
  <2>1. streamDeletes' \in [Clients -> Nat]
    BY <2>0, <1>c DEF DeleteStream
  <2>2. pc' \in {"accept", "join"} /\ cur' = None /\ m_exiting' \in BOOLEAN
    BY <1>6 DEF Reject, ExitServer, TypeOK
  <2>3. threads' \subseteq Clients /\ toVisit' \subseteq threads'
    BY <1>6 DEF Reject, ExitServer, TypeOK
  <2>4. UNCHANGED <<clients, victim, object, stopped, thr, m_lock>>
    BY <1>6 DEF Reject, ExitServer
  <2> QED
    BY <2>1, <2>2, <2>3, <2>4 DEF TypeOK
<1>7. CASE StartFails
  <2>1. /\ streamDeletes' \in [Clients -> Nat]
        /\ object' \in [Clients -> {"none", "alive", "freed"}]
    BY <1>7, <1>a DEF StartFails, TypeOK
  <2> QED
    BY <1>7, <1>a, <2>1, ServerType DEF StartFails, TypeOK
<1>8. CASE Deleted
  <2>1. object' \in [Clients -> {"none", "alive", "freed"}]
    BY <1>8, <1>b DEF Deleted, TypeOK
  <2>2. threads' \subseteq Clients /\ toVisit' \subseteq threads'
    BY <1>8 DEF Deleted, TypeOK
  <2>3. pc' = "reap" /\ victim' = None /\ cur' = cur
    BY <1>8 DEF Deleted
  <2>4. cur # None
    BY <1>8 DEF Deleted, TypeOK
  <2> QED
    BY <1>8, <2>1, <2>2, <2>3, ServerType DEF Deleted, TypeOK
<1>9. CASE Insert
  BY <1>9, <1>a, ServerType DEF Insert, TypeOK
<1>10. CASE Joined
  <2>1. /\ object' \in [Clients -> {"none", "alive", "freed"}]
        /\ streamDeletes' \in [Clients -> Nat]
    BY <1>10, <1>b DEF Joined, DeleteStream, TypeOK
  <2> QED
    BY <1>10, <2>1, ServerType DEF Joined, TypeOK
<1>11. CASE Stopped
  BY <1>11, ServerType DEF Stopped, TypeOK
<1>12. CASE StartThread
  <2>1. cur \in Clients /\ thr[cur] = "none"
    BY <1>12, <1>a DEF StartThread, NoThreadYet
  <2>2. thr' \in [Clients -> Stages] /\ object' \in [Clients -> {"none", "alive", "freed"}]
    BY <1>12, <2>1 DEF StartThread, TypeOK, Stages
  <2>3. \A d \in Clients : m_lock' = d <=> thr'[d] = "decoding"
    BY <1>12, <2>1 DEF StartThread, TypeOK
  <2> QED
    BY <1>12, <1>a, <2>2, <2>3 DEF StartThread, TypeOK
<1>13. ASSUME NEW c \in Clients, Lock(c) \/ Decode(c) \/ BadPacket(c) PROVE TypeOK'
  <2>1. /\ thr' \in [Clients -> Stages] /\ m_lock' \in Clients \cup {None}
        /\ \A d \in Clients : m_lock' = d <=> thr'[d] = "decoding"
    BY <1>13, <1>c, ServerAssumption DEF Lock, Decode, BadPacket, Go, Stages
  <2> QED
    BY <1>13, <2>1 DEF Lock, Decode, BadPacket, Go, TypeOK
<1>14. ASSUME NEW c \in Clients,
              \/ GetData(c) \/ EndOfStream(c)
              \/ SetFinished(c) \/ Unlock(c) \/ ThreadMain(c) \/ ThreadGone(c)
       PROVE  TypeOK'
  BY <1>14, GoType DEF GetData, EndOfStream, SetFinished, Unlock, ThreadMain, ThreadGone, Stages
<1>15. CASE ReadHeader \/ Greet
  <2>1. pc \in {"header", "greet"} /\ pc' \in {"greet", "flags"}
    BY <1>15 DEF ReadHeader, Greet
  <2> QED
    BY <1>15, <2>1, ServerType DEF ReadHeader, Greet, TypeOK
<1>16. CASE AssertFinished
  <2>1. pc = "assert" /\ pc' \in {"delete", "assert failed"}
    BY <1>16 DEF AssertFinished
  <2> QED
    BY <1>16, <2>1, ServerType DEF AssertFinished, TypeOK
<1> QED
  BY <1>1, <1>2, <1>3, <1>4, <1>5, <1>6, <1>7, <1>8, <1>9, <1>10, <1>11, <1>12, <1>13, <1>14,
     <1>15, <1>16 DEF Next, ServerStep, ThreadStep

\* A running thread stays running or ends.
LEMMA GoLife ==
  ASSUME TypeOK, NoThreadYet, NEW c \in Clients,
         NEW from \in Stages \ {"none", "gone"}, NEW to, Go(c, from, to)
  PROVE  NoThreadYet'
  BY DEF Go, TypeOK, NoThreadYet, clients, server, objects

\* A step of main that starts no thread and opens no connection.
LEMMA QuietLife ==
  ASSUME NoThreadYet, UNCHANGED <<thr, net>>,
         \/ pc' \notin {"header", "greet", "flags"}
         \/ cur' = cur /\ pc \in {"header", "greet", "flags"}
  PROVE  NoThreadYet'
  BY DEF NoThreadYet

\* Every step keeps it.
LEMMA LifeStep == TypeOK /\ NoThreadYet /\ [Next]_vars => NoThreadYet'
<1> SUFFICES ASSUME TypeOK, NoThreadYet, [Next]_vars PROVE NoThreadYet'
  OBVIOUS
<1> USE DEF clients, server, objects
<1>a. pc \in {"header", "greet", "flags", "reap"} => cur \in Clients
  BY ServerAssumption DEF TypeOK
<1>1. CASE UNCHANGED vars
  BY <1>1 DEF vars, NoThreadYet
<1>2. ASSUME NEW c \in Clients, Connect(c) PROVE NoThreadYet'
  <2>1. \A d \in Clients : net'[d] = "accepted" <=> net[d] = "accepted"
    BY <1>2 DEF Connect, TypeOK
  <2>2. pc \in {"header", "greet", "flags"} => net'[cur] = "accepted"
    BY <1>a, <2>1 DEF NoThreadYet
  <2> QED
    BY <1>2, <2>1, <2>2 DEF Connect, NoThreadYet
<1>3. ASSUME NEW c \in Clients, SendHeader(c) \/ SendFlags(c) \/ GoDeaf(c) \/ HangUp(c)
      PROVE  NoThreadYet'
  BY <1>3 DEF SendHeader, SendFlags, GoDeaf, HangUp, NoThreadYet
<1>4. ASSUME NEW c \in Clients, Accept(c) PROVE NoThreadYet'
  BY <1>4 DEF Accept, TypeOK, NoThreadYet
<1>5. ASSUME NEW c \in Clients,
             ForceStop(c) \/ ReapRunning(c) \/ ReapFinished(c) \/ ReapFreed(c)
      PROVE  NoThreadYet'
  BY <1>5, QuietLife DEF ForceStop, ReapRunning, ReapFinished, ReapFreed
<1>6. CASE Reject \/ ExitServer \/ Insert \/ Stopped \/ ReadHeader \/ Greet
  BY <1>6, QuietLife DEF Reject, ExitServer, Insert, Stopped, ReadHeader, Greet
<1>7. CASE StartThread
  <2>1. cur \in Clients /\ net[cur] = "accepted"
    BY <1>7, <1>a DEF StartThread, NoThreadYet
  <2>2. \A d \in Clients : net[d] # "accepted" => thr'[d] = "none"
    BY <1>7, <2>1 DEF StartThread, TypeOK, NoThreadYet
  <2> QED
    BY <1>7, <2>2 DEF StartThread, NoThreadYet
<1>8. CASE StartFails \/ Deleted \/ Joined \/ AssertFinished
  BY <1>8, QuietLife DEF StartFails, Deleted, Joined, AssertFinished
<1>10. ASSUME NEW c \in Clients, Lock(c) \/ BadPacket(c) \/ GetData(c) \/ ThreadStep(c)
       PROVE  NoThreadYet'
  BY <1>10, GoLife DEF Lock, BadPacket, GetData, ThreadStep, EndOfStream, Decode,
                       SetFinished, Unlock, ThreadMain, ThreadGone, Stages
<1> QED
  BY <1>1, <1>2, <1>3, <1>4, <1>5, <1>6, <1>7, <1>8, <1>10 DEF Next, ServerStep

\* Types, the places the accept loop can be in, and the exclusion of m_lock:
\* while main reaps and stops threads, at most one render thread decodes.
THEOREM ServerTypeCorrect == Spec => []TypeOK
<1>1. TypeOK /\ NoThreadYet /\ [Next]_vars => (TypeOK /\ NoThreadYet)'
  BY TypeStep, LifeStep
<1> QED
  BY <1>1, TypeInit, PTL DEF Spec

-----------------------------------------------------------------------------
(* What main touches is not freed.                                          *)

\* main is in the destructor of the victim.
Deleting == pc \in {"assert", "delete", "assert failed"}

\* The life of a connection, its object and its stream.
Life(c) ==
    /\ net[c] # "accepted" => object[c] = "none" /\ streamDeletes[c] = 0 /\ c # cur
    /\ object[c] = "none" => thr[c] = "none" /\ streamDeletes[c] <= 1 /\ c \notin threads
    /\ object[c] = "alive" =>
         /\ thr[c] # "none"
         /\ streamDeletes[c] = IF Deleting /\ victim = c THEN 1 ELSE 0
    /\ object[c] = "freed" /\ thr[c] # "none" =>
         /\ streamDeletes[c] = 1 /\ c # cur
         /\ c \notin threads \/ (m_exiting /\ c \notin toVisit)
    /\ c = cur => /\ pc \in {"header", "greet", "flags"} => object[c] = "none" /\ streamDeletes[c] = 0
                  /\ pc \in {"reap", "assert", "delete"} => object[c] # "none" /\ c \notin threads
                  /\ ~m_exiting

\* main exits when it leaves its first loop.
AliveInv ==
    /\ m_exiting <=> pc \in {"join", "wait", "stopped"}
    /\ pc \in {"assert", "delete"} => object[victim] = "alive"
    /\ \A c \in Clients : Life(c)

\* A step that leaves all of this alone.
LEMMA AliveSame ==
  ASSUME AliveInv, UNCHANGED <<pc, cur, threads, toVisit, victim, m_exiting, object, streamDeletes>>,
         \A c \in Clients : /\ thr'[c] = "none" <=> thr[c] = "none"
                            /\ net'[c] = "accepted" <=> net[c] = "accepted"
  PROVE  AliveInv'
<1>1. ASSUME NEW c \in Clients PROVE Life(c)'
  <2>1. Life(c)
    BY DEF AliveInv
  <2> QED
    BY <2>1 DEF Life, Deleting
<1> QED
  BY <1>1 DEF AliveInv

\* A running thread stays one.
LEMMA AliveGo ==
  ASSUME TypeOK, AliveInv, NEW c \in Clients, NEW from, from # "none", NEW to, to # "none", Go(c, from, to)
  PROVE  AliveInv'
<1>1. \A d \in Clients : thr'[d] = "none" <=> thr[d] = "none"
  BY DEF Go, TypeOK
<1> QED
  BY <1>1, AliveSame DEF Go, clients, server, objects

\* Every step keeps the connections so.
LEMMA AliveStep ==
  ASSUME TypeOK, AliveInv, [Next]_vars
  PROVE  AliveInv'
<1> USE DEF clients, server, objects, Deleting
<1>a. cur \in Clients \cup {None} /\ victim \in Clients \cup {None} /\ None \notin Clients
      /\ (pc \in {"header", "greet", "flags", "reap", "assert", "delete"} => cur \in Clients)
      /\ (pc \in {"assert", "delete", "wait"} => victim \in toVisit) /\ toVisit \subseteq threads /\ threads \subseteq Clients
      /\ object \in [Clients -> {"none", "alive", "freed"}] /\ streamDeletes \in [Clients -> Nat]
      /\ thr \in [Clients -> Stages] /\ DOMAIN net = Clients
  BY ServerAssumption DEF TypeOK
<1>b. (m_exiting <=> pc \in {"join", "wait", "stopped"}) /\ (pc \in {"assert", "delete"} => object[victim] = "alive")
      /\ \A c \in Clients : Life(c)
  BY DEF AliveInv
<1>n. \A c \in Clients : c \in threads => object[c] \in {"alive", "freed"}
  BY <1>a, <1>b DEF Life
<1>1. CASE UNCHANGED vars
  BY <1>1, AliveSame DEF vars
<1>2. ASSUME NEW c \in Clients,
             Connect(c) \/ SendHeader(c) \/ SendFlags(c) \/ GoDeaf(c) \/ HangUp(c)
      PROVE  AliveInv'
  <2>1. \A d \in Clients : net'[d] = "accepted" <=> net[d] = "accepted"
    BY <1>2, <1>a DEF Connect, SendHeader, SendFlags, GoDeaf, HangUp
  <2> QED
    BY <1>2, <2>1, AliveSame DEF Connect, SendHeader, SendFlags, GoDeaf, HangUp
<1>3. ASSUME NEW c \in Clients, Accept(c) PROVE AliveInv'
  <2>1. /\ pc = "accept" /\ pc' = "header" /\ cur' = c /\ net[c] # "accepted" /\ ~m_exiting
        /\ UNCHANGED <<threads, toVisit, victim, m_exiting, object, streamDeletes, thr>>
    BY <1>3, <1>b DEF Accept
  <2>2. \A d \in Clients : d # c => net'[d] = net[d]
    BY <1>3, <1>a DEF Accept
  <2>3. net'[c] = "accepted" /\ object[c] = "none" /\ streamDeletes[c] = 0
    BY <1>3, <1>a, <1>b, <2>1 DEF Accept, Life
  <2>4. ASSUME NEW d \in Clients PROVE Life(d)'
    BY <1>b, <2>1, <2>2, <2>3 DEF Life
  <2> QED
    BY <1>b, <2>1, <2>4 DEF AliveInv
<1>4. CASE Reject \/ ExitServer
  <2>0. /\ pc \in {"header", "flags"} /\ cur \in Clients /\ cur' = None /\ ~m_exiting
        /\ streamDeletes' = [streamDeletes EXCEPT ![cur] = @ + 1]
        /\ UNCHANGED <<net, object, thr, threads, victim>>
    BY <1>4, <1>a, <1>b DEF Reject, BadOpening, ExitServer, DeleteStream
  <2>1. \/ pc' = "accept" /\ m_exiting' = m_exiting /\ toVisit' = toVisit
        \/ pc' = "join" /\ m_exiting' = TRUE /\ toVisit' = threads
    BY <1>4 DEF Reject, ExitServer
  <2>2. object[cur] = "none" /\ streamDeletes[cur] = 0 /\ net[cur] = "accepted"
    BY <1>b, <2>0 DEF Life
  <2>3. streamDeletes'[cur] = 1 /\ \A d \in Clients : d # cur => streamDeletes'[d] = streamDeletes[d]
    BY <1>a, <2>0, <2>2
  <2>4. ASSUME NEW d \in Clients PROVE Life(d)'
    <3>1. Life(d)
      BY <1>b
    <3>2. CASE d = cur
      BY <1>a, <2>0, <2>2, <2>3, <3>1, <3>2 DEF Life
    <3>3. CASE d # cur
      BY <1>a, <2>0, <2>1, <2>3, <3>1, <3>3 DEF Life
    <3> QED
      BY <3>2, <3>3
  <2> QED
    BY <2>0, <2>1, <2>4 DEF AliveInv
<1>5. CASE StartThread \/ StartFails
  <2>0. /\ pc = "flags" /\ pc' = "reap" /\ cur \in Clients /\ ~m_exiting
        /\ UNCHANGED <<net, cur, threads, victim, m_exiting>>
    BY <1>5, <1>a, <1>b DEF StartThread, StartFails
  <2>1. /\ object[cur] = "none" /\ streamDeletes[cur] = 0 /\ net[cur] = "accepted"
        /\ thr[cur] = "none" /\ cur \notin threads
    BY <1>b, <2>0 DEF Life
  <2>2. \A d \in Clients : d # cur =>
          object'[d] = object[d] /\ streamDeletes'[d] = streamDeletes[d] /\ thr'[d] = thr[d]
    BY <1>5, <1>a, <2>0 DEF StartThread, StartFails
  <2>3. \/ object'[cur] = "alive" /\ thr'[cur] = "reading" /\ streamDeletes'[cur] = 0
        \/ object'[cur] = "freed" /\ thr'[cur] = "none"
    <3>1. CASE StartThread
      BY <1>a, <2>0, <2>1, <3>1 DEF StartThread
    <3>2. CASE StartFails
      BY <1>a, <2>0, <2>1, <3>2 DEF StartFails
    <3> QED
      BY <1>5, <3>1, <3>2
  <2>4. ASSUME NEW d \in Clients PROVE Life(d)'
    <3>1. Life(d)
      BY <1>b
    <3>2. CASE d = cur
      BY <2>0, <2>1, <2>3, <3>2 DEF Life
    <3>3. CASE d # cur
      BY <2>0, <2>2, <3>1, <3>3 DEF Life
    <3> QED
      BY <3>2, <3>3
  <2> QED
    BY <2>0, <2>4 DEF AliveInv
<1>6. ASSUME NEW c \in Clients, ReapRunning(c) PROVE AliveInv'
  <2>1. /\ pc = "reap" /\ ~m_exiting
        /\ UNCHANGED <<pc, cur, net, threads, victim, m_exiting, object, streamDeletes, thr>>
    BY <1>6, <1>b DEF ReapRunning
  <2>2. ASSUME NEW d \in Clients PROVE Life(d)'
    BY <1>b, <2>1 DEF Life
  <2> QED
    BY <1>b, <2>1, <2>2 DEF AliveInv
<1>7. ASSUME NEW c \in Clients, ReapFinished(c) PROVE AliveInv'
  <2>1. /\ pc = "reap" /\ ~m_exiting /\ pc' = "assert" /\ victim' = c /\ c \in threads /\ object[c] = "alive"
        /\ streamDeletes' = [streamDeletes EXCEPT ![c] = @ + 1]
        /\ UNCHANGED <<cur, net, threads, toVisit, m_exiting, object, thr>>
    BY <1>7, <1>a, <1>b DEF ReapFinished, DeleteStream
  <2>2. streamDeletes[c] = 0 /\ c # cur
    BY <1>b, <2>1 DEF Life
  <2>3. streamDeletes'[c] = 1 /\ \A d \in Clients : d # c => streamDeletes'[d] = streamDeletes[d]
    BY <1>a, <2>1, <2>2
  <2>4. ASSUME NEW d \in Clients PROVE Life(d)'
    <3>1. Life(d)
      BY <1>b
    <3>2. CASE d = c
      BY <2>1, <2>2, <2>3, <3>1, <3>2 DEF Life
    <3>3. CASE d # c
      BY <2>1, <2>3, <3>1, <3>3 DEF Life
    <3> QED
      BY <3>2, <3>3
  <2> QED
    BY <2>1, <2>4 DEF AliveInv
<1>8. ASSUME NEW c \in Clients, ReapFreed(c) PROVE AliveInv'
  <2>1. /\ pc = "reap" /\ ~m_exiting /\ c \in threads /\ object[c] = "freed"
        /\ pc' \in {"reap", "double free"}
        /\ UNCHANGED <<cur, net, victim, m_exiting, object, thr>>
    BY <1>8, <1>a, <1>b DEF ReapFreed
  <2>2. threads' \subseteq threads /\ \A d \in Clients : d # c => streamDeletes'[d] = streamDeletes[d]
    BY <1>8, <1>a DEF ReapFreed, DeleteStream
  <2>3. thr[c] = "none" /\ net[c] = "accepted"
    BY <1>b, <2>1 DEF Life
  <2>4. ASSUME NEW d \in Clients PROVE Life(d)'
    <3>1. Life(d)
      BY <1>b
    <3>2. CASE d = c
      BY <2>1, <2>2, <2>3, <3>1, <3>2 DEF Life
    <3>3. CASE d # c
      BY <2>1, <2>2, <3>1, <3>3 DEF Life
    <3> QED
      BY <3>2, <3>3
  <2> QED
    BY <1>b, <2>1, <2>4 DEF AliveInv
<1>9. CASE Deleted
  <2>1. /\ pc = "delete" /\ ~m_exiting /\ pc' = "reap" /\ victim \in Clients /\ victim \in threads
        /\ thr[victim] = "gone" /\ object[victim] = "alive"
        /\ object' = [object EXCEPT ![victim] = "freed"] /\ threads' = threads \ {victim}
        /\ UNCHANGED <<cur, net, m_exiting, streamDeletes, thr>>
    BY <1>9, <1>a, <1>b DEF Deleted
  <2>2. object'[victim] = "freed" /\ \A d \in Clients : d # victim => object'[d] = object[d]
    BY <1>a, <2>1
  <2>3. streamDeletes[victim] = 1 /\ victim # cur /\ net[victim] = "accepted"
    BY <1>b, <2>1 DEF Life
  <2>4. ASSUME NEW d \in Clients PROVE Life(d)'
    <3>1. Life(d)
      BY <1>b
    <3>2. CASE d = victim
      BY <2>1, <2>2, <2>3, <3>1, <3>2 DEF Life
    <3>3. CASE d # victim
      BY <2>1, <2>2, <3>1, <3>3 DEF Life
    <3> QED
      BY <3>2, <3>3
  <2> QED
    BY <2>1, <2>4 DEF AliveInv
<1>10. CASE Insert
  <2>1. /\ pc = "reap" /\ ~m_exiting /\ pc' = "accept" /\ cur \in Clients /\ cur' = None
        /\ threads' = threads \cup {cur}
        /\ UNCHANGED <<net, toVisit, victim, m_exiting, object, streamDeletes, thr>>
    BY <1>10, <1>a, <1>b DEF Insert
  <2>2. ASSUME NEW d \in Clients PROVE Life(d)'
    <3>1. Life(d)
      BY <1>b
    <3>2. CASE d = cur
      BY <1>a, <2>1, <3>1, <3>2 DEF Life
    <3>3. CASE d # cur
      BY <1>a, <2>1, <3>1, <3>3 DEF Life
    <3> QED
      BY <3>2, <3>3
  <2> QED
    BY <2>1, <2>2 DEF AliveInv
<1>11. ASSUME NEW c \in Clients, ForceStop(c) PROVE AliveInv'
  <2>1. /\ pc = "join" /\ pc' = "wait" /\ m_exiting
        /\ UNCHANGED <<cur, net, threads, toVisit, m_exiting, object, streamDeletes, thr>>
    BY <1>11, <1>b DEF ForceStop
  <2>2. ASSUME NEW d \in Clients PROVE Life(d)'
    BY <1>b, <2>1 DEF Life
  <2> QED
    BY <2>1, <2>2 DEF AliveInv
<1>12. CASE Joined
  <2>1. /\ pc = "wait" /\ m_exiting /\ pc' = "join" /\ victim \in Clients /\ victim \in threads
        /\ victim \in toVisit /\ toVisit' = toVisit \ {victim}
        /\ object' = [object EXCEPT ![victim] = "freed"]
        /\ streamDeletes' = [streamDeletes EXCEPT ![victim] = @ + 1]
        /\ UNCHANGED <<cur, net, threads, m_exiting, thr>>
    BY <1>12, <1>a, <1>b DEF Joined, DeleteStream
  <2>2. object'[victim] = "freed" /\ streamDeletes'[victim] = streamDeletes[victim] + 1
        /\ \A d \in Clients : d # victim => object'[d] = object[d] /\ streamDeletes'[d] = streamDeletes[d]
    BY <1>a, <2>1
  <2>3. Life(victim) /\ object[victim] \in {"alive", "freed"}
    BY <1>b, <1>n, <2>1
  <2>4. net[victim] = "accepted" /\ victim # cur /\ (thr[victim] = "none" \/ streamDeletes[victim] = 0)
    BY <2>1, <2>3 DEF Life
  <2>5. ASSUME NEW d \in Clients PROVE Life(d)'
    <3>1. Life(d)
      BY <1>b
    <3>2. CASE d = victim
      BY <2>1, <2>2, <2>4, <3>2 DEF Life
    <3>3. CASE d # victim
      BY <2>1, <2>2, <3>1, <3>3 DEF Life
    <3> QED
      BY <3>2, <3>3
  <2> QED
    BY <2>1, <2>5 DEF AliveInv
<1>13. CASE Stopped
  <2>1. /\ pc = "join" /\ pc' = "stopped" /\ m_exiting /\ threads' = {}
        /\ UNCHANGED <<cur, net, toVisit, victim, m_exiting, object, streamDeletes, thr>>
    BY <1>13, <1>b DEF Stopped
  <2>2. ASSUME NEW d \in Clients PROVE Life(d)'
    BY <1>b, <2>1 DEF Life
  <2> QED
    BY <2>1, <2>2 DEF AliveInv
<1>14. ASSUME NEW c \in Clients, Lock(c) \/ BadPacket(c) \/ GetData(c) \/ ThreadStep(c) PROVE AliveInv'
  BY <1>14, AliveGo DEF Lock, BadPacket, GetData, ThreadStep, EndOfStream, Decode, SetFinished, Unlock,
     ThreadMain, ThreadGone
<1>15. CASE ReadHeader \/ Greet
  <2>1. /\ pc \in {"header", "greet"} /\ pc' \in {"greet", "flags"} /\ ~m_exiting
        /\ UNCHANGED <<cur, net, threads, toVisit, victim, m_exiting, object, streamDeletes, thr>>
    BY <1>15, <1>b DEF ReadHeader, Greet
  <2>2. ASSUME NEW d \in Clients PROVE Life(d)'
    BY <1>b, <2>1 DEF Life
  <2> QED
    BY <2>1, <2>2 DEF AliveInv
<1>16. CASE AssertFinished
  <2>1. /\ pc = "assert" /\ pc' \in {"delete", "assert failed"} /\ ~m_exiting
        /\ UNCHANGED <<cur, net, threads, toVisit, victim, m_exiting, object, streamDeletes, thr>>
    BY <1>16, <1>b DEF AssertFinished
  <2>2. ASSUME NEW d \in Clients PROVE Life(d)'
    BY <1>b, <2>1 DEF Life
  <2> QED
    BY <1>b, <2>1, <2>2 DEF AliveInv
<1> QED
  BY <1>1, <1>2, <1>3, <1>4, <1>5, <1>6, <1>7, <1>8, <1>9, <1>10, <1>11, <1>12, <1>13, <1>14, <1>15,
     <1>16 DEF Next, ServerStep

\* main never visits, joins or deletes the object of a thread that has run and was freed
\* already, and deletes no stream twice, for any number of clients that come, go and are
\* reaped while others are served, up to the join at exit.  (An object whose thread
\* could not be created is the exception: it stays in the set.)
THEOREM NothingFreedTwice == Spec => []ThreadsAlive
<1>1. Init => AliveInv
  <2> SUFFICES ASSUME Init PROVE AliveInv
    OBVIOUS
  <2>1. pc = "accept" /\ m_exiting = FALSE /\ cur \notin Clients /\ threads = {}
    BY ServerAssumption DEF Init
  <2>2. ASSUME NEW c \in Clients PROVE Life(c)
    BY <2>1 DEF Init, Life, Deleting
  <2> QED
    BY <2>1, <2>2 DEF AliveInv
<1>2. TypeOK /\ AliveInv /\ [Next]_vars => AliveInv'
  BY AliveStep
<1>3. TypeOK /\ AliveInv => ThreadsAlive
  <2> SUFFICES ASSUME TypeOK, AliveInv PROVE ThreadsAlive
    OBVIOUS
  <2>1. \A c \in Clients : Life(c) /\ object[c] \in {"none", "alive", "freed"} /\ streamDeletes[c] \in Nat
    BY DEF AliveInv, TypeOK
  <2>2. \A c \in threads : object[c] = "alive" \/ StartFailed(c) \/ (m_exiting /\ c \notin toVisit)
    <3>1. threads \subseteq Clients
      BY DEF TypeOK
    <3> QED
      BY <2>1, <3>1 DEF Life, StartFailed
  <2>3. ASSUME NEW c \in Clients PROVE streamDeletes[c] <= 1 \/ StartFailed(c)
    <3>1. CASE object[c] = "alive"
      BY <2>1, <3>1 DEF Life
    <3>2. CASE object[c] # "alive"
      BY <2>1, <3>2 DEF Life, StartFailed
    <3> QED
      BY <3>1, <3>2
  <2> QED
    BY <2>2, <2>3 DEF ThreadsAlive
<1> QED
  BY <1>1, <1>2, <1>3, ServerTypeCorrect, PTL DEF Spec

=============================================================================
