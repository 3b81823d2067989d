--------------------------- MODULE TCPServerProofs ---------------------------
(* Proofs about TCPServer for any set of connections and any bounds. *)
EXTENDS TCPServer, SequenceLemmas

(* A connection the server has not taken into its list yet. *)
Unserved(c) == \/ link[c] = "idle"
               \/ c \in backlog
               \/ acc = "push" /\ c = accConn

(* Threads run only for connections in the list, and a connection in the list *)
(* has its thread unless the acceptor is just about to start it.              *)
InvList ==
    /\ IsInjective(clients)
    /\ \A c \in Conns :
          cpc[c] \in {"loop", "blocked", "report", "notify", "exited"} =>
              c \in ToSet(clients)
    /\ \A c \in ToSet(clients) :
          /\ cpc[c] # "freed"
          /\ cpc[c] = "none" => acc = "launch" /\ c = accConn

(* Connections on their way into the list. *)
InvAccept ==
    /\ \A c \in Conns : Unserved(c) =>
          cpc[c] = "none" /\ c \notin ToSet(clients) /\ ~stopped[c]
    /\ \A c \in backlog : link[c] # "idle"
    /\ acc \in {"push", "launch"} =>
          /\ accConn \in Conns \ backlog
          /\ link[accConn] # "idle"
    /\ acc = "launch" =>
          /\ clients # <<>> /\ Last(clients) = accConn
          /\ cpc[accConn] = "none"

(* Who has stopped the connections in the list that are stopped. *)
InvStopped ==
    \A c \in ToSet(clients) : stopped[c] =>
        \/ tpc \in {"join", "erase"} /\ c = task
        \/ /\ mpc \in {"clients", "joinClient"}
           /\ \E j \in 1 .. Len(clients) :
                 /\ clients[j] = c
                 /\ j < mi \/ (mpc = "joinClient" /\ j = mi)

(* Removal tasks, and the iterator of the one that runs. *)
InvTasks ==
    mpc # "stopped" =>
        /\ IsInjective(tasks)
        /\ \A c \in ToSet(tasks) :
              c \in ToSet(clients) /\ cpc[c] \in {"notify", "exited"}
        /\ TasksWorking =>
              /\ task \in ToSet(clients) /\ task \notin ToSet(tasks)
              /\ cpc[task] \in {"notify", "exited"}
        /\ tpc \in {"stop", "join", "erase"} =>
              itr = 0 \/ (itr \in 1 .. Len(clients) /\ clients[itr] = task)
        /\ tpc = "erase" => cpc[task] = "exited"

(* What the main thread has waited for. *)
InvMain ==
    /\ mpc = "init" => acc = "off" /\ tpc = "off"
    /\ mpc \in {"notify", "joinTasks", "clients", "joinClient", "stopped"} =>
          acc = "done"
    /\ mpc \in {"clients", "joinClient", "stopped"} => tpc = "done"
    /\ mpc = "joinClient" => mi <= Len(clients)
    /\ mpc \in {"clients", "joinClient"} =>
          \A j \in 1 .. Len(clients) : j < mi => cpc[clients[j]] = "exited"
    /\ mpc = "stopped" => clients = <<>>

(* The writer has a message, and a target while it sends the body. *)
InvWriter ==
    /\ wpc # "idle" => wmsg > 0
    /\ wpc = "body" => wto \in Conns

Owned == InvList /\ InvAccept /\ InvStopped /\ InvTasks /\ InvMain

IInv == TypeOK /\ InvWriter /\ Owned

-----------------------------------------------------------------------------
(* The invariant holds before start(). *)
LEMMA InitInv == Init => IInv
  <1> SUFFICES ASSUME Init PROVE IInv
    OBVIOUS
  <1>1. TypeOK
    <2>1. wire \in [Conns -> Seq(Parts)]
      BY DEF Init
    <2>2. inbox \in [Conns -> 0 .. MaxInbound] /\ wmsg \in 0 .. MaxMessages
      BY TCPAssumption DEF Init
    <2>3. /\ cpc \in [Conns -> ConnSteps] /\ link \in [Conns -> LinkStates]
          /\ mpc \in MainSteps /\ acc \in AcceptorSteps /\ tpc \in TasksSteps
      BY DEF Init, ConnSteps, LinkStates, MainSteps, AcceptorSteps, TasksSteps
    <2>4. /\ proc \in {"up", "terminated", "undefined"}
          /\ mi \in Nat \ {0} /\ wi \in Nat \ {0} /\ itr \in Nat
      BY DEF Init
    <2>5. /\ isRunning \in BOOLEAN /\ stopTask \in BOOLEAN
          /\ disturbed \in BOOLEAN
      BY DEF Init
    <2>6. stopped \in [Conns -> BOOLEAN]
      BY DEF Init
    <2>7. /\ accConn = NoConn /\ task = NoConn /\ wto = NoConn
          /\ backlog = {} /\ audience = {} /\ wpc = "idle"
      BY DEF Init
    <2>8. clients \in Seq(Conns) /\ tasks \in Seq(Conns)
      BY DEF Init
    <2> QED BY <2>1, <2>2, <2>3, <2>4, <2>5, <2>6, <2>7, <2>8
      DEF TypeOK
  <1>2. clients \in Seq(Conns) /\ tasks \in Seq(Conns)
    BY <1>1 DEF TypeOK
  <1>3. /\ \A x : x \notin ToSet(clients) /\ x \notin ToSet(tasks)
        /\ IsInjective(clients) /\ IsInjective(tasks)
    BY DEF Init, ToSet, IsInjective
  <1>4. InvList /\ InvAccept /\ InvStopped /\ InvTasks /\ InvMain /\ InvWriter
    BY <1>3 DEF Init, InvList, InvAccept, Unserved, InvStopped, InvTasks,
                InvMain, InvWriter, TasksWorking
  <1> QED BY <1>1, <1>4 DEF IInv, Owned

-----------------------------------------------------------------------------
(* Every step keeps the types: one lemma per thread. *)

(* The steps of start() and stop(). *)
LEMMA TypeMain ==
    ASSUME TypeOK, Start \/ StopBegin \/ Stopping, UNCHANGED notMain
    PROVE  TypeOK'
  <1> USE DEF TypeOK, notMain, listVars, mainVars, accVars, taskVars, sockVars,
              writeVars
  <1>1. CASE Start
    BY <1>1 DEF Start, MainSteps, AcceptorSteps, TasksSteps
  <1>2. CASE StopBegin
    BY <1>2 DEF StopBegin, MainSteps
  <1>3. CASE StopFlag
    BY <1>3 DEF StopFlag, MainSteps
  <1>4. CASE StopNotify
    BY <1>4 DEF StopNotify, NotifyTasks, MainSteps, TasksSteps
  <1>5. CASE StopTasksJoined
    BY <1>5 DEF StopTasksJoined, MainSteps
  <1>6. CASE StopClient
    <2>1. stopped' \in [Conns -> BOOLEAN]
      BY ONLY TypeOK, <1>6 DEF StopClient, TypeOK
    <2>2. mpc' \in MainSteps /\ UNCHANGED <<listVars, mi, isRunning, stopTask, acc, tpc>>
      BY <1>6 DEF StopClient, MainSteps
    <2> QED BY SMTT(30), <2>1, <2>2
  <1>7. CASE StopClientJoined
    <2>1. mpc' \in MainSteps /\ mi' \in Nat \ {0}
      BY ONLY TypeOK, <1>7 DEF StopClientJoined, MainSteps, TypeOK
    <2>2. UNCHANGED <<listVars, isRunning, stopTask, acc, tpc, stopped>>
      BY <1>7 DEF StopClientJoined
    <2> QED BY SMTT(30), <2>1, <2>2
  <1>8. CASE StopClear
    BY <1>8 DEF StopClear, Destroy, Mutated, MainSteps, ConnSteps, LinkStates
  <1> QED BY <1>1, <1>2, <1>3, <1>4, <1>5, <1>6, <1>7, <1>8 DEF Stopping

(* The acceptor pushes a connection only when it has accepted one. *)
LEMMA TypeAcceptor ==
    ASSUME TypeOK, InvAccept, Acceptor PROVE TypeOK'
  <1> USE DEF TypeOK, notAcc, listVars, mainVars, accVars, taskVars, sockVars,
              writeVars
  <1>0. UNCHANGED notAcc
    BY DEF Acceptor
  <1>1. CASE AcceptorCheck
    BY <1>0, <1>1 DEF AcceptorCheck, AcceptorSteps
  <1>2. CASE AcceptorAccept
    BY <1>0, <1>2 DEF AcceptorAccept, AcceptorSteps
  <1>3. CASE AcceptorFails
    BY <1>0, <1>3 DEF AcceptorFails, AcceptorSteps
  <1>4. CASE AcceptorPush
    BY <1>0, <1>4 DEF AcceptorPush, PushBack, Mutated, InvAccept, AcceptorSteps
  <1>5. CASE AcceptorLaunch
    <2>1. cpc' \in [Conns -> ConnSteps]
      BY ONLY TypeOK, <1>5 DEF AcceptorLaunch, ConnSteps, TypeOK
    <2>2. acc' \in AcceptorSteps /\ UNCHANGED <<proc, clients, accConn, backlog, itr>>
      BY <1>5 DEF AcceptorLaunch, AcceptorSteps
    <2> QED BY SMTT(30), <1>0, <2>1, <2>2
  <1> QED BY <1>1, <1>2, <1>3, <1>4, <1>5 DEF Acceptor

(* The tasks thread: its iterator points into the list when it is used. *)
LEMMA TypeTasks ==
    ASSUME TypeOK, InvTasks, InvMain, Tasks \/ (TasksSpuriousWakeup /\ UNCHANGED notTasks)
    PROVE  TypeOK'
  <1> USE DEF TypeOK, notTasks, listVars, mainVars, accVars, taskVars, sockVars,
              writeVars
  <1>0. UNCHANGED notTasks
    BY DEF Tasks
  <1>1. CASE TasksTake
    <2>1. CASE tasks # <<>>
      <3>1. Head(tasks) \in Conns /\ Tail(tasks) \in Seq(Conns)
        BY <2>1
      <3>2. /\ task' = Head(tasks) /\ tasks' = Tail(tasks) /\ tpc' = "find"
            /\ UNCHANGED <<listVars, itr, stopped>>
        BY <1>1, <2>1 DEF TasksTake
      <3> QED BY SMTT(30), <1>0, <3>1, <3>2 DEF TasksSteps
    <2>2. CASE tasks = <<>>
      <3>1. /\ tpc' \in {"done", "park"}
            /\ UNCHANGED <<listVars, itr, stopped, tasks, task>>
        BY <1>1, <2>2 DEF TasksTake
      <3> QED BY <1>0, <3>1 DEF TasksSteps
    <2> QED BY <2>1, <2>2
  <1>2. CASE TasksSleep
    BY <1>0, <1>2 DEF TasksSleep, TasksSteps
  <1>3. CASE TasksSpuriousWakeup
    BY <1>0, <1>3 DEF TasksSpuriousWakeup, TasksSteps
  <1>4. CASE TasksFind
    <2>1. itr' \in Nat
      <3>1. CASE task \in ToSet(clients)
        <4>1. \E i \in DOMAIN clients : clients[i] = task
          BY <3>1 DEF ToSet
        <4>2. itr' \in DOMAIN clients
          BY <1>4, <3>1, <4>1 DEF TasksFind
        <4> QED BY SMTT(30), <4>2
      <3>2. CASE task \notin ToSet(clients)
        BY <1>4, <3>2 DEF TasksFind
      <3> QED BY <3>1, <3>2
    <2>2. /\ tpc' \in {"stop", "lock"} /\ proc' \in {proc, "terminated"}
          /\ UNCHANGED <<clients, cpc, link, disturbed, tasks, task, stopped>>
      BY <1>4 DEF TasksFind
    <2> QED BY <1>0, <2>1, <2>2 DEF TasksSteps
  <1>5. CASE TasksStop
    <2>1. stopped' \in [Conns -> BOOLEAN]
      BY ONLY TypeOK, <1>5 DEF TasksStop, TypeOK
    <2>2. /\ tpc' \in TasksSteps /\ proc' \in {proc, "undefined"}
          /\ UNCHANGED <<clients, cpc, link, disturbed, tasks, task, itr>>
      BY <1>5 DEF TasksStop, TasksSteps
    <2> QED BY SMTT(30), <1>0, <2>1, <2>2
  <1>6. CASE TasksJoined
    BY <1>0, <1>6 DEF TasksJoined, TasksSteps
  <1>7. CASE TasksErase
    <2>1. CASE itr = 0
      BY <1>0, <1>7, <2>1 DEF TasksErase
    <2>2. CASE itr # 0
      <3>1. itr \in 1 .. Len(clients)
        BY <1>7, <2>2 DEF TasksErase, InvTasks, InvMain
      <3>2. RemoveAt(clients, itr) \in Seq(Conns)
        BY <3>1, RemoveAtShifts
      <3>3. /\ proc' \in {"up", "undefined"} /\ clients' \in Seq(Conns)
            /\ tpc' = "lock" /\ itr' = 0 /\ disturbed' \in BOOLEAN
            /\ cpc' = [c \in Conns |-> IF c \in {clients[itr]} THEN "freed" ELSE cpc[c]]
            /\ link' = [c \in Conns |-> IF c \in {clients[itr]} THEN "gone" ELSE link[c]]
            /\ UNCHANGED <<tasks, task, stopped>>
        BY <1>7, <2>2, <3>2 DEF TasksErase, Mutated, Destroy
      <3> QED BY <1>0, <3>3 DEF TasksSteps, ConnSteps, LinkStates
    <2> QED BY <2>1, <2>2
  <1> QED BY <1>1, <1>2, <1>3, <1>4, <1>5, <1>6, <1>7 DEF Tasks

(* The thread of a connection. *)
LEMMA TypeConn ==
    ASSUME TypeOK, NEW c \in Conns, Conn(c) PROVE TypeOK'
  <1> USE DEF TypeOK, notConn, listVars, mainVars, accVars, taskVars, sockVars,
              writeVars
  <1>0. UNCHANGED notConn
    BY DEF Conn
  <1>1. CASE ConnCheck(c)
    <2>1. cpc' \in [Conns -> ConnSteps]
      BY ONLY TypeOK, <1>1 DEF ConnCheck, ConnSteps, TypeOK
    <2> QED BY SMTT(30), <1>0, <1>1, <2>1 DEF ConnCheck
  <1>2. CASE ConnReceive(c)
    <2>1. cpc' \in [Conns -> ConnSteps] /\ UNCHANGED <<tpc, tasks>>
      BY ONLY TypeOK, <1>2 DEF ConnReceive, ConnSteps, TypeOK
    <2>2. inbox' \in [Conns -> 0 .. MaxInbound]
      <3>1. /\ inbox' = [inbox EXCEPT ![c] = inbox[c] - 1] /\ inbox[c] > 0
            /\ inbox \in [Conns -> 0 .. MaxInbound] /\ MaxInbound \in Nat
        BY ONLY TypeOK, <1>2, TCPAssumption DEF ConnReceive, MessageWaits, TypeOK
      <3>2. inbox[c] - 1 \in 0 .. MaxInbound
        BY ONLY <3>1, c \in Conns
      <3> QED BY ONLY <3>1, <3>2
    <2> QED BY SMTT(30), <1>0, <2>1, <2>2
  <1>3. CASE ConnFails(c)
    BY SMTT(30), <1>0, <1>3 DEF ConnFails, ConnSteps
  <1>4. CASE ConnReport(c)
    BY <1>0, <1>4 DEF ConnReport, ConnSteps
  <1>5. CASE ConnNotify(c)
    BY <1>0, <1>5 DEF ConnNotify, NotifyTasks, EndThread, ConnSteps, TasksSteps
  <1> QED BY <1>1, <1>2, <1>3, <1>4, <1>5 DEF Conn

(* The writer has begun a call whenever it sends. *)
LEMMA TypeWriter ==
    ASSUME TypeOK, InvWriter, Writing \/ (WriteCall /\ UNCHANGED notWriter)
    PROVE  TypeOK' /\ InvWriter'
  <1> USE DEF TypeOK, InvWriter, notWriter, listVars, mainVars, accVars, taskVars,
              sockVars, writeVars
  <1>0. UNCHANGED notWriter
    BY DEF Writing
  <1>1. CASE WriteCall
    <2>1. ToSet(clients) \subseteq Conns
      BY ToSetElements
    <2>2. /\ wmsg' \in 0 .. MaxMessages /\ wmsg' > 0 /\ wi' = 1
          /\ wpc' \in {"idle", "size"}
          /\ audience' = ToSet(clients) /\ UNCHANGED <<proc, wto, wire>>
      BY <1>1, TCPAssumption DEF WriteCall
    <2>3. disturbed' \in BOOLEAN
      BY <1>1 DEF WriteCall
    <2>4. InvWriter'
      BY <2>2
    <2>5. TypeOK'
      BY <1>0, <2>1, <2>2, <2>3
    <2> QED BY <2>4, <2>5
  <1>2. CASE WriteSize
    BY <1>0, <1>2 DEF WriteSize
  <1>3. CASE WriteThrows
    BY <1>0, <1>3 DEF WriteThrows
  <1>4. CASE WriteHeader
    <2>1. <<"header", wmsg>> \in Parts
      BY <1>4, TCPAssumption DEF WriteHeader, Parts
    <2>2. clients[wi] \in Conns
      BY <1>4 DEF WriteHeader
    <2>3. wire' \in [Conns -> Seq(Parts)]
      BY <1>4, <2>1, <2>2 DEF WriteHeader, Send
    <2> QED BY <1>0, <1>4, <2>2, <2>3 DEF WriteHeader
  <1>5. CASE WriteBody
    <2>1. <<"body", wmsg>> \in Parts
      BY <1>5, TCPAssumption DEF WriteBody, Parts
    <2>2. wire' \in [Conns -> Seq(Parts)]
      BY <1>5, <2>1 DEF WriteBody, Send
    <2> QED BY <1>0, <1>5, <2>2 DEF WriteBody
  <1>6. CASE WriteUndefined
    BY <1>0, <1>6 DEF WriteUndefined
  <1> QED BY <1>1, <1>2, <1>3, <1>4, <1>5, <1>6 DEF Writing

(* The peers and the kernel. *)
LEMMA TypePeer ==
    ASSUME TypeOK, NEW c \in Conns, Peer(c) PROVE TypeOK'
  <1> USE DEF TypeOK, notPeer, listVars, mainVars, accVars, taskVars, sockVars,
              writeVars
  <1>0. UNCHANGED notPeer
    BY DEF Peer
  <1>1. CASE Connect(c)
    <2>1. link' \in [Conns -> LinkStates] /\ backlog' \subseteq Conns
      BY ONLY TypeOK, <1>1, c \in Conns DEF Connect, LinkStates, TypeOK
    <2> QED BY SMTT(30), <1>0, <1>1, <2>1 DEF Connect
  <1>2. CASE PeerSend(c)
    <2>1. /\ inbox' = [inbox EXCEPT ![c] = inbox[c] + 1] /\ inbox[c] < MaxInbound
          /\ inbox \in [Conns -> 0 .. MaxInbound] /\ MaxInbound \in Nat
          /\ UNCHANGED <<link, backlog>>
      BY ONLY TypeOK, <1>2, TCPAssumption DEF PeerSend, TypeOK
    <2>2. inbox[c] + 1 \in 0 .. MaxInbound
      BY ONLY <2>1, c \in Conns
    <2>3. inbox' \in [Conns -> 0 .. MaxInbound]
      BY ONLY <2>1, <2>2
    <2> QED BY SMTT(30), <1>0, <2>1, <2>3
  <1>3. CASE PeerLeave(c)
    <2>1. link' \in [Conns -> LinkStates] /\ UNCHANGED <<backlog, inbox>>
      BY ONLY TypeOK, <1>3 DEF PeerLeave, LinkStates, TypeOK
    <2> QED BY SMTT(30), <1>0, <2>1
  <1> QED BY <1>1, <1>2, <1>3 DEF Peer
-----------------------------------------------------------------------------
(* Every step keeps the rest of the invariant: one lemma per thread. *)

(* start() and stop(): what stop() has joined stays ended, and the list it *)
(* clears was stopped from its first element to its last.                  *)
LEMMA OwnedMain ==
    ASSUME IInv, Start \/ StopBegin \/ Stopping, UNCHANGED notMain
    PROVE  Owned'
  <1> USE DEF IInv, TypeOK, Owned, InvList, InvAccept, Unserved, InvStopped,
              InvTasks, InvMain, TasksWorking,
              notMain, listVars, mainVars, accVars, taskVars, sockVars, writeVars
  <1>1. CASE Start
    BY <1>1 DEF Start
  <1>2. CASE StopBegin
    BY <1>2 DEF StopBegin
  <1>3. CASE StopFlag
    BY <1>3 DEF StopFlag, AcceptorEnded
  <1>4. CASE StopNotify
    BY <1>4 DEF StopNotify, NotifyTasks
  <1>5. CASE StopTasksJoined
    BY <1>5 DEF StopTasksJoined, TasksEnded
  <1>6. CASE StopClient
    <2>1. clients[mi] \in ToSet(clients)
      BY <1>6, ToSetElements DEF StopClient
    <2>2. InvList' /\ InvTasks' /\ InvMain'
      BY <1>6 DEF StopClient
    <2>3. InvAccept'
      BY SMTT(30), <1>6, <2>1 DEF StopClient
    <2>4. ASSUME NEW c \in ToSet(clients), stopped'[c]
          PROVE  \E j \in 1 .. Len(clients) : clients[j] = c /\ j <= mi
      <3>1. CASE c = clients[mi]
        BY <1>6, <3>1 DEF StopClient
      <3>2. CASE c # clients[mi]
        <4>1. stopped[c]
          BY <1>6, <2>4, <3>2 DEF StopClient
        <4> QED BY <1>6, <4>1 DEF StopClient
      <3> QED BY <3>1, <3>2
    <2>5. InvStopped'
      BY <1>6, <2>4 DEF StopClient
    <2> QED BY <2>2, <2>3, <2>5
  <1>7. CASE StopClientJoined
    BY SMTT(30), <1>7 DEF StopClientJoined, ConnEnded
  <1>8. CASE StopClear
    <2>1. /\ clients' = <<>> /\ mpc' = "stopped"
          /\ UNCHANGED <<acc, accConn, backlog, tpc, stopped>>
          /\ acc = "done" /\ tpc = "done"
      BY <1>8 DEF StopClear
    <2>2. \A x : x \notin ToSet(clients')
      BY <2>1 DEF ToSet
    <2>3. IsInjective(clients')
      BY <2>1 DEF IsInjective
    <2>4. \A c \in Conns :
             /\ c \in ToSet(clients) => cpc'[c] = "freed" /\ link'[c] = "gone"
             /\ c \notin ToSet(clients) => cpc'[c] = cpc[c] /\ link'[c] = link[c]
      BY <1>8 DEF StopClear, Destroy
    <2>5. InvList'
      BY <2>2, <2>3, <2>4
    <2>6. InvAccept'
      BY SMTT(30), <2>1, <2>2, <2>4
    <2>7. InvStopped' /\ InvTasks' /\ InvMain'
      BY <2>1, <2>2
    <2> QED BY <2>5, <2>6, <2>7
  <1> QED BY <1>1, <1>2, <1>3, <1>4, <1>5, <1>6, <1>7, <1>8 DEF Stopping

(* A connection the acceptor pushes was in no list, and is the last of its own. *)
LEMMA OwnedAcceptor ==
    ASSUME IInv, Acceptor PROVE Owned'
  <1> USE DEF IInv, TypeOK, Owned, InvList, InvAccept, Unserved, InvStopped,
              InvTasks, InvMain, TasksWorking,
              notAcc, listVars, mainVars, accVars, taskVars, sockVars, writeVars
  <1>0. UNCHANGED notAcc
    BY DEF Acceptor
  <1>1. CASE AcceptorCheck
    BY <1>0, <1>1 DEF AcceptorCheck
  <1>2. CASE AcceptorAccept
    BY SMTT(30), <1>0, <1>2 DEF AcceptorAccept
  <1>3. CASE AcceptorFails
    BY <1>0, <1>3 DEF AcceptorFails
  <1>4. CASE AcceptorPush
    <2>1. /\ accConn \in Conns \ ToSet(clients) /\ accConn \notin backlog
          /\ cpc[accConn] = "none" /\ ~stopped[accConn]
          /\ link[accConn] # "idle"
      BY <1>4 DEF AcceptorPush
    <2>2. /\ acc = "push" /\ acc' = "launch" /\ itr' \in {itr, 0}
          /\ clients' = Append(clients, accConn)
          /\ UNCHANGED <<cpc, accConn, backlog>>
      BY <1>4 DEF AcceptorPush, PushBack
    <2>3. /\ clients' # <<>> /\ Last(clients') = accConn
          /\ ToSet(clients') = ToSet(clients) \cup {accConn}
          /\ IsInjective(clients')
          /\ Len(clients') = Len(clients) + 1
          /\ \A i \in 1 .. Len(clients) : clients'[i] = clients[i]
      <3>1. clients \in Seq(Conns) /\ IsInjective(clients)
        OBVIOUS
      <3> HIDE DEF IInv, TypeOK, Owned, InvList, InvAccept, InvStopped,
                   InvTasks, InvMain
      <3>2. /\ clients' # <<>> /\ Last(clients') = accConn
            /\ ToSet(clients') = ToSet(clients) \cup {accConn}
            /\ Len(clients') = Len(clients) + 1
            /\ \A i \in 1 .. Len(clients) : clients'[i] = clients[i]
        BY <2>1, <2>2, <3>1, AppendAdds
      <3>3. IsInjective(clients')
        BY <2>1, <2>2, <3>1, AppendKeepsInjective
      <3> QED BY <3>2, <3>3
    <2>4. InvList'
      BY <1>0, <2>1, <2>2, <2>3
    <2>5. InvAccept'
      BY <1>0, <2>1, <2>2, <2>3
    <2>6. InvStopped'
      <3> SUFFICES ASSUME NEW c \in ToSet(clients'), stopped'[c]
                   PROVE  tpc' \in {"join", "erase"} /\ c = task'
        OBVIOUS
      <3>1. c \in ToSet(clients) /\ stopped[c]
        BY <1>0, <2>1, <2>3
      <3>2. mpc \notin {"clients", "joinClient"}
        BY <2>2
      <3> QED BY <1>0, <3>1, <3>2
    <2>7. InvTasks'
      <3> SUFFICES ASSUME mpc # "stopped" PROVE InvTasks'
        BY <1>0
      <3>1. /\ IsInjective(tasks')
            /\ \A c \in ToSet(tasks') :
                  c \in ToSet(clients') /\ cpc'[c] \in {"notify", "exited"}
        BY <1>0, <2>2, <2>3
      <3>2. TasksWorking' =>
               /\ task' \in ToSet(clients') /\ task' \notin ToSet(tasks')
               /\ cpc'[task'] \in {"notify", "exited"}
        BY <1>0, <2>2, <2>3
      <3>3. tpc' \in {"stop", "join", "erase"} =>
               itr' = 0 \/ (itr' \in 1 .. Len(clients') /\ clients'[itr'] = task')
        BY SMTT(30), <1>0, <2>2, <2>3
      <3>4. tpc' = "erase" => cpc'[task'] = "exited"
        BY <1>0, <2>2
      <3> QED BY <3>1, <3>2, <3>3, <3>4
    <2>8. InvMain'
      BY <1>0, <2>2
    <2> QED BY <2>4, <2>5, <2>6, <2>7, <2>8
  <1>5. CASE AcceptorLaunch
    <2>1. /\ accConn \in Conns \ backlog /\ link[accConn] # "idle"
          /\ cpc[accConn] = "none" /\ accConn \in ToSet(clients)
      <3>1. accConn = clients[Len(clients)] /\ Len(clients) \in 1 .. Len(clients)
        BY <1>5 DEF AcceptorLaunch, Last
      <3> QED BY <1>5, <3>1, ToSetElements DEF AcceptorLaunch
    <2>2. /\ acc = "launch" /\ acc' = "check"
          /\ cpc' = [cpc EXCEPT ![accConn] = "loop"]
          /\ UNCHANGED <<clients, accConn, backlog, itr>>
      BY <1>5 DEF AcceptorLaunch
    <2>3. InvList'
      BY SMTT(30), <1>0, <2>1, <2>2
    <2>4. InvAccept' /\ InvStopped'
      BY SMTT(30), <1>0, <2>1, <2>2
    <2>5. InvTasks'
      BY SMTT(30), <1>0, <2>1, <2>2
    <2>6. InvMain'
      BY <1>0, <2>2
    <2> QED BY <2>3, <2>4, <2>5, <2>6
  <1> QED BY <1>1, <1>2, <1>3, <1>4, <1>5 DEF Acceptor

(* The tasks thread removes exactly the connection its task names, and only *)
(* when the thread of that connection has ended.                            *)
LEMMA OwnedTasks ==
    ASSUME IInv, Tasks \/ (TasksSpuriousWakeup /\ UNCHANGED notTasks)
    PROVE  Owned'
  <1> USE DEF IInv, TypeOK, Owned, InvList, InvAccept, Unserved, InvStopped,
              InvTasks, InvMain, TasksWorking,
              notTasks, listVars, mainVars, accVars, taskVars, sockVars, writeVars
  <1>0. UNCHANGED notTasks
    BY DEF Tasks
  <1>1. CASE TasksTake
    <2>1. CASE tasks # <<>>
      <3>1. /\ task' = Head(tasks) /\ tasks' = Tail(tasks) /\ tpc' = "find"
            /\ tpc = "lock" /\ UNCHANGED <<clients, cpc, link, itr, stopped>>
        BY <1>1, <2>1 DEF TasksTake
      <3>2. /\ ToSet(tasks) = ToSet(tasks') \cup {task'}
            /\ IsInjective(tasks) =>
                  IsInjective(tasks') /\ task' \notin ToSet(tasks')
        BY <2>1, <3>1, TailDrops
      <3>3. InvTasks'
        BY <1>0, <3>1, <3>2
      <3>4. InvList' /\ InvAccept' /\ InvStopped' /\ InvMain'
        BY <1>0, <3>1
      <3> QED BY <3>3, <3>4
    <2>2. CASE tasks = <<>>
      BY <1>0, <1>1, <2>2 DEF TasksTake
    <2> QED BY <2>1, <2>2
  <1>2. CASE TasksSleep
    BY <1>0, <1>2 DEF TasksSleep
  <1>3. CASE TasksSpuriousWakeup
    BY <1>0, <1>3 DEF TasksSpuriousWakeup
  <1>4. CASE TasksFind
    BY SMTT(30), <1>0, <1>4 DEF TasksFind
  <1>5. CASE TasksStop
    <2>1. CASE itr = 0
      BY <1>0, <1>5, <2>1 DEF TasksStop
    <2>2. CASE itr # 0
      <3>1. /\ clients[itr] = task /\ task \in ToSet(clients)
            /\ mpc \notin {"clients", "joinClient", "stopped"}
        BY <1>5, <2>2 DEF TasksStop
      <3>2. /\ stopped' = [stopped EXCEPT ![task] = TRUE]
            /\ tpc = "stop" /\ tpc' = "join"
            /\ UNCHANGED <<clients, cpc, link, tasks, task, itr>>
        BY <1>5, <2>2, <3>1 DEF TasksStop
      <3>3. InvList' /\ InvTasks' /\ InvMain'
        BY <1>0, <3>1, <3>2
      <3>4. InvAccept' /\ InvStopped'
        BY <1>0, <3>1, <3>2
      <3> QED BY <3>3, <3>4
    <2> QED BY <2>1, <2>2
  <1>6. CASE TasksJoined
    BY <1>0, <1>6 DEF TasksJoined, ConnEnded
  <1>7. CASE TasksErase
    <2>1. CASE itr = 0
      BY <1>0, <1>7, <2>1 DEF TasksErase
    <2>2. CASE itr # 0
      <3>1. /\ itr \in 1 .. Len(clients) /\ clients[itr] = task
            /\ task \in ToSet(clients) /\ task \notin ToSet(tasks)
            /\ cpc[task] = "exited"
            /\ mpc \notin {"clients", "joinClient", "stopped"}
        BY <1>7, <2>2 DEF TasksErase
      <3>2. /\ clients' = RemoveAt(clients, itr)
            /\ tpc = "erase" /\ tpc' = "lock" /\ itr' = 0
            /\ UNCHANGED <<tasks, task, stopped>>
        BY <1>7, <2>2 DEF TasksErase
      <3>3. /\ cpc' = [c \in Conns |-> IF c = task THEN "freed" ELSE cpc[c]]
            /\ link' = [c \in Conns |-> IF c = task THEN "gone" ELSE link[c]]
        BY <1>7, <2>2, <3>1 DEF TasksErase, Destroy
      <3>4. /\ IsInjective(clients') /\ ToSet(clients') = ToSet(clients) \ {task}
            /\ Len(clients') = Len(clients) - 1
            /\ \A j \in 1 .. Len(clients) - 1 :
                  clients'[j] = IF j < itr THEN clients[j] ELSE clients[j + 1]
        <4>1. clients \in Seq(Conns) /\ IsInjective(clients)
          OBVIOUS
        <4> HIDE DEF IInv, TypeOK, Owned, InvList, InvAccept, InvStopped,
                     InvTasks, InvMain
        <4>2. IsInjective(clients') /\ ToSet(clients') = ToSet(clients) \ {task}
          BY <3>1, <3>2, <4>1, RemoveAtRemoves
        <4>3. /\ Len(clients') = Len(clients) - 1
              /\ \A j \in 1 .. Len(clients) - 1 :
                    clients'[j] = IF j < itr THEN clients[j] ELSE clients[j + 1]
          BY <3>1, <3>2, <4>1, RemoveAtShifts
        <4> QED BY <4>2, <4>3
      <3>5. InvList'
        <4>1. \A c \in Conns :
                 cpc'[c] \in {"loop", "blocked", "report", "notify", "exited"} =>
                    c \in ToSet(clients')
          BY <3>3, <3>4
        <4>2. \A c \in ToSet(clients') :
                 cpc'[c] # "freed" /\ (cpc'[c] = "none" => acc = "launch" /\ c = accConn)
          <5>1. ToSet(clients) \subseteq Conns
            BY ToSetElements
          <5> QED BY <3>3, <3>4, <5>1
        <4> QED BY <1>0, <3>4, <4>1, <4>2
      <3>6. acc = "launch" => clients' # <<>> /\ Last(clients') = accConn
        <4> SUFFICES ASSUME acc = "launch"
                     PROVE  clients' # <<>> /\ Last(clients') = accConn
          OBVIOUS
        <4>1. clients[Len(clients)] = accConn /\ accConn # task
          BY <3>1 DEF Last
        <4>2. itr < Len(clients)
          BY <3>1, <4>1
        <4>3. Len(clients') = Len(clients) - 1 /\ Len(clients') >= 1
          BY <3>1, <3>4, <4>2
        <4>4. clients'[Len(clients')] = clients[Len(clients)]
          <5>1. Len(clients) \in Nat /\ itr \in Nat
            OBVIOUS
          <5>2. Len(clients) - 1 \in 1 .. Len(clients) - 1 /\ ~(Len(clients) - 1 < itr)
            BY <3>1, <4>2, <4>3, <5>1
          <5>3. clients'[Len(clients) - 1] = clients[Len(clients) - 1 + 1]
            BY <3>4, <5>2
          <5> QED BY <4>3, <5>1, <5>3
        <4> QED BY <4>1, <4>3, <4>4 DEF Last
      <3>7. InvAccept'
        BY <1>0, <3>1, <3>2, <3>3, <3>4, <3>6
      <3>8. InvStopped'
        BY <1>0, <3>1, <3>2, <3>4
      <3>9. InvTasks'
        <4>1. /\ IsInjective(tasks) /\ tpc' = "lock"
              /\ \A c \in ToSet(tasks) :
                    /\ c \in ToSet(clients) /\ c # task
                    /\ cpc[c] \in {"notify", "exited"}
          BY <3>1, <3>2
        <4>2. ToSet(tasks) \subseteq Conns
          BY ToSetElements
        <4>3. \A c \in ToSet(tasks) :
                 c \in ToSet(clients') /\ cpc'[c] \in {"notify", "exited"}
          BY <3>3, <3>4, <4>1, <4>2
        <4> QED BY <3>2, <4>1, <4>3
      <3>10. InvMain'
        BY <1>0, <3>1, <3>2
      <3> QED BY <3>5, <3>7, <3>8, <3>9, <3>10
    <2> QED BY <2>1, <2>2
  <1> QED BY <1>1, <1>2, <1>3, <1>4, <1>5, <1>6, <1>7 DEF Tasks

(* A connection's thread moves on without touching the queue of tasks. *)
LEMMA OwnedConnMoves ==
    ASSUME IInv, NEW c \in Conns, UNCHANGED notConn, UNCHANGED tasks,
           tpc' = tpc \/ (tpc = "asleep" /\ tpc' = "lock"),
           cpc[c] \in {"loop", "blocked", "notify"},
           cpc'[c] \in {"loop", "blocked", "report", "exited"},
           cpc[c] = "notify" => cpc'[c] = "exited",
           \A d \in Conns : d # c => cpc'[d] = cpc[d]
    PROVE  Owned'
  <1> USE DEF notConn, mainVars, accVars
  <1>1. /\ clients \in Seq(Conns) /\ tasks \in Seq(Conns)
        /\ ToSet(clients) \subseteq Conns /\ ToSet(tasks) \subseteq Conns
    BY ToSetElements DEF IInv, TypeOK
  <1>2. InvList'
    BY <1>1 DEF IInv, Owned, InvList
  <1>3. InvAccept'
    BY <1>1 DEF IInv, Owned, InvAccept, InvList, Unserved
  <1>4. InvStopped'
    BY DEF IInv, Owned, InvStopped
  <1>5. InvTasks'
    BY <1>1 DEF IInv, Owned, InvTasks, TasksWorking
  <1>6. InvMain'
    <2>1. \A j \in 1 .. Len(clients) : clients[j] \in Conns
      BY <1>1
    <2> QED BY <2>1 DEF IInv, Owned, InvMain
  <1> QED BY <1>2, <1>3, <1>4, <1>5, <1>6 DEF Owned

(* A connection queues at most one task, the one that names itself. *)
LEMMA OwnedConn ==
    ASSUME IInv, NEW c \in Conns, Conn(c) PROVE Owned'
  <1>0. UNCHANGED notConn /\ cpc \in [Conns -> ConnSteps]
    BY DEF Conn, IInv, TypeOK
  <1>1. CASE ConnCheck(c)
    BY <1>0, <1>1, OwnedConnMoves DEF ConnCheck
  <1>2. CASE ConnReceive(c)
    BY <1>0, <1>2, OwnedConnMoves DEF ConnReceive
  <1>3. CASE ConnFails(c)
    BY <1>0, <1>3, OwnedConnMoves DEF ConnFails
  <1>4. CASE ConnReport(c)
    <2> USE DEF notConn, mainVars, accVars
    <2>1. /\ cpc[c] = "report" /\ cpc' = [cpc EXCEPT ![c] = "notify"]
          /\ tasks' = Append(tasks, c) /\ UNCHANGED tpc
      BY <1>4 DEF ConnReport
    <2>2. /\ clients \in Seq(Conns) /\ tasks \in Seq(Conns)
          /\ ToSet(clients) \subseteq Conns /\ c \in ToSet(clients)
      BY <2>1, ToSetElements DEF IInv, TypeOK, Owned, InvList
    <2>3. ToSet(tasks') = ToSet(tasks) \cup {c}
      BY <2>1, <2>2, AppendAdds
    <2>4. InvList'
      BY <1>0, <2>1, <2>2 DEF IInv, Owned, InvList
    <2>5. InvAccept'
      BY <1>0, <2>1, <2>2 DEF IInv, Owned, InvAccept, Unserved
    <2>6. InvStopped'
      BY <1>0, <2>1 DEF IInv, Owned, InvStopped
    <2>7. InvMain'
      <3>1. \A j \in 1 .. Len(clients) : clients[j] \in Conns
        BY <2>2
      <3> QED BY <1>0, <2>1, <3>1 DEF IInv, Owned, InvMain
    <2>8. ASSUME mpc # "stopped" PROVE IsInjective(tasks')
      <3>1. IsInjective(tasks) /\ c \notin ToSet(tasks)
        BY <2>1, <2>8 DEF IInv, Owned, InvTasks
      <3> QED BY <2>1, <2>2, <3>1, AppendKeepsInjective
    <2>9. InvTasks'
      BY <1>0, <2>1, <2>2, <2>3, <2>8 DEF IInv, Owned, InvTasks, TasksWorking
    <2> QED BY <2>4, <2>5, <2>6, <2>7, <2>9 DEF Owned
  <1>5. CASE ConnNotify(c)
    BY <1>0, <1>5, OwnedConnMoves DEF ConnNotify, NotifyTasks, EndThread
  <1> QED BY <1>1, <1>2, <1>3, <1>4, <1>5 DEF Conn

(* What the writer and the peers do leaves the list and its owners alone. *)
LEMMA OwnedOther ==
    ASSUME IInv,
           \/ Writing \/ (WriteCall /\ UNCHANGED notWriter)
           \/ \E c \in Conns : Peer(c)
           \/ UNCHANGED vars
    PROVE  Owned'
  <1> USE DEF IInv, TypeOK, Owned, InvList, InvAccept, Unserved, InvStopped,
              InvTasks, InvMain, TasksWorking,
              listVars, mainVars, accVars, taskVars, sockVars, writeVars
  <1>1. CASE UNCHANGED notWriter
    BY <1>1 DEF notWriter
  <1>2. ASSUME NEW c \in Conns, Peer(c) PROVE Owned'
    <2>1. /\ UNCHANGED <<mainVars, taskVars, clients, cpc, acc, accConn, stopped>>
          /\ backlog' = backlog \/ (backlog' = backlog \cup {c} /\ link[c] = "idle")
          /\ \A d \in Conns : link'[d] = "idle" => link[d] = "idle" /\ d \notin backlog'
          /\ \A d \in Conns : d \notin backlog' => (link'[d] = "idle" <=> link[d] = "idle")
      <3>0. UNCHANGED notPeer
        BY <1>2 DEF Peer
      <3>1. CASE Connect(c)
        BY <3>0, <3>1 DEF Connect, notPeer
      <3>2. CASE PeerSend(c)
        BY <3>0, <3>2 DEF PeerSend, notPeer
      <3>3. CASE PeerLeave(c)
        <4>1. /\ link[c] # "idle" /\ backlog' = backlog
              /\ link' = [link EXCEPT ![c] = "eof"] \/ link' = [link EXCEPT ![c] = "reset"]
          BY <3>3 DEF PeerLeave
        <4>2. /\ \A d \in Conns : link'[d] = "idle" <=> link[d] = "idle"
              /\ \A d \in backlog : link[d] # "idle"
          BY <4>1
        <4> QED BY SMTT(30), <3>0, <4>1, <4>2 DEF notPeer
      <3> QED BY <1>2, <3>1, <3>2, <3>3 DEF Peer
    <2>2. InvAccept'
      <3>1. \A d \in Conns : Unserved(d)' => Unserved(d)
        BY <2>1
      <3>2. backlog \subseteq Conns /\ backlog' \subseteq Conns
        BY <1>2, <2>1
      <3>3. \A d \in backlog' : link'[d] # "idle"
        BY <2>1, <3>2
      <3>4. acc' \in {"push", "launch"} =>
               accConn' \in Conns \ backlog' /\ link'[accConn'] # "idle"
        BY <2>1
      <3> QED BY <2>1, <3>1, <3>3, <3>4
    <2>3. InvList'
      BY <2>1
    <2>4. InvStopped'
      BY SMTT(30), <2>1
    <2>5. InvTasks' /\ InvMain'
      BY <2>1
    <2> QED BY <2>2, <2>3, <2>4, <2>5
  <1>3. CASE UNCHANGED vars
    BY <1>3 DEF vars
  <1> QED BY <1>1, <1>2, <1>3 DEF Writing

-----------------------------------------------------------------------------
(* Every step keeps the invariant; the writer's part is disturbed by the *)
(* writer only.                                                          *)
LEMMA NextInv == IInv /\ [Next]_vars => IInv'
  <1> SUFFICES ASSUME IInv, [Next]_vars PROVE IInv'
    OBVIOUS
  <1> DEFINE writerStays == UNCHANGED writeVars
  <1>0. TypeOK /\ InvWriter /\ InvTasks /\ InvMain /\ InvAccept
    BY DEF IInv, Owned
  <1>1. ASSUME writerStays PROVE InvWriter'
    BY <1>0, <1>1 DEF InvWriter, writeVars
  <1>2. CASE (Start \/ StopBegin \/ Stopping) /\ UNCHANGED notMain
    BY <1>0, <1>1, <1>2, TypeMain, OwnedMain DEF IInv, notMain
  <1>3. CASE Acceptor
    BY <1>0, <1>1, <1>3, TypeAcceptor, OwnedAcceptor DEF IInv, Acceptor, notAcc
  <1>4. CASE Tasks \/ (TasksSpuriousWakeup /\ UNCHANGED notTasks)
    <2>1. writerStays
      BY <1>4 DEF Tasks, notTasks
    <2> QED BY <1>0, <1>1, <1>4, <2>1, TypeTasks, OwnedTasks DEF IInv
  <1>5. CASE Writing \/ (WriteCall /\ UNCHANGED notWriter)
    BY <1>0, <1>5, TypeWriter, OwnedOther DEF IInv
  <1>6. ASSUME NEW c \in Conns, Conn(c) PROVE IInv'
    BY <1>0, <1>1, <1>6, TypeConn, OwnedConn DEF IInv, Conn, notConn
  <1>7. ASSUME NEW c \in Conns, Peer(c) PROVE IInv'
    BY <1>0, <1>1, <1>7, TypePeer, OwnedOther DEF IInv, Peer, notPeer
  <1>8. CASE UNCHANGED vars
    <2>1. TypeOK'
      BY <1>0, <1>8 DEF TypeOK, vars, listVars, mainVars, accVars, taskVars,
                        sockVars, writeVars
    <2>2. Owned'
      BY <1>8, OwnedOther
    <2> QED BY <1>1, <1>8, <2>1, <2>2 DEF IInv, vars
  <1>9. CASE Next
    BY <1>2, <1>3, <1>4, <1>5, <1>6, <1>7, <1>9 DEF Next, Optional, Stopping
  <1> QED BY <1>8, <1>9

(* The invariant holds in every reachable state, for any set of connections *)
(* and any bounds.                                                          *)
THEOREM Invariance == Spec => []IInv
  <1> QED BY InitInv, NextInv, PTL DEF Spec

(* Whatever the threads and the peers do, the variables keep their types. *)
THEOREM TypeCorrect == Spec => []TypeOK
  <1>1. IInv => TypeOK
    BY DEF IInv
  <1> QED BY <1>1, Invariance, PTL

(* A removal task never names a connection that has left the list. *)
THEOREM TasksAreLive == Spec => []TasksTargetLive
  <1>1. IInv => TasksTargetLive
    BY DEF IInv, Owned, InvTasks, TasksTargetLive, TasksWorking
  <1> QED BY <1>1, Invariance, PTL

(* The acceptor starts the connection it has accepted, not another one. *)
THEOREM LaunchIsOwn == Spec => []LaunchTargetsAccepted
  <1>1. IInv => LaunchTargetsAccepted
    BY DEF IInv, Owned, InvAccept, LaunchTargetsAccepted
  <1> QED BY <1>1, Invariance, PTL

(* No connection is stopped, and so no thread joined, a second time. *)
THEOREM StopsOnce == Spec => []StopOncePerConnection
  <1>1. ASSUME IInv PROVE StopOncePerConnection
    <2>0. clients \in Seq(Conns) /\ IsInjective(clients) /\ mi \in Nat \ {0}
      BY <1>1 DEF IInv, TypeOK, Owned, InvList
    <2>1. tpc = "stop" => ~stopped[task]
      BY <1>1 DEF IInv, Owned, InvStopped, InvTasks, InvMain, TasksWorking
    <2>2. ASSUME mpc = "clients", NEW i \in mi .. Len(clients)
          PROVE  ~stopped[clients[i]]
      <3>1. i \in 1 .. Len(clients) /\ clients[i] \in ToSet(clients)
        BY <2>0, ToSetElements
      <3>2. \A j \in 1 .. Len(clients) : j < mi => clients[j] # clients[i]
        BY <2>0, <3>1, InjectiveElements
      <3> QED BY <1>1, <2>2, <3>1, <3>2 DEF IInv, Owned, InvStopped, InvMain
    <2> QED BY <2>1, <2>2 DEF StopOncePerConnection
  <1> QED BY <1>1, Invariance, PTL

(* After stop() none of the server's threads is left. *)
THEOREM StopIsClean == Spec => []StopLeavesNothingRunning
  <1>1. ASSUME IInv PROVE StopLeavesNothingRunning
    <2>1. mpc = "stopped" => acc = "done" /\ tpc = "done" /\ clients = <<>>
      BY <1>1 DEF IInv, Owned, InvMain
    <2>2. ASSUME clients = <<>>, NEW c \in Conns PROVE cpc[c] \in {"none", "freed"}
      <3>1. c \notin ToSet(clients)
        BY <2>2 DEF ToSet
      <3> QED BY <1>1, <3>1 DEF IInv, TypeOK, ConnSteps, Owned, InvList
    <2> QED BY <2>1, <2>2 DEF StopLeavesNothingRunning
  <1> QED BY <1>1, Invariance, PTL

(* A connection object is destroyed only when its thread has been joined. *)
THEOREM DestructionIsSafe == Spec => DestroyedOnlyAfterJoin
  <1> DEFINE Safe == \A c \in Conns : cpc'[c] = "freed" => cpc[c] \in {"exited", "freed"}
  <1>1. ASSUME IInv, Next PROVE Safe
    <2> SUFFICES ASSUME NEW c \in Conns, cpc'[c] = "freed", cpc[c] # "freed"
                 PROVE  cpc[c] = "exited"
      OBVIOUS
    <2>0. clients \in Seq(Conns) /\ cpc \in [Conns -> ConnSteps]
      BY <1>1 DEF IInv, TypeOK
    <2>1. CASE StopClear
      <3>1. c \in ToSet(clients)
        BY <2>1 DEF StopClear, Destroy
      <3>2. PICK j \in 1 .. Len(clients) : clients[j] = c
        BY <2>0, <3>1, ToSetElements
      <3> QED BY SMTT(30), <1>1, <2>0, <2>1, <3>2 DEF StopClear, IInv, TypeOK, Owned, InvMain
    <2>2. CASE TasksErase
      BY <1>1, <2>2 DEF TasksErase, Destroy, IInv, Owned, InvTasks, InvMain
    <2>3. CASE AcceptorLaunch
      BY <2>0, <2>3 DEF AcceptorLaunch
    <2>4. ASSUME NEW d \in Conns, Conn(d) PROVE FALSE
      BY <2>0, <2>4 DEF Conn, ConnCheck, ConnReceive, ConnFails, ConnReport,
                        ConnNotify, EndThread
    <2>5. CASE UNCHANGED cpc
      BY <2>5
    <2> QED BY <1>1, <2>1, <2>2, <2>3, <2>4, <2>5
            DEF Next, Stopping, Start, StopBegin, StopFlag, StopNotify,
                StopTasksJoined, StopClient, StopClientJoined, Acceptor,
                AcceptorCheck, AcceptorAccept, AcceptorFails, AcceptorPush, Tasks,
                TasksTake, TasksSleep, TasksSpuriousWakeup, TasksFind, TasksStop,
                TasksJoined, Writing, Optional, Peer, notWriter, notPeer, listVars
  <1>2. UNCHANGED vars => Safe
    BY DEF vars, listVars
  <1>3. IInv /\ [Next]_vars => [Safe]_vars
    BY <1>1, <1>2
  <1> QED BY <1>3, Invariance, PTL DEF DestroyedOnlyAfterJoin, Spec
-----------------------------------------------------------------------------
(* What has been sent on the connections.                                   *)

(* Nothing can be sent on the connection any more. *)
Broken(c) == link[c] \in {"reset", "gone"} \/ stopped[c]

SentUpTo(c, n) == \A i \in 1 .. Len(wire[c]) : wire[c][i][2] <= n

HasBody(c) == <<"body", wmsg>> \in ToSet(wire[c])

(* The parts of one connection, as WireFraming states it for all of them. *)
PartFits(w, i) ==
    IF i % 2 = 1
    THEN w[i][1] = "header" /\ (i > 1 => w[i - 1][2] < w[i][2])
    ELSE w[i][1] = "body" /\ w[i - 1][2] = w[i][2]

Framed(w) == \A i \in 1 .. Len(w) : PartFits(w, i)

(* The clients the index loop has still to reach have nothing of the current *)
(* message, whatever was removed in front of the index or appended.          *)
InvSent ==
    /\ \A c \in Conns : /\ SentUpTo(c, wmsg)
                        /\ Unserved(c) => wire[c] = <<>>
    /\ wpc # "idle" =>
          \A j \in 1 .. Len(clients) :
              j >= wi => \/ SentUpTo(clients[j], wmsg - 1)
                         \/ wpc = "body" /\ j = wi /\ clients[j] = wto

(* A header without its body is the one being answered now, or was left by a *)
(* failed send on a connection that no later send can succeed on.            *)
InvHeader ==
    /\ wpc = "body" =>
          /\ Len(wire[wto]) % 2 = 1
          /\ wire[wto][Len(wire[wto])] = <<"header", wmsg>>
          /\ \A j \in 1 .. Len(clients) : clients[j] = wto => j <= wi
    /\ \A c \in Conns : Len(wire[c]) % 2 = 1 =>
          Broken(c) \/ (wpc = "body" /\ c = wto)

InvWire == InvSent /\ InvHeader /\ \A c \in Conns : Framed(wire[c])

(* While nothing disturbs the call, everyone it began with is in the list, *)
(* and those before its index have the message.                            *)
InvReached ==
    ~disturbed =>
        /\ wpc = "idle" => \A c \in audience : HasBody(c)
        /\ wpc # "idle" =>
              /\ wi <= Len(clients) + 1
              /\ \A c \in audience : c \in ToSet(clients)
              /\ \A j \in 1 .. Len(clients) : j < wi => HasBody(clients[j])
        /\ wpc = "body" => wi <= Len(clients) /\ clients[wi] = wto

SentInv == InvWire /\ InvReached

(* One more part makes an even number of parts odd, and an odd one even. *)
LEMMA Parity ==
    \A n \in Nat : /\ n % 2 = 0 => (n + 1) % 2 = 1
                   /\ n % 2 = 1 => (n + 1) % 2 # 1
  OBVIOUS

(* A header may follow a finished message, and the body its own header. *)
LEMMA PartKeepsFraming ==
    ASSUME NEW w \in Seq(Parts), Framed(w), NEW m \in 1 .. MaxMessages
    PROVE  /\ /\ Len(w) % 2 = 0
              /\ \A i \in 1 .. Len(w) : w[i][2] <= m - 1
              => Framed(Append(w, <<"header", m>>))
           /\ Len(w) % 2 = 1 /\ w[Len(w)] = <<"header", m>>
              => Framed(Append(w, <<"body", m>>))
  <1> DEFINE a(p) == Append(w, <<p, m>>)
             n == Len(w)
  <1>0. /\ n \in Nat /\ m \in Int
        /\ \A i \in 1 .. n : w[i][2] \in Int
    BY TCPAssumption DEF Parts
  <1>1. ASSUME NEW p \in {"header", "body"}
        PROVE  /\ Len(a(p)) = n + 1
               /\ \A i \in 1 .. n : a(p)[i] = w[i]
               /\ a(p)[n + 1] = <<p, m>>
    <2>1. <<p, m>> \in Parts
      BY DEF Parts
    <2> QED BY <2>1, AppendAdds
  <1> HIDE DEF a, n
  <1>2. ASSUME n % 2 = 0, \A i \in 1 .. n : w[i][2] <= m - 1
        PROVE  Framed(a("header"))
    <2>1. ASSUME NEW i \in 1 .. n PROVE PartFits(a("header"), i)
      <3>1. PartFits(w, i)
        BY DEF Framed, n
      <3>2. i = 1 \/ i - 1 \in 1 .. n
        BY <1>0
      <3>3. i = 1 => i % 2 = 1
        OBVIOUS
      <3>4. a("header")[i] = w[i] /\ (i # 1 => a("header")[i - 1] = w[i - 1])
        BY <1>1, <3>2
      <3>5. CASE i = 1
        BY <3>1, <3>3, <3>4, <3>5 DEF PartFits
      <3>6. CASE i # 1
        BY <3>1, <3>4, <3>6 DEF PartFits
      <3> QED BY <3>5, <3>6
    <2>2. PartFits(a("header"), n + 1)
      <3>1. (n + 1) % 2 = 1
        BY ONLY <1>0, <1>2, Parity
      <3>2. n + 1 > 1 => a("header")[n][2] < m
        BY <1>0, <1>1, <1>2
      <3>3. /\ a("header")[n + 1][1] = "header"
            /\ n + 1 > 1 => a("header")[n + 1 - 1][2] < a("header")[n + 1][2]
        BY <1>0, <1>1, <3>2
      <3> QED BY <1>0, <3>1, <3>3 DEF PartFits
    <2>3. \A i \in 1 .. n + 1 : i \in 1 .. n \/ i = n + 1
      BY ONLY <1>0
    <2>4. Len(a("header")) = n + 1
      BY <1>1
    <2> QED BY ONLY <2>1, <2>2, <2>3, <2>4 DEF Framed
  <1>3. ASSUME n % 2 = 1, w[n] = <<"header", m>>
        PROVE  Framed(a("body"))
    <2>1. ASSUME NEW i \in 1 .. n PROVE PartFits(a("body"), i)
      <3>1. PartFits(w, i)
        BY DEF Framed, n
      <3>2. i = 1 \/ i - 1 \in 1 .. n
        BY <1>0
      <3>3. i = 1 => i % 2 = 1
        OBVIOUS
      <3>4. a("body")[i] = w[i] /\ (i # 1 => a("body")[i - 1] = w[i - 1])
        BY <1>1, <3>2
      <3>5. CASE i = 1
        BY <3>1, <3>3, <3>4, <3>5 DEF PartFits
      <3>6. CASE i # 1
        BY <3>1, <3>4, <3>6 DEF PartFits
      <3> QED BY <3>5, <3>6
    <2>2. PartFits(a("body"), n + 1)
      <3>1. (n + 1) % 2 # 1
        BY ONLY <1>0, <1>3, Parity
      <3>2. n # 0
        BY <1>3
      <3>3. n \in 1 .. n
        BY <1>0, <3>2
      <3>4. /\ a("body")[n + 1][1] = "body"
            /\ a("body")[n + 1 - 1][2] = a("body")[n + 1][2]
        BY <1>0, <1>1, <1>3, <3>3
      <3> QED BY <1>0, <3>1, <3>4 DEF PartFits
    <2>3. \A i \in 1 .. n + 1 : i \in 1 .. n \/ i = n + 1
      BY ONLY <1>0
    <2>4. Len(a("body")) = n + 1
      BY <1>1
    <2> QED BY ONLY <2>1, <2>2, <2>3, <2>4 DEF Framed
  <1> QED BY <1>2, <1>3 DEF a, n

(* A step that sends nothing, and that only removes clients or appends some *)
(* that nothing was sent to.                                                *)
LEMMA WireKept ==
    ASSUME IInv, InvWire, UNCHANGED writeVars,
           \A c \in Conns : /\ Broken(c) => Broken(c)'
                            /\ Unserved(c)' => Unserved(c),
           clients' \in Seq(Conns),
           \A j \in 1 .. Len(clients') :
               \/ wire[clients'[j]] = <<>>
               \/ \E k \in 1 .. Len(clients) : k >= j /\ clients'[j] = clients[k]
    PROVE  InvWire'
  <1>0. /\ wpc' = wpc /\ wi' = wi /\ wmsg' = wmsg /\ wto' = wto /\ wire' = wire
        /\ wi \in Nat /\ wmsg \in Nat /\ wire \in [Conns -> Seq(Parts)]
        /\ clients \in Seq(Conns)
        /\ wpc = "body" => wto \in Conns
    BY TCPAssumption DEF writeVars, IInv, TypeOK, InvWriter
  <1>1. \A c \in Conns : Framed(wire'[c])
    BY <1>0 DEF InvWire
  <1>2. ASSUME NEW j \in 1 .. Len(clients')
        PROVE  /\ clients'[j] \in Conns
               /\ \/ wire[clients'[j]] = <<>>
                  \/ \E k \in 1 .. Len(clients) : k >= j /\ clients'[j] = clients[k]
    OBVIOUS
  <1>3. \A c \in Conns : SentUpTo(c, wmsg)' /\ (Unserved(c)' => wire'[c] = <<>>)
    BY <1>0 DEF InvWire, InvSent, SentUpTo
  <1>4. ASSUME wpc # "idle", NEW j \in 1 .. Len(clients'), j >= wi
        PROVE  \/ SentUpTo(clients'[j], wmsg - 1)
               \/ wpc = "body" /\ j = wi /\ clients'[j] = wto
    <2>1. CASE wire[clients'[j]] = <<>>
      BY <2>1 DEF SentUpTo
    <2>2. ASSUME NEW k \in 1 .. Len(clients), k >= j, clients'[j] = clients[k]
          PROVE  \/ SentUpTo(clients[k], wmsg - 1)
                 \/ wpc = "body" /\ j = wi /\ clients[k] = wto
      <3>1. k >= wi
        BY <1>0, <1>4, <2>2
      <3>2. \/ SentUpTo(clients[k], wmsg - 1)
            \/ wpc = "body" /\ k = wi /\ clients[k] = wto
        BY <1>4, <3>1 DEF InvWire, InvSent
      <3>3. k = wi => j = wi
        BY <1>0, <1>4, <2>2
      <3> QED BY <3>2, <3>3
    <2> QED BY <1>2, <2>1, <2>2
  <1>5. InvSent'
    BY <1>0, <1>3, <1>4 DEF InvSent, SentUpTo
  <1>6. ASSUME wpc = "body"
        PROVE  /\ Len(wire[wto]) % 2 = 1
               /\ wire[wto][Len(wire[wto])] = <<"header", wmsg>>
               /\ \A j \in 1 .. Len(clients) : clients[j] = wto => j <= wi
    BY <1>6 DEF InvWire, InvHeader
  <1>7. ASSUME wpc = "body", NEW j \in 1 .. Len(clients'), clients'[j] = wto
        PROVE  j <= wi
    <2>1. wire[wto] # <<>>
      <3>1. Len(<<>>) % 2 # 1
        OBVIOUS
      <3>2. Len(wire[wto]) % 2 = 1
        BY <1>6, <1>7
      <3> QED BY ONLY <3>1, <3>2
    <2>2. PICK k \in 1 .. Len(clients) : k >= j /\ clients[k] = wto
      BY <1>2, <1>7, <2>1
    <2> QED BY <1>0, <1>6, <1>7, <2>2
  <1>8. \A c \in Conns : Len(wire'[c]) % 2 = 1 =>
           Broken(c)' \/ (wpc' = "body" /\ c = wto')
    BY <1>0 DEF InvWire, InvHeader
  <1>9. InvHeader'
    BY <1>0, <1>6, <1>7, <1>8 DEF InvHeader
  <1> QED BY <1>1, <1>5, <1>9 DEF InvWire

(* The list only grew, or the call counts as disturbed. *)
LEMMA ReachedKept ==
    ASSUME IInv, InvReached, UNCHANGED writeVars,
           ~disturbed' => ~disturbed,
           \/ wpc = "idle"
           \/ disturbed'
           \/ /\ clients' \in Seq(Conns) /\ Len(clients) <= Len(clients')
              /\ \A j \in 1 .. Len(clients) : clients'[j] = clients[j]
    PROVE  InvReached'
  <1>0. /\ wpc' = wpc /\ wi' = wi /\ wmsg' = wmsg /\ wto' = wto /\ wire' = wire
        /\ audience' = audience
        /\ wi \in Nat /\ clients \in Seq(Conns)
    BY DEF writeVars, IInv, TypeOK
  <1>1. CASE disturbed'
    BY <1>1 DEF InvReached
  <1>2. CASE wpc = "idle" /\ ~disturbed'
    BY <1>0, <1>2 DEF InvReached, HasBody
  <1>3. CASE wpc # "idle" /\ ~disturbed'
    <2>1. /\ ~disturbed /\ clients' \in Seq(Conns) /\ Len(clients) <= Len(clients')
          /\ \A j \in 1 .. Len(clients) : clients'[j] = clients[j]
      BY <1>3
    <2>2. /\ wi <= Len(clients) + 1
          /\ \A c \in audience : c \in ToSet(clients)
          /\ \A j \in 1 .. Len(clients) : j < wi => HasBody(clients[j])
          /\ wpc = "body" => wi <= Len(clients) /\ clients[wi] = wto
      BY <1>3, <2>1 DEF InvReached
    <2>3. \A c \in audience : c \in ToSet(clients')
      <3>1. \A x : x \in ToSet(clients) => \E i \in 1 .. Len(clients) : clients[i] = x
        BY <1>0, ToSetElements
      <3>2. \A x : (\E i \in 1 .. Len(clients') : clients'[i] = x) => x \in ToSet(clients')
        BY <2>1, ToSetElements
      <3> QED BY <1>0, <2>1, <2>2, <3>1, <3>2
    <2>4. ASSUME NEW j \in 1 .. Len(clients'), j < wi
          PROVE  <<"body", wmsg>> \in ToSet(wire[clients'[j]])
      <3>1. j \in 1 .. Len(clients)
        BY <1>0, <2>1, <2>2, <2>4
      <3> QED BY <2>1, <2>2, <2>4, <3>1 DEF HasBody
    <2>5. wi <= Len(clients') + 1
      BY <1>0, <2>1, <2>2
    <2>6. wpc = "body" => wi <= Len(clients') /\ clients'[wi] = wto
      <3> SUFFICES ASSUME wpc = "body" PROVE wi <= Len(clients') /\ clients'[wi] = wto
        OBVIOUS
      <3>1. wi \in 1 .. Len(clients) /\ clients[wi] = wto
        BY <1>0, <2>2 DEF IInv, TypeOK
      <3> QED BY <1>0, <2>1, <3>1
    <2> QED BY <1>0, <1>3, <2>3, <2>4, <2>5, <2>6 DEF InvReached, HasBody
  <1> QED BY <1>1, <1>2, <1>3

(* The threads that do not write: nothing is sent, and the list changes only *)
(* by the acceptor's push_back, a removal or stop()'s clear().               *)
LEMMA SentOthers ==
    ASSUME IInv, SentInv, UNCHANGED writeVars,
           \/ (Start \/ StopBegin \/ Stopping) /\ UNCHANGED notMain
           \/ Acceptor
           \/ Tasks \/ (TasksSpuriousWakeup /\ UNCHANGED notTasks)
           \/ \E c \in Conns : Conn(c) \/ Peer(c)
           \/ UNCHANGED vars
    PROVE  SentInv'
  <1> USE DEF listVars, mainVars, accVars, taskVars, sockVars, writeVars
  <1>0. /\ clients \in Seq(Conns) /\ disturbed \in BOOLEAN
        /\ \A j \in 1 .. Len(clients) : clients[j] \in Conns
    BY DEF IInv, TypeOK
  <1>1. ASSUME \A c \in Conns : /\ Broken(c) => Broken(c)'
                                /\ Unserved(c)' => Unserved(c),
               UNCHANGED <<clients, disturbed>>
        PROVE  SentInv'
    BY <1>0, <1>1, WireKept, ReachedKept DEF SentInv
  <1>2. CASE (Start \/ StopBegin \/ Stopping) /\ UNCHANGED notMain
    <2>1. CASE StopClear
      <3>1. /\ clients' = <<>> /\ stopped' = stopped /\ acc' = acc
            /\ disturbed' = (disturbed \/ wpc # "idle")
            /\ \A c \in Conns : link'[c] \in {link[c], "gone"}
        BY <2>1 DEF StopClear, Destroy
      <3>2. \A c \in Conns : Broken(c) => Broken(c)'
        BY <3>1 DEF Broken
      <3>3. \A c \in Conns : Unserved(c)' => Unserved(c)
        BY <1>2, <3>1 DEF Unserved, notMain
      <3>4. clients' \in Seq(Conns) /\ Len(clients') = 0
        BY <3>1
      <3>5. InvWire'
        BY <3>2, <3>3, <3>4, WireKept DEF SentInv
      <3>6. InvReached'
        BY <3>1, ReachedKept DEF SentInv
      <3> QED BY <3>5, <3>6 DEF SentInv
    <2>2. CASE ~StopClear
      <3>1. /\ UNCHANGED <<clients, disturbed, link, backlog, accConn>>
            /\ stopped' = stopped \/ \E c \in Conns : stopped' = [stopped EXCEPT ![c] = TRUE]
            /\ acc' = "push" => acc = "push"
        <4>1. CASE StopClient
          <5>1. clients[mi] \in Conns
            BY <1>0, <4>1 DEF StopClient, IInv, TypeOK
          <5> QED BY <1>2, <4>1, <5>1 DEF StopClient, notMain
        <4>2. CASE ~StopClient
          <5>1. UNCHANGED <<clients, disturbed, link, stopped>> /\ acc' \in {acc, "check"}
            BY <1>2, <2>2, <4>2
               DEF Stopping, Start, StopBegin, StopFlag, StopNotify,
                   StopTasksJoined, StopClientJoined
          <5> QED BY <1>2, <5>1 DEF notMain
        <4> QED BY <4>1, <4>2
      <3>2. \A c \in Conns : Broken(c) => Broken(c)'
        BY <3>1 DEF Broken, IInv, TypeOK
      <3>3. \A c \in Conns : Unserved(c)' => Unserved(c)
        BY <3>1 DEF Unserved
      <3> QED BY <1>1, <3>1, <3>2, <3>3
    <2> QED BY <2>1, <2>2
  <1>3. CASE Acceptor
    <2>0. UNCHANGED notAcc
      BY <1>3 DEF Acceptor
    <2>1. \A c \in Conns : Broken(c) => Broken(c)'
      BY <2>0 DEF Broken, notAcc
    <2>2. CASE AcceptorPush
      <3>1. /\ accConn \in Conns /\ clients' = Append(clients, accConn)
            /\ acc = "push" /\ acc' = "launch"
            /\ UNCHANGED <<accConn, backlog>>
        BY <2>2 DEF AcceptorPush, PushBack, IInv, Owned, InvAccept
      <3>2. wire[accConn] = <<>>
        BY <3>1 DEF SentInv, InvWire, InvSent, Unserved
      <3>3. \A c \in Conns : Unserved(c)' => Unserved(c)
        BY <2>0, <3>1 DEF Unserved, notAcc
      <3>4. /\ clients' \in Seq(Conns) /\ Len(clients') = Len(clients) + 1
            /\ \A j \in 1 .. Len(clients) : clients'[j] = clients[j]
            /\ clients'[Len(clients) + 1] = accConn
        BY <1>0, <3>1, AppendAdds
      <3>5. InvWire'
        BY <1>0, <2>1, <3>2, <3>3, <3>4, WireKept DEF SentInv
      <3>6. InvReached'
        BY <1>0, <2>0, <3>4, ReachedKept DEF SentInv, notAcc
      <3> QED BY <3>5, <3>6 DEF SentInv
    <2>3. CASE ~AcceptorPush
      <3>1. UNCHANGED <<clients, disturbed, link>>
        BY <1>3, <2>0, <2>3
           DEF Acceptor, AcceptorCheck, AcceptorAccept, AcceptorFails, AcceptorLaunch, notAcc
      <3>2. \A c \in Conns : Unserved(c)' => Unserved(c)
        BY <1>3, <2>3, <3>1
           DEF Acceptor, AcceptorCheck, AcceptorAccept, AcceptorFails,
               AcceptorLaunch, Unserved
      <3> QED BY <1>1, <2>1, <3>1, <3>2
    <2> QED BY <2>2, <2>3
  <1>4. CASE Tasks \/ (TasksSpuriousWakeup /\ UNCHANGED notTasks)
    <2>0. UNCHANGED notTasks
      BY <1>4 DEF Tasks
    <2>1. CASE TasksErase /\ itr # 0
      <3>1. /\ itr \in 1 .. Len(clients) /\ clients[itr] \in Conns
            /\ clients' = RemoveAt(clients, itr)
            /\ disturbed' = (disturbed \/ wpc # "idle")
            /\ UNCHANGED stopped
            /\ \A c \in Conns : link'[c] \in {link[c], "gone"}
        BY <1>0, <2>1 DEF TasksErase, Destroy, IInv, Owned, InvTasks, InvMain
      <3>2. \A c \in Conns : Broken(c) => Broken(c)'
        BY <3>1 DEF Broken
      <3>3. \A c \in Conns : Unserved(c)' => Unserved(c)
        BY <2>0, <3>1 DEF Unserved, notTasks
      <3>4. /\ clients' \in Seq(Conns) /\ Len(clients') = Len(clients) - 1
            /\ \A j \in 1 .. Len(clients) - 1 :
                  clients'[j] = IF j < itr THEN clients[j] ELSE clients[j + 1]
        BY <1>0, <3>1, RemoveAtShifts
      <3>5. \A j \in 1 .. Len(clients') :
               \E k \in 1 .. Len(clients) : k >= j /\ clients'[j] = clients[k]
        <4> SUFFICES ASSUME NEW j \in 1 .. Len(clients')
                     PROVE  \E k \in 1 .. Len(clients) : k >= j /\ clients'[j] = clients[k]
          OBVIOUS
        <4>1. j \in 1 .. Len(clients) /\ j + 1 \in 1 .. Len(clients) /\ j + 1 >= j
          BY <1>0, <3>4
        <4> QED BY <3>4, <4>1
      <3>6. InvWire'
        BY <3>2, <3>3, <3>4, <3>5, WireKept DEF SentInv
      <3>7. InvReached'
        BY <3>1, ReachedKept DEF SentInv
      <3> QED BY <3>6, <3>7 DEF SentInv
    <2>2. CASE ~(TasksErase /\ itr # 0)
      <3>1. /\ UNCHANGED <<clients, disturbed, link>>
            /\ stopped' = stopped \/ \E c \in Conns : stopped' = [stopped EXCEPT ![c] = TRUE]
        <4>1. CASE TasksStop
          <5>1. itr # 0 => clients[itr] \in Conns
            BY <1>0, <4>1 DEF TasksStop, IInv, Owned, InvTasks, InvMain
          <5> QED BY <4>1, <5>1 DEF TasksStop
        <4>2. CASE ~TasksStop
          BY <1>4, <2>2, <4>2
             DEF Tasks, TasksTake, TasksSleep, TasksSpuriousWakeup, TasksFind,
                 TasksJoined, TasksErase
        <4> QED BY <4>1, <4>2
      <3>2. \A c \in Conns : Broken(c) => Broken(c)'
        BY <3>1 DEF Broken, IInv, TypeOK
      <3>3. \A c \in Conns : Unserved(c)' => Unserved(c)
        BY <2>0, <3>1 DEF Unserved, notTasks
      <3> QED BY <1>1, <3>1, <3>2, <3>3
    <2> QED BY <2>1, <2>2
  <1>5. ASSUME NEW c \in Conns, Conn(c) PROVE SentInv'
    <2>1. UNCHANGED notConn
      BY <1>5 DEF Conn
    <2> QED BY <1>1, <2>1 DEF notConn, Broken, Unserved
  <1>6. ASSUME NEW c \in Conns, Peer(c) PROVE SentInv'
    <2>0. UNCHANGED notPeer
      BY <1>6 DEF Peer
    <2>1. /\ \A d \in Conns : link[d] \in {"reset", "gone"} => link'[d] \in {"reset", "gone"}
          /\ \A d \in Conns : link'[d] = "idle" => link[d] = "idle"
          /\ \A d \in backlog' : d \in backlog \/ link[d] = "idle"
      BY <1>6 DEF Peer, Connect, PeerSend, PeerLeave, IInv, TypeOK
    <2> QED BY <1>1, <2>0, <2>1 DEF notPeer, Broken, Unserved
  <1>7. CASE UNCHANGED vars
    BY <1>1, <1>7 DEF vars, Broken, Unserved
  <1> QED BY <1>2, <1>3, <1>4, <1>5, <1>6, <1>7

(* The writer's own steps. *)
LEMMA SentWriter ==
    ASSUME IInv, SentInv, Writing \/ (WriteCall /\ UNCHANGED notWriter)
    PROVE  SentInv'
  <1> USE DEF listVars, mainVars, accVars, taskVars, sockVars, writeVars
  <1>0. /\ UNCHANGED <<clients, link, stopped, backlog, acc, accConn>>
        /\ clients \in Seq(Conns) /\ wire \in [Conns -> Seq(Parts)]
        /\ \A j \in 1 .. Len(clients) : clients[j] \in Conns
        /\ wi \in Nat \ {0} /\ wmsg \in 0 .. MaxMessages /\ wmsg \in Nat
        /\ wpc # "idle" => wmsg \in 1 .. MaxMessages
        /\ wpc = "body" => wto \in Conns
        /\ wpc \in {"idle", "size", "fetch", "body"}
        /\ \A c \in Conns : Len(wire[c]) \in Nat
    BY TCPAssumption DEF Writing, notWriter, IInv, TypeOK, InvWriter
  <1>1. \A c \in Conns : (Broken(c)' <=> Broken(c)) /\ (Unserved(c)' <=> Unserved(c))
    BY <1>0 DEF Broken, Unserved
  <1>2. /\ \A c \in Conns : SentUpTo(c, wmsg) /\ (Unserved(c) => wire[c] = <<>>)
        /\ \A c \in Conns : Framed(wire[c])
        /\ \A c \in Conns : Len(wire[c]) % 2 = 1 =>
              Broken(c) \/ (wpc = "body" /\ c = wto)
        /\ \A c \in Conns : \A i \in 1 .. Len(wire[c]) : wire[c][i][2] \in Int
    BY <1>0, TCPAssumption DEF SentInv, InvWire, InvSent, InvHeader, Parts
  <1>3. CASE WriteCall
    <2>1. /\ wpc = "idle" /\ wmsg' = wmsg + 1 /\ wi' = 1 /\ wire' = wire
          /\ wpc' = IF clients = <<>> THEN "idle" ELSE "size"
          /\ audience' = ToSet(clients)
      BY <1>3 DEF WriteCall
    <2>2. InvSent'
      BY <1>0, <1>1, <1>2, <2>1 DEF InvSent, SentUpTo
    <2>3. InvHeader'
      BY <1>0, <1>1, <1>2, <2>1 DEF InvHeader
    <2>4. InvReached'
      <3>1. clients = <<>> => ToSet(clients) = {}
        BY <1>0, ToSetElements
      <3> QED BY <1>0, <2>1, <3>1 DEF InvReached
    <2> QED BY <1>2, <2>1, <2>2, <2>3, <2>4 DEF SentInv, InvWire
  <1>4. CASE WriteSize
    <2>1. /\ wpc = "size" /\ wpc' = IF wi <= Len(clients) THEN "fetch" ELSE "idle"
          /\ UNCHANGED <<disturbed, wi, wmsg, wto, wire, audience>>
      BY <1>4 DEF WriteSize, MoreClients
    <2>2. InvSent'
      BY <1>0, <1>1, <1>2, <2>1 DEF SentInv, InvWire, InvSent, SentUpTo
    <2>3. InvHeader'
      BY <1>0, <1>1, <1>2, <2>1 DEF InvHeader
    <2>4. InvReached'
      <3>1. ASSUME ~disturbed, wi > Len(clients), NEW c \in audience
            PROVE  HasBody(c)
        <4>1. PICK j \in 1 .. Len(clients) : clients[j] = c
          BY <1>0, <2>1, <3>1, ToSetElements DEF SentInv, InvReached
        <4>2. j < wi
          BY <1>0, <3>1
        <4> QED BY <2>1, <3>1, <4>1, <4>2 DEF SentInv, InvReached
      <3> SUFFICES ASSUME ~disturbed' PROVE InvReached'
        BY DEF InvReached
      <3>2. /\ ~disturbed /\ wi <= Len(clients) + 1
            /\ \A c \in audience : c \in ToSet(clients)
            /\ \A j \in 1 .. Len(clients) : j < wi => HasBody(clients[j])
        BY <2>1 DEF SentInv, InvReached
      <3>3. CASE wi <= Len(clients)
        BY <1>0, <2>1, <3>2, <3>3 DEF InvReached, HasBody
      <3>4. CASE ~(wi <= Len(clients))
        <4>1. \A c \in audience : HasBody(c)
          BY <1>0, <3>1, <3>2, <3>4
        <4> QED BY <2>1, <3>4, <4>1 DEF InvReached, HasBody
      <3> QED BY <3>3, <3>4
    <2> QED BY <1>2, <2>1, <2>2, <2>3, <2>4 DEF SentInv, InvWire
  <1>5. CASE WriteThrows
    <2>1. /\ wpc' = "idle" /\ disturbed' /\ UNCHANGED <<wi, wmsg, wto, wire, audience>>
          /\ wpc = "body" => ~Sendable(wto)
      BY <1>5 DEF WriteThrows
    <2>2. wpc = "body" => Broken(wto)
      <3>1. wpc = "body" => link[wto] # "idle"
        <4>1. Len(<<>>) % 2 # 1
          OBVIOUS
        <4> QED BY <1>0, <1>2, <4>1 DEF SentInv, InvWire, InvHeader, Unserved
      <3> QED BY <1>0, <2>1, <3>1 DEF Sendable, Broken, IInv, TypeOK, LinkStates
    <2>3. InvSent'
      BY <1>0, <1>1, <1>2, <2>1 DEF InvSent, SentUpTo
    <2>4. InvHeader'
      BY <1>0, <1>1, <1>2, <2>1, <2>2 DEF InvHeader
    <2>5. InvReached'
      BY <2>1 DEF InvReached
    <2> QED BY <1>2, <2>1, <2>3, <2>4, <2>5 DEF SentInv, InvWire
  <1>6. CASE WriteHeader
    <2> DEFINE to == clients[wi]
    <2>1. /\ wpc = "fetch" /\ wi \in 1 .. Len(clients) /\ to \in Conns
          /\ link[to] \in {"open", "eof"} /\ ~stopped[to]
          /\ wto' = to /\ wpc' = "body"
          /\ wire' = [wire EXCEPT ![to] = Append(wire[to], <<"header", wmsg>>)]
          /\ UNCHANGED <<disturbed, wi, wmsg, audience>>
      BY <1>0, <1>6 DEF WriteHeader, Send, Sendable
    <2>2. to \in ToSet(clients)
      BY <1>0, <2>1, ToSetElements
    <2> HIDE DEF to
    <2>3. <<"header", wmsg>> \in Parts /\ wmsg \in 1 .. MaxMessages
      BY <1>0, <2>1 DEF Parts
    <2>4. /\ wire'[to] = Append(wire[to], <<"header", wmsg>>)
          /\ \A c \in Conns : c # to => wire'[c] = wire[c]
          /\ Len(wire'[to]) = Len(wire[to]) + 1
          /\ \A i \in 1 .. Len(wire[to]) : wire'[to][i] = wire[to][i]
          /\ wire'[to][Len(wire[to]) + 1] = <<"header", wmsg>>
          /\ ToSet(wire'[to]) = ToSet(wire[to]) \cup {<<"header", wmsg>>}
      <3>1. wire[to] \in Seq(Parts) /\ to \in Conns
        BY <1>0, <2>1
      <3>2. /\ wire'[to] = Append(wire[to], <<"header", wmsg>>)
            /\ \A c \in Conns : c # to => wire'[c] = wire[c]
        BY <1>0, <2>1
      <3> QED BY <2>3, <3>1, <3>2, AppendAdds
    <2>5. Len(wire[to]) % 2 = 0
      <3>1. Len(wire[to]) % 2 # 1
        BY <1>2, <2>1 DEF Broken
      <3> QED BY <1>0, <2>1, <3>1
    <2>6. SentUpTo(to, wmsg - 1)
      BY <1>0, <2>1 DEF SentInv, InvWire, InvSent, to
    <2>7. \A c \in Conns : Framed(wire'[c])
      <3>1. Framed(wire'[to])
        BY <1>0, <1>2, <2>1, <2>3, <2>4, <2>5, <2>6, PartKeepsFraming DEF SentUpTo
      <3> QED BY <1>2, <2>4, <3>1
    <2>8. InvSent'
      <3>1. \A c \in Conns : SentUpTo(c, wmsg)'
        BY <1>0, <1>2, <2>1, <2>4 DEF SentUpTo
      <3>2. \A c \in Conns : Unserved(c) => c # to
        BY <2>2 DEF IInv, Owned, InvAccept
      <3>3. ASSUME NEW j \in 1 .. Len(clients), j >= wi
            PROVE  \/ SentUpTo(clients[j], wmsg - 1)'
                   \/ j = wi /\ clients[j] = to
        <4>1. CASE j = wi
          BY <4>1 DEF to
        <4>2. CASE j # wi
          <5>1. clients[j] # to
            BY <1>0, <2>1, <4>2, InjectiveElements DEF IInv, Owned, InvList, to
          <5>2. SentUpTo(clients[j], wmsg - 1)
            BY <1>0, <2>1, <3>3 DEF SentInv, InvWire, InvSent
          <5> QED BY <1>0, <2>1, <2>4, <5>1, <5>2 DEF SentUpTo
        <4> QED BY <4>1, <4>2
      <3> QED BY <1>0, <1>1, <1>2, <2>1, <2>4, <3>1, <3>2, <3>3 DEF InvSent, SentUpTo
    <2>9. InvHeader'
      <3>1. Len(wire'[to]) % 2 = 1
        BY <1>0, <2>1, <2>4, <2>5, Parity
      <3>2. \A j \in 1 .. Len(clients) : clients[j] = to => j <= wi
        BY <1>0, <2>1, InjectiveElements DEF IInv, Owned, InvList, to
      <3> QED BY <1>0, <1>1, <1>2, <2>1, <2>4, <3>1, <3>2 DEF InvHeader
    <2>10. InvReached'
      <3> SUFFICES ASSUME ~disturbed' PROVE InvReached'
        BY DEF InvReached
      <3>1. /\ ~disturbed /\ wi <= Len(clients) + 1
            /\ \A c \in audience : c \in ToSet(clients)
            /\ \A j \in 1 .. Len(clients) : j < wi => HasBody(clients[j])
        BY <2>1 DEF SentInv, InvReached
      <3>2. \A c \in Conns : HasBody(c) => HasBody(c)'
        BY <2>1, <2>4 DEF HasBody
      <3>3. \A j \in 1 .. Len(clients) : j < wi => HasBody(clients[j])'
        BY <1>0, <3>1, <3>2
      <3>4. \A j \in 1 .. Len(clients) :
               j < wi => <<"body", wmsg>> \in ToSet(wire'[clients[j]])
        BY <1>0, <2>1, <3>3 DEF HasBody
      <3>5. wi <= Len(clients) /\ clients[wi] = to /\ wi <= Len(clients) + 1
        BY <1>0, <2>1 DEF to
      <3> QED BY <1>0, <2>1, <3>1, <3>4, <3>5 DEF InvReached, HasBody
    <2> QED BY <2>7, <2>8, <2>9, <2>10 DEF SentInv, InvWire
  <1>7. CASE WriteBody
    <2>1. /\ wpc = "body" /\ wto \in Conns /\ wpc' = "size" /\ wi' = wi + 1
          /\ wire' = [wire EXCEPT ![wto] = Append(wire[wto], <<"body", wmsg>>)]
          /\ UNCHANGED <<disturbed, wmsg, wto, audience>>
      BY <1>0, <1>7 DEF WriteBody, Send
    <2>2. <<"body", wmsg>> \in Parts /\ wmsg \in 1 .. MaxMessages
      BY <1>0, <2>1 DEF Parts
    <2>3. /\ wire'[wto] = Append(wire[wto], <<"body", wmsg>>)
          /\ \A c \in Conns : c # wto => wire'[c] = wire[c]
          /\ Len(wire'[wto]) = Len(wire[wto]) + 1
          /\ \A i \in 1 .. Len(wire[wto]) : wire'[wto][i] = wire[wto][i]
          /\ wire'[wto][Len(wire[wto]) + 1] = <<"body", wmsg>>
          /\ ToSet(wire'[wto]) = ToSet(wire[wto]) \cup {<<"body", wmsg>>}
      <3>1. wire[wto] \in Seq(Parts) /\ wto \in Conns
        BY <1>0, <2>1
      <3>2. /\ wire'[wto] = Append(wire[wto], <<"body", wmsg>>)
            /\ \A c \in Conns : c # wto => wire'[c] = wire[c]
        BY <1>0, <2>1
      <3> QED BY <2>2, <3>1, <3>2, AppendAdds
    <2>4. /\ Len(wire[wto]) % 2 = 1
          /\ wire[wto][Len(wire[wto])] = <<"header", wmsg>>
          /\ \A j \in 1 .. Len(clients) : clients[j] = wto => j <= wi
      BY <2>1 DEF SentInv, InvWire, InvHeader
    <2>5. \A c \in Conns : Framed(wire'[c])
      <3>1. Framed(wire'[wto])
        BY <1>0, <1>2, <2>1, <2>2, <2>3, <2>4, PartKeepsFraming
      <3> QED BY <1>2, <2>3, <3>1
    <2>6. InvSent'
      <3>1. \A c \in Conns : SentUpTo(c, wmsg)'
        <4>1. ASSUME NEW i \in 1 .. Len(wire'[wto]) PROVE wire'[wto][i][2] <= wmsg
          <5>1. i \in 1 .. Len(wire[wto]) \/ i = Len(wire[wto]) + 1
            BY <1>0, <2>1, <2>3
          <5>2. <<"body", wmsg>>[2] <= wmsg
            BY <1>0
          <5> QED BY <1>2, <2>1, <2>3, <5>1, <5>2 DEF SentUpTo
        <4> QED BY <1>2, <2>1, <2>3, <4>1 DEF SentUpTo
      <3>2. \A c \in Conns : Unserved(c) => c # wto
        <4>1. Len(<<>>) % 2 # 1
          OBVIOUS
        <4> QED BY <1>2, <2>4, <4>1
      <3>3. ASSUME NEW j \in 1 .. Len(clients), j >= wi + 1
            PROVE  SentUpTo(clients[j], wmsg - 1)'
        <4>1. j >= wi /\ j # wi /\ ~(j <= wi)
          BY <1>0, <3>3
        <4>2. clients[j] # wto /\ clients[j] \in Conns
          BY <1>0, <2>4, <4>1
        <4>3. SentUpTo(clients[j], wmsg - 1)
          BY <2>1, <4>1, <4>2 DEF SentInv, InvWire, InvSent
        <4> QED BY <1>0, <2>1, <2>3, <4>2, <4>3 DEF SentUpTo
      <3> QED BY <1>0, <1>1, <1>2, <2>1, <2>3, <3>1, <3>2, <3>3 DEF InvSent, SentUpTo
    <2>7. InvHeader'
      <3>1. Len(wire'[wto]) % 2 # 1
        BY <1>0, <2>1, <2>3, <2>4, Parity
      <3> QED BY <1>0, <1>1, <1>2, <2>1, <2>3, <3>1 DEF InvHeader
    <2>8. InvReached'
      <3> SUFFICES ASSUME ~disturbed' PROVE InvReached'
        BY DEF InvReached
      <3>1. /\ wi <= Len(clients) /\ clients[wi] = wto
            /\ \A c \in audience : c \in ToSet(clients)
            /\ \A j \in 1 .. Len(clients) : j < wi => HasBody(clients[j])
        BY <2>1 DEF SentInv, InvReached
      <3>2. HasBody(wto)' /\ \A c \in Conns : HasBody(c) => HasBody(c)'
        BY <2>1, <2>3 DEF HasBody
      <3>3. \A c \in Conns : HasBody(c)' <=> <<"body", wmsg>> \in ToSet(wire'[c])
        BY <2>1 DEF HasBody
      <3>4. \A j \in 1 .. Len(clients) :
               j < wi + 1 => <<"body", wmsg>> \in ToSet(wire'[clients[j]])
        <4> SUFFICES ASSUME NEW j \in 1 .. Len(clients), j < wi + 1
                     PROVE  <<"body", wmsg>> \in ToSet(wire'[clients[j]])
          OBVIOUS
        <4>1. j < wi \/ j = wi
          BY <1>0
        <4>2. CASE j = wi
          BY <2>1, <3>1, <3>2, <3>3, <4>2
        <4>3. CASE j < wi
          BY <1>0, <3>1, <3>2, <3>3, <4>3
        <4> QED BY <4>1, <4>2, <4>3
      <3>5. wi + 1 <= Len(clients) + 1
        BY <1>0, <3>1
      <3> QED BY <1>0, <2>1, <3>1, <3>4, <3>5 DEF InvReached, HasBody
    <2> QED BY <2>5, <2>6, <2>7, <2>8 DEF SentInv, InvWire
  <1>8. CASE WriteUndefined
    <2>1. UNCHANGED writeVars /\ disturbed' = disturbed
      BY <1>8 DEF WriteUndefined
    <2>2. InvWire'
      BY <1>0, <1>1, <2>1, WireKept DEF SentInv
    <2>3. InvReached'
      BY <1>0, <2>1, ReachedKept DEF SentInv
    <2> QED BY <2>2, <2>3 DEF SentInv
  <1> QED BY <1>3, <1>4, <1>5, <1>6, <1>7, <1>8 DEF Writing

(* Nothing is sent before the first call, and every step keeps the invariant. *)
THEOREM SentInvariance == Spec => []SentInv
  <1>1. Init => SentInv
    <2> SUFFICES ASSUME Init PROVE SentInv
      OBVIOUS
    <2>1. /\ wpc = "idle" /\ audience = {}
          /\ \A c \in Conns : wire[c] = <<>> /\ Len(wire[c]) = 0
      BY DEF Init
    <2>2. InvWire
      <3>1. 0 % 2 # 1
        OBVIOUS
      <3>2. InvSent /\ \A c \in Conns : Framed(wire[c])
        BY <2>1 DEF InvSent, SentUpTo, Framed
      <3>3. InvHeader
        BY <2>1, <3>1 DEF InvHeader
      <3> QED BY <3>2, <3>3 DEF InvWire
    <2> QED BY <2>1, <2>2 DEF SentInv, InvReached
  <1>2. IInv /\ SentInv /\ [Next]_vars => SentInv'
    <2> SUFFICES ASSUME IInv, SentInv, [Next]_vars PROVE SentInv'
      OBVIOUS
    <2>1. CASE Writing \/ (WriteCall /\ UNCHANGED notWriter)
      BY <2>1, SentWriter
    <2>2. CASE (Start \/ StopBegin \/ Stopping) /\ UNCHANGED notMain
      BY <2>2, SentOthers DEF notMain
    <2>3. CASE Acceptor
      BY <2>3, SentOthers DEF Acceptor, notAcc
    <2>4. CASE Tasks \/ (TasksSpuriousWakeup /\ UNCHANGED notTasks)
      BY <2>4, SentOthers DEF Tasks, notTasks
    <2>5. ASSUME NEW c \in Conns, Conn(c) \/ Peer(c) PROVE SentInv'
      BY <2>5, SentOthers DEF Conn, notConn, Peer, notPeer
    <2>6. CASE UNCHANGED vars
      BY <2>6, SentOthers DEF vars
    <2>7. CASE Next
      BY <2>1, <2>2, <2>3, <2>4, <2>5, <2>7 DEF Next, Optional, Stopping
    <2> QED BY <2>6, <2>7
  <1> QED BY <1>1, <1>2, Invariance, PTL DEF Spec

(* On every connection the peer can tell where each message begins and ends, *)
(* and sees no message twice or out of order, whatever happens to the list   *)
(* between the header and the body and between one client and the next.      *)
THEOREM WireIsFramed == Spec => []WireFraming
  <1>1. SentInv => WireFraming
    BY DEF SentInv, InvWire, Framed, PartFits, WireFraming
  <1> QED BY <1>1, SentInvariance, PTL

(* A call that met no failed send and no removal has sent its message to *)
(* everyone who was in the list when it began.                           *)
THEOREM UndisturbedCallIsComplete == Spec => []UndisturbedWriteReachesAll
  <1>1. SentInv => UndisturbedWriteReachesAll
    BY DEF SentInv, InvReached, HasBody, UndisturbedWriteReachesAll, ReachedAll
  <1> QED BY <1>1, SentInvariance, PTL

-----------------------------------------------------------------------------
(* The server implements Broadcast. *)

Closed == {c \in Conns : Broken(c)}

Peers == INSTANCE Broadcast WITH current <- wmsg, closed <- Closed

(* It begins as Broadcast does. *)
LEMMA PeersInit == Init => Peers!Init
  BY DEF Init, Closed, Broken, Peers!Init

(* A connection is never opened again, whoever closes it: the peer, the tasks *)
(* thread, or stop().                                                         *)
LEMMA ClosedForGood ==
    ASSUME IInv, [Next]_vars PROVE Closed \subseteq Closed'
  <1> USE DEF listVars, mainVars, accVars, taskVars, sockVars, writeVars
  <1>0. /\ link \in [Conns -> LinkStates] /\ stopped \in [Conns -> BOOLEAN]
        /\ \A j \in 1 .. Len(clients) : clients[j] \in Conns
    BY DEF IInv, TypeOK
  <1>1. SUFFICES /\ \A c \in Conns : stopped[c] => stopped'[c]
                 /\ \A c \in Conns : link[c] \in {"reset", "gone"} =>
                                     link'[c] \in {"reset", "gone"}
    BY DEF Closed, Broken
  <1>2. CASE UNCHANGED <<link, stopped>>
    BY <1>2
  <1>3. CASE UNCHANGED vars \/ Acceptor \/ Writing \/ (WriteCall /\ UNCHANGED notWriter)
    BY <1>2, <1>3 DEF vars, Acceptor, notAcc, Writing, notWriter
  <1>4. ASSUME NEW c \in Conns, Conn(c) \/ Peer(c)
        PROVE  /\ \A d \in Conns : stopped[d] => stopped'[d]
               /\ \A d \in Conns : link[d] \in {"reset", "gone"} =>
                                   link'[d] \in {"reset", "gone"}
    BY <1>0, <1>4 DEF Conn, notConn, Peer, notPeer, Connect, PeerSend, PeerLeave
  <1>5. CASE Stopping \/ ((Start \/ StopBegin) /\ UNCHANGED notMain)
    <2>1. CASE StopClear
      BY <1>0, <2>1 DEF StopClear, Destroy
    <2>2. CASE StopClient
      BY <1>0, <2>2 DEF StopClient
    <2>3. CASE ~StopClear /\ ~StopClient
      BY <1>2, <1>5, <2>3 DEF Stopping, Start, StopBegin, StopFlag, StopNotify,
                              StopTasksJoined, StopClientJoined
    <2> QED BY <2>1, <2>2, <2>3
  <1>6. CASE Tasks \/ (TasksSpuriousWakeup /\ UNCHANGED notTasks)
    <2>1. CASE TasksStop
      BY <1>0, <2>1 DEF TasksStop
    <2>2. CASE TasksErase
      BY <1>0, <2>2 DEF TasksErase, Destroy
    <2>3. CASE ~TasksStop /\ ~TasksErase
      BY <1>2, <1>6, <2>3 DEF Tasks, TasksTake, TasksSleep, TasksSpuriousWakeup, TasksFind,
                              TasksJoined
    <2> QED BY <2>1, <2>2, <2>3
  <1> QED BY <1>3, <1>4, <1>5, <1>6 DEF Next, Optional

(* A step that sends nothing can only close connections. *)
LEMMA SilentStep ==
    ASSUME UNCHANGED <<wmsg, wire>>, Closed \subseteq Closed'
    PROVE  Peers!Close
  <1>1. Closed' \ Closed \in SUBSET (Conns \ Closed)
    BY DEF Closed
  <1>2. Closed' = Closed \union (Closed' \ Closed)
    OBVIOUS
  <1> QED BY <1>1, <1>2 DEF Peers!Close

(* The next client of the index loop has received only whole messages, which *)
(* are older than the current one.                                           *)
LEMMA HeaderStep ==
    ASSUME IInv, SentInv, WriteHeader, UNCHANGED notWriter
    PROVE  \E c \in Conns : Peers!SendHeader(c)
  <1> USE DEF listVars, mainVars, accVars, taskVars, sockVars, writeVars
  <1> DEFINE c == clients[wi]
             w == wire[c]
  <1>1. /\ wpc = "fetch" /\ wi \in 1 .. Len(clients) /\ c \in Conns /\ Sendable(c)
        /\ wire' = [wire EXCEPT ![c] = Append(@, <<"header", wmsg>>)]
        /\ UNCHANGED <<wmsg, link, stopped>> /\ w \in Seq(Parts)
    BY DEF WriteHeader, Send, notWriter, IInv, TypeOK
  <1>2. c \notin Closed /\ Closed' = Closed
    BY <1>1 DEF Closed, Broken, Sendable
  <1>3. Framed(w) /\ Len(w) % 2 # 1
    BY <1>1, <1>2 DEF SentInv, InvWire, InvHeader, Closed
  <1>4. SentUpTo(c, wmsg - 1)
    BY <1>1 DEF SentInv, InvWire, InvSent
  <1>5. ASSUME w # <<>> PROVE w[Len(w)][1] = "body" /\ w[Len(w)][2] < wmsg
    <2>1. Len(w) \in 1 .. Len(w) /\ w[Len(w)] \in Parts /\ wmsg \in Nat
      <3>1. w \in Seq(Parts)
        BY <1>1
      <3>2. Len(w) \in 1 .. Len(w) /\ w[Len(w)] \in Parts
        BY ONLY <1>5, <3>1
      <3>3. wmsg \in Nat
        BY TCPAssumption DEF IInv, TypeOK
      <3> QED BY <3>2, <3>3
    <2>2. w[Len(w)][2] <= wmsg - 1 /\ w[Len(w)][2] \in Int
      BY <1>4, <2>1, TCPAssumption DEF SentUpTo, Parts
    <2>3. w[Len(w)][1] = "body"
      BY <1>3, <2>1 DEF Framed, PartFits
    <2> QED BY <2>1, <2>2, <2>3
  <1>6. Peers!SendHeader(c)
    BY <1>1, <1>2, <1>5 DEF Peers!SendHeader, Peers!Sent
  <1> QED BY <1>1, <1>6

(* The header it follows is the last part on the connection. *)
LEMMA BodyStep ==
    ASSUME IInv, SentInv, WriteBody, UNCHANGED notWriter
    PROVE  \E c \in Conns : Peers!SendBody(c)
  <1> USE DEF listVars, mainVars, accVars, taskVars, sockVars, writeVars
  <1>1. /\ wpc = "body" /\ wto \in Conns /\ Sendable(wto)
        /\ wire' = [wire EXCEPT ![wto] = Append(@, <<"body", wmsg>>)]
        /\ UNCHANGED <<wmsg, link, stopped>>
    BY DEF WriteBody, Send, notWriter, IInv, InvWriter
  <1>2. wto \notin Closed /\ Closed' = Closed
    BY <1>1 DEF Closed, Broken, Sendable
  <1>3. /\ Len(wire[wto]) % 2 = 1
        /\ wire[wto][Len(wire[wto])] = <<"header", wmsg>>
    BY <1>1 DEF SentInv, InvWire, InvHeader
  <1>4. wire[wto] # <<>>
    <2>1. Len(<<>>) % 2 # 1
      OBVIOUS
    <2> QED BY ONLY <1>3, <2>1
  <1>5. Peers!SendBody(wto)
    BY <1>1, <1>2, <1>3, <1>4 DEF Peers!SendBody, Peers!Sent
  <1> QED BY <1>1, <1>5

(* writeToAllClients begins with Call; its sends are SendHeader and SendBody, *)
(* and everything else closes connections, or none.                           *)
LEMMA PeersNext == IInv /\ SentInv /\ [Next]_vars => [Peers!Next]_Peers!vars
  <1> SUFFICES ASSUME IInv, SentInv, [Next]_vars
               PROVE  Peers!Next \/ UNCHANGED Peers!vars
    OBVIOUS
  <1> USE DEF listVars, mainVars, accVars, taskVars, sockVars, writeVars
  <1>1. CASE UNCHANGED <<wmsg, wire>>
    BY <1>1, SilentStep, ClosedForGood DEF Peers!Next
  <1>2. CASE WriteCall /\ UNCHANGED notWriter
    <2>1. wmsg' = wmsg + 1 /\ UNCHANGED <<wire, link, stopped>>
      BY <1>2 DEF WriteCall, notWriter
    <2>2. Closed' = Closed
      BY <2>1 DEF Closed, Broken
    <2> QED BY <2>1, <2>2 DEF Peers!Next, Peers!Call
  <1>3. CASE WriteHeader /\ UNCHANGED notWriter
    BY <1>3, HeaderStep DEF Peers!Next
  <1>4. CASE WriteBody /\ UNCHANGED notWriter
    BY <1>4, BodyStep DEF Peers!Next
  <1>5. CASE Writing /\ ~WriteHeader /\ ~WriteBody
    BY <1>1, <1>5 DEF Writing, WriteSize, WriteThrows, WriteUndefined
  <1>6. CASE Stopping \/ ((Start \/ StopBegin) /\ UNCHANGED notMain) \/ Acceptor \/ Tasks
             \/ (TasksSpuriousWakeup /\ UNCHANGED notTasks) \/ UNCHANGED vars
    BY <1>1, <1>6 DEF Stopping, notMain, Acceptor, notAcc, Tasks, notTasks, vars
  <1>7. ASSUME NEW c \in Conns, Conn(c) \/ Peer(c) PROVE UNCHANGED <<wmsg, wire>>
    BY <1>7 DEF Conn, notConn, Peer, notPeer
  <1>8. Writing => UNCHANGED notWriter
    BY DEF Writing
  <1> QED BY <1>1, <1>2, <1>3, <1>4, <1>5, <1>6, <1>7, <1>8 DEF Next, Optional

(* For any number of connections, whatever acceptor, removals, peers and     *)
(* stop() do between the parts of a call: what a peer is sent is a sequence  *)
(* of whole messages that ends with the connection (lines 224-243 of         *)
(* tcp_server_lib.cpp).                                                      *)
THEOREM ServerIsBroadcast == Spec => Peers!Spec
  BY PeersInit, PeersNext, Invariance, SentInvariance, PTL DEF Spec, Peers!Spec
=============================================================================
