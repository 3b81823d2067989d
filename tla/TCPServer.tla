------------------------------ MODULE TCPServer ------------------------------
(***************************************************************************)
(* The TCP server of src/realtime_sys_rover/tcp_server: one acceptor       *)
(* thread, one thread per connection, one tasks thread that removes failed *)
(* connections, the application's main thread that starts and stops the    *)
(* server, and the application thread that broadcasts commands.            *)
(*                                                                         *)
(* The client list _clients is not protected by any mutex outside stop().  *)
(* An access that meets a concurrent mutation is undefined behaviour: the  *)
(* model either goes on as the interleaving says or stops in the process   *)
(* state "undefined".  "terminated" is std::terminate after an exception   *)
(* that no thread function catches.                                        *)
(***************************************************************************)
EXTENDS Integers, Sequences, SequencesExt

CONSTANTS
    Conns,         \* connections that peers may open
    MaxMessages,   \* bound: calls of writeToAllClients
    MaxInbound,    \* bound: messages of a peer that wait to be read
    CloseUnblocks  \* closing a socket wakes a thread that blocks on it

ASSUME TCPAssumption ==
    /\ MaxMessages \in Nat
    /\ MaxInbound \in Nat
    /\ CloseUnblocks \in BOOLEAN

VARIABLES
    proc,       \* "up", or how the process ended
    mpc,        \* where the main thread is in TCPServer's start and stop
    mi,         \* the client that stop()'s loop has reached
    isRunning,  \* _is_running (stop() closes the acceptor when it clears it)
    stopTask,   \* _stop_task_thread
    acc,        \* where the acceptor thread is
    accConn,    \* the connection it has accepted last
    clients,    \* _clients
    tpc,        \* where the tasks thread is; it holds _task_m at "park"
    tasks,      \* _tasks: each task removes the connection it names
    task,       \* the task taken out of the queue
    itr,        \* connection_itr as an index, 0 when it points nowhere
    cpc,        \* where each connection's thread is
    stopped,    \* Connection::stop has cleared _is_running and closed the socket
    link,       \* what the network has told the socket of each connection
    backlog,    \* connections the kernel holds for accept
    inbox,      \* messages waiting to be read on each connection
    wpc, wi,    \* where writeToAllClients is, and its loop index
    wmsg, wto,  \* its message, and the client whose header it has sent
    wire,       \* history: the parts sent on each connection
    audience,   \* history: the clients in the list when the call began
    disturbed   \* history: the call threw, or the list shrank during it

listVars  == <<proc, clients, cpc, link, disturbed>>
mainVars  == <<mpc, mi, isRunning, stopTask>>
accVars   == <<acc, accConn, backlog>>
taskVars  == <<tpc, tasks, task, itr>>
sockVars  == <<stopped, inbox>>
writeVars == <<wpc, wi, wmsg, wto, wire, audience>>
vars == <<listVars, mainVars, accVars, taskVars, sockVars, writeVars>>

NoConn == "none"

Init ==
    /\ proc = "up" /\ clients = <<>>
    /\ mpc = "init" /\ mi = 1 /\ isRunning = FALSE /\ stopTask = FALSE
    /\ acc = "off" /\ accConn = NoConn /\ backlog = {}
    /\ tpc = "off" /\ tasks = <<>> /\ task = NoConn /\ itr = 0
    /\ cpc = [c \in Conns |-> "none"]
    /\ stopped = [c \in Conns |-> FALSE]
    /\ link = [c \in Conns |-> "idle"]
    /\ inbox = [c \in Conns |-> 0]
    /\ wpc = "idle" /\ wi = 1 /\ wmsg = 0 /\ wto = NoConn
    /\ wire = [c \in Conns |-> <<>>]
    /\ audience = {} /\ disturbed = FALSE

-----------------------------------------------------------------------------
(* Threads that are inside an access to _clients. *)
AcceptorInside == acc \in {"push", "launch"}
TasksInside    == tpc \in {"find", "stop", "erase"}
WriterInside   == wpc \in {"size", "fetch"}

(* What a mutation of _clients leaves of the process. *)
Mutated(race) == proc' \in IF race THEN {"up", "undefined"} ELSE {"up"}

(* The destructor of a connection: its thread and its socket are gone. *)
Destroy(C) ==
    /\ cpc' = [c \in Conns |-> IF c \in C THEN "freed" ELSE cpc[c]]
    /\ link' = [c \in Conns |-> IF c \in C THEN "gone" ELSE link[c]]

(* notify_one: the tasks thread wakes if it already sleeps. *)
NotifyNobody == tpc' = tpc                                          \* fault
NotifyTasks == tpc' = IF tpc = "asleep" THEN "lock" ELSE tpc

(* What std::thread::join waits for. *)
NotAwaited == TRUE                                                  \* fault
NoneAwaited(c) == TRUE                                              \* fault
AcceptorEnded == acc = "done"
TasksEnded == tpc = "done"
ConnEnded(c) == cpc[c] = "exited"

-----------------------------------------------------------------------------
(* The main thread: start() and the steps of stop(). *)

Start ==
    /\ mpc = "init"
    /\ mpc' = "running" /\ isRunning' = TRUE /\ stopTask' = FALSE
    /\ tpc' = "lock" /\ acc' = "check"
    /\ UNCHANGED <<listVars, mi, stopped>>

StopBegin ==
    /\ mpc = "running" /\ isRunning
    /\ isRunning' = FALSE /\ mpc' = "joinAcceptor"
    /\ UNCHANGED <<listVars, mi, stopTask, acc, tpc, stopped>>

(* The flag is set without _task_m. *)
StopFlag ==
    /\ mpc = "joinAcceptor" /\ AcceptorEnded
    /\ stopTask' = TRUE /\ mpc' = "notify"
    /\ UNCHANGED <<listVars, mi, isRunning, acc, tpc, stopped>>

StopNotify ==
    /\ mpc = "notify"
    /\ NotifyTasks
    /\ mpc' = "joinTasks"
    /\ UNCHANGED <<listVars, mi, isRunning, stopTask, acc, stopped>>

StopTasksJoined ==
    /\ mpc = "joinTasks" /\ TasksEnded
    /\ mpc' = "clients" /\ mi' = 1
    /\ UNCHANGED <<listVars, isRunning, stopTask, acc, tpc, stopped>>

StopClient ==
    /\ mpc = "clients" /\ mi <= Len(clients)
    /\ stopped' = [stopped EXCEPT ![clients[mi]] = TRUE]
    /\ mpc' = "joinClient"
    /\ UNCHANGED <<listVars, mi, isRunning, stopTask, acc, tpc>>

StopClientJoined ==
    /\ mpc = "joinClient" /\ ConnEnded(clients[mi])
    /\ mpc' = "clients" /\ mi' = mi + 1
    /\ UNCHANGED <<listVars, isRunning, stopTask, acc, tpc, stopped>>

StopClear ==
    /\ mpc = "clients" /\ mi > Len(clients)
    /\ clients' = <<>> /\ Destroy(ToSet(clients)) /\ Mutated(WriterInside)
    /\ mpc' = "stopped"
    /\ disturbed' = (disturbed \/ wpc # "idle")
    /\ UNCHANGED <<mi, isRunning, stopTask, acc, tpc, stopped>>

-----------------------------------------------------------------------------
(* The acceptor thread.  Any exception ends its loop for good. *)

AcceptorCheck ==
    /\ acc = "check"
    /\ acc' = IF isRunning THEN "accept" ELSE "done"
    /\ UNCHANGED <<proc, clients, cpc, accConn, backlog, itr>>

AcceptorAccept ==
    /\ acc = "accept"
    /\ \E c \in backlog : accConn' = c /\ backlog' = backlog \ {c}
    /\ acc' = "push"
    /\ UNCHANGED <<proc, clients, cpc, itr>>

(* accept() fails because stop() has closed the acceptor, or               *)
(* remote_endpoint() throws because the peer has already reset the         *)
(* connection.                                                             *)
AcceptorFails ==
    /\ \/ acc = "accept" /\ ~isRunning
       \/ acc = "push" /\ link[accConn] = "reset"
    /\ acc' = "done"
    /\ UNCHANGED <<proc, clients, cpc, accConn, backlog, itr>>

FrontAdded == clients' = <<accConn>> \o clients                      \* fault
PushBack == clients' = Append(clients, accConn)

(* push_back; a reallocation leaves the tasks thread's iterator dangling. *)
AcceptorPush ==
    /\ acc = "push" /\ link[accConn] # "reset"
    /\ PushBack
    /\ itr' \in {itr, 0}
    /\ Mutated(TasksInside \/ WriterInside)
    /\ acc' = "launch"
    /\ UNCHANGED <<cpc, accConn, backlog>>

(* The handlers are set and the thread is started through _clients.back(). *)
AcceptorLaunch ==
    /\ acc = "launch"
    /\ cpc' = [cpc EXCEPT ![Last(clients)] = "loop"]
    /\ acc' = "check"
    /\ UNCHANGED <<proc, clients, accConn, backlog, itr>>

-----------------------------------------------------------------------------
(* The tasks thread. *)

(* Takes _task_m and evaluates the predicate of wait. *)
TasksTake ==
    /\ tpc = "lock"
    /\ \/ /\ tasks # <<>>
          /\ task' = Head(tasks) /\ tasks' = Tail(tasks) /\ tpc' = "find"
       \/ /\ tasks = <<>>
          /\ tpc' = IF stopTask THEN "done" ELSE "park"
          /\ UNCHANGED <<tasks, task>>
    /\ UNCHANGED <<listVars, itr, stopped>>

(* wait() gives _task_m up and sleeps. *)
TasksSleep ==
    /\ tpc = "park"
    /\ tpc' = "asleep"
    /\ UNCHANGED <<listVars, tasks, task, itr, stopped>>

TasksSpuriousWakeup ==
    /\ tpc = "asleep"
    /\ tpc' = "lock"
    /\ UNCHANGED <<listVars, tasks, task, itr, stopped>>

(* find_if, then getIPv4: remote_endpoint() of a connection that the peer has *)
(* reset throws, and nothing in the tasks thread catches it.                  *)
TasksFind ==
    /\ tpc = "find"
    /\ LET found == task \in ToSet(clients) IN
       /\ itr' = IF found THEN CHOOSE i \in DOMAIN clients : clients[i] = task
                 ELSE 0
       /\ tpc' = IF found THEN "stop" ELSE "lock"
       /\ proc' = IF found /\ link[task] = "reset" THEN "terminated" ELSE proc
    /\ UNCHANGED <<clients, cpc, link, disturbed, tasks, task, stopped>>

TasksStop ==
    /\ tpc = "stop"
    /\ \/ itr = 0 /\ proc' = "undefined" /\ UNCHANGED <<tpc, stopped>>
       \/ /\ itr # 0
          /\ stopped' = [stopped EXCEPT ![clients[itr]] = TRUE]
          /\ tpc' = "join"
          /\ UNCHANGED proc
    /\ UNCHANGED <<clients, cpc, link, disturbed, tasks, task, itr>>

TasksJoined ==
    /\ tpc = "join" /\ ConnEnded(task)
    /\ tpc' = "erase"
    /\ UNCHANGED <<listVars, tasks, task, itr, stopped>>

TasksErase ==
    /\ tpc = "erase"
    /\ \/ /\ itr = 0 /\ proc' = "undefined"
          /\ UNCHANGED <<clients, tpc, itr, cpc, link, disturbed>>
       \/ /\ itr # 0 /\ Mutated(AcceptorInside \/ WriterInside)
          /\ Destroy({clients[itr]})
          /\ clients' = RemoveAt(clients, itr)
          /\ tpc' = "lock" /\ itr' = 0
          /\ disturbed' = (disturbed \/ wpc # "idle")
    /\ UNCHANGED <<tasks, task, stopped>>

-----------------------------------------------------------------------------
(* The thread of connection c. *)

ConnCheck(c) ==
    /\ cpc[c] = "loop"
    /\ cpc' = [cpc EXCEPT ![c] = IF stopped[c] THEN "exited" ELSE "blocked"]
    /\ UNCHANGED <<tpc, tasks, inbox>>

AnyMessage(c) == TRUE                                               \* fault
MessageWaits(c) == inbox[c] > 0

(* A message is read and handled; the handler, or the read of the body, may *)
(* throw.                                                                   *)
ConnReceive(c) ==
    /\ cpc[c] = "blocked" /\ MessageWaits(c)
    /\ inbox' = [inbox EXCEPT ![c] = @ - 1]
    /\ \E next \in {"loop", "report"} : cpc' = [cpc EXCEPT ![c] = next]
    /\ UNCHANGED <<tpc, tasks>>

ConnFails(c) ==
    /\ cpc[c] = "blocked"
    /\ \/ link[c] = "reset"
       \/ link[c] = "eof" /\ ~MessageWaits(c)
       \/ stopped[c]
    /\ cpc' = [cpc EXCEPT ![c] = "report"]
    /\ UNCHANGED <<tpc, tasks, inbox>>

(* handleDisconnection: the task is queued under _task_m ... *)
ConnReport(c) ==
    /\ cpc[c] = "report" /\ tpc # "park"
    /\ tasks' = Append(tasks, c)
    /\ cpc' = [cpc EXCEPT ![c] = "notify"]
    /\ UNCHANGED <<tpc, inbox>>

LoopAgain(c) == cpc' = [cpc EXCEPT ![c] = "loop"]                   \* fault
EndThread(c) == cpc' = [cpc EXCEPT ![c] = "exited"]

(* ... the tasks thread is notified, and the connection's thread ends. *)
ConnNotify(c) ==
    /\ cpc[c] = "notify"
    /\ NotifyTasks
    /\ EndThread(c)
    /\ UNCHANGED <<tasks, inbox>>

-----------------------------------------------------------------------------
(* writeToAllClients, called by the application's communication thread. *)

Sendable(c) == link[c] \in {"open", "eof"} /\ ~stopped[c]

(* On a blocking socket send returns before the whole part is sent only when *)
(* the connection breaks meanwhile.  Nothing can follow on that connection,  *)
(* so such a part counts as sent: the last one on a wire may be incomplete.  *)
SendTwice(c, part) ==                                               \* fault
    wire' = [wire EXCEPT ![c] = @ \o <<<<part, wmsg>>, <<part, wmsg>>>>]
Send(c, part) == wire' = [wire EXCEPT ![c] = Append(@, <<part, wmsg>>)]

FewerClients == wi < Len(clients)                                   \* fault
MoreClients == wi <= Len(clients)

WriteCall ==
    /\ wpc = "idle" /\ mpc # "init" /\ wmsg < MaxMessages
    /\ wmsg' = wmsg + 1 /\ wi' = 1
    /\ wpc' = IF clients = <<>> THEN "idle" ELSE "size"
    /\ audience' = ToSet(clients) /\ disturbed' = FALSE
    /\ UNCHANGED <<proc, wto, wire>>

WriteSize ==
    /\ wpc = "size"
    /\ wpc' = IF MoreClients THEN "fetch" ELSE "idle"
    /\ UNCHANGED <<proc, disturbed, wi, wmsg, wto, wire, audience>>

(* A failed send throws, and the exception leaves the loop over the clients. *)
WriteThrows ==
    /\ \/ wpc = "fetch" /\ wi <= Len(clients) /\ ~Sendable(clients[wi])
       \/ wpc = "body" /\ cpc[wto] # "freed" /\ ~Sendable(wto)
    /\ wpc' = "idle" /\ disturbed' = TRUE
    /\ UNCHANGED <<proc, wi, wmsg, wto, wire, audience>>

WriteHeader ==
    /\ wpc = "fetch" /\ wi <= Len(clients) /\ Sendable(clients[wi])
    /\ wto' = clients[wi]
    /\ Send(clients[wi], "header")
    /\ wpc' = "body"
    /\ UNCHANGED <<proc, disturbed, wi, wmsg, audience>>

WriteBody ==
    /\ wpc = "body" /\ cpc[wto] # "freed" /\ Sendable(wto)
    /\ Send(wto, "body")
    /\ wpc' = "size" /\ wi' = wi + 1
    /\ UNCHANGED <<proc, disturbed, wmsg, wto, audience>>

(* The list shrank after its size was read, or the connection was destroyed. *)
WriteUndefined ==
    /\ \/ wpc = "fetch" /\ wi > Len(clients)
       \/ wpc = "body" /\ cpc[wto] = "freed"
    /\ proc' = "undefined"
    /\ UNCHANGED <<writeVars, disturbed>>

-----------------------------------------------------------------------------
(* The peers and the kernel. *)

Connect(c) ==
    /\ link[c] = "idle" /\ acc # "done"
    /\ link' = [link EXCEPT ![c] = "open"]
    /\ backlog' = backlog \cup {c}
    /\ UNCHANGED inbox

PeerSend(c) ==
    /\ link[c] = "open" /\ inbox[c] < MaxInbound
    /\ inbox' = [inbox EXCEPT ![c] = @ + 1]
    /\ UNCHANGED <<link, backlog>>

(* An orderly shutdown, or a reset that may also follow a shutdown. *)
PeerLeave(c) ==
    /\ \/ link[c] = "open" /\ link' = [link EXCEPT ![c] = "eof"]
       \/ link[c] \in {"open", "eof"} /\ link' = [link EXCEPT ![c] = "reset"]
    /\ UNCHANGED <<backlog, inbox>>

-----------------------------------------------------------------------------
(* What the steps of each thread leave alone. *)
notMain   == <<writeVars, accConn, backlog, tasks, task, itr, inbox>>
notAcc    == <<mainVars, sockVars, writeVars, link, disturbed, tpc, tasks, task>>
notTasks  == <<mainVars, accVars, writeVars, inbox>>
notConn   == <<mainVars, accVars, writeVars, proc, clients, link, disturbed,
               task, itr, stopped>>
notWriter == <<mainVars, accVars, taskVars, sockVars, clients, cpc, link>>
notPeer   == <<mainVars, taskVars, writeVars, proc, clients, cpc, disturbed,
               acc, accConn, stopped>>

Stopping == /\ \/ StopFlag \/ StopNotify \/ StopTasksJoined
               \/ StopClient \/ StopClientJoined \/ StopClear
            /\ UNCHANGED notMain
Acceptor == /\ \/ AcceptorCheck \/ AcceptorAccept \/ AcceptorFails
               \/ AcceptorPush \/ AcceptorLaunch
            /\ UNCHANGED notAcc
Tasks    == /\ \/ TasksTake \/ TasksSleep \/ TasksFind \/ TasksStop
               \/ TasksJoined \/ TasksErase
            /\ UNCHANGED notTasks
Conn(c)  == /\ \/ ConnCheck(c) \/ ConnReceive(c) \/ ConnFails(c)
               \/ ConnReport(c) \/ ConnNotify(c)
            /\ UNCHANGED notConn
Writing  == /\ \/ WriteSize \/ WriteThrows \/ WriteHeader \/ WriteBody
               \/ WriteUndefined
            /\ UNCHANGED notWriter
Peer(c)  == (Connect(c) \/ PeerSend(c) \/ PeerLeave(c)) /\ UNCHANGED notPeer

(* Steps that nothing obliges anyone to take. *)
Optional == \/ (Start \/ StopBegin) /\ UNCHANGED notMain
            \/ TasksSpuriousWakeup /\ UNCHANGED notTasks
            \/ WriteCall /\ UNCHANGED notWriter
            \/ \E c \in Conns : Peer(c)

Next ==
    /\ proc = "up"
    /\ \/ Stopping \/ Acceptor \/ Tasks \/ Writing \/ Optional
       \/ \E c \in Conns : Conn(c)

Spec == Init /\ [][Next]_vars

(* The network gives a thread reason to return from a blocking call.  A call *)
(* that begins after the close fails everywhere; one that already blocks     *)
(* need not notice the close.                                                *)
AcceptorRuns == acc = "accept" => backlog # {} \/ CloseUnblocks
ConnRuns(c) == cpc[c] = "blocked" =>
    MessageWaits(c) \/ link[c] \in {"eof", "reset"} \/ CloseUnblocks

(* Every thread that can run does run, and a connection's thread that waits  *)
(* for _task_m gets it if it is free again and again.  Nothing is asked of   *)
(* the peers, of the user who stops the server, or of spurious wakeups.      *)
Fairness ==
    /\ WF_vars(proc = "up" /\ Stopping)
    /\ WF_vars(proc = "up" /\ AcceptorRuns /\ Acceptor)
    /\ WF_vars(proc = "up" /\ Tasks)
    /\ WF_vars(proc = "up" /\ Writing)
    /\ \A c \in Conns : /\ WF_vars(proc = "up" /\ ConnRuns(c) /\ Conn(c))
                        /\ SF_vars(proc = "up" /\ Conn(c) /\ ConnReport(c))

FairSpec == Spec /\ Fairness

-----------------------------------------------------------------------------
MainSteps == {"init", "running", "joinAcceptor", "notify", "joinTasks",
              "clients", "joinClient", "stopped"}
AcceptorSteps == {"off", "check", "accept", "push", "launch", "done"}
TasksSteps == {"off", "lock", "park", "asleep", "find", "stop", "join", "erase",
               "done"}
ConnSteps == {"none", "loop", "blocked", "report", "notify", "exited", "freed"}
LinkStates == {"idle", "open", "eof", "reset", "gone"}
Parts == {"header", "body"} \X (1 .. MaxMessages)

(* Types of the variables. *)
TypeOK ==
    /\ proc \in {"up", "terminated", "undefined"} /\ clients \in Seq(Conns)
    /\ mpc \in MainSteps /\ mi \in Nat \ {0}
    /\ isRunning \in BOOLEAN /\ stopTask \in BOOLEAN
    /\ acc \in AcceptorSteps
    /\ accConn \in Conns \cup {NoConn} /\ backlog \subseteq Conns
    /\ tpc \in TasksSteps
    /\ tasks \in Seq(Conns) /\ task \in Conns \cup {NoConn} /\ itr \in Nat
    /\ cpc \in [Conns -> ConnSteps] /\ stopped \in [Conns -> BOOLEAN]
    /\ link \in [Conns -> LinkStates] /\ inbox \in [Conns -> 0 .. MaxInbound]
    /\ wpc \in {"idle", "size", "fetch", "body"} /\ wi \in Nat \ {0}
    /\ wmsg \in 0 .. MaxMessages /\ wto \in Conns \cup {NoConn}
    /\ wire \in [Conns -> Seq(Parts)]
    /\ audience \subseteq Conns /\ disturbed \in BOOLEAN

TasksWorking == tpc \in {"find", "stop", "join", "erase"}

(* A removal task, queued or being run, names a connection that is still in *)
(* the list, and no connection has two: the raw Connection* that            *)
(* handleDisconnection captures never dangles while a task can run, and     *)
(* find_if never comes back empty (lines 252-265).                          *)
TasksTargetLive ==
    mpc # "stopped" =>
        /\ IsInjective(tasks)
        /\ ToSet(tasks) \subseteq ToSet(clients)
        /\ TasksWorking => task \in ToSet(clients) \ ToSet(tasks)

(* The three uses of _clients.back() reach the connection this pass of the *)
(* loop has pushed, although other threads change the list (159-164).      *)
LaunchTargetsAccepted ==
    acc = "launch" => clients # <<>> /\ Last(clients) = accConn

(* Connection::stop, which would throw at its second join, is called on a *)
(* connection by the tasks thread or by TCPServer::stop, never by both.   *)
StopOncePerConnection ==
    /\ tpc = "stop" => ~stopped[task]
    /\ mpc = "clients" =>
          \A i \in mi .. Len(clients) : ~stopped[clients[i]]

(* When stop() has returned, no thread of the server is left that could touch *)
(* its members or call the message handler (179-203).                         *)
StopLeavesNothingRunning ==
    mpc = "stopped" =>
        /\ acc = "done" /\ tpc = "done" /\ clients = <<>>
        /\ \A c \in Conns : cpc[c] \in {"none", "freed"}

(* On every connection each header is followed by its own body, no message *)
(* is sent twice and none is overtaken, whatever the list does during the  *)
(* index loop of writeToAllClients (228-243, 84-89).                       *)
WireFraming ==
    \A c \in Conns : \A i \in 1 .. Len(wire[c]) :
        IF i % 2 = 1
        THEN /\ wire[c][i][1] = "header"
             /\ i > 1 => wire[c][i - 1][2] < wire[c][i][2]
        ELSE /\ wire[c][i][1] = "body"
             /\ wire[c][i - 1][2] = wire[c][i][2]

(* Everyone in the list when the last call began, and still connected, was *)
(* sent the message.                                                       *)
ReachedAll ==
    \A c \in audience : link[c] = "open" /\ ~stopped[c] =>
        <<"body", wmsg>> \in ToSet(wire[c])

(* A broadcast that met no failed send and no removal reached everyone. *)
UndisturbedWriteReachesAll == wpc = "idle" /\ ~disturbed => ReachedAll

(* A connection is destroyed only after its thread was joined: destroying a *)
(* joinable std::thread ends the process (lines 262-263, 195-198).          *)
DestroyedOnlyAfterJoin ==
    [][\A c \in Conns : cpc'[c] = "freed" => cpc[c] \in {"exited", "freed"}]_vars

(* A connection that reported its failure is taken out of the list, unless *)
(* the process ends or stop() is already past its own removal of clients.  *)
DisconnectionHandled ==
    \A c \in Conns : cpc[c] \in {"report", "notify"} ~>
        (cpc[c] = "freed" \/ proc # "up")

(* stop() returns once the tasks thread has had the chance to see its flag, *)
(* that is unless the flag and the notification fall between the predicate  *)
(* of wait() and its sleep.                                                 *)
StopReturnsIfNoticed ==
    (mpc = "notify" /\ tpc # "park") ~> (mpc = "stopped" \/ proc # "up")

(* Line 177: "Stops the acceptor and the task thread." *)
StopReturns == (mpc = "joinAcceptor") ~> (mpc = "stopped" \/ proc # "up")

(* Line 177 again, for the acceptor alone. *)
AcceptorStops == (mpc = "joinAcceptor") ~> (acc = "done" \/ proc # "up")

(* Line 248: "Removes the client from the list of clients." *)
DisconnectionRemovesClient == proc # "terminated"

(* Line 224: "Writes a message to all clients." *)
WritesToAllClients == wpc = "idle" => ReachedAll
=============================================================================
