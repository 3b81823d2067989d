-------------------------- MODULE ManualControlProofs --------------------------
(* Proofs about ManualControl for any operators and any number of messages. *)
EXTENDS ManualControl, SequenceTheorems, TLAPS

Commands == [from : Operators, number : Nat]
IsQueued(o, n) == \E j \in 1 .. Len(queued) : queued[j] = [from |-> o, number |-> n]

(* Every message an operator's thread has handled is queued, and the one it *)
(* is handling is not.                                                      *)
InvThread ==
    /\ taken \in [Operators -> Nat]
    /\ \A o \in Operators :
         /\ conn[o] \notin {"read", "handle", "ended"} => taken[o] = 0
         /\ conn[o] = "read" => \A m \in 1 .. taken[o] : IsQueued(o, m)
         /\ conn[o] = "handle" =>
               /\ \A m \in 1 .. taken[o] - 1 : IsQueued(o, m)
               /\ ~IsQueued(o, taken[o])

(* Once the acceptor was joined no connection is accepted any more. *)
InvAcceptor ==
    /\ main \in {"stopped", "returned", "exited"} => acc = "ended"
    /\ main = "start" <=> acc = "off"

IInv == TypeOK /\ InvThread /\ InvAcceptor /\ QueuedInOrder /\ OnlyOrphansRemain

-----------------------------------------------------------------------------
(* The invariant holds before anything is started. *)
LEMMA InitInv == Init => IInv
  <1> SUFFICES ASSUME Init PROVE IInv
    OBVIOUS
  <1>1. /\ queued = <<>> /\ Len(queued) = 0 /\ queued \in Seq(Commands)
        /\ <<>> \in Seq(Kinds) /\ Len(<<>>) = 0
    BY EmptySeq DEF Init
  <1>2. /\ said = [o \in Operators |-> <<>>] /\ taken = [o \in Operators |-> 0]
        /\ conn = [o \in Operators |-> "none"] /\ link = [o \in Operators |-> "away"]
        /\ main = "start" /\ proc = "up" /\ orphans = {} /\ acc = "off"
        /\ wsRunning = FALSE /\ listening = TRUE
    BY DEF Init, WSInit
  <1>3. WSTypeOK
    BY <1>2 DEF WSTypeOK, Threads
  <1>4. TypeOK
    BY <1>1, <1>2, <1>3 DEF TypeOK, Commands
  <1>5. InvThread /\ InvAcceptor /\ QueuedInOrder /\ OnlyOrphansRemain
    BY <1>1, <1>2 DEF InvThread, InvAcceptor, QueuedInOrder, OnlyOrphansRemain
  <1> QED BY <1>4, <1>5 DEF IInv

(* A step that handles no message: connections move between the positions at *)
(* which the thread holds none, and the operators may send.                  *)
LEMMA QuietInv ==
    ASSUME IInv, UNCHANGED <<taken, queued>>, WSTypeOK', InvAcceptor',
           said' \in [Operators -> Seq(Kinds)],
           \A o \in Operators :
              /\ Len(said[o]) <= Len(said'[o])
              /\ \A n \in 1 .. Len(said[o]) : said'[o][n] = said[o][n]
              /\ \/ conn'[o] = conn[o] \/ conn'[o] = "ended"
                 \/ conn[o] \notin {"read", "handle", "ended"} /\ conn'[o] # "handle",
           main' \in {"start", "running", "stop", "close", "join", "stopped",
                      "returned", "exited"},
           proc' \in {"up", "dangling", "overrun"}, orphans' \subseteq Operators,
           OnlyOrphansRemain'
    PROVE  IInv'
  <1>1. \A o \in Operators : taken'[o] \in 0 .. Len(said'[o])
    <2> SUFFICES ASSUME NEW o \in Operators PROVE taken'[o] \in 0 .. Len(said'[o])
      OBVIOUS
    <2>1. said'[o] \in Seq(Kinds) /\ said[o] \in Seq(Kinds) /\ taken[o] \in 0 .. Len(said[o])
      BY DEF IInv, TypeOK
    <2>2. Len(said'[o]) \in Nat /\ Len(said[o]) \in Nat
      BY <2>1, LenProperties
    <2> QED BY <2>1, <2>2
  <1>2. \A o, n : IsQueued(o, n)' = IsQueued(o, n)
    BY DEF IsQueued
  <1>3. TypeOK'
    BY <1>1 DEF IInv, TypeOK
  <1>4. InvThread'
    BY <1>2, SMTT(30) DEF IInv, InvThread
  <1>5. QueuedInOrder'
    <2> SUFFICES ASSUME NEW i \in DOMAIN queued
                 PROVE  LET o == queued[i].from  n == queued[i].number IN
                        /\ n \in 1 .. taken[o] /\ said'[o][n] # "malformed"
                        /\ \A m \in 1 .. n - 1 :
                             \E j \in 1 .. i - 1 : queued[j] = [from |-> o, number |-> m]
                        /\ \A j \in 1 .. i - 1 : queued[j] # queued[i]
      BY DEF QueuedInOrder
    <2> DEFINE o == queued[i].from  n == queued[i].number
    <2>1. o \in Operators /\ n \in 1 .. taken[o] /\ said[o][n] # "malformed"
      <3>1. queued \in Seq(Commands) /\ i \in 1 .. Len(queued)
        BY LenProperties DEF IInv, TypeOK, Commands
      <3>2. queued[i] \in Commands
        BY <3>1, ElementOfSeq
      <3> QED BY <3>2 DEF Commands, IInv, QueuedInOrder
    <2>2. n \in 1 .. Len(said[o])
      BY <2>1, SMTT(30) DEF IInv, TypeOK
    <2> QED BY <2>1, <2>2 DEF IInv, QueuedInOrder
  <1> QED BY <1>3, <1>4, <1>5 DEF IInv

-----------------------------------------------------------------------------
(* The operators connect, leave and send. *)
LEMMA OperatorInv == ASSUME NEW o \in Operators PROVE IInv /\ Alive /\ Operator(o) => IInv'
  <1> SUFFICES ASSUME IInv, Alive, Operator(o) PROVE IInv'
    OBVIOUS
  <1>1. /\ UNCHANGED <<main, proc, orphans, wsRunning, listening, acc, taken, queued>>
          /\ proc = "up"
    BY DEF Operator, Send, Connect, Leave, wsVars, handlerVars, Alive
  <1>2. said \in [Operators -> Seq(Kinds)] /\ conn \in [Operators -> Threads \union
                    {"none", "backlog", "accepted", "refused", "ended"}]
    BY DEF IInv, TypeOK, WSTypeOK
  <1>3. CASE Send(o)
    <2>1. PICK k \in Kinds : said' = [said EXCEPT ![o] = Append(@, k)]
      BY <1>3 DEF Send
    <2>2. /\ Append(said[o], k) \in Seq(Kinds)
          /\ Len(said[o]) <= Len(Append(said[o], k))
          /\ \A n \in 1 .. Len(said[o]) : Append(said[o], k)[n] = said[o][n]
      BY <1>2, AppendProperties, LenProperties
    <2>3. /\ said' \in [Operators -> Seq(Kinds)]
          /\ \A p \in Operators : /\ Len(said[p]) <= Len(said'[p])
                                  /\ \A n \in 1 .. Len(said[p]) : said'[p][n] = said[p][n]
      <3>1. \A p \in Operators : Len(said[p]) \in Nat
        BY <1>2, LenProperties
      <3> QED BY <1>2, <2>1, <2>2, <3>1
    <2>4. UNCHANGED wsVars
      BY <1>3 DEF Send
    <2>5. OnlyOrphansRemain' /\ WSTypeOK' /\ InvAcceptor'
      BY <1>1, <2>4 DEF wsVars, IInv, OnlyOrphansRemain, Served, TypeOK, WSTypeOK, InvAcceptor
    <2> QED BY <1>1, <2>3, <2>4, <2>5, QuietInv DEF wsVars, IInv, TypeOK
  <1>4. CASE (Connect(o) \/ Leave(o)) /\ UNCHANGED handlerVars
    <2>1. /\ WSTypeOK' /\ said' = said
          /\ \A p \in Operators : conn'[p] = conn[p]
                \/ (conn[p] = "none" /\ conn'[p] = "backlog")
      <3>1. WSTypeOK /\ said' = said
        BY <1>4 DEF handlerVars, IInv, TypeOK
      <3>2. CASE Connect(o)
        <4>1. /\ link' = [link EXCEPT ![o] = "up"] /\ conn[o] = "none"
              /\ conn' = [conn EXCEPT ![o] = "backlog"]
          BY <3>2 DEF Connect, Moves
        <4>2. link' \in [Operators -> {"away", "up", "down"}]
          BY <3>1, <4>1 DEF WSTypeOK
        <4>3. /\ conn' \in [Operators -> Threads \union
                    {"none", "backlog", "accepted", "refused", "ended"}]
              /\ \A p \in Operators : conn'[p] = conn[p]
                    \/ (conn[p] = "none" /\ conn'[p] = "backlog")
          BY <1>2, <4>1
        <4> QED BY <1>1, <3>1, <4>2, <4>3 DEF WSTypeOK
      <3>3. CASE Leave(o)
        <4>1. link' = [link EXCEPT ![o] = "down"] /\ conn' = conn
          BY <3>3 DEF Leave
        <4>2. link' \in [Operators -> {"away", "up", "down"}]
          BY <3>1, <4>1 DEF WSTypeOK
        <4> QED BY <1>1, <3>1, <4>1, <4>2 DEF WSTypeOK
      <3> QED BY <1>4, <3>2, <3>3
    <2>2. Served' \subseteq Served
      BY <2>1 DEF Served, Threads
    <2>3. OnlyOrphansRemain' /\ InvAcceptor'
      BY <1>1, <2>2 DEF IInv, OnlyOrphansRemain, InvAcceptor
    <2>4. \A p \in Operators : Len(said[p]) <= Len(said'[p])
      BY <1>2, <2>1, LenProperties
    <2> QED BY <1>1, <1>2, <2>1, <2>3, <2>4, QuietInv DEF IInv, TypeOK
  <1> QED BY <1>3, <1>4 DEF Operator

(* A step of the server that moves no message, for all the others. *)
LEMMA ServerInv ==
    ASSUME IInv, UNCHANGED <<said, taken, queued>>, WSTypeOK', InvAcceptor',
           \A o \in Operators :
              \/ conn'[o] = conn[o] \/ conn'[o] = "ended"
              \/ conn[o] \notin {"read", "handle", "ended"} /\ conn'[o] # "handle",
           main' \in {"start", "running", "stop", "close", "join", "stopped",
                      "returned", "exited"},
           proc' \in {"up", "dangling", "overrun"}, orphans' \subseteq Operators,
           OnlyOrphansRemain'
    PROVE  IInv'
  <1>1. said \in [Operators -> Seq(Kinds)] /\ \A o \in Operators : Len(said[o]) <= Len(said'[o])
    BY LenProperties DEF IInv, TypeOK
  <1> QED BY <1>1, QuietInv

(* The acceptor takes connections while the server has not been joined. *)
LEMMA AcceptInv == IInv /\ Accepting => IInv'
  <1> SUFFICES ASSUME IInv, Accepting PROVE IInv'
    OBVIOUS
  <1>1. /\ UNCHANGED <<main, proc, said, taken, queued, orphans, wsRunning, listening, link>>
        /\ acc \notin {"off", "ended"} /\ acc' # "off"
        /\ WSTypeOK'
        /\ \A o \in Operators :
             \/ conn'[o] = conn[o]
             \/ conn[o] \in {"backlog", "accepted"} /\ conn'[o] # "handle"
    <2>1. UNCHANGED <<main, proc, said, taken, queued, orphans, wsRunning, listening, link>>
      BY DEF Accepting, Acceptor, handlerVars
    <2>2. WSTypeOK
      BY DEF IInv, TypeOK
    <2>3. CASE WSCheck \/ WSAccept \/ WSUnblocked
      BY <2>1, <2>2, <2>3 DEF WSCheck, WSAccept, WSUnblocked, WSTypeOK
    <2>4. CASE WSAccepted
      BY <2>1, <2>2, <2>4 DEF WSAccepted, Moves, WSTypeOK
    <2>5. CASE WSLaunch
      BY <2>1, <2>2, <2>5 DEF WSLaunch, NextClient, Moves, WSTypeOK, Threads
    <2> QED BY <2>1, <2>3, <2>4, <2>5 DEF Accepting, Acceptor
  <1>2. InvAcceptor' /\ main \notin {"stopped", "returned", "exited"}
    BY <1>1 DEF IInv, InvAcceptor
  <1>3. OnlyOrphansRemain'
    BY <1>1, <1>2 DEF IInv, OnlyOrphansRemain
  <1> QED BY <1>1, <1>2, <1>3, ServerInv DEF IInv, TypeOK

(* The main thread starts and stops the server, and notes whom it serves. *)
LEMMA MainInv == IInv /\ Alive /\ (Startup \/ Cleanup) => IInv'
  <1> SUFFICES ASSUME IInv, Alive, Startup \/ Cleanup PROVE IInv'
    OBVIOUS
  <1>1. /\ UNCHANGED <<proc, said, taken, queued, link, conn>> /\ proc = "up"
        /\ WSTypeOK' /\ InvAcceptor' /\ Served' = Served
        /\ main' \in {"running", "stop", "close", "join", "stopped", "returned", "exited"}
        /\ \/ main' \notin {"stopped", "returned", "exited"} /\ orphans' = orphans
           \/ orphans' = Served
           \/ main \in {"stopped", "returned", "exited"} /\ orphans' = orphans
    BY DEF Startup, Cleanup, Start, KeyPressed, StopServer, Return, Goes, WSStart, WSStopFlag,
           WSStopClose, CloseAcceptor, WSJoined, wsVars, handlerVars, IInv, TypeOK, WSTypeOK,
           InvAcceptor, Served, Alive
  <1>2. Served \subseteq Operators
    BY DEF Served
  <1>3. orphans' \subseteq Operators /\ OnlyOrphansRemain'
    BY <1>1, <1>2 DEF IInv, TypeOK, OnlyOrphansRemain
  <1> QED BY <1>1, <1>3, ServerInv DEF IInv, TypeOK

-----------------------------------------------------------------------------
(* What a connection's thread may do to the process: only a thread that was *)
(* served when stop() returned runs on after main has returned.             *)
LEMMA ThreadMeetsMain ==
    ASSUME IInv, Alive, NEW o \in Operators, conn[o] \in Threads, proc' \in Outcome,
           UNCHANGED <<main, orphans>>, Served' \subseteq Served
    PROVE  proc' \in {"up", "dangling", "overrun"} /\ OnlyOrphansRemain'
  <1>1. o \in Served
    BY DEF Served
  <1>2. proc' = "up" \/ (proc' = "dangling" /\ main = "returned")
    BY DEF Outcome
  <1> QED BY <1>1, <1>2 DEF IInv, OnlyOrphansRemain

(* The thread of a message that translates into no command ends. *)
Dropped(o) ==
    /\ conn[o] = "handle" /\ ThrowOut(o) /\ proc' \in Outcome
    /\ UNCHANGED <<said, taken, queued>>

(* A message is queued whatever it was translated into. *)
Accepted(o) ==
    /\ Translated(o) /\ said[o][taken[o]] # "malformed"
    /\ UNCHANGED <<said, taken>>

(* A token is read that is not there, and the process ends. *)
Overrun(o) ==
    /\ conn[o] = "handle" /\ said[o][taken[o]] = "short" /\ proc' = "overrun"
    /\ UNCHANGED <<conn, said, taken, queued>>

(* What the handler may do with a message. *)
LEMMA HandlerCases ==
    ASSUME NEW o \in Operators,
           HandleCommand(o) \/ HandleMalformed(o) \/ HandleShort(o)
    PROVE  Accepted(o) \/ Dropped(o) \/ Overrun(o)
  BY DEF HandleCommand, HandleMalformed, HandleShort, Accepted, Dropped, Overrun

(* A thread begins, or ends. *)
LEMMA IdleInv ==
    ASSUME IInv, Alive, NEW o \in Operators, Connection(o),
           Begin(o) \/ Dropped(o) \/ Closed(o)
    PROVE  IInv'
  <1>1. UNCHANGED <<wsRunning, listening, acc, link, main, orphans>>
    BY DEF Connection
  <1>2. /\ UNCHANGED <<said, taken, queued>> /\ proc' \in Outcome
        /\ conn[o] \in Threads
        /\ conn' = [conn EXCEPT ![o] = conn'[o]]
        /\ \/ conn[o] = "start" /\ conn'[o] \in {"read", "ended"}
           \/ conn[o] \in {"read", "handle"} /\ conn'[o] = "ended"
    <2>1. WSTypeOK /\ proc = "up"
      BY DEF IInv, TypeOK, Alive
    <2>2. CASE Begin(o)
      BY <2>1, <2>2 DEF Begin, WSHandshake, Moves, Threads, WSTypeOK
    <2>3. CASE Dropped(o)
      BY <2>1, <2>3 DEF Dropped, ThrowOut, Moves, Threads, WSTypeOK
    <2>4. CASE Closed(o)
      BY <2>1, <2>4 DEF Closed, WSClosed, Moves, Threads, WSTypeOK
    <2> QED BY <2>2, <2>3, <2>4
  <1>3. WSTypeOK' /\ InvAcceptor' /\ Served' \subseteq Served
    BY <1>1, <1>2 DEF IInv, TypeOK, WSTypeOK, InvAcceptor, Served, Threads
  <1>4. \A p \in Operators :
           \/ conn'[p] = conn[p] \/ conn'[p] = "ended"
           \/ conn[p] \notin {"read", "handle", "ended"} /\ conn'[p] # "handle"
    BY <1>2 DEF IInv, TypeOK, WSTypeOK
  <1>5. proc' \in {"up", "dangling", "overrun"} /\ OnlyOrphansRemain'
    BY <1>1, <1>2, <1>3, ThreadMeetsMain
  <1> QED BY <1>1, <1>2, <1>3, <1>4, <1>5, ServerInv DEF IInv, TypeOK

(* A thread reads the next message, which is not queued yet. *)
LEMMA ReadInv ==
    ASSUME IInv, Alive, NEW o \in Operators, Connection(o), Read(o)
    PROVE  IInv'
  <1>1. /\ UNCHANGED <<wsRunning, listening, acc, link, main, orphans, said, queued>>
        /\ proc' \in Outcome /\ conn[o] = "read" /\ conn' = [conn EXCEPT ![o] = "handle"]
        /\ taken' = [taken EXCEPT ![o] = @ + 1] /\ Len(said[o]) > taken[o]
    BY DEF Connection, Read, Moves, HasMessage
  <1>2. /\ taken \in [Operators -> Nat] /\ taken' \in [Operators -> Nat]
        /\ \A p \in Operators : taken[p] <= taken'[p]
        /\ taken'[o] = taken[o] + 1
        /\ said[o] \in Seq(Kinds) /\ Len(said[o]) \in Nat
        /\ conn \in [Operators -> Threads \union {"none", "backlog", "accepted", "refused", "ended"}]
    BY <1>1, LenProperties DEF IInv, InvThread, TypeOK, WSTypeOK
  <1>3. WSTypeOK' /\ InvAcceptor' /\ Served' \subseteq Served
    BY <1>1, <1>2 DEF IInv, TypeOK, WSTypeOK, InvAcceptor, Served, Threads
  <1>4. proc' \in {"up", "dangling", "overrun"} /\ OnlyOrphansRemain'
    BY <1>1, <1>3, ThreadMeetsMain DEF Threads
  <1>5. TypeOK'
    BY <1>1, <1>2, <1>3, <1>4 DEF IInv, TypeOK
  <1>6. ~IsQueued(o, taken[o] + 1)
    BY <1>2, LenProperties, SMTT(30) DEF IsQueued, IInv, TypeOK, QueuedInOrder
  <1>7. InvThread'
    <2>1. \A p, n : IsQueued(p, n)' <=> IsQueued(p, n)
      BY <1>1 DEF IsQueued
    <2>2. \A m \in 1 .. taken'[o] - 1 : IsQueued(o, m)
      BY <1>1, <1>2 DEF IInv, InvThread
    <2>3. ASSUME NEW p \in Operators, p # o
          PROVE  conn'[p] = conn[p] /\ taken'[p] = taken[p]
      BY <1>1, <1>2, <2>3
    <2>4. conn'[o] = "handle"
      BY <1>1, <1>2
    <2> QED BY <1>2, <1>6, <2>1, <2>2, <2>3, <2>4 DEF IInv, InvThread
  <1>8. QueuedInOrder'
    <2>1. \A i \in DOMAIN queued : queued[i].from \in Operators
      <3>1. queued \in Seq(Commands) /\ DOMAIN queued = 1 .. Len(queued)
        BY LenProperties DEF IInv, TypeOK, Commands
      <3>2. \A i \in 1 .. Len(queued) : queued[i] \in Commands
        BY <3>1, ElementOfSeq
      <3> QED BY <3>1, <3>2 DEF Commands
    <2> QED BY <1>1, <1>2, <2>1 DEF IInv, QueuedInOrder
  <1> QED BY <1>4, <1>5, <1>7, <1>8, <1>3 DEF IInv

(* The process ends while a message with too few tokens is handled. *)
LEMMA OverrunInv ==
    ASSUME IInv, Alive, NEW o \in Operators, Connection(o), Overrun(o)
    PROVE  IInv'
  <1>1. /\ UNCHANGED <<wsRunning, listening, acc, link, conn, main, orphans, said, taken, queued>>
        /\ proc' = "overrun" /\ conn[o] = "handle" /\ said[o][taken[o]] = "short"
    BY DEF Connection, Overrun
  <1>2. WSTypeOK' /\ InvAcceptor' /\ OnlyOrphansRemain'
    BY <1>1 DEF IInv, TypeOK, WSTypeOK, InvAcceptor, OnlyOrphansRemain, Served
  <1> QED BY <1>1, <1>2, ServerInv DEF IInv, TypeOK

(* A thread queues the command it has read, behind all that came before. *)
LEMMA CommandInv ==
    ASSUME IInv, Alive, NEW o \in Operators, Connection(o), Accepted(o)
    PROVE  IInv'
  <1> DEFINE c == [from |-> o, number |-> taken[o]]
             l == Len(queued)
  <1>1. /\ UNCHANGED <<wsRunning, listening, acc, link, main, orphans, said, taken>>
        /\ conn[o] = "handle" /\ conn' = [conn EXCEPT ![o] = "read"]
        /\ queued' = Append(queued, c) /\ proc' \in Outcome
        /\ said[o][taken[o]] # "malformed"
    BY DEF Connection, Accepted, Translated, NextMessage, Moves
  <1>2. /\ taken \in [Operators -> Nat] /\ queued \in Seq(Commands) /\ l \in Nat
        /\ conn \in [Operators -> Threads \union {"none", "backlog", "accepted", "refused", "ended"}]
        /\ c \in Commands /\ taken[o] \in Nat \ {0}
    BY <1>1, LenProperties DEF IInv, InvThread, TypeOK, WSTypeOK, Commands
  <1>3. /\ queued' \in Seq(Commands) /\ Len(queued') = l + 1 /\ queued'[l + 1] = c
        /\ \A i \in 1 .. l : queued'[i] = queued[i]
        /\ DOMAIN queued = 1 .. l /\ DOMAIN queued' = 1 .. l + 1
    BY <1>1, <1>2, AppendProperties, LenProperties
  <1>4. /\ \A m \in 1 .. taken[o] - 1 : \E j \in 1 .. l : queued[j] = [from |-> o, number |-> m]
        /\ \A j \in 1 .. l : queued[j] # c
    BY <1>1 DEF IInv, InvThread, IsQueued
  <1>5. WSTypeOK' /\ InvAcceptor' /\ Served' \subseteq Served
    BY <1>1, <1>2 DEF IInv, TypeOK, WSTypeOK, InvAcceptor, Served, Threads
  <1>6. proc' \in {"up", "dangling", "overrun"} /\ OnlyOrphansRemain'
    BY <1>1, <1>5, ThreadMeetsMain DEF Threads
  <1>7. TypeOK'
    BY <1>1, <1>2, <1>3, <1>5, <1>6 DEF IInv, TypeOK, Commands
  <1>8. QueuedInOrder'
    <2> SUFFICES ASSUME NEW i \in 1 .. l + 1
                 PROVE  /\ queued'[i].number \in 1 .. taken[queued'[i].from]
                        /\ said[queued'[i].from][queued'[i].number] # "malformed"
                        /\ \A m \in 1 .. queued'[i].number - 1 : \E j \in 1 .. i - 1 :
                              queued'[j] = [from |-> queued'[i].from, number |-> m]
                        /\ \A j \in 1 .. i - 1 : queued'[j] # queued'[i]
      BY <1>1, <1>3 DEF QueuedInOrder
    <2>1. CASE i = l + 1
      BY <1>1, <1>2, <1>3, <1>4, <2>1
    <2>2. CASE i \in 1 .. l
      <3>1. /\ queued[i].number \in 1 .. taken[queued[i].from]
            /\ said[queued[i].from][queued[i].number] # "malformed"
            /\ \A m \in 1 .. queued[i].number - 1 : \E j \in 1 .. i - 1 :
                  queued[j] = [from |-> queued[i].from, number |-> m]
            /\ \A j \in 1 .. i - 1 : queued[j] # queued[i]
        BY <1>3, <2>2 DEF IInv, QueuedInOrder
      <3>2. \A j \in 1 .. i : queued'[j] = queued[j]
        BY <1>2, <1>3, <2>2
      <3>3. 1 .. i - 1 \subseteq 1 .. i /\ queued'[i] = queued[i]
        BY <1>2, <1>3, <2>2
      <3> QED BY <3>1, <3>2, <3>3
    <2> QED BY <1>2, <2>1, <2>2
  <1>9. InvThread'
    <2>1. \A p, n : IsQueued(p, n)' <=> IsQueued(p, n) \/ c = [from |-> p, number |-> n]
      <3>1. 1 .. Len(queued') = 1 .. l \union {l + 1} /\ 1 .. l = 1 .. Len(queued)
        BY <1>2, <1>3
      <3> QED BY <1>3, <3>1 DEF IsQueued
    <2>2. \A p, n : c = [from |-> p, number |-> n] <=> p = o /\ n = taken[o]
      OBVIOUS
    <2>3. \A m \in 1 .. taken[o] : IsQueued(o, m)'
      <3>1. \A m \in 1 .. taken[o] : m \in 1 .. taken[o] - 1 \/ m = taken[o]
        BY <1>2
      <3>2. \A m \in 1 .. taken[o] - 1 : IsQueued(o, m)
        BY <1>4 DEF IsQueued
      <3> QED BY <2>1, <2>2, <3>1, <3>2
    <2>4. ASSUME NEW p \in Operators, p # o PROVE conn'[p] = conn[p]
      BY <1>1, <1>2, <2>4
    <2>5. conn'[o] = "read"
      BY <1>1, <1>2
    <2>6. ASSUME NEW p \in Operators, p # o
          PROVE \A n : IsQueued(p, n)' <=> IsQueued(p, n)
      BY <2>1, <2>2, <2>6
    <2>7. ASSUME NEW p \in Operators
          PROVE  /\ conn'[p] \notin {"read", "handle", "ended"} => taken[p] = 0
                 /\ conn'[p] = "read" => \A m \in 1 .. taken[p] : IsQueued(p, m)'
                 /\ conn'[p] = "handle" =>
                       /\ \A m \in 1 .. taken[p] - 1 : IsQueued(p, m)'
                       /\ ~IsQueued(p, taken[p])'
      <3>1. CASE p = o
        BY <2>3, <2>5, <3>1
      <3>2. CASE p # o
        <4>1. /\ conn[p] \notin {"read", "handle", "ended"} => taken[p] = 0
              /\ conn[p] = "read" => \A m \in 1 .. taken[p] : IsQueued(p, m)
              /\ conn[p] = "handle" =>
                    /\ \A m \in 1 .. taken[p] - 1 : IsQueued(p, m)
                    /\ ~IsQueued(p, taken[p])
          BY DEF IInv, InvThread
        <4>2. conn'[p] = conn[p] /\ \A n : IsQueued(p, n)' <=> IsQueued(p, n)
          BY <2>4, <2>6, <3>2
        <4> QED BY <1>1, <4>1, <4>2
      <3> QED BY <3>1, <3>2
    <2> QED BY <1>1, <1>2, <2>7 DEF InvThread
  <1> QED BY <1>5, <1>6, <1>7, <1>8, <1>9 DEF IInv

-----------------------------------------------------------------------------
(* The inductive invariant of the operators' path. *)
THEOREM Invariance == Spec => []IInv
  <1>1. IInv /\ [Next]_vars => IInv'
    <2> SUFFICES ASSUME IInv, [Next]_vars PROVE IInv'
      OBVIOUS
    <2>1. CASE UNCHANGED vars
      <3>1. /\ UNCHANGED <<said, taken, queued, main, proc, orphans, conn, link, acc>>
            /\ UNCHANGED <<wsRunning, listening>>
        BY <2>1 DEF vars, handlerVars, wsVars
      <3>2. WSTypeOK' /\ InvAcceptor' /\ OnlyOrphansRemain'
        BY <3>1 DEF IInv, TypeOK, WSTypeOK, InvAcceptor, OnlyOrphansRemain, Served
      <3> QED BY <3>1, <3>2, ServerInv DEF IInv, TypeOK
    <2>2. ASSUME Next, NEW o \in Operators, Connection(o) PROVE IInv'
      BY <2>2, IdleInv, ReadInv, CommandInv, OverrunInv, HandlerCases
         DEF Connection, Next, Alive
    <2> QED BY <2>1, <2>2, OperatorInv, AcceptInv, MainInv DEF Next, Alive
  <1> QED BY <1>1, InitInv, PTL DEF Spec

(* The types are right in every reachable state. *)
THEOREM TypeCorrect == Spec => []TypeOK
  BY Invariance, PTL DEF IInv

(* Each operator's messages get into the queue in the order they were sent, *)
(* each once and without a gap, for any number of operators (lines 16-31    *)
(* and 82-88 of ws_server_lib.cpp).                                         *)
THEOREM CommandsAreOrdered == Spec => []QueuedInOrder
  BY Invariance, PTL DEF IInv

(* Only an operator who was connected when stop() returned can make a thread *)
(* use what main has destroyed (lines 104-113 of ws_server_lib.cpp), and     *)
(* only a message with too few tokens can end the process otherwise.         *)
THEOREM OrphansOnly == Spec => []OnlyOrphansRemain
  BY Invariance, PTL DEF IInv

-----------------------------------------------------------------------------
(* The operators' path implements OperatorStreams. *)

(* The connections that have ended, or were never served. *)
Gone == {o \in Operators : conn[o] \in {"ended", "refused"}}

Streams == INSTANCE OperatorStreams WITH merged <- queued, cut <- Gone

(* It begins as OperatorStreams does. *)
LEMMA StreamsInit == Init => Streams!Init
  BY DEF Init, WSInit, Gone, Streams!Init

(* One connection comes to its end, or none does. *)
LEMMA OneIsCut ==
    ASSUME NEW o \in Operators, UNCHANGED <<said, queued>>,
           conn[o] \notin {"ended", "refused"},
           \A p \in Operators \ {o} : conn'[p] = conn[p]
    PROVE  Streams!Next \/ UNCHANGED Streams!vars
  <1>1. CASE conn'[o] \in {"ended", "refused"}
    <2>1. o \notin Gone /\ Gone' = Gone \union {o}
      BY <1>1 DEF Gone
    <2> QED BY <2>1 DEF Streams!Next, Streams!Cut
  <1>2. CASE conn'[o] \notin {"ended", "refused"}
    <2>1. Gone' = Gone
      BY <1>2 DEF Gone
    <2> QED BY <2>1 DEF Streams!vars
  <1> QED BY <1>1, <1>2

(* What the handler translates is Merge, Send is Say, and a connection's *)
(* end is Cut; the rest of server and main thread does not touch the      *)
(* operators' streams.                                                    *)
LEMMA StreamsNext == IInv /\ [Next]_vars => [Streams!Next]_Streams!vars
  <1> SUFFICES ASSUME IInv, [Next]_vars
               PROVE  Streams!Next \/ UNCHANGED Streams!vars
    OBVIOUS
  <1>1. conn \in [Operators -> Threads \union
                    {"none", "backlog", "accepted", "refused", "ended"}]
    BY DEF IInv, TypeOK, WSTypeOK
  <1>2. CASE UNCHANGED <<said, queued, conn>>
    BY <1>2 DEF Gone, Streams!vars
  <1>3. CASE UNCHANGED vars \/ Startup \/ Cleanup
    BY <1>2, <1>3 DEF vars, wsVars, handlerVars, Startup, Start, WSStart, KeyPressed, Cleanup,
                      StopServer, WSStopFlag, WSStopClose, Return
  <1>4. CASE Accepting
    <2>1. UNCHANGED <<said, queued>>
      BY <1>4 DEF Accepting, handlerVars
    <2>2. CASE UNCHANGED conn
      BY <1>2, <2>1, <2>2
    <2>3. CASE \E o \in Operators, c \in {"accepted", "start", "refused"} :
                  Moves(o, "backlog", c) \/ Moves(o, "accepted", c)
      <3>1. PICK o \in Operators, c \in {"accepted", "start", "refused"} :
                  Moves(o, "backlog", c) \/ Moves(o, "accepted", c)
        BY <2>3
      <3>2. /\ conn[o] \notin {"ended", "refused"}
            /\ \A p \in Operators \ {o} : conn'[p] = conn[p]
        BY <1>1, <3>1 DEF Moves
      <3> QED BY <2>1, <3>2, OneIsCut
    <2>4. UNCHANGED conn \/ \E o \in Operators, c \in {"accepted", "start", "refused"} :
                  Moves(o, "backlog", c) \/ Moves(o, "accepted", c)
      BY <1>4 DEF Accepting, Acceptor, WSCheck, WSAccept, WSAccepted, WSUnblocked, WSLaunch
    <2> QED BY <2>2, <2>3, <2>4
  <1>5. ASSUME NEW o \in Operators, Operator(o)
        PROVE  Streams!Next \/ UNCHANGED Streams!vars
    <2>1. CASE Send(o)
      <3>1. UNCHANGED <<queued, Gone>>
        BY <2>1 DEF Send, wsVars, Gone
      <3>2. Streams!Say(o)
        BY <2>1, <3>1 DEF Send, Streams!Say
      <3> QED BY <3>2 DEF Streams!Next
    <2>2. CASE Leave(o) /\ UNCHANGED handlerVars
      BY <1>2, <2>2 DEF Leave, handlerVars
    <2>3. CASE Connect(o) /\ UNCHANGED handlerVars
      <3>1. /\ UNCHANGED <<said, queued>> /\ conn[o] \notin {"ended", "refused"}
            /\ \A p \in Operators \ {o} : conn'[p] = conn[p]
        BY <1>1, <2>3 DEF Connect, Moves, handlerVars
      <3> QED BY <3>1, OneIsCut
    <2> QED BY <1>5, <2>1, <2>2, <2>3 DEF Operator
  <1>6. ASSUME NEW o \in Operators, Begin(o) \/ Read(o) \/ Closed(o) \/ Dropped(o)
        PROVE  Streams!Next \/ UNCHANGED Streams!vars
    <2>1. UNCHANGED <<said, queued>>
      BY <1>6 DEF Begin, Read, Closed, Dropped
    <2>2. \E from \in Threads, to \in {"read", "handle", "ended"} : Moves(o, from, to)
      BY <1>6 DEF Begin, WSHandshake, Read, Dropped, ThrowOut, Closed, WSClosed, Threads
    <2>3. /\ conn[o] \notin {"ended", "refused"}
          /\ \A p \in Operators \ {o} : conn'[p] = conn[p]
      BY <1>1, <2>2 DEF Moves, Threads
    <2> QED BY <2>1, <2>3, OneIsCut
  <1>7. ASSUME NEW o \in Operators, Accepted(o)
        PROVE  Streams!Next \/ UNCHANGED Streams!vars
    <2> DEFINE n == taken[o]
    <2>1. /\ conn[o] = "handle" /\ conn' = [conn EXCEPT ![o] = "read"]
          /\ queued' = Append(queued, [from |-> o, number |-> n])
          /\ said' = said /\ said[o][n] # "malformed"
      BY <1>7 DEF Accepted, Translated, NextMessage, Moves
    <2>2. n \in 1 .. Len(said[o])
      BY <2>1, SMTT(30) DEF IInv, TypeOK
    <2>3. /\ \A m \in 1 .. n - 1 : Streams!Merged(o, m)
          /\ ~Streams!Merged(o, n)
      BY <2>1 DEF IInv, InvThread, IsQueued, Streams!Merged
    <2>4. o \notin Gone /\ Gone' = Gone
      BY <1>1, <2>1 DEF Gone
    <2>5. Streams!Merge(o)
      BY <2>1, <2>2, <2>3, <2>4 DEF Streams!Merge
    <2> QED BY <2>5 DEF Streams!Next
  <1>8. ASSUME NEW o \in Operators, Connection(o)
        PROVE  Streams!Next \/ UNCHANGED Streams!vars
    <2>1. CASE Overrun(o)
      BY <1>2, <2>1 DEF Overrun
    <2> QED BY <1>6, <1>7, <1>8, <2>1, HandlerCases DEF Connection
  <1> QED BY <1>3, <1>4, <1>5, <1>8 DEF Next

(* For any number of operators and however their threads interleave, the     *)
(* server merges their commands: none is reordered, skipped or repeated, and *)
(* whoever was cut off does not come back (lines 16-31, 69-113 of            *)
(* ws_server_lib.cpp).                                                       *)
THEOREM ServerMergesStreams == Spec => Streams!Spec
  BY StreamsInit, StreamsNext, Invariance, PTL DEF Spec, Streams!Spec
=============================================================================
