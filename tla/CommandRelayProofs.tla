------------------------- MODULE CommandRelayProofs -------------------------
(* Proofs about CommandRelay for any inputs, any limit and any bounds. *)
EXTENDS CommandRelay, SequenceLemmas

(* The last order is at the end of the queue, or in the thread's hand, or *)
(* dealt with: it was sent, or it was an ordinary command.                *)
LastOrder == Len(orders)
InvLast == orders # <<>> =>
    \/ queue # <<>> /\ queue[Len(queue)] = LastOrder
    \/ queue = <<>> /\ hand = LastOrder
    \/ /\ queue = <<>> /\ hand = 0
       /\ \/ orders[LastOrder] \notin Exempt
          \/ log # <<>> /\ log[Len(log)].order = LastOrder

IInv == TypeOK /\ InvLast

-----------------------------------------------------------------------------
(* Before the first command the invariant holds. *)
LEMMA InitInv == Init => IInv
  <1> SUFFICES ASSUME Init PROVE IInv
    OBVIOUS
  <1>1. \A S : <<>> \in Seq(S)
    OBVIOUS
  <1>2. TypeOK
    BY <1>1 DEF Init, TypeOK, Idle
  <1>3. InvLast
    BY DEF Init, InvLast
  <1> QED BY <1>2, <1>3 DEF IInv

(* Every kind of message is translated to a command. *)
LEMMA Translated == \A m \in Inputs : CommandOf[m] \in Commands
  <1>1. DOMAIN CommandOf = {"stop", "button", "steer", "centre", "look",
                            "lookAhead", "mode"}
    BY DEF CommandOf
  <1>2. \A m \in DOMAIN CommandOf : CommandOf[m] \in Commands
    <2>1. /\ CommandOf["stop"] = "stop" /\ CommandOf["button"] = "move"
          /\ CommandOf["steer"] = "move" /\ CommandOf["centre"] = "stop"
          /\ CommandOf["look"] = "" /\ CommandOf["lookAhead"] = "reset_camera"
          /\ CommandOf["mode"] = ""
      BY DEF CommandOf
    <2> QED BY <1>1, <2>1 DEF Commands
  <1> QED BY <1>2, RelayAssumption

(* A handler thread puts the order it numbers at the end of the queue. *)
LEMMA EnqueueInv == IInv /\ Enqueue => IInv'
  <1> SUFFICES ASSUME IInv, Enqueue PROVE IInv'
    OBVIOUS
  <1>1. PICK c \in Commands : orders' = Append(orders, c)
    BY Translated DEF Enqueue
  <1>2. /\ orders \in Seq(Commands) /\ orders' \in Seq(Commands)
        /\ Len(orders') = Len(orders) + 1
        /\ 1 .. Len(orders) \subseteq 1 .. Len(orders')
        /\ Len(orders') \in 1 .. Len(orders')
    BY <1>1 DEF IInv, TypeOK
  <1>3. /\ queue' = Append(queue, Len(orders'))
        /\ UNCHANGED <<main, clock, pc, now, last, hand, log>>
    BY <1>2 DEF Enqueue, AtEnd
  <1>4. /\ queue' \in Seq(1 .. Len(orders'))
        /\ queue' # <<>> /\ queue'[Len(queue')] = Len(orders')
    <2>1. queue \in Seq(1 .. Len(orders'))
      BY <1>2, SeqWidens DEF IInv, TypeOK
    <2> QED BY <1>2, <1>3, <2>1, AppendAdds
  <1>5. log \in Seq([order : 1 .. Len(orders'), at : Nat])
    <2> DEFINE old == [order : 1 .. Len(orders), at : Nat]
               new == [order : 1 .. Len(orders'), at : Nat]
    <2>1. log \in Seq(old)
      BY DEF IInv, TypeOK
    <2>2. old \subseteq new
      BY <1>2
    <2> HIDE DEF old, new
    <2>3. log \in Seq(new)
      BY <2>1, <2>2, SeqWidens
    <2> QED BY <2>3 DEF new
  <1>6. IF Idle' THEN hand' = 0 ELSE hand' \in 1 .. Len(orders')
    BY <1>2, <1>3 DEF IInv, TypeOK, Idle
  <1>7. TypeOK'
    BY <1>2, <1>3, <1>4, <1>5, <1>6 DEF IInv, TypeOK
  <1>8. queue' # <<>> /\ queue'[Len(queue')] = LastOrder'
    BY <1>4 DEF LastOrder
  <1> QED BY <1>7, <1>8 DEF IInv, InvLast

(* The communication thread loses no exempt order. *)
LEMMA CommInv == IInv /\ Comm => IInv'
  <1> SUFFICES ASSUME IInv, Comm PROVE IInv'
    OBVIOUS
  <1> USE DEF IInv, TypeOK, InvLast, LastOrder, Idle
  <1>0. UNCHANGED <<main, clock, orders>>
    BY DEF Comm
  <1>1. CASE CommCheck
    BY <1>0, <1>1 DEF CommCheck
  <1>2. CASE CommTime
    BY <1>0, <1>2 DEF CommTime
  <1>3. CASE CommDequeue
    <2>1. CASE queue = <<>>
      BY <1>0, <1>3, <2>1 DEF CommDequeue
    <2>2. CASE queue # <<>>
      <3>1. /\ hand' = Head(queue) /\ queue' = Tail(queue) /\ pc' = "decide"
            /\ UNCHANGED <<now, last, log>>
        BY <1>3, <2>2 DEF CommDequeue
      <3>2. Head(queue) \in 1 .. Len(orders) /\ Tail(queue) \in Seq(1 .. Len(orders))
        BY <2>2
      <3>3. TypeOK'
        BY <1>0, <3>1, <3>2
      <3>4. InvLast'
        <4>1. orders # <<>> /\ queue[Len(queue)] = Len(orders)
          BY <1>3, <2>2 DEF CommDequeue
        <4>2. CASE Len(queue) = 1
          <5>1. hand' = Len(orders') /\ queue' = <<>>
            BY SMTT(30), <1>0, <2>2, <3>1, <4>1, <4>2
          <5> QED BY <5>1
        <4>3. CASE Len(queue) # 1
          <5>1. /\ queue' # <<>> /\ Len(queue') = Len(queue) - 1
                /\ queue'[Len(queue')] = queue[Len(queue)]
            <6>1. queue \in Seq(1 .. Len(orders))
              OBVIOUS
            <6> HIDE DEF IInv, TypeOK, InvLast
            <6>2. /\ Len(queue) \in Nat \ {0} /\ Len(Tail(queue)) = Len(queue) - 1
                  /\ \A i \in 1 .. Len(queue) - 1 : Tail(queue)[i] = queue[i + 1]
              BY <2>2, <6>1, TailShifts
            <6>3. Tail(queue)[Len(queue) - 1] = queue[Len(queue)]
              BY <4>3, <6>2
            <6> QED BY SMTT(30), <3>1, <4>3, <6>2, <6>3
          <5> QED BY <1>0, <4>1, <5>1
        <4> QED BY <4>2, <4>3
      <3> QED BY <3>3, <3>4
    <2> QED BY <2>1, <2>2
  <1>4. CASE CommPass
    BY <1>0, <1>4 DEF CommPass
  <1>5. CASE CommDrop
    BY <1>0, <1>5 DEF CommDrop, EmptyHand, IsExempt
  <1>6. CASE CommWrite
    <2> DEFINE e == [order |-> hand, at |-> clock]
    <2>1. e \in [order : 1 .. Len(orders), at : Nat]
      BY <1>6 DEF CommWrite
    <2>2. /\ log' = Append(log, e) /\ hand' = 0 /\ pc' = "check"
          /\ UNCHANGED <<queue, now, last>>
      BY <1>6 DEF CommWrite, EmptyHand
    <2>3. /\ log' \in Seq([order : 1 .. Len(orders), at : Nat])
          /\ log' # <<>> /\ log'[Len(log')] = e
      <3> DEFINE S == [order : 1 .. Len(orders), at : Nat]
      <3>1. log \in Seq(S) /\ e \in S
        BY <2>1
      <3> HIDE DEF e, S, IInv, TypeOK, InvLast
      <3>2. log' \in Seq(S) /\ log' # <<>> /\ log'[Len(log')] = e
        <4>1. log' = Append(log, e) /\ Len(log) \in Nat
          BY <2>2, <3>1
        <4>2. /\ Append(log, e) \in Seq(S) /\ Append(log, e) # <<>>
              /\ Len(Append(log, e)) = Len(log) + 1
              /\ Append(log, e)[Len(log) + 1] = e
          BY <3>1, AppendAdds
        <4> QED BY <4>1, <4>2
      <3> QED BY <3>2 DEF S
    <2>4. TypeOK'
      BY <1>0, <2>2, <2>3
    <2>5. InvLast'
      <3>1. log'[Len(log')].order = hand /\ pc = "write"
        BY <1>6, <2>3 DEF CommWrite
      <3>2. orders # <<>> => (queue # <<>> /\ queue[Len(queue)] = Len(orders))
                          \/ (queue = <<>> /\ hand = Len(orders))
        BY <3>1
      <3> QED BY <1>0, <2>2, <2>3, <3>1, <3>2
    <2> QED BY <2>4, <2>5
  <1> QED BY <1>1, <1>2, <1>3, <1>4, <1>5, <1>6 DEF Comm

(* Every step keeps the invariant. *)
LEMMA NextInv == IInv /\ [Next]_vars => IInv'
  <1> SUFFICES ASSUME IInv, [Next]_vars PROVE IInv'
    OBVIOUS
  <1>1. CASE Tick
    BY <1>1 DEF Tick, IInv, TypeOK, Idle, InvLast, LastOrder
  <1>2. CASE MainStops \/ MainReturns
    BY <1>2 DEF MainStops, MainReturns, IInv, TypeOK, Idle, InvLast, LastOrder
  <1>3. CASE UNCHANGED vars
    BY <1>3 DEF vars, IInv, TypeOK, Idle, InvLast, LastOrder
  <1> QED BY <1>1, <1>2, <1>3, EnqueueInv, CommInv DEF Next

(* The invariant holds in every reachable state. *)
THEOREM Invariance == Spec => []IInv
  <1> QED BY InitInv, NextInv, PTL DEF Spec

(* The variables keep their types. *)
THEOREM TypeCorrect == Spec => []TypeOK
  <1>1. IInv => TypeOK
    BY DEF IInv
  <1> QED BY <1>1, Invariance, PTL

(* When the queue is empty and the operator's last word was a stop, the rover *)
(* was told to stop last: no command overtakes it and no limit drops it.      *)
THEOREM LastWordIsHeard == Spec => []LastWordIsStop
  <1>1. ASSUME IInv PROVE LastWordIsStop
    <2> SUFFICES ASSUME Idle, queue = <<>>, orders # <<>>, Last(orders) \in Exempt
                 PROVE  log # <<>> /\ Last(log).order = Len(orders)
      BY DEF LastWordIsStop
    <2>1. hand = 0 /\ orders[Len(orders)] \in Exempt /\ Len(orders) # 0
      BY <1>1 DEF IInv, TypeOK, Last
    <2> QED BY <1>1, <2>1 DEF IInv, TypeOK, InvLast, LastOrder, Last
  <1> QED BY <1>1, Invariance, PTL

-----------------------------------------------------------------------------
(* Facts about one element in front of a queue. *)
LEMMA InFront ==
    ASSUME NEW S, NEW q \in Seq(S), NEW h \in S
    PROVE  /\ <<h>> \o q \in Seq(S) /\ <<h>> \o q # <<>>
           /\ Head(<<h>> \o q) = h /\ Tail(<<h>> \o q) = q
  OBVIOUS

(* A queue is its head in front of its tail. *)
LEMMA HeadAndTail ==
    ASSUME NEW S, NEW q \in Seq(S), q # <<>>
    PROVE  <<Head(q)>> \o Tail(q) = q
  OBVIOUS

(* Appending behind an element in front is appending to the queue behind it. *)
LEMMA AppendBehind ==
    ASSUME NEW S, NEW q \in Seq(S), NEW h \in S, NEW e \in S
    PROVE  <<h>> \o Append(q, e) = Append(<<h>> \o q, e)
  OBVIOUS

(* The first state of the relay is the first state of the channel. *)
LEMMA ChannelInit == Init => Channel!Init
  BY DEF Init, Channel!Init, Pending, Sent

(* Every step of the relay is a step of the channel, or invisible to it. *)
LEMMA ChannelNext == IInv /\ [Next]_vars => [Channel!Next]_(Channel!vars)
  <1> SUFFICES ASSUME IInv, [Next]_vars PROVE [Channel!Next]_(Channel!vars)
    OBVIOUS
  <1> DEFINE S == 1 .. Len(orders)
  <1>0. /\ orders \in Seq(Commands) /\ queue \in Seq(S)
        /\ IF Idle THEN hand = 0 ELSE hand \in S
        /\ log \in Seq([order : S, at : Nat])
    BY DEF IInv, TypeOK
  <1>1. CASE Enqueue
    <2>1. PICK c \in Commands : orders' = Append(orders, c)
      BY <1>1, Translated DEF Enqueue
    <2>2. /\ queue' = Append(queue, Len(orders) + 1)
          /\ UNCHANGED <<main, pc, hand, log>>
      BY <1>1 DEF Enqueue, AtEnd
    <2>3. Pending' = Append(Pending, Len(orders) + 1)
      <3>1. CASE hand = 0
        BY <2>2, <3>1 DEF Pending
      <3>2. CASE hand # 0
        <4> DEFINE n == Len(orders) + 1
                   T == 1 .. n
        <4>1. queue \in Seq(T) /\ hand \in T /\ n \in T
          <5>1. S \subseteq T /\ hand \in S /\ n \in T
            BY <1>0, <3>2
          <5> HIDE DEF S, T
          <5> QED BY <1>0, <5>1, SeqWidens
        <4> HIDE DEF T
        <4>2. <<hand>> \o Append(queue, n) = Append(<<hand>> \o queue, n)
          BY <4>1, AppendBehind
        <4> QED BY <2>2, <3>2, <4>2 DEF Pending
      <3> QED BY <3>1, <3>2
    <2>4. Sent' = Sent
      BY <2>2 DEF Sent
    <2> QED BY <2>1, <2>2, <2>3, <2>4 DEF Channel!Next, Channel!Give
  <1>2. CASE Tick \/ MainReturns \/ UNCHANGED vars
    BY <1>2 DEF Tick, MainReturns, vars, Channel!vars, Pending, Sent
  <1>3. CASE MainStops
    BY <1>3 DEF MainStops, Channel!Next, Channel!Close, Pending, Sent
  <1>4. CASE Comm
    <2>0. UNCHANGED <<main, orders>>
      BY <1>4 DEF Comm
    <2>1. ASSUME UNCHANGED <<queue, hand, log>> PROVE UNCHANGED Channel!vars
      BY <2>0, <2>1 DEF Channel!vars, Pending, Sent
    <2>2. CASE CommCheck \/ CommTime \/ CommPass
      BY <2>1, <2>2 DEF CommCheck, CommTime, CommPass
    <2>3. CASE CommDequeue
      <3>1. hand = 0
        BY <1>0, <2>3 DEF CommDequeue, Idle
      <3>2. CASE queue = <<>>
        BY <2>1, <2>3, <3>2 DEF CommDequeue
      <3>3. CASE queue # <<>>
        <4>1. /\ hand' = Head(queue) /\ queue' = Tail(queue) /\ log' = log
          BY <2>3, <3>3 DEF CommDequeue
        <4>2. hand' # 0
          BY <1>0, <3>3, <4>1, TailShifts
        <4>3. Pending' = Pending
          BY <1>0, <3>1, <3>3, <4>1, <4>2, HeadAndTail DEF Pending
        <4> QED BY <2>0, <4>1, <4>3 DEF Channel!vars, Sent
      <3> QED BY <3>2, <3>3
    <2>4. ASSUME pc \in {"decide", "write"}, hand' = 0, queue' = queue
          PROVE  /\ hand \in S /\ hand # 0 /\ Pending # <<>>
                 /\ Head(Pending) = hand /\ Pending' = Tail(Pending)
      <3>1. hand \in S /\ hand # 0
        BY <1>0, <2>4 DEF Idle
      <3>2. Pending = <<hand>> \o queue /\ Pending' = queue
        BY <2>4, <3>1 DEF Pending
      <3> QED BY <1>0, <3>1, <3>2, InFront
    <2>5. CASE CommDrop
      <3>1. pc = "decide" /\ hand' = 0 /\ UNCHANGED <<queue, log>>
        BY <2>5 DEF CommDrop, EmptyHand
      <3>2. orders[hand] \notin Exempt
        BY <2>5 DEF CommDrop, IsExempt
      <3> QED BY <2>0, <2>4, <3>1, <3>2 DEF Channel!Next, Channel!Drop, Sent
    <2>6. CASE CommWrite
      <3> DEFINE e == [order |-> hand, at |-> clock]
      <3>1. pc = "write" /\ hand' = 0 /\ queue' = queue /\ log' = Append(log, e)
        BY <2>6 DEF CommWrite, EmptyHand
      <3>2. Sent' = Append(Sent, hand)
        BY <1>0, <3>1 DEF Sent
      <3> QED BY <2>0, <2>4, <3>1, <3>2 DEF Channel!Next, Channel!Deliver
    <2> QED BY <1>4, <2>2, <2>3, <2>5, <2>6 DEF Comm
  <1> QED BY <1>1, <1>2, <1>3, <1>4 DEF Next

(* The command path is a channel that loses nothing but ordinary commands, *)
(* and keeps the order of the others.                                      *)
THEOREM RelayIsChannel == Spec => Channel!Spec
  <1> QED BY ChannelInit, ChannelNext, Invariance, PTL DEF Spec, Channel!Spec

-----------------------------------------------------------------------------
(* The communication thread has a limited command that the limit let pass. *)
Passed == pc = "write" /\ ~IsExempt

(* The time that was compared last is later than all broadcasts but the last *)
(* one, and by more than the limit while the next one is on its way.         *)
InvRate ==
    /\ last <= now /\ now <= clock
    /\ \A i \in DOMAIN log : log[i].at <= clock
    /\ pc \in {"dequeue", "decide"} => \A i \in DOMAIN log : log[i].at <= now
    /\ Passed => \A i \in DOMAIN log : log[i].at <= last
    /\ \A i, j \in Limited : i < j => log[i].at <= last
    /\ Passed => \A i, j \in Limited : i < j => last - log[i].at > Interval
    /\ TwoPerInterval

(* The broadcasts are numbered and timed by natural numbers. *)
LEMMA LogType ==
    ASSUME IInv
    PROVE  /\ DOMAIN log = 1 .. Len(log) /\ Len(log) \in Nat
           /\ \A i \in DOMAIN log : /\ log[i].at \in Nat
                                    /\ log[i].order \in 1 .. Len(orders)
  <1> DEFINE S == [order : 1 .. Len(orders), at : Nat]
  <1>1. log \in Seq(S)
    BY DEF IInv, TypeOK
  <1>2. \A e \in S : e.at \in Nat /\ e.order \in 1 .. Len(orders)
    OBVIOUS
  <1> HIDE DEF S
  <1>3. DOMAIN log = 1 .. Len(log) /\ Len(log) \in Nat /\ \A i \in DOMAIN log : log[i] \in S
    BY <1>1
  <1> QED BY <1>2, <1>3

(* Enqueueing does not change what the limit applies to. *)
LEMMA RateEnqueue == IInv /\ InvRate /\ Enqueue => InvRate'
  <1> SUFFICES ASSUME IInv, InvRate, Enqueue PROVE InvRate'
    OBVIOUS
  <1>1. PICK c \in Commands : orders' = Append(orders, c)
    BY Translated DEF Enqueue
  <1>2. \A n \in 1 .. Len(orders) : orders'[n] = orders[n]
    BY <1>1 DEF IInv, TypeOK
  <1>3. UNCHANGED <<clock, pc, now, last, hand, log>>
    BY DEF Enqueue
  <1>4. Limited' = Limited
    BY <1>2, <1>3, LogType DEF Limited
  <1>5. Passed' => Passed
    BY <1>2, <1>3 DEF Passed, IsExempt, IInv, TypeOK, Idle
  <1> QED BY <1>3, <1>4, <1>5 DEF InvRate, TwoPerInterval

(* The communication thread keeps the limit. *)
LEMMA RateComm == IInv /\ InvRate /\ Comm => InvRate'
  <1> SUFFICES ASSUME IInv, InvRate, Comm PROVE InvRate'
    OBVIOUS
  <1>0. /\ UNCHANGED <<clock, orders>>
        /\ clock \in Nat /\ now \in Nat /\ last \in Nat /\ Interval \in Nat
    BY RelayAssumption DEF Comm, IInv, TypeOK
  <1>1. CASE CommCheck
    BY <1>0, <1>1 DEF CommCheck, InvRate, Limited, Passed, TwoPerInterval
  <1>2. CASE CommTime
    BY <1>0, <1>2, LogType DEF CommTime, InvRate, Limited, Passed, TwoPerInterval
  <1>3. CASE CommDequeue
    BY <1>0, <1>3 DEF CommDequeue, InvRate, Limited, Passed, TwoPerInterval
  <1>4. CASE CommPass
    <2>1. /\ UNCHANGED <<now, hand, log>> /\ pc = "decide" /\ pc' = "write"
          /\ Limited' = Limited /\ (Passed' <=> ~IsExempt)
      BY <1>0, <1>4 DEF CommPass, Limited, Passed, IsExempt
    <2>2. CASE IsExempt
      <3>1. last' = last
        BY <1>4, <2>2 DEF CommPass
      <3> QED BY <1>0, <2>1, <2>2, <3>1 DEF InvRate, TwoPerInterval
    <2>3. CASE ~IsExempt
      <3>1. last' = now /\ now - last > Interval
        BY <1>4, <2>3 DEF CommPass, LateEnough
      <3>2. \A i \in DOMAIN log : log[i].at \in Nat /\ log[i].at <= now
        BY <2>1, LogType DEF InvRate
      <3>3. \A i, j \in Limited : i < j => now - log[i].at > Interval
        BY <1>0, <3>1, <3>2 DEF InvRate, Limited
      <3> QED BY <1>0, <2>1, <3>1, <3>2, <3>3 DEF InvRate, Limited, TwoPerInterval
    <2> QED BY <2>2, <2>3
  <1>5. CASE CommDrop
    BY <1>0, <1>5 DEF CommDrop, InvRate, Limited, Passed, TwoPerInterval
  <1>6. CASE CommWrite
    <2> DEFINE e == [order |-> hand, at |-> clock]
               n == Len(log) + 1
    <2>1. /\ pc' = "check" /\ UNCHANGED <<now, last>> /\ log' = Append(log, e)
          /\ pc = "write"
      BY <1>6 DEF CommWrite
    <2>2. /\ DOMAIN log' = 1 .. n /\ DOMAIN log = 1 .. Len(log) /\ Len(log) \in Nat
          /\ \A i \in 1 .. Len(log) : log'[i] = log[i] /\ log[i].at \in Nat
          /\ log'[n] = e
      BY <2>1, LogType DEF IInv, TypeOK
    <2>3. /\ Limited' \subseteq Limited \cup {n}
          /\ n \in Limited' => Passed
      BY <1>0, <2>1, <2>2 DEF Limited, Passed, IsExempt
    <2>4. ~Passed' /\ \A i \in DOMAIN log' : log'[i].at <= clock
      BY <1>0, <2>1, <2>2 DEF Passed, InvRate
    <2>5. \A i \in Limited : i \in 1 .. Len(log) /\ i < n
      BY <2>2 DEF Limited
    <2>6. ASSUME NEW i \in Limited', NEW j \in Limited', i < j
          PROVE  log'[i].at <= last
      <3>1. i \in Limited
        BY <2>2, <2>3, <2>5, <2>6
      <3>2. CASE j = n
        BY <2>2, <2>3, <2>5, <2>6, <3>1, <3>2 DEF InvRate
      <3>3. CASE j # n
        BY <2>2, <2>3, <2>5, <2>6, <3>1, <3>3 DEF InvRate
      <3> QED BY <3>2, <3>3
    <2>7. ASSUME NEW i \in Limited', NEW j \in Limited', NEW k \in Limited',
                 i < j, j < k
          PROVE  log'[k].at - log'[i].at > Interval
      <3>1. i \in Limited /\ j \in Limited
        BY <2>2, <2>3, <2>5, <2>7
      <3>2. CASE k = n
        <4>1. last - log[i].at > Interval
          BY <2>3, <2>7, <3>1, <3>2 DEF InvRate
        <4>2. log'[k].at = clock /\ log'[i].at = log[i].at /\ log[i].at \in Nat
          BY <2>2, <2>5, <3>1, <3>2
        <4> QED BY <1>0, <4>1, <4>2 DEF InvRate
      <3>3. CASE k # n
        BY <2>2, <2>3, <2>5, <2>7, <3>1, <3>3 DEF InvRate, TwoPerInterval
      <3> QED BY <3>2, <3>3
    <2> QED BY <1>0, <2>1, <2>4, <2>6, <2>7 DEF InvRate, TwoPerInterval
  <1> QED BY <1>1, <1>2, <1>3, <1>4, <1>5, <1>6 DEF Comm

(* Every step keeps the limit. *)
LEMMA RateNext == IInv /\ InvRate /\ [Next]_vars => InvRate'
  <1> SUFFICES ASSUME IInv, InvRate, [Next]_vars PROVE InvRate'
    OBVIOUS
  <1>1. CASE Tick
    <2>1. /\ clock' = clock + 1 /\ UNCHANGED <<orders, pc, now, last, hand, log>>
      BY <1>1 DEF Tick
    <2>2. clock \in Nat /\ now \in Nat
      BY DEF IInv, TypeOK
    <2> QED BY <2>1, <2>2, LogType
            DEF InvRate, Limited, Passed, IsExempt, TwoPerInterval
  <1>2. CASE MainStops \/ MainReturns \/ UNCHANGED vars
    BY <1>2 DEF MainStops, MainReturns, vars, InvRate, Limited, Passed, IsExempt,
                TwoPerInterval
  <1> QED BY <1>1, <1>2, RateEnqueue, RateComm DEF Next

(* Whatever the operator and the scheduler do, no three ordinary commands are *)
(* broadcast within one interval.                                             *)
THEOREM RateIsLimited == Spec => []TwoPerInterval
  <1>1. Init => InvRate
    BY DEF Init, InvRate, Limited, Passed, TwoPerInterval
  <1>2. InvRate => TwoPerInterval
    BY DEF InvRate
  <1> QED BY <1>1, <1>2, RateNext, Invariance, PTL DEF Spec
=============================================================================
