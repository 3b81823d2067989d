------------------------ MODULE AutomatedDrivingProofs ------------------------
(* Proofs about AutomatedDriving for any durations and any bounds. *)
EXTENDS AutomatedDriving, SequenceTheorems, TLAPS

Indices == 1 .. Len(calls)
NeverSeen == \A i \in Indices : ~calls[i].some
Lost == \E n \in Indices : LossAt(n)

(* last_detection is the newest that was made; without one nothing was ever *)
(* seen, or it has been lost for DetectionDuration.                         *)
InvLast ==
    IF lastDetection.value.some
    THEN /\ lastDetection.value.of \in Indices
         /\ calls[lastDetection.value.of].some
         /\ calls[lastDetection.value.of].at = lastDetection.at
         /\ \A i \in Indices : calls[i].some => calls[i].at <= lastDetection.at
    ELSE NeverSeen \/ Lost

(* What the handler leaves with the driver, and what the driver relies on. *)
InvLoss ==
    /\ hpc = "add" /\ detected.some => ~NeverSeen
    /\ hpc = "add" /\ ~detected.some => NeverSeen \/ Lost
    /\ latest.some => ~NeverSeen
    /\ dpc = "value" => latest.some \/ Lost
    /\ proc = "terminated" => Lost

(* The driver is never left with an older detection than it has. *)
InvOrder ==
    /\ hpc = "add" => latest.of <= detected.of
    /\ hpc = "add" /\ lastDetection.value.some => detected.of = lastDetection.value.of
    /\ hpc = "get" => latest.of = detected.of
    /\ hpc # "add" /\ lastDetection.value.some => latest.of = lastDetection.value.of
    /\ latest.of <= Len(calls)

(* How far the driver is behind its latest detection. *)
InvRounds ==
    /\ hand.of <= latest.of /\ command <= latest.of
    /\ rounds # 0 /\ dpc \in {"interpret", "set"} => hand.of = latest.of
    /\ rounds = 2 => command = latest.of
    /\ command = NoCommand => lastCommand.value = NoCommand

IInv ==
    /\ TypeOK /\ InvLast /\ InvLoss /\ InvOrder /\ InvRounds
    /\ SteersByLatest /\ ReuseIsYoung

Calls == [some : BOOLEAN, at : 0 .. clock]

-----------------------------------------------------------------------------
(* The invariant holds before anything is started. *)
LEMMA InitInv == Init => IInv
  <1> SUFFICES ASSUME Init PROVE IInv
    OBVIOUS
  <1>1. calls = <<>> /\ Len(calls) = 0 /\ calls \in Seq(Calls) /\ Numbers = {0}
    BY EmptySeq DEF Init, Numbers, Calls
  <1>2. /\ clock = 0 /\ main = "start" /\ hpc = "out" /\ detected = Nothing
        /\ lastDetection = [value |-> Nothing, at |-> 0]
        /\ lastCommand = [value |-> NoCommand, at |-> 0]
        /\ sent = [command |-> 0, asked |-> 0, rounds |-> 0]
        /\ latest = Nothing /\ hand = Nothing /\ command = NoCommand /\ rounds = 0
        /\ dpc = "off" /\ proc = "up" /\ Nothing = [of |-> 0, some |-> FALSE]
        /\ NoCommand = -1
    BY DEF Init, DriverInit, Nothing, NoCommand
  <1>3. UDPTypeOK /\ DriverTypeOK
    <2>1. [of |-> 0, some |-> FALSE] \in Detections
      BY DEF Detections
    <2>2. latest \in Detections /\ hand \in Detections
      BY <1>2, <2>1
    <2>3. driving \in BOOLEAN /\ UDPTypeOK
      BY DEF Init, UDPInit, DriverInit, UDPTypeOK
    <2>4. command \in Nat \union {NoCommand} /\ rounds \in 0 .. 2
      BY ONLY <1>2
    <2>5. /\ proc \in {"up", "undefined", "terminated"}
          /\ dpc \in {"off", "check", "test", "value", "interpret", "set", "ended"}
      BY ONLY <1>2
    <2> QED BY ONLY <2>2, <2>3, <2>4, <2>5 DEF DriverTypeOK
  <1>4. TypeOK
    BY <1>1, <1>2, <1>3 DEF TypeOK, Calls
  <1> QED BY <1>1, <1>2, <1>4
          DEF IInv, InvLast, InvLoss, InvOrder, InvRounds, SteersByLatest,
              ReuseIsYoung, NeverSeen, Lost, Indices

(* A call that is appended leaves what was said of the earlier ones. *)
LEMMA CallAppended ==
    ASSUME TypeOK, NEW c \in Calls, clock' = clock, calls' = Append(calls, c)
    PROVE  /\ calls' \in Seq(Calls') /\ Len(calls') = Len(calls) + 1
           /\ Len(calls) \in Nat /\ calls'[Len(calls) + 1] = c
           /\ \A i \in Indices : calls'[i] = calls[i]
           /\ Lost => Lost'
  <1>1. calls \in Seq(Calls) /\ Calls' = Calls
    BY DEF TypeOK, Calls
  <1>2. /\ calls' \in Seq(Calls) /\ Len(calls') = Len(calls) + 1
        /\ Len(calls) \in Nat /\ calls'[Len(calls) + 1] = c
        /\ \A i \in 1 .. Len(calls) : calls'[i] = calls[i]
    BY <1>1, AppendProperties, LenProperties
  <1>3. ASSUME NEW n \in Indices, LossAt(n) PROVE LossAt(n)'
    BY <1>2, <1>3 DEF LossAt, Indices
  <1> QED BY <1>1, <1>2, <1>3 DEF Lost, Indices

-----------------------------------------------------------------------------
(* A step that leaves the handler's and the driver's data alone, and whose *)
(* program counters stay within their types.                               *)
LEMMA MoveInv ==
    ASSUME IInv, UNCHANGED <<proc, latest, hand, command, rounds, handlerVars>>,
           clock' \in {clock, clock + 1}, UDPTypeOK',
           hpc # "out" => upc' = "handle",
           main' \in {"start", "run", "running", "stop", "joinDriver",
                      "detector", "closeUDP", "joinUDP", "returned"},
           driving' \in BOOLEAN,
           dpc' = dpc \/ dpc' \in {"check", "ended"}
    PROVE  IInv'
  <1>1. /\ UNCHANGED <<proc, latest, hand, command, rounds>>
        /\ UNCHANGED <<hpc, calls, detected, lastDetection, lastCommand, sent>>
        /\ Numbers' = Numbers /\ Indices' = Indices
        /\ clock \in Nat /\ clock' \in Nat /\ 0 .. clock \subseteq 0 .. clock'
    BY DEF handlerVars, IInv, TypeOK, Numbers, Indices
  <1>2. NeverSeen' = NeverSeen /\ Lost' = Lost
    BY <1>1 DEF NeverSeen, Lost, LossAt, Indices
  <1>3. calls' \in Seq([some : BOOLEAN, at : 0 .. clock'])
    <2>1. [some : BOOLEAN, at : 0 .. clock] \subseteq [some : BOOLEAN, at : 0 .. clock']
      BY <1>1
    <2>2. calls \in Seq([some : BOOLEAN, at : 0 .. clock])
      BY DEF IInv, TypeOK
    <2> QED BY <1>1, <2>1, <2>2, SeqMonotonic
  <1>4. DriverTypeOK'
    BY <1>1 DEF IInv, TypeOK, DriverTypeOK
  <1>5. TypeOK'
    BY <1>1, <1>3, <1>4 DEF IInv, TypeOK
  <1>6. InvLast' /\ InvLoss' /\ InvOrder' /\ InvRounds'
    BY <1>1, <1>2 DEF IInv, InvLast, InvLoss, InvOrder, InvRounds
  <1>7. SteersByLatest' /\ ReuseIsYoung'
    BY <1>1 DEF IInv, SteersByLatest, ReuseIsYoung, Now
  <1> QED BY <1>5, <1>6, <1>7 DEF IInv

(* The UDP thread and the datagrams move only the UDP server. *)
LEMMA UDPInv == IInv /\ ((Thread /\ UNCHANGED <<clock, main>>) \/ Arrival) => IInv'
  <1> SUFFICES ASSUME IInv, (Thread /\ UNCHANGED <<clock, main>>) \/ Arrival
               PROVE  IInv'
    OBVIOUS
  <1>1. /\ UNCHANGED <<proc, driving, dpc, latest, hand, command, rounds>>
        /\ UNCHANGED <<handlerVars, clock, main>>
    BY DEF Thread, Arrival, Datagram, ReceiveFails, UDPFails, driverVars
  <1>2. UDPTypeOK' /\ hpc = "out"
    BY DEF Thread, Arrival, Datagram, ReceiveFails, UDPFails, UDPLoop, UDPCheck,
           UDPReceive, UDPUnblocked, UDPDatagram, UDPTypeOK, IInv, TypeOK
  <1> QED BY <1>1, <1>2, MoveInv DEF IInv, TypeOK, DriverTypeOK

(* Time passes. *)
LEMMA TickInv == IInv /\ Tick => IInv'
  <1> SUFFICES ASSUME IInv, Tick PROVE IInv'
    OBVIOUS
  <1>1. /\ UNCHANGED <<proc, driving, dpc, latest, hand, command, rounds>>
        /\ UNCHANGED <<handlerVars, main, udpRunning, socket, upc, receiveFailed>>
        /\ clock' = clock + 1
    BY DEF Tick, driverVars, udpVars
  <1>2. UDPTypeOK' /\ (hpc # "out" => upc' = "handle")
    BY <1>1 DEF UDPTypeOK, IInv, TypeOK
  <1> QED BY <1>1, <1>2, MoveInv DEF IInv, TypeOK, DriverTypeOK

(* The main thread starts and stops the other threads. *)
LEMMA MainInv == IInv /\ (Startup \/ Cleanup) => IInv'
  <1> SUFFICES ASSUME IInv, Startup \/ Cleanup PROVE IInv'
    OBVIOUS
  <1>1. /\ UNCHANGED <<proc, latest, hand, command, rounds, handlerVars, clock>>
        /\ UDPTypeOK' /\ (hpc # "out" => upc' = "handle")
        /\ main' \in {"start", "run", "running", "stop", "joinDriver",
                      "detector", "closeUDP", "joinUDP", "returned"}
        /\ driving' \in BOOLEAN /\ (dpc' = dpc \/ dpc' = "check")
    <2>1. CASE RunDriver /\ UNCHANGED <<clock, handlerVars>>
      BY <2>1 DEF RunDriver, Goes, DriverRun, udpVars, UDPTypeOK, IInv, TypeOK
    <2>2. CASE StartUDP /\ UNCHANGED <<clock, handlerVars>>
      BY <2>2 DEF StartUDP, Goes, UDPStart, driverVars, UDPTypeOK, IInv, TypeOK, DriverTypeOK
    <2>3. CASE KeyPressed /\ UNCHANGED <<clock, handlerVars>>
      BY <2>3 DEF KeyPressed, Goes, driverVars, udpVars, UDPTypeOK, IInv, TypeOK, DriverTypeOK
    <2>4. CASE StopDriver /\ UNCHANGED <<clock, handlerVars>>
      BY <2>4 DEF StopDriver, Goes, DriverStopFlag, threadVars, driverVars, udpVars,
                  UDPTypeOK, IInv, TypeOK, DriverTypeOK
    <2>5. CASE StopUDP /\ UNCHANGED <<clock, handlerVars>>
      BY <2>5 DEF StopUDP, Goes, UDPStopFlag, ResetRunning, UDPStopClose, driverVars,
                  udpVars, UDPTypeOK, IInv, TypeOK, DriverTypeOK
    <2> QED BY <2>1, <2>2, <2>3, <2>4, <2>5 DEF Startup, Cleanup
  <1> QED BY <1>1, MoveInv

-----------------------------------------------------------------------------
(* The driver's thread works on the latest detection or on an older one. *)
LEMMA DriverInv == IInv /\ DriverSteps => IInv'
  <1> SUFFICES ASSUME IInv, DriverSteps PROVE IInv'
    OBVIOUS
  <1>1. /\ UNCHANGED <<clock, main, driving, latest, udpRunning, socket, upc, receiveFailed>>
        /\ UNCHANGED <<hpc, calls, detected, lastDetection, lastCommand, sent>>
        /\ Numbers' = Numbers /\ Indices' = Indices
    BY DEF DriverSteps, Driver, handlerVars, udpVars, Numbers, Indices
  <1>2. NeverSeen' = NeverSeen /\ Lost' = Lost
    BY <1>1 DEF NeverSeen, Lost, LossAt, Indices
  <1>3. DriverTypeOK /\ InvLoss /\ InvRounds /\ latest \in Detections
    BY DEF IInv, TypeOK, DriverTypeOK
  <1>4. DriverTypeOK' /\ InvLoss' /\ InvRounds'
    <2>1. CASE DriverCheck
      BY <1>1, <1>2, <1>3, <2>1 DEF DriverCheck, DriverTypeOK, InvLoss, InvRounds
    <2>2. CASE DriverTest
      BY <1>1, <1>2, <1>3, <2>2
         DEF DriverTest, ElseStop, DriverTypeOK, InvLoss, InvRounds, Detections
    <2>3. CASE DriverValue
      BY <1>1, <1>2, <1>3, <2>3
         DEF DriverValue, Value, DriverTypeOK, InvLoss, InvRounds, Detections
    <2>4. CASE DriverInterpret
      BY <1>1, <1>2, <1>3, <2>4 DEF DriverInterpret, DriverTypeOK, InvLoss, InvRounds
    <2>5. CASE DriverSet
      <3>1. /\ command' = hand.of /\ hand' = [of |-> 0, some |-> FALSE]
            /\ rounds' \in {1, 2} /\ (rounds' = 2 => rounds # 0)
            /\ dpc = "set" /\ dpc' = "check" /\ proc' = proc
        BY <1>3, <2>5 DEF DriverSet, Nothing, DriverTypeOK
      <3>2. hand.of \in Nat /\ latest.of \in Nat /\ hand' \in Detections
        BY <1>3, <3>1 DEF DriverTypeOK, Detections
      <3> QED BY <1>1, <1>2, <1>3, <3>1, <3>2
              DEF DriverTypeOK, InvLoss, InvRounds, NoCommand
    <2> QED BY <2>1, <2>2, <2>3, <2>4, <2>5 DEF DriverSteps, Driver
  <1>5. TypeOK'
    BY <1>1, <1>4 DEF IInv, TypeOK, UDPTypeOK
  <1>6. InvLast' /\ InvOrder' /\ SteersByLatest' /\ ReuseIsYoung'
    BY <1>1, <1>2 DEF IInv, InvLast, InvOrder, SteersByLatest, ReuseIsYoung, Now
  <1> QED BY <1>4, <1>5, <1>6 DEF IInv

-----------------------------------------------------------------------------
(* The detector is asked: a new detection, the last one again, or none. *)
LEMMA DetectInv == IInv /\ HandlerDetect /\ UNCHANGED <<clock, main>> => IInv'
  <1> SUFFICES ASSUME IInv, HandlerDetect, UNCHANGED <<clock, main>> PROVE IInv'
    OBVIOUS
  <1> DEFINE n == Len(calls) + 1
  <1>1. PICK some \in BOOLEAN :
          LET seen == [of |-> n, some |-> some] IN
          /\ calls' = Append(calls, [some |-> some, at |-> clock])
          /\ IF some
             THEN /\ detected' = seen
                  /\ lastDetection' = [value |-> seen, at |-> clock]
             ELSE IF lastDetection.value.some /\ Young(clock)
             THEN /\ detected' = lastDetection.value
                  /\ lastDetection' = [lastDetection EXCEPT !.at = ReusedAt(clock)]
             ELSE /\ detected' = seen
                  /\ lastDetection' = [lastDetection EXCEPT !.value = Nothing]
    BY DEF HandlerDetect, ThisCall
  <1>2. /\ UNCHANGED <<clock, main, udpRunning, socket, upc, receiveFailed, proc, driving, dpc,
                       latest, hand, command, rounds, lastCommand, sent>>
        /\ upc = "handle" /\ hpc = "out" /\ hpc' = "add"
    BY DEF HandlerDetect, udpVars, driverVars
  <1>3. /\ calls' \in Seq(Calls') /\ Len(calls') = n /\ Len(calls) \in Nat
        /\ calls'[n] = [some |-> some, at |-> clock]
        /\ \A i \in 1 .. Len(calls) : calls'[i] = calls[i]
        /\ Lost => Lost'
    <2>1. [some |-> some, at |-> clock] \in Calls
      BY DEF IInv, TypeOK, Calls
    <2> QED BY <1>1, <1>2, <2>1, CallAppended DEF IInv, Indices
  <1>4. /\ lastDetection \in [value : [of : Numbers, some : BOOLEAN], at : 0 .. clock]
        /\ calls \in Seq(Calls) /\ clock \in Nat /\ latest \in Detections
        /\ \A i \in 1 .. Len(calls) : calls[i].at \in 0 .. clock
        /\ sent \in [command : Numbers, asked : Numbers, rounds : 0 .. 2]
        /\ Numbers = 0 .. Len(calls) /\ Numbers' = 0 .. n /\ Numbers \subseteq Numbers'
    <2>1. calls \in Seq(Calls)
      BY DEF IInv, TypeOK, Calls
    <2>2. \A i \in 1 .. Len(calls) : calls[i] \in Calls
      BY <2>1, ElementOfSeq
    <2> QED BY <1>3, <2>1, <2>2, SMTT(30) DEF IInv, TypeOK, DriverTypeOK, Calls, Numbers
  <1>5. InvLast /\ InvLoss /\ InvOrder /\ latest.of \in Nat
    BY <1>4 DEF IInv, Detections
  <1>6. Indices = 1 .. Len(calls) /\ Indices' = 1 .. n
    BY <1>3 DEF Indices
  <1>7. /\ InvLast'
        /\ detected' \in [of : Numbers', some : BOOLEAN] /\ detected'.of # 0
        /\ lastDetection' \in [value : [of : Numbers', some : BOOLEAN], at : 0 .. clock]
        /\ detected'.some => ~NeverSeen'
        /\ ~detected'.some => NeverSeen' \/ Lost'
        /\ latest.of <= detected'.of
        /\ lastDetection'.value.some => detected'.of = lastDetection'.value.of
        /\ detected'.some /\ detected'.of # n =>
              clock - calls'[detected'.of].at < DetectionDuration
    <2>1. CASE some
      <3>1. /\ detected' = [of |-> n, some |-> TRUE]
            /\ lastDetection' = [value |-> [of |-> n, some |-> TRUE], at |-> clock]
            /\ calls'[n].some /\ calls'[n].at = clock
        BY <1>1, <1>3, <2>1
      <3>2. InvLast'
        <4>1. \A i \in 1 .. n : calls'[i].at <= clock
          BY SMTT(30), <1>3, <1>4, <3>1
        <4> QED BY <1>3, <1>6, <3>1, <4>1 DEF InvLast
      <3>3. ~NeverSeen'
        BY <1>3, <1>6, <3>1 DEF NeverSeen
      <3> QED BY <1>3, <1>4, <1>5, <3>1, <3>2, <3>3 DEF InvOrder
    <2>2. CASE ~some /\ lastDetection.value.some /\ Young(clock)
      <3>1. /\ detected' = lastDetection.value /\ lastDetection' = lastDetection
            /\ ~calls'[n].some /\ clock - lastDetection.at < DetectionDuration
        BY <1>1, <1>3, <1>4, <2>2 DEF ReusedAt, Young
      <3>2. /\ lastDetection.value.of \in 1 .. Len(calls)
            /\ calls'[lastDetection.value.of] = calls[lastDetection.value.of]
            /\ calls[lastDetection.value.of].some
            /\ calls[lastDetection.value.of].at = lastDetection.at
            /\ \A i \in 1 .. Len(calls) : calls[i].some => calls[i].at <= lastDetection.at
        BY <1>3, <1>5, <1>6, <2>2 DEF InvLast
      <3>3. InvLast'
        BY <1>3, <1>6, <2>2, <3>1, <3>2 DEF InvLast
      <3>4. ~NeverSeen'
        BY <1>3, <1>6, <3>2 DEF NeverSeen
      <3>5. latest.of = lastDetection.value.of
        BY <1>2, <1>5, <2>2 DEF InvOrder
      <3> QED BY <1>2, <1>3, <1>4, <2>2, <3>1, <3>2, <3>3, <3>4, <3>5
    <2>3. CASE ~some /\ ~(lastDetection.value.some /\ Young(clock))
      <3>1. /\ detected' = [of |-> n, some |-> FALSE]
            /\ lastDetection' = [value |-> [of |-> 0, some |-> FALSE], at |-> lastDetection.at]
            /\ ~calls'[n].some /\ calls'[n].at = clock
        BY <1>1, <1>3, <1>4, <2>3 DEF Nothing
      <3>2. NeverSeen' \/ Lost'
        <4>1. CASE ~lastDetection.value.some
          <5>1. NeverSeen \/ Lost
            BY <1>5, <4>1 DEF InvLast
          <5>2. NeverSeen => NeverSeen'
            BY <1>3, <1>6, <3>1 DEF NeverSeen
          <5> QED BY <1>3, <5>1, <5>2
        <4>2. CASE lastDetection.value.some
          <5>1. clock - lastDetection.at >= DetectionDuration
            BY <1>4, <2>3, <4>2, DrivingAssumption DEF Young
          <5>2. \A i \in 1 .. Len(calls) :
                   calls'[i].some => clock - calls'[i].at >= DetectionDuration
            <6> SUFFICES ASSUME NEW i \in 1 .. Len(calls), calls'[i].some
                         PROVE  clock - calls'[i].at >= DetectionDuration
              OBVIOUS
            <6>1. lastDetection.at \in Nat /\ clock \in Nat /\ DetectionDuration \in Nat
              BY <1>4, DrivingAssumption
            <6>2. calls'[i] = calls[i] /\ calls[i].at \in Nat
              BY <1>3, <1>4
            <6>3. calls[i].at <= lastDetection.at
              BY <1>5, <1>6, <4>2, <6>2 DEF InvLast
            <6> QED BY ONLY <5>1, <6>1, <6>2, <6>3
          <5>3. \E i \in 1 .. Len(calls) : calls'[i].some
            BY <1>3, <1>5, <1>6, <4>2 DEF InvLast
          <5>4. ASSUME NEW m \in Nat, m = n PROVE LossAt(m)'
            BY <1>3, <3>1, <5>2, <5>3, <5>4 DEF LossAt
          <5> QED BY <1>3, <1>6, <5>4 DEF Lost
        <4> QED BY <4>1, <4>2
      <3> QED BY <1>3, <1>4, <1>5, <3>1, <3>2 DEF InvLast, InvOrder
    <2> QED BY <2>1, <2>2, <2>3
  <1>8. TypeOK'
    BY <1>2, <1>3, <1>4, <1>7 DEF IInv, TypeOK, UDPTypeOK, DriverTypeOK, Calls
  <1>9. InvLoss'
    <2>1. ~NeverSeen => ~NeverSeen'
      BY <1>3, <1>6 DEF NeverSeen
    <2> QED BY <1>2, <1>3, <1>5, <1>7, <2>1 DEF InvLoss
  <1>10. InvOrder' /\ InvRounds' /\ SteersByLatest'
    <2>1. latest.of <= Len(calls')
      BY <1>3, <1>5 DEF InvOrder
    <2>2. InvOrder'
      BY <1>2, <1>7, <2>1 DEF InvOrder
    <2> QED BY <1>2, <2>2 DEF IInv, InvRounds, SteersByLatest
  <1>11. ReuseIsYoung'
    BY <1>2, <1>3, <1>7 DEF ReuseIsYoung, Now
  <1> QED BY <1>7, <1>8, <1>9, <1>10, <1>11 DEF IInv

(* The detection is left with the driver: it is not older than the one there. *)
LEMMA AddInv == IInv /\ HandlerAdd /\ UNCHANGED <<clock, main>> => IInv'
  <1> SUFFICES ASSUME IInv, HandlerAdd, UNCHANGED <<clock, main>> PROVE IInv'
    OBVIOUS
  <1>1. /\ UNCHANGED <<clock, main, udpRunning, socket, upc, receiveFailed, driving, dpc, hand,
                       command, calls, detected, lastDetection, lastCommand, sent>>
        /\ latest' = detected /\ rounds' = 0 /\ proc' \in {"up", "undefined"}
        /\ hpc = "add" /\ hpc' = "get" /\ Numbers' = Numbers /\ Indices' = Indices
    BY DEF HandlerAdd, AddLatestDetection, Raced, udpVars, Numbers, Indices
  <1>2. NeverSeen' = NeverSeen /\ Lost' = Lost
    BY <1>1 DEF NeverSeen, Lost, LossAt, Indices
  <1>3. /\ detected \in [of : Numbers, some : BOOLEAN] /\ Numbers \subseteq Nat
        /\ latest \in Detections /\ hand \in Detections
        /\ command \in Nat \union {NoCommand} /\ Numbers = 0 .. Len(calls)
    BY DEF IInv, TypeOK, DriverTypeOK, Numbers
  <1>4. detected \in Detections
    BY <1>3 DEF Detections
  <1>5. TypeOK'
    BY <1>1, <1>4 DEF IInv, TypeOK, UDPTypeOK, DriverTypeOK
  <1>6. InvLoss' /\ InvLast'
    BY <1>1, <1>2 DEF IInv, InvLoss, InvLast
  <1>7. InvOrder' /\ InvRounds'
    BY <1>1, <1>3 DEF IInv, InvOrder, InvRounds, Detections, NoCommand
  <1>8. SteersByLatest' /\ ReuseIsYoung'
    BY <1>1 DEF IInv, SteersByLatest, ReuseIsYoung, Now
  <1> QED BY <1>5, <1>6, <1>7, <1>8 DEF IInv

(* The driver's command is fetched and queued. *)
LEMMA GetInv == IInv /\ HandlerGet /\ UNCHANGED <<clock, main>> => IInv'
  <1> SUFFICES ASSUME IInv, HandlerGet, UNCHANGED <<clock, main>> PROVE IInv'
    OBVIOUS
  <1>1. /\ UNCHANGED <<clock, main, proc, udpRunning, socket, receiveFailed, driving, dpc, latest,
                       hand, command, rounds, calls, lastDetection>>
        /\ hpc = "get" /\ hpc' = "out" /\ detected' = [of |-> 0, some |-> FALSE]
        /\ upc' = "check" /\ Numbers' = Numbers /\ Indices' = Indices
    BY DEF HandlerGet, UDPHandled, driverVars, Nothing, Numbers, Indices
  <1>2. NeverSeen' = NeverSeen /\ Lost' = Lost
    BY <1>1 DEF NeverSeen, Lost, LossAt, Indices
  <1>3. /\ command \in Nat \union {-1} /\ latest.of \in Nat /\ rounds \in 0 .. 2
        /\ command <= latest.of /\ latest.of = detected.of /\ latest.of <= Len(calls)
        /\ Numbers = 0 .. Len(calls) /\ Len(calls) \in Nat
        /\ rounds = 2 => command = latest.of
        /\ command = NoCommand => lastCommand.value = NoCommand
        /\ NoCommand = -1 /\ detected.of \in Numbers
    BY <1>1 DEF IInv, TypeOK, DriverTypeOK, Detections, InvOrder, InvRounds, Numbers, NoCommand
  <1>4. Chosen = command
    BY <1>3 DEF Chosen
  <1>5. Now \in 0 .. clock
    <2>1. calls \in Seq(Calls) /\ Len(calls) # 0
      BY <1>1 DEF IInv, TypeOK, Calls, Numbers
    <2>2. Len(calls) \in 1 .. Len(calls)
      BY <1>3, <2>1
    <2>3. calls[Len(calls)] \in Calls
      BY <2>1, <2>2, ElementOfSeq
    <2> QED BY <2>3 DEF Now, Calls
  <1>6. /\ lastCommand'.value = command
        /\ lastCommand' \in [value : Numbers \union {NoCommand}, at : 0 .. clock]
    BY <1>3, <1>4, <1>5 DEF HandlerGet, IInv, TypeOK
  <1>7. /\ sent' \in [command : Numbers, asked : Numbers, rounds : 0 .. 2]
        /\ SteersByLatest'
    <2>1. CASE command = NoCommand
      BY <1>4, <2>1 DEF HandlerGet, IInv, TypeOK, SteersByLatest
    <2>2. CASE command # NoCommand
      <3>1. sent' = [command |-> command, asked |-> detected.of, rounds |-> rounds]
        BY <1>4, <2>2 DEF HandlerGet
      <3> QED BY <1>3, <2>2, <3>1 DEF SteersByLatest
    <2> QED BY <2>1, <2>2
  <1>8. TypeOK'
    BY <1>1, <1>3, <1>6, <1>7 DEF IInv, TypeOK, UDPTypeOK, DriverTypeOK
  <1>9. InvLoss' /\ InvLast' /\ InvOrder' /\ InvRounds' /\ ReuseIsYoung'
    BY <1>1, <1>2, <1>3, <1>6
       DEF IInv, InvLoss, InvLast, InvOrder, InvRounds, ReuseIsYoung
  <1> QED BY <1>7, <1>8, <1>9 DEF IInv

(* A handler that throws while it decodes ends the UDP thread. *)
LEMMA ThrowsInv == IInv /\ HandlerThrows /\ UNCHANGED <<clock, main>> => IInv'
  <1> SUFFICES ASSUME IInv, HandlerThrows, UNCHANGED <<clock, main>> PROVE IInv'
    OBVIOUS
  <1>1. /\ UNCHANGED <<proc, driving, dpc, latest, hand, command, rounds>>
        /\ UNCHANGED <<handlerVars, clock, main>> /\ UDPTypeOK' /\ hpc = "out"
    BY DEF HandlerThrows, UDPThrown, driverVars, UDPTypeOK, IInv, TypeOK
  <1> QED BY <1>1, MoveInv DEF IInv, TypeOK, DriverTypeOK

-----------------------------------------------------------------------------
(* The inductive invariant of automated driving, and what it says of a *)
(* terminated process.                                                 *)
THEOREM Invariance == Spec => []IInv
  <1>1. IInv /\ [Next]_vars => IInv'
    <2> SUFFICES ASSUME IInv, [Next]_vars PROVE IInv'
      OBVIOUS
    <2>1. CASE UNCHANGED vars
      <3>1. /\ UNCHANGED <<proc, driving, dpc, latest, hand, command, rounds>>
            /\ UNCHANGED <<handlerVars, clock, main, udpRunning, socket, upc, receiveFailed>>
        BY <2>1 DEF vars, driverVars, udpVars
      <3>2. UDPTypeOK' /\ (hpc # "out" => upc' = "handle")
        BY <3>1 DEF UDPTypeOK, IInv, TypeOK
      <3> QED BY <3>1, <3>2, MoveInv DEF IInv, TypeOK, DriverTypeOK
    <2>2. CASE UDPSteps
      BY <2>2, DetectInv, AddInv, GetInv, ThrowsInv, UDPInv DEF UDPSteps, Handler
    <2> QED BY <2>1, <2>2, DriverInv, UDPInv, MainInv, TickInv DEF Next
  <1> QED BY <1>1, InitInv, PTL DEF Spec

(* The types are right in every reachable state. *)
THEOREM TypeCorrect == Spec => []TypeOK
  BY Invariance, PTL DEF IInv

(* The queued command is at most two rounds of the driver behind the detection *)
(* the handler has left (lines 78-95 of automated_driving.cpp).                *)
THEOREM SteeringIsCurrent == Spec => []SteersByLatest
  BY Invariance, PTL DEF IInv

(* A detection stands in for a missing one only while it is young, for any *)
(* DetectionDuration (lines 67-76 of automated_driving.cpp).               *)
THEOREM ReusedAreYoung == Spec => []ReuseIsYoung
  BY Invariance, PTL DEF IInv

(* The unlocked test of the optional ends the process only after a loss of  *)
(* DetectionDuration, for any interleaving (lines 331-332 of                *)
(* autonomous_driving.cpp).                                                 *)
THEOREM LossTerminates == Spec => []OnlyLossTerminates
  <1>1. IInv => OnlyLossTerminates
    BY LenProperties DEF IInv, TypeOK, InvLoss, Lost, Indices, OnlyLossTerminates
  <1> QED BY <1>1, Invariance, PTL

-----------------------------------------------------------------------------
(* The order of the commands. *)

(* What the driver is working on is not older than its last command, and what *)
(* was queued is not newer than what the handler can fetch next.              *)
InvForward ==
    /\ dpc \in {"interpret", "set"} => command <= hand.of
    /\ sent.command <= (IF command = NoCommand THEN 0 ELSE command)
    /\ sent.asked <= latest.of

(* Steering never goes back: neither the command that is queued nor the     *)
(* detection that the handler left before it is older than the one before,  *)
(* although the driver works at its own pace and a lost detection is        *)
(* replaced by an older one (lines 67-95 of automated_driving.cpp, 326-345  *)
(* of autonomous_driving.cpp).                                              *)
NeverSteersBack ==
    [][sent'.command >= sent.command /\ sent'.asked >= sent.asked]_vars

LEMMA ForwardTypes ==
    ASSUME IInv
    PROVE  /\ latest.of \in Nat /\ hand.of \in Nat /\ detected.of \in Nat
           /\ command \in Nat \union {-1} /\ NoCommand = -1
           /\ sent.command \in Nat /\ sent.asked \in Nat
  <1>1. Len(calls) \in Nat
    BY LenProperties DEF IInv, TypeOK
  <1> QED BY <1>1 DEF IInv, TypeOK, DriverTypeOK, Detections, Numbers, NoCommand

(* The step of the driver's thread. *)
LEMMA DriverForward ==
    ASSUME IInv, InvForward, Driver, UNCHANGED sent
    PROVE  InvForward'
  <1>1. /\ latest.of \in Nat /\ hand.of \in Nat /\ NoCommand = -1
        /\ command \in Nat \union {-1} /\ sent.command \in Nat /\ sent.asked \in Nat
    BY ForwardTypes
  <1>2. command <= latest.of /\ latest' = latest
    BY DEF IInv, InvRounds, Driver
  <1>3. CASE DriverCheck \/ DriverInterpret
    BY <1>2, <1>3 DEF DriverCheck, DriverInterpret, InvForward
  <1>4. CASE DriverTest \/ DriverValue
    <2>1. /\ command' = command
          /\ dpc' \in {"interpret", "set"} => hand' = latest
      BY <1>4 DEF DriverTest, DriverValue, Value, ElseStop
    <2> QED BY <1>2, <2>1 DEF InvForward
  <1>5. CASE DriverSet
    <2>1. dpc = "set" /\ dpc' = "check" /\ command' = hand.of
      BY <1>5 DEF DriverSet
    <2>2. sent.command <= hand.of
      BY <1>1, <2>1 DEF InvForward
    <2> QED BY <1>1, <1>2, <2>1, <2>2 DEF InvForward
  <1> QED BY <1>3, <1>4, <1>5 DEF Driver

(* The handler fetches the command after it has left the detection. *)
LEMMA GetForward ==
    ASSUME IInv, InvForward, HandlerGet
    PROVE  InvForward' /\ sent'.command >= sent.command /\ sent'.asked >= sent.asked
  <1>1. /\ UNCHANGED <<dpc, hand, command, latest>> /\ hpc = "get"
    BY DEF HandlerGet, driverVars
  <1>2. /\ latest.of \in Nat /\ NoCommand = -1 /\ detected.of \in Nat
        /\ command \in Nat \union {-1} /\ sent.command \in Nat /\ sent.asked \in Nat
    BY ForwardTypes
  <1>3. Chosen = command /\ latest.of = detected.of
    BY <1>1 DEF Chosen, IInv, InvRounds, InvOrder
  <1>4. CASE command = NoCommand
    <2>1. sent' = sent
      BY <1>3, <1>4 DEF HandlerGet
    <2> QED BY <1>1, <1>2, <2>1 DEF InvForward
  <1>5. CASE command # NoCommand
    <2>1. sent' = [command |-> command, asked |-> detected.of, rounds |-> rounds]
      BY <1>3, <1>5 DEF HandlerGet
    <2> QED BY <1>1, <1>2, <1>3, <1>5, <2>1 DEF InvForward
  <1> QED BY <1>4, <1>5

(* The order of the commands, for any durations. *)
THEOREM SteeringAdvances == Spec => NeverSteersBack
  <1> DEFINE Forward == sent'.command >= sent.command /\ sent'.asked >= sent.asked
  <1>1. Init => InvForward
    BY DEF Init, DriverInit, InvForward, Nothing, NoCommand
  <1>2. IInv /\ InvForward /\ [Next]_vars => InvForward' /\ Forward
    <2> SUFFICES ASSUME IInv, InvForward, [Next]_vars PROVE InvForward' /\ Forward
      OBVIOUS
    <2>1. /\ latest.of \in Nat /\ detected.of \in Nat
          /\ sent.command \in Nat /\ sent.asked \in Nat
      BY ForwardTypes
    <2>2. CASE UNCHANGED <<hand, command, latest, sent>> /\ dpc' \in {dpc, "check"}
      BY <2>1, <2>2 DEF InvForward
    <2>3. CASE DriverSteps
      BY <2>1, <2>3, DriverForward DEF DriverSteps, handlerVars
    <2>4. CASE HandlerGet
      BY <2>4, GetForward
    <2>5. CASE HandlerAdd
      <3>1. /\ UNCHANGED <<dpc, hand, command, sent>> /\ latest' = detected
            /\ latest.of <= detected.of
        BY <2>5 DEF HandlerAdd, AddLatestDetection, IInv, InvOrder
      <3>2. sent.asked <= detected.of
        BY <2>1, <3>1 DEF InvForward
      <3> QED BY <2>1, <3>1, <3>2 DEF InvForward
    <2>6. CASE (HandlerDetect \/ HandlerThrows \/ Thread) \/ Arrival \/ Tick
      BY <2>2, <2>6 DEF HandlerDetect, HandlerThrows, Thread, Arrival, Datagram, ReceiveFails, Tick,
                        driverVars, handlerVars
    <2>7. CASE Startup
      BY <2>2, <2>7 DEF Startup, RunDriver, DriverRun, StartUDP, KeyPressed, driverVars,
                        handlerVars
    <2>8. CASE Cleanup
      BY <2>2, <2>8 DEF Cleanup, StopDriver, StopUDP, DriverStopFlag, threadVars, driverVars,
                        handlerVars
    <2>9. CASE UNCHANGED vars
      BY <2>2, <2>9 DEF vars, driverVars, handlerVars
    <2> QED BY <2>3, <2>4, <2>5, <2>6, <2>7, <2>8, <2>9 DEF Next, UDPSteps, Handler
  <1> QED BY <1>1, <1>2, Invariance, PTL DEF Spec, NeverSteersBack

(* The command that the handler keeps for CommandDuration is never needed:  *)
(* when the driver has no command, there has been none (lines 80-92 of      *)
(* automated_driving.cpp).                                                  *)
KeptCommandUnused == hpc = "get" => Chosen = command

THEOREM KeptCommandIsUnused == Spec => []KeptCommandUnused
  <1>1. IInv => KeptCommandUnused
    BY DEF IInv, InvRounds, Chosen, KeptCommandUnused
  <1> QED BY <1>1, Invariance, PTL

-----------------------------------------------------------------------------
(* The end of the program. *)

(* When main returns and destroys what the handler has references to, neither *)
(* the handler's thread nor the driver's is running any more (lines 113-120   *)
(* of automated_driving.cpp).                                                 *)
LocalsOutliveThreads ==
    main = "returned" => upc = "ended" /\ dpc = "ended" /\ hpc = "out"

(* The driver is joined first, and its thread is not started again. *)
InvJoined ==
    /\ main \in {"detector", "closeUDP", "joinUDP", "returned"} => dpc = "ended"
    /\ main = "returned" => upc = "ended"

(* Both threads are joined before main returns. *)
THEOREM NoThreadAfterReturn == Spec => []LocalsOutliveThreads
  <1>1. Init => InvJoined
    BY DEF Init, InvJoined
  <1>2. InvJoined /\ [Next]_vars => InvJoined'
    <2> SUFFICES ASSUME InvJoined, [Next]_vars PROVE InvJoined'
      OBVIOUS
    <2>1. CASE DriverSteps
      BY <2>1 DEF InvJoined, DriverSteps, udpVars, Driver, DriverCheck, DriverTest, DriverValue,
                  DriverInterpret, DriverSet
    <2>2. CASE UDPSteps
      BY <2>2 DEF InvJoined, UDPSteps, Handler, HandlerDetect, HandlerAdd, AddLatestDetection,
                  HandlerGet, UDPHandled, HandlerThrows, UDPThrown, Thread, UDPLoop, UDPCheck,
                  UDPReceive, UDPUnblocked, driverVars, udpVars
    <2>3. CASE Arrival \/ Tick \/ UNCHANGED vars
      BY <2>3 DEF InvJoined, Arrival, Datagram, ReceiveFails, UDPFails, UDPDatagram, Tick, vars,
                  driverVars, udpVars
    <2>4. CASE Startup
      BY <2>4 DEF InvJoined, Startup, Goes, RunDriver, DriverRun, StartUDP, UDPStart,
                  KeyPressed, driverVars, udpVars
    <2>5. CASE Cleanup
      BY <2>5 DEF InvJoined, Cleanup, Goes, StopDriver, DriverStopFlag, threadVars,
                  DriverJoined, StopUDP, UDPStopFlag, UDPStopClose, UDPJoined, driverVars, udpVars
    <2> QED BY <2>1, <2>2, <2>3, <2>4, <2>5 DEF Next
  <1>3. IInv /\ InvJoined => LocalsOutliveThreads
    BY DEF IInv, TypeOK, InvJoined, LocalsOutliveThreads
  <1> QED BY <1>1, <1>2, <1>3, Invariance, PTL DEF Spec
=============================================================================
