--------------------------- MODULE CameraFeedProofs ---------------------------
(* Proofs about CameraFeed for any expiry and any number of datagrams. *)
EXTENDS CameraFeed, SequenceTheorems, TLAPS

(* The socket is closed and the flag reset by the main thread only. *)
InvStop ==
    /\ main = "start" <=> upc = "off"
    /\ main \in {"start", "close", "join", "returned"} => ~udpRunning
    /\ socket = "closed" => main \in {"join", "returned"}
    /\ upc = "handle" => Len(arrived) # 0

(* The queue holds nothing or the newest picture, and nothing only before the *)
(* first picture or when the newest one has expired.                          *)
InvQueue ==
    /\ newest.frame # Dummy => arrived[newest.frame] = "picture"
    /\ newest.at = lastFrameTime
    /\ Len(frameQueue) <= 1
    /\ frameQueue # <<>> => Head(frameQueue) = newest.frame /\ newest.frame # Dummy
    /\ frameQueue = <<>> /\ newest.frame # Dummy => clock - newest.at >= Expiry

IInv ==
    /\ TypeOK /\ InvStop /\ InvQueue
    /\ ShowsTheNewest /\ WaitsOnlyWhenStale

(* What is in the sequences, for the provers. *)
LEMMA QueueFacts ==
    ASSUME NEW S, NEW q \in Seq(S), q # <<>>, Len(q) <= 1
    PROVE  Tail(q) = <<>> /\ Head(q) \in S
  <1>1. Len(q) \in Nat \ {0}
    BY EmptySeq
  <1>2. Len(q) = 1
    BY <1>1
  <1>3. Tail(q) \in Seq(S) /\ Len(Tail(q)) = 0 /\ Head(q) \in S
    BY <1>2, HeadTailProperties
  <1> QED BY <1>3, EmptySeq

(* A queue of one picture. *)
LEMMA Singleton ==
    ASSUME NEW S, NEW f \in S
    PROVE  /\ Append(<<>>, f) = <<f>> /\ <<f>> \in Seq(S) /\ <<f>> # <<>>
           /\ Len(<<f>>) = 1 /\ Head(<<f>>) = f
  OBVIOUS

-----------------------------------------------------------------------------
(* The invariant holds before the server is started. *)
LEMMA InitInv == Init => IInv
  <1> SUFFICES ASSUME Init PROVE IInv
    OBVIOUS
  <1>1. arrived = <<>> /\ Len(arrived) = 0 /\ Frames = {0}
    BY DEF Init, Frames
  <1>2. frameQueue \in Seq(Frames \ {Dummy}) /\ arrived \in Seq(Kinds)
    BY <1>1, EmptySeq DEF Init, ViewerInit
  <1>3. TypeOK
    <2>1. /\ clock = 0 /\ lastFrameTime = 0 /\ newest = [frame |-> 0, at |-> 0]
          /\ shown = [frame |-> 0, at |-> 0, newest |-> newest] /\ handled = 0
      BY DEF Init, ViewerInit, Dummy
    <2>2. UDPTypeOK /\ main = "start"
      BY DEF Init, UDPInit, UDPTypeOK
    <2> QED BY <1>1, <1>2, <2>1, <2>2 DEF TypeOK
  <1> QED BY <1>1, <1>3
          DEF Init, UDPInit, ViewerInit, IInv, InvStop, InvQueue, ShowsTheNewest,
              WaitsOnlyWhenStale, Dummy

(* A step that leaves viewer and clock alone and keeps the datagrams. *)
LEMMA ViewerSame ==
    ASSUME IInv, UNCHANGED <<clock, viewerVars>>,
           arrived' = arrived \/ \E k \in Kinds : arrived' = Append(arrived, k)
    PROVE  /\ arrived' \in Seq(Kinds) /\ Frames \subseteq Frames'
           /\ \A i \in DOMAIN arrived : arrived'[i] = arrived[i]
           /\ clock' \in Nat /\ lastFrameTime' \in 0 .. clock'
           /\ frameQueue' \in Seq(Frames' \ {Dummy})
           /\ newest' \in [frame : Frames', at : 0 .. clock']
           /\ shown' \in [frame : Frames', at : 0 .. clock',
                          newest : [frame : Frames', at : 0 .. clock']]
           /\ InvQueue' /\ ShowsTheNewest' /\ WaitsOnlyWhenStale'
  <1>1. /\ arrived' \in Seq(Kinds) /\ Len(arrived) <= Len(arrived')
        /\ \A i \in DOMAIN arrived : arrived'[i] = arrived[i]
    <2>1. arrived \in Seq(Kinds) /\ Len(arrived) \in Nat
      BY DEF IInv, TypeOK
    <2>2. CASE arrived' = arrived
      BY <2>1, <2>2
    <2>3. CASE \E k \in Kinds : arrived' = Append(arrived, k)
      BY <2>1, <2>3, AppendProperties, LenProperties
    <2> QED BY <2>2, <2>3
  <1>2. Frames \subseteq Frames' /\ Frames \ {Dummy} \subseteq DOMAIN arrived
    <2>1. Len(arrived) \in Nat /\ Len(arrived') \in Nat /\ DOMAIN arrived = 1 .. Len(arrived)
      BY <1>1, LenProperties DEF IInv, TypeOK
    <2> QED BY ONLY <1>1, <2>1 DEF Frames, Dummy
  <1>3. /\ clock' = clock /\ lastFrameTime' = lastFrameTime
        /\ frameQueue' = frameQueue /\ newest' = newest /\ shown' = shown
    BY DEF viewerVars
  <1>4. /\ clock' \in Nat /\ lastFrameTime' \in 0 .. clock'
        /\ newest' \in [frame : Frames', at : 0 .. clock']
        /\ shown' \in [frame : Frames', at : 0 .. clock',
                       newest : [frame : Frames', at : 0 .. clock']]
    BY <1>2, <1>3 DEF IInv, TypeOK
  <1>5. frameQueue' \in Seq(Frames' \ {Dummy})
    BY <1>2, <1>3 DEF IInv, TypeOK
  <1>6. InvQueue'
    BY <1>1, <1>2, <1>3 DEF IInv, InvQueue, TypeOK, Dummy
  <1>7. ShowsTheNewest' /\ WaitsOnlyWhenStale'
    BY <1>1, <1>2, <1>3 DEF IInv, ShowsTheNewest, WaitsOnlyWhenStale, TypeOK, Dummy
  <1> QED BY <1>1, <1>2, <1>4, <1>5, <1>6, <1>7

-----------------------------------------------------------------------------
(* The clock only makes pictures older. *)
LEMMA TickInv == IInv /\ Tick => IInv'
  <1> SUFFICES ASSUME IInv, Tick PROVE IInv'
    OBVIOUS
  <1>1. /\ clock' = clock + 1 /\ lastFrameTime' = lastFrameTime
        /\ frameQueue' = frameQueue /\ newest' = newest /\ shown' = shown
        /\ arrived' = arrived /\ handled' = handled /\ main' = main
        /\ UNCHANGED udpVars /\ Frames' = Frames
    BY DEF Tick, viewerVars, Frames
  <1>2. TypeOK'
    <2>1. 0 .. clock \subseteq 0 .. clock'
      BY <1>1 DEF IInv, TypeOK
    <2> QED BY <1>1, <2>1 DEF IInv, TypeOK, UDPTypeOK, udpVars
  <1>3. InvQueue'
    BY <1>1, ViewerAssumption DEF IInv, TypeOK, InvQueue, Dummy
  <1> QED BY <1>1, <1>2, <1>3
          DEF IInv, InvStop, udpVars, ShowsTheNewest, WaitsOnlyWhenStale

(* A datagram is appended to those that arrived. *)
LEMMA DatagramInv == IInv /\ Datagram => IInv'
  <1> SUFFICES ASSUME IInv, Datagram PROVE IInv'
    OBVIOUS
  <1>1. /\ UNCHANGED <<clock, viewerVars, main, handled, udpRunning, socket,
                       receiveFailed>>
        /\ upc = "blocked" /\ upc' = "handle"
        /\ \E k \in Kinds : arrived' = Append(arrived, k)
    BY DEF Datagram, UDPDatagram
  <1>2. Len(arrived') # 0
    BY <1>1 DEF IInv, TypeOK
  <1> QED BY <1>1, <1>2, ViewerSame
          DEF IInv, TypeOK, UDPTypeOK, InvStop, Frames

(* The thread between two datagrams. *)
LEMMA ThreadInv == IInv /\ (Thread \/ ReceiveFails) => IInv'
  <1> SUFFICES ASSUME IInv, Thread \/ ReceiveFails PROVE IInv'
    OBVIOUS
  <1>1. /\ UNCHANGED <<clock, viewerVars, main, handled, arrived, udpRunning, socket>>
        /\ upc \in {"check", "receive", "blocked"} /\ receiveFailed' \in BOOLEAN
        /\ upc' \in {"receive", "blocked", "ended"}
    BY DEF Thread, UDPLoop, UDPCheck, UDPReceive, UDPUnblocked, ReceiveFails, UDPFails, IInv,
           TypeOK, UDPTypeOK
  <1> QED BY <1>1, ViewerSame
          DEF IInv, TypeOK, UDPTypeOK, InvStop, Frames

(* The handler adds the picture that arrived, or leaves the viewer alone. *)
LEMMA HandlerInv == IInv /\ Handler => IInv'
  <1> SUFFICES ASSUME IInv, Handler PROVE IInv'
    OBVIOUS
  <1> DEFINE kind == arrived[Len(arrived)]
  <1>1. /\ UNCHANGED <<clock, main, arrived, udpRunning, socket, receiveFailed>>
        /\ upc = "handle" /\ upc' \in {"check", "ended"} /\ handled' = Len(arrived)
        /\ Len(arrived) \in Nat \ {0} /\ kind \in Kinds /\ Frames' = Frames
    BY DEF Handler, UDPHandled, UDPThrown, IInv, TypeOK, InvStop, Kinds, Decoded, Frames
  <1>2. /\ UDPTypeOK' /\ InvStop'
        /\ arrived' \in Seq(Kinds) /\ handled' \in Frames'
        /\ main' \in {"start", "display", "stop", "close", "join", "returned"}
    BY <1>1 DEF IInv, TypeOK, UDPTypeOK, InvStop, Frames
  <1>3. CASE ~Decoded(kind)
    <2>1. UNCHANGED viewerVars
      BY <1>3 DEF Handler
    <2> QED BY <1>1, <1>2, <2>1, ViewerSame DEF IInv, TypeOK
  <1>4. CASE Decoded(kind)
    <2>1. /\ frameQueue' = Append(Room, Number) /\ lastFrameTime' = clock
          /\ newest' = [frame |-> Number, at |-> clock] /\ shown' = shown
      BY <1>4 DEF Handler, AddFrame, FrameTime
    <2>2. Number \in Frames \ {Dummy} /\ arrived[Number] = "picture"
      BY <1>1, <1>4 DEF Number, Frames, Dummy, Decoded
    <2>3. /\ frameQueue' = <<Number>> /\ frameQueue' \in Seq(Frames \ {Dummy})
          /\ frameQueue' # <<>> /\ Len(frameQueue') = 1 /\ Head(frameQueue') = Number
      <3>1. frameQueue \in Seq(Frames \ {Dummy}) /\ Len(frameQueue) <= 1
        BY DEF IInv, TypeOK, InvQueue
      <3>2. Room = <<>>
        BY <3>1, QueueFacts DEF Room
      <3> QED BY <2>1, <2>2, <3>2, Singleton
    <2>4. TypeOK'
      BY <1>1, <1>2, <2>1, <2>2, <2>3 DEF IInv, TypeOK
    <2>5. InvQueue'
      BY <1>1, <2>1, <2>2, <2>3 DEF InvQueue, Dummy
    <2> QED BY <1>1, <1>2, <2>1, <2>4, <2>5
            DEF IInv, ShowsTheNewest, WaitsOnlyWhenStale
  <1> QED BY <1>3, <1>4

(* The display shows the newest picture until it has expired. *)
LEMMA ShowInv == IInv /\ Show => IInv'
  <1> SUFFICES ASSUME IInv, Show PROVE IInv'
    OBVIOUS
  <1>1. /\ UNCHANGED <<udpRunning, socket, upc, receiveFailed, clock, main, arrived, handled,
                       lastFrameTime, newest>>
        /\ shown' = [frame |-> Front, at |-> clock, newest |-> newest]
        /\ frameQueue' = IF frameQueue # <<>> /\ TooOld THEN Tail(frameQueue)
                                                        ELSE frameQueue
        /\ Frames' = Frames
    BY DEF Show, Display, udpVars, Frames
  <1>2. frameQueue # <<>> => Tail(frameQueue) = <<>> /\ Head(frameQueue) \in Frames
    BY QueueFacts DEF IInv, TypeOK, InvQueue
  <1>3. /\ frameQueue = <<>> => Front = Dummy
        /\ frameQueue # <<>> => Front = newest.frame
        /\ Front \in Frames
    BY <1>2 DEF Front, IInv, TypeOK, InvQueue, Frames, Dummy
  <1>4. frameQueue' \in {frameQueue, <<>>} /\ (frameQueue' # frameQueue => TooOld)
    BY <1>1, <1>2
  <1>5. TypeOK'
    <2>1. frameQueue' \in Seq(Frames' \ {Dummy})
      BY <1>1, <1>4 DEF IInv, TypeOK
    <2> QED BY <1>1, <1>3, <2>1 DEF IInv, TypeOK, UDPTypeOK
  <1>6. InvQueue'
    BY <1>1, <1>4 DEF IInv, InvQueue, TooOld
  <1>7. ShowsTheNewest' /\ WaitsOnlyWhenStale'
    BY <1>1, <1>3 DEF IInv, InvQueue, ShowsTheNewest, WaitsOnlyWhenStale, Dummy
  <1> QED BY <1>1, <1>5, <1>6, <1>7 DEF IInv, InvStop

(* The main thread starts the server, resets its flag and closes its socket. *)
LEMMA MainInv == IInv /\ (Start \/ KeyPressed \/ Cleanup) => IInv'
  <1> SUFFICES ASSUME IInv, Start \/ KeyPressed \/ Cleanup PROVE IInv'
    OBVIOUS
  <1>1. /\ UNCHANGED <<clock, viewerVars, handled, arrived>>
        /\ main' \in {"display", "stop", "close", "join", "returned"}
        /\ UDPTypeOK' /\ InvStop'
    <2>1. CASE Start
      BY <2>1 DEF Start, UDPStart, IInv, TypeOK, UDPTypeOK, InvStop
    <2>2. CASE KeyPressed
      BY <2>2 DEF KeyPressed, udpVars, IInv, TypeOK, UDPTypeOK, InvStop
    <2>3. CASE StopFlag
      BY <2>3 DEF StopFlag, UDPStopFlag, ResetRunning, IInv, TypeOK, UDPTypeOK, InvStop
    <2>4. CASE StopClose
      BY <2>4 DEF StopClose, UDPStopClose, IInv, TypeOK, UDPTypeOK, InvStop
    <2>5. CASE StopJoin
      BY <2>5 DEF StopJoin, udpVars, IInv, TypeOK, UDPTypeOK, InvStop
    <2> QED BY <2>1, <2>2, <2>3, <2>4, <2>5 DEF Cleanup
  <1> QED BY <1>1, ViewerSame DEF IInv, TypeOK

-----------------------------------------------------------------------------
(* The inductive invariant of the camera's path. *)
THEOREM Invariance == Spec => []IInv
  <1>1. IInv /\ [Next]_vars => IInv'
    <2> SUFFICES ASSUME IInv, [Next]_vars PROVE IInv'
      OBVIOUS
    <2>1. CASE UNCHANGED vars
      <3>1. UNCHANGED <<clock, viewerVars, arrived>>
        BY <2>1 DEF vars
      <3> QED BY <2>1, <3>1, ViewerSame
              DEF vars, udpVars, IInv, TypeOK, UDPTypeOK, InvStop,
                  Frames
    <2> QED BY <2>1, TickInv, DatagramInv, ThreadInv, HandlerInv, ShowInv, MainInv DEF Next
  <1> QED BY <1>1, InitInv, PTL DEF Spec

(* The types are right in every reachable state. *)
THEOREM TypeCorrect == Spec => []TypeOK
  BY Invariance, PTL DEF IInv

(* The user never sees an older picture than the newest, whatever the order *)
(* of handler and display (lines 31-40 and 58-72 of video_viewer.cpp).      *)
THEOREM NewestIsShown == Spec => []ShowsTheNewest
  BY Invariance, PTL DEF IInv

(* A picture is taken away only when it has expired, although addFrame and *)
(* display interleave (lines 33-38 and 62-70 of video_viewer.cpp).         *)
THEOREM WaitingMeansStale == Spec => []WaitsOnlyWhenStale
  BY Invariance, PTL DEF IInv

-----------------------------------------------------------------------------
(* The camera's path implements LatestPicture. *)

Promise == INSTANCE LatestPicture WITH
    Life <- Expiry, now <- clock, latest <- newest.frame, since <- newest.at,
    kept <- frameQueue # <<>>, seen <- shown.frame

(* The picture being handled is newer than all that were handled before. *)
InvHandled ==
    /\ newest.frame <= handled
    /\ handled = IF upc = "handle" THEN Len(arrived) - 1 ELSE Len(arrived)

(* Every datagram is handled once, before the next one is received. *)
LEMMA HandledOnce == Spec => []InvHandled
  <1>1. Init => InvHandled
    BY DEF Init, ViewerInit, UDPInit, InvHandled, Dummy
  <1>2. IInv /\ InvHandled /\ [Next]_vars => InvHandled'
    <2> SUFFICES ASSUME IInv, InvHandled, [Next]_vars PROVE InvHandled'
      OBVIOUS
    <2>1. Len(arrived) \in Nat /\ handled \in 0 .. Len(arrived) /\ newest.frame \in Nat
      BY LenProperties DEF IInv, TypeOK, Frames
    <2>2. CASE Tick \/ Show \/ UNCHANGED vars
      BY <2>2 DEF Tick, Show, Display, vars, udpVars, viewerVars, InvHandled
    <2>3. CASE Datagram
      <3>1. /\ \E k \in Kinds : arrived' = Append(arrived, k)
            /\ UNCHANGED <<newest, handled>> /\ upc = "blocked" /\ upc' = "handle"
        BY <2>3 DEF Datagram, UDPDatagram, viewerVars
      <3>2. Len(arrived') = Len(arrived) + 1
        BY <3>1, AppendProperties DEF IInv, TypeOK
      <3> QED BY <2>1, <3>1, <3>2 DEF InvHandled
    <2>4. CASE Thread \/ ReceiveFails
      BY <2>4 DEF Thread, UDPLoop, UDPCheck, UDPReceive, UDPUnblocked, ReceiveFails, UDPFails,
                  viewerVars, InvHandled
    <2>5. CASE Handler
      <3>1. /\ handled' = Len(arrived) /\ arrived' = arrived
            /\ upc' \in {"check", "ended"}
            /\ newest' = newest \/ newest'.frame = Number
        BY <2>5 DEF Handler, AddFrame, UDPHandled, UDPThrown, viewerVars
      <3> QED BY <2>1, <3>1 DEF InvHandled, Number
    <2>6. CASE Start \/ KeyPressed \/ Cleanup
      BY <2>6 DEF Start, UDPStart, KeyPressed, Cleanup, StopFlag, UDPStopFlag, StopClose,
                  UDPStopClose, StopJoin, udpVars, viewerVars, InvHandled
    <2> QED BY <2>2, <2>3, <2>4, <2>5, <2>6 DEF Next
  <1> QED BY <1>1, <1>2, Invariance, PTL DEF Spec

(* No datagram that was handled has made the handler throw, as long as the *)
(* thread receives.                                                         *)
InvFeed ==
    /\ upc # "ended" => \A i \in 1 .. handled : arrived[i] # "throwing"
    /\ FirstFailureEndsFeed

(* The loop goes on after a datagram only if the handler has returned. *)
LEMMA FeedNext ==
    ASSUME IInv, InvHandled, InvHandled', InvFeed, [Next]_vars PROVE InvFeed'
  <1>1. Len(arrived) \in Nat /\ handled \in Nat
    BY LenProperties DEF IInv, TypeOK, Frames
  <1>2. CASE /\ UNCHANGED <<arrived, handled, receiveFailed>>
             /\ upc' = "ended" \/ upc = "ended" => upc' = upc
             /\ udpRunning' => udpRunning \/ upc' # "ended"
    BY <1>2 DEF InvFeed, FirstFailureEndsFeed
  <1>3. CASE Tick \/ Show \/ Start \/ KeyPressed \/ Cleanup \/ UNCHANGED vars
    BY <1>2, <1>3 DEF Tick, Show, Start, UDPStart, KeyPressed, Cleanup, StopFlag, UDPStopFlag,
                      ResetRunning, StopClose, UDPStopClose, StopJoin, udpVars, vars
  <1>4. CASE Datagram
    <2>1. /\ \E k \in Kinds : arrived' = Append(arrived, k)
          /\ handled' = handled /\ upc = "blocked" /\ upc' = "handle"
      BY <1>4 DEF Datagram, UDPDatagram
    <2>2. /\ Len(arrived') = Len(arrived) + 1 /\ handled = Len(arrived)
          /\ \A i \in 1 .. Len(arrived) : arrived'[i] = arrived[i]
      BY <2>1, AppendProperties DEF IInv, TypeOK, InvHandled
    <2> QED BY <1>1, <2>1, <2>2 DEF InvFeed, FirstFailureEndsFeed
  <1>5. CASE Thread
    <2>1. /\ UNCHANGED <<arrived, handled, receiveFailed, udpRunning>>
          /\ upc # "ended" /\ (upc' = "ended" => ~udpRunning)
      BY <1>5 DEF Thread, UDPLoop, UDPCheck, UDPReceive, UDPUnblocked, IInv, TypeOK, UDPTypeOK,
                  InvStop
    <2> QED BY <2>1 DEF InvFeed, FirstFailureEndsFeed
  <1>6. CASE ReceiveFails
    <2>1. /\ UNCHANGED <<arrived, handled, udpRunning>> /\ receiveFailed'
          /\ upc = "blocked" /\ upc' = "ended"
      BY <1>6 DEF ReceiveFails, UDPFails
    <2>2. handled = Len(arrived)
      BY <2>1 DEF InvHandled
    <2> QED BY <2>1, <2>2 DEF InvFeed, FirstFailureEndsFeed
  <1>7. CASE Handler
    <2>1. /\ UNCHANGED <<arrived, receiveFailed, udpRunning>> /\ handled' = Len(arrived)
          /\ upc = "handle" /\ upc' \in {"check", "ended"}
          /\ upc' = "ended" <=> arrived[Len(arrived)] = "throwing"
      BY <1>7 DEF Handler, UDPHandled, UDPThrown, Decoded, IInv, TypeOK, InvStop, Kinds
    <2>2. handled = Len(arrived) - 1 /\ Len(arrived) # 0
      BY <2>1 DEF InvHandled, IInv, InvStop
    <2>3. \A i \in 1 .. Len(arrived) - 1 : arrived[i] # "throwing"
      BY <2>1, <2>2 DEF InvFeed
    <2>4. upc' # "ended" => \A i \in 1 .. Len(arrived) : arrived[i] # "throwing"
      BY <1>1, <2>1, <2>3
    <2> QED BY <2>1, <2>2, <2>3, <2>4 DEF InvFeed, FirstFailureEndsFeed
  <1> QED BY <1>3, <1>4, <1>5, <1>6, <1>7 DEF Next

(* The first exception, of receive_from or of the handler, is the only end of  *)
(* a feed that is not being stopped, and nothing that was received before it   *)
(* is left unhandled (lines 29-39, 53 of udp_server_lib.cpp).                  *)
THEOREM FeedEndsAtFailure == Spec => []FirstFailureEndsFeed
  <1>1. Init => InvFeed
    BY LenProperties DEF Init, UDPInit, InvFeed, FirstFailureEndsFeed
  <1>2. InvFeed => FirstFailureEndsFeed
    BY DEF InvFeed
  <1>3. IInv /\ InvHandled /\ InvHandled' /\ InvFeed /\ [Next]_vars => InvFeed'
    BY FeedNext
  <1> QED BY <1>1, <1>2, <1>3, Invariance, HandledOnce, PTL DEF Spec

(* It begins as LatestPicture does. *)
LEMMA PromiseInit == Init => Promise!Init
  BY DEF Init, ViewerInit, Promise!Init, Dummy

(* The handler's AddFrame is Come, the display is Look, the clock is Pass; *)
(* everything else is not seen by the user.                                *)
LEMMA PromiseNext ==
    IInv /\ IInv' /\ InvHandled /\ [Next]_vars => [Promise!Next]_Promise!vars
  <1> SUFFICES ASSUME IInv, IInv', InvHandled, [Next]_vars
               PROVE  Promise!Next \/ UNCHANGED Promise!vars
    OBVIOUS
  <1>1. CASE UNCHANGED <<clock, viewerVars>>
    BY <1>1 DEF viewerVars, Promise!vars
  <1>2. CASE Tick
    BY <1>2 DEF Tick, viewerVars, Promise!Next, Promise!Pass
  <1>3. CASE Handler
    <2>1. CASE ~Decoded(arrived[Len(arrived)])
      BY <1>3, <2>1, <1>1 DEF Handler
    <2>2. CASE Decoded(arrived[Len(arrived)])
      <3>1. /\ frameQueue' = Append(Room, Number) /\ UNCHANGED <<shown, clock>>
            /\ newest' = [frame |-> Number, at |-> clock] /\ upc = "handle"
        BY <1>3, <2>2 DEF Handler, AddFrame
      <3>2. newest.frame < Number /\ Number \in Nat
        <4>1. Len(arrived) \in Nat /\ handled \in Nat /\ newest.frame \in Nat
          BY LenProperties DEF IInv, TypeOK, Frames
        <4> QED BY <3>1, <4>1 DEF InvHandled, Number
      <3>3. frameQueue' # <<>>
        BY <3>1, ViewerAssumption DEF IInv, InvQueue, TypeOK, Dummy
      <3> QED BY <3>1, <3>2, <3>3 DEF Promise!Next, Promise!Come
    <2> QED BY <2>1, <2>2
  <1>4. CASE Show
    <2>1. /\ UNCHANGED <<clock, newest>> /\ shown'.frame = Front
          /\ frameQueue' = IF frameQueue # <<>> /\ TooOld THEN Tail(frameQueue)
                                                          ELSE frameQueue
      BY <1>4 DEF Show, Display
    <2>2. frameQueue # <<>> => Tail(frameQueue) = <<>> /\ Front = newest.frame
      BY QueueFacts DEF IInv, TypeOK, InvQueue, Front
    <2>3. TooOld <=> ~(clock - newest.at < Expiry)
      BY ViewerAssumption DEF IInv, TypeOK, InvQueue, TooOld
    <2>4. shown'.frame = IF frameQueue # <<>> THEN newest.frame ELSE 0
      BY <2>1, <2>2 DEF Front, Dummy
    <2>5. (frameQueue' # <<>>) = (frameQueue # <<>> /\ clock - newest.at < Expiry)
      BY <2>1, <2>2, <2>3
    <2> QED BY <2>1, <2>4, <2>5 DEF Promise!Next, Promise!Look
  <1>5. CASE Datagram \/ ReceiveFails \/ Thread \/ Start \/ KeyPressed \/ Cleanup
    BY <1>1, <1>5 DEF Datagram, ReceiveFails, Thread, Start, KeyPressed, Cleanup, StopFlag,
                      StopClose, StopJoin
  <1>6. CASE UNCHANGED vars
    BY <1>1, <1>6 DEF vars
  <1> QED BY <1>2, <1>3, <1>4, <1>5, <1>6 DEF Next

(* For every expiry and any interleaving of handler, display and clock, the *)
(* viewer behaves like one place for the newest picture that is emptied by  *)
(* the first look after its expiry (lines 29-40, 57-80 of video_viewer.cpp).*)
THEOREM FeedIsLatestPicture == Spec => Promise!Spec
  BY PromiseInit, PromiseNext, Invariance, HandledOnce, PTL DEF Spec, Promise!Spec

(* No picture was displayed that came after the newest one. *)
InvDisplayed == shown.newest.frame <= newest.frame

(* A picture on the screen is never followed by an older one, not even with *)
(* the dummy frame in between: what is displayed is the newest picture of   *)
(* that moment, and the newest one of the moments only grows.               *)
NeverGoesBack ==
    [][ /\ shown'.newest.frame >= shown.newest.frame
        /\ shown'.frame # Dummy => shown'.frame = shown'.newest.frame ]_vars

(* Datagrams are handled in the order they were received, one at a time, and *)
(* the display does not fall back behind what it has shown (lines 29-40 of   *)
(* udp_server_lib.cpp, 57-80 of video_viewer.cpp).                           *)
THEOREM PicturesAdvance == Spec => NeverGoesBack
  <1> DEFINE Advances == shown'.newest.frame >= shown.newest.frame
             Newest == shown'.frame # Dummy => shown'.frame = shown'.newest.frame
  <1>1. Init => InvDisplayed
    BY DEF Init, ViewerInit, InvDisplayed, Dummy
  <1>2. IInv /\ InvHandled /\ InvDisplayed /\ [Next]_vars => InvDisplayed' /\ Advances
    <2> SUFFICES ASSUME IInv, InvHandled, InvDisplayed, [Next]_vars
                 PROVE  InvDisplayed' /\ Advances
      OBVIOUS
    <2>1. newest.frame \in Nat /\ shown.newest.frame \in Nat /\ Len(arrived) \in Nat
      BY LenProperties DEF IInv, TypeOK, Frames
    <2>2. CASE UNCHANGED viewerVars
      BY <2>1, <2>2 DEF viewerVars, InvDisplayed
    <2>3. CASE Handler /\ Decoded(arrived[Len(arrived)])
      <3>1. newest'.frame = Len(arrived) /\ shown' = shown
        BY <2>3 DEF Handler, AddFrame, Number
      <3>2. newest.frame <= Len(arrived) - 1
        BY <2>1, <2>3 DEF Handler, InvHandled
      <3> QED BY <2>1, <3>1, <3>2 DEF InvDisplayed
    <2>4. CASE Show
      BY <2>1, <2>4 DEF Show, Display, InvDisplayed
    <2>5. CASE ~Show /\ ~(Handler /\ Decoded(arrived[Len(arrived)]))
      <3>1. UNCHANGED viewerVars
        BY <2>5 DEF Next, Tick, Datagram, ReceiveFails, Thread, Handler, Start, KeyPressed,
                    Cleanup, StopFlag, StopClose, StopJoin, vars
      <3> QED BY <2>2, <3>1
    <2> QED BY <2>3, <2>4, <2>5
  <1>3. IInv /\ IInv' /\ [Next]_vars => Newest
    BY DEF IInv, ShowsTheNewest
  <1> QED BY <1>1, <1>2, <1>3, Invariance, HandledOnce, PTL DEF Spec, NeverGoesBack

(* The thread that uses main's viewer has ended when main returns and destroys *)
(* it (lines 94-99 of udp_server_lib.cpp).                                     *)
ViewerOutlivesThread == main = "returned" => upc = "ended"

(* stop() waits for the thread, and nothing starts it again. *)
THEOREM NoThreadAfterStop == Spec => []ViewerOutlivesThread
  <1>1. Init => ViewerOutlivesThread
    BY DEF Init, ViewerOutlivesThread
  <1>2. ViewerOutlivesThread /\ [Next]_vars => ViewerOutlivesThread'
    BY DEF ViewerOutlivesThread, Next, vars, udpVars, Tick, Datagram, UDPDatagram, Thread,
           ReceiveFails, UDPFails, UDPLoop, UDPCheck, UDPReceive, UDPUnblocked, Handler,
           UDPHandled, UDPThrown, Start,
           UDPStart, Show, KeyPressed, Cleanup, StopFlag, UDPStopFlag, StopClose,
           UDPStopClose, StopJoin, UDPJoined
  <1> QED BY <1>1, <1>2, PTL DEF Spec
=============================================================================
