------------------------------ MODULE MCSteering ------------------------------
(* Scenes with a bottle at each twentieth of the frame, of several widths, *)
(* alone, behind another object or before a second bottle.                 *)
EXTENDS Steering, LengthCodec

Frames == {<<640, 480>>, <<100, 100>>, <<30, 20>>}

At(frame, i, j, w) ==
    [bottle |-> TRUE, cx |-> (i * frame[1]) \div 20, cy |-> (j * frame[2]) \div 20,
     width |-> (w * frame[1]) \div 20, height |-> frame[2] \div 3]

Chair == [bottle |-> FALSE, cx |-> 3, cy |-> 4, width |-> 5, height |-> 5]

Around(b, frame) == {<<b>>, <<Chair, b>>, <<b, At(frame, 3, 3, 1)>>}

SomeScenes ==
    {[frame |-> <<640, 480>>, objects |-> <<Chair>>]}
    \union UNION { {[frame |-> f, objects |-> objects] :
                       objects \in Around(At(f, i, j, w), f)} :
                   f \in Frames, i \in 0 .. 20, j \in {0, 4, 9, 10, 13, 20},
                   w \in {0, 1, 2, 8, 9, 20} }

(* What the two algorithms compute for every input, on this instance. *)
ASSUME NearestLimit == AdjustsToNearest
ASSUME LengthsTravel == RoundTrip

SomeJoyValues == {-100, -99, -71, -50, -1, 0, 1, 49, 70, 100}
=============================================================================
