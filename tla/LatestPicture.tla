---------------------------- MODULE LatestPicture ----------------------------
(***************************************************************************)
(* What the camera's path promises to the user: who looks sees the newest  *)
(* picture there is, and sees nothing only when there was none yet or when *)
(* the newest has grown old; the first look after that still shows it.     *)
(***************************************************************************)
EXTENDS Integers

CONSTANT Life  \* how long a picture is kept, in ticks

VARIABLES
    now,     \* the time
    latest,  \* the newest picture, by its number; 0 before the first
    since,   \* when it came
    kept,    \* it is still there to be seen
    seen     \* the picture seen at the last look, 0 if there was none

vars == <<now, latest, since, kept, seen>>

Init == now = 0 /\ latest = 0 /\ since = 0 /\ kept = FALSE /\ seen = 0

Pass == now' = now + 1 /\ UNCHANGED <<latest, since, kept, seen>>

(* A newer picture takes the place of the one before, seen or not. *)
Come ==
    /\ latest' \in Nat /\ latest' > latest
    /\ since' = now /\ kept' = TRUE
    /\ UNCHANGED <<now, seen>>

Look ==
    /\ seen' = IF kept THEN latest ELSE 0
    /\ kept' = (kept /\ now - since < Life)
    /\ UNCHANGED <<now, latest, since>>

Next == Pass \/ Come \/ Look

Spec == Init /\ [][Next]_vars
=============================================================================
