------------------------------- MODULE RxFifo -------------------------------
(* What the receive ring of bl616-wifi promises: a bounded queue of whole  *)
(* frames.  A frame is queued at the back or, when Depth frames are        *)
(* waiting, dropped; the oldest one is taken from the front.               *)
EXTENDS Integers, Sequences

CONSTANTS
  Frames, \* what can be received
  Depth   \* frames the queue holds

VARIABLES
  queue,  \* frames waiting, oldest first
  taken   \* frames handed to the IP stack so far, in order

Init == queue = << >> /\ taken = << >>

Accept ==
  /\ Len(queue) < Depth
  /\ \E f \in Frames : queue' = Append(queue, f)
  /\ UNCHANGED taken

Take ==
  /\ queue # << >>
  /\ taken' = Append(taken, Head(queue))
  /\ queue' = Tail(queue)

Next == Accept \/ Take

Spec == Init /\ [][Next]_<<queue, taken>>
=============================================================================
