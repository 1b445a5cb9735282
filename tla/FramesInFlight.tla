--------------------------- MODULE FramesInFlight ----------------------------
(***************************************************************************)
(* What the frame loop promises to the rest of the renderer: N copies of   *)
(* the per-frame data are filled by the CPU and read by the GPU in turn,   *)
(* never both at once, in submission order, and never more than N deep.    *)
(***************************************************************************)
EXTENDS Naturals, Sequences

CONSTANT N  \* FRAME_OVERLAP: a positive number, as FrameLoop assumes of it

VARIABLES
  turn,     \* the copy to be filled next
  filling,  \* the CPU is filling it
  reading   \* the copies handed to the GPU and not yet given back

vars == <<turn, filling, reading>>

Copies == 0 .. N - 1

IsRead(c) == \E k \in 1 .. Len(reading) : reading[k] = c

Init ==
  /\ turn = 0
  /\ filling = FALSE
  /\ reading = <<>>

\* A copy may be filled once the GPU has given it back.
Begin ==
  /\ ~filling
  /\ ~IsRead(turn)
  /\ filling' = TRUE
  /\ UNCHANGED <<turn, reading>>

HandOver ==
  /\ filling
  /\ filling' = FALSE
  /\ reading' = Append(reading, turn)
  /\ turn' = (turn + 1) % N

GiveBack ==
  /\ reading # <<>>
  /\ reading' = Tail(reading)
  /\ UNCHANGED <<turn, filling>>

Next == Begin \/ HandOver \/ GiveBack

Spec == Init /\ [][Next]_vars

\* What is filled is handed over and what is read is given back.  Nothing says
\* that another copy is begun: the loop may end, or find no image to draw.
FairSpec == Spec /\ WF_vars(HandOver) /\ WF_vars(GiveBack)
=============================================================================
