------------------------------- MODULE Pictures -------------------------------
(***************************************************************************)
(* What the renderer promises to whoever looks at the window: every frame  *)
(* that is under way shows one state of the scene, the one it was drawn    *)
(* at, whatever becomes of the scene afterwards; frames are finished in    *)
(* the order they were drawn, and no more than N are under way.            *)
(***************************************************************************)
EXTENDS Naturals, Sequences

CONSTANT N  \* FRAME_OVERLAP

VARIABLES
  scene,    \* what there is to see
  pictures  \* what the frames under way show, the oldest first

vars == <<scene, pictures>>

Init == pictures = <<>>

\* Whether anything of the scene changes, and what, is not the renderer's.
Change == UNCHANGED pictures

Draw ==
  /\ Len(pictures) < N
  /\ pictures' = Append(pictures, scene)
  /\ UNCHANGED scene

Finish ==
  /\ pictures # <<>>
  /\ pictures' = Tail(pictures)
  /\ UNCHANGED scene

Next == Change \/ Draw \/ Finish

Spec == Init /\ [][Next]_vars
=============================================================================
