--------------------------- MODULE FrameLoop_proofs ---------------------------
(***************************************************************************)
(* Proofs about the frame loop, for every number of frames in flight, every *)
(* set of swapchain images and every choice of disturbances: type           *)
(* correctness, the safety of the per-frame data, fences and resources, and *)
(* that the loop implements FramesInFlight.  Where the code is safe only up *)
(* to a mishap, the property itself says which one: until BeginFrame gives  *)
(* up an image it acquired, the acquire semaphore is free and the image on  *)
(* display is not drawn into; while no more frames wait for the display     *)
(* than there are semaphores, renderSem is free when it is signalled; and   *)
(* only two signals that became one leave a wait without an answer.         *)
(***************************************************************************)
EXTENDS FrameLoop, SequenceTheorems, TLAPS

-----------------------------------------------------------------------------
(* The queue of submissions, as the actions change it *)

FramesOf(q) == {q[k].frame : k \in 1 .. Len(q)}

Distinct(q) == \A j, k \in 1 .. Len(q) : q[j].frame = q[k].frame => j = k

\* Submitting adds one frame, and repeats none that was not in flight.
LEMMA AppendSubmission ==
  ASSUME NEW q \in Seq(Submission), NEW s \in Submission
  PROVE  /\ Append(q, s) \in Seq(Submission)
         /\ FramesOf(Append(q, s)) = FramesOf(q) \cup {s.frame}
         /\ Distinct(q) /\ s.frame \notin FramesOf(q) => Distinct(Append(q, s))
<1> DEFINE r == Append(q, s)
<1>1. /\ r \in Seq(Submission)
      /\ Len(q) \in Nat
      /\ Len(r) = Len(q) + 1
      /\ \A k \in 1 .. Len(q) : r[k] = q[k]
      /\ r[Len(q) + 1] = s
  BY AppendProperties, LenProperties
<1> HIDE DEF r
<1>2. FramesOf(r) = FramesOf(q) \cup {s.frame}
  BY <1>1 DEF FramesOf
<1>3. ASSUME Distinct(q), s.frame \notin FramesOf(q) PROVE Distinct(r)
  BY <1>1, <1>3 DEF Distinct, FramesOf
<1>4. QED
  BY <1>1, <1>2, <1>3 DEF r

\* Completing removes the oldest frame, and only that one.
LEMMA CompleteSubmission ==
  ASSUME NEW q \in Seq(Submission), q # <<>>
  PROVE  /\ Head(q) \in Submission
         /\ Tail(q) \in Seq(Submission)
         /\ Distinct(q) => /\ FramesOf(Tail(q)) = FramesOf(q) \ {Head(q).frame}
                           /\ Distinct(Tail(q))
<1> DEFINE r == Tail(q)
           h == Head(q)
<1>1. /\ h \in Submission
      /\ r \in Seq(Submission)
      /\ Len(q) \in Nat \ {0}
      /\ Len(r) = Len(q) - 1
      /\ \A k \in 1 .. Len(r) : r[k] = q[k + 1]
      /\ h = q[1]
  BY HeadTailProperties, EmptySeq
<1> HIDE DEF r, h
<1>2. ASSUME Distinct(q) PROVE FramesOf(r) = FramesOf(q) \ {h.frame}
  <2>1. ASSUME NEW k \in 1 .. Len(r) PROVE q[k + 1].frame # h.frame /\ k + 1 \in 1 .. Len(q)
    BY <1>1, <1>2 DEF Distinct
  <2>2. ASSUME NEW k \in 1 .. Len(q), k # 1 PROVE k - 1 \in 1 .. Len(r) /\ r[k - 1] = q[k]
    BY <1>1, <2>2
  <2>3. FramesOf(r) \subseteq FramesOf(q) \ {h.frame}
    BY <1>1, <2>1 DEF FramesOf
  <2>4. FramesOf(q) \ {h.frame} \subseteq FramesOf(r)
    BY <1>1, <2>2 DEF FramesOf
  <2>5. QED
    BY <2>3, <2>4
<1>3. ASSUME Distinct(q) PROVE Distinct(r)
  BY <1>1, <1>3 DEF Distinct
<1>4. QED
  BY <1>1, <1>2, <1>3 DEF r, h

Drawn(q, k) == [q EXCEPT ![k].drawing = TRUE]

\* Beginning to draw changes no frame and no swapchain of a submission.
LEMMA DrawSubmission ==
  ASSUME NEW q \in Seq(Submission), NEW k \in 1 .. Len(q)
  PROVE  /\ Drawn(q, k) \in Seq(Submission)
         /\ Len(Drawn(q, k)) = Len(q)
         /\ \A j \in 1 .. Len(q) : /\ Drawn(q, k)[j].frame = q[j].frame
                                   /\ Drawn(q, k)[j].image = q[j].image
                                   /\ Drawn(q, k)[j].swapchain = q[j].swapchain
                                   /\ Drawn(q, k)[j].drawing = (j = k \/ q[j].drawing)
         /\ FramesOf(Drawn(q, k)) = FramesOf(q)
         /\ Distinct(q) => Distinct(Drawn(q, k))
<1> DEFINE e == [q[k] EXCEPT !.drawing = TRUE]
           r == [q EXCEPT ![k] = e]
<1>1. q[k] \in Submission
  BY ElementOfSeq
<1>2. /\ e \in Submission
      /\ e.frame = q[k].frame /\ e.image = q[k].image
      /\ e.swapchain = q[k].swapchain /\ e.drawing = TRUE
  BY <1>1 DEF Submission
<1>3. /\ r \in Seq(Submission)
      /\ Len(r) = Len(q)
      /\ \A j \in 1 .. Len(q) : r[j] = IF j = k THEN e ELSE q[j]
  BY <1>2, ExceptSeq
<1> HIDE DEF e, r
<1>4. \A j \in 1 .. Len(q) : /\ r[j].frame = q[j].frame /\ r[j].swapchain = q[j].swapchain
                             /\ r[j].image = q[j].image
                             /\ r[j].drawing = (j = k \/ q[j].drawing)
  <2>1. ASSUME NEW j \in 1 .. Len(q) PROVE q[j].drawing \in BOOLEAN
    <3>1. q[j] \in Submission
      BY ElementOfSeq
    <3>2. QED
      BY <3>1 DEF Submission
  <2>2. QED
    BY <1>2, <1>3, <2>1
<1>5. FramesOf(r) = FramesOf(q)
  BY <1>3, <1>4 DEF FramesOf
<1>6. Distinct(q) => Distinct(r)
  BY <1>3, <1>4 DEF Distinct
<1>7. r = Drawn(q, k)
  BY DEF r, e, Drawn
<1>8. QED
  BY <1>3, <1>4, <1>5, <1>6, <1>7

-----------------------------------------------------------------------------
(* Types *)

LEMMA FrameArithmetic == 0 \in Frames /\ \A f \in Frames : (f + 1) % FRAME_OVERLAP \in Frames
BY FrameOverlapAssumption DEF Frames

LEMMA TypeStep == TypeOK /\ [Next]_vars => TypeOK'
<1> SUFFICES ASSUME TypeOK, [Next]_vars PROVE TypeOK'
  OBVIOUS
<1> USE DEF TypeOK, Places, Mishaps
<1>1. CASE UNCHANGED vars
  BY <1>1 DEF vars, cpuVars, syncVars, deviceVars
<1>2. CASE PollEvents
  BY <1>2 DEF PollEvents, syncVars, deviceVars
<1>3. CASE WaitFence
  BY <1>3 DEF WaitFence, syncVars, deviceVars
<1>4. CASE FenceTimeout
  BY <1>4 DEF FenceTimeout, syncVars, deviceVars
<1>5. ASSUME NEW i \in Images, AcquireImage(i) PROVE TypeOK'
  BY <1>5 DEF AcquireImage, AfterAcquire, GivingUp, deviceVars
<1>6. CASE AcquireOutOfDate
  BY <1>6 DEF AcquireOutOfDate, AfterAcquire, syncVars, deviceVars
<1>7. CASE AcquireTimeout
  BY <1>7 DEF AcquireTimeout, AfterAcquire, syncVars, deviceVars
<1>8. CASE WaitIdle
  BY <1>8 DEF WaitIdle, syncVars, deviceVars
<1>9. CASE RecreateSwapchain
  BY <1>9 DEF RecreateSwapchain, AfterDraw
<1>10. CASE ResetFence
  BY <1>10 DEF ResetFence, deviceVars
<1>11. CASE Record
  BY <1>11 DEF Record, syncVars, deviceVars
<1>12. CASE Submit
  <2> DEFINE s == [frame |-> frame, image |-> image,
                   swapchain |-> swapchain, drawing |-> FALSE]
  <2>1. s \in Submission
    BY <1>12 DEF Submit, Submission
  <2>2. queue' \in Seq(Submission)
    BY <1>12, <2>1, AppendSubmission DEF Submit
  <2>3. QED
    BY <1>12, <2>2 DEF Submit, syncVars
<1>13. CASE Present
  <2> DEFINE p == [frame |-> frame, image |-> image]
  <2>1. p \in [frame : Frames, image : Images]
    BY <1>13 DEF Present
  <2>2. presents' \in Seq([frame : Frames, image : Images])
    BY <1>13, <2>1, AppendProperties DEF Present
  <2>3. QED
    BY <1>13, <2>2, FrameArithmetic DEF Present, AfterDraw, NextFrame, syncVars
<1>14. CASE Deinit
  BY <1>14 DEF Deinit, syncVars, deviceVars
<1>15. ASSUME NEW k \in 1 .. Len(queue), BeginDrawing(k) PROVE TypeOK'
  <2>1. queue' \in Seq(Submission)
    BY <1>15, DrawSubmission DEF BeginDrawing, Drawn
  <2>2. presentSem' \in [Frames -> BOOLEAN]
    BY <1>15 DEF BeginDrawing
  <2>3. QED
    BY <1>15, <2>1, <2>2 DEF BeginDrawing, cpuVars
<1>16. CASE Complete
  <2>1. queue' \in Seq(Submission)
    BY <1>16, CompleteSubmission DEF Complete
  <2>2. QED
    BY <1>16, <2>1 DEF Complete, cpuVars
<1>17. CASE Show
  <2>1. /\ Head(presents) \in [frame : Frames, image : Images]
        /\ presents' \in Seq([frame : Frames, image : Images])
    BY <1>17, HeadTailProperties DEF Show
  <2>2. QED
    BY <1>17, <2>1 DEF Show, cpuVars
<1>18. ASSUME NEW f \in Frames, Release(f) PROVE TypeOK'
  BY <1>18 DEF Release, cpuVars, deviceVars
<1>19. QED
  BY <1>1, <1>2, <1>3, <1>4, <1>5, <1>6, <1>7, <1>8, <1>9, <1>10, <1>11, <1>12, <1>13,
     <1>14, <1>15, <1>16, <1>17, <1>18 DEF Next, Thread, Gpu, Presentation, Ended

\* Every variable keeps its type, whatever the environment does; in particular a
\* submission always has an image that was acquired.
THEOREM TypeCorrect == Spec => []TypeOK
<1>1. Init => TypeOK
  BY FrameArithmetic, ImagesAssumption, EmptySeq DEF Init, TypeOK, Places
<1>2. QED
  BY <1>1, TypeStep, PTL DEF Spec

-----------------------------------------------------------------------------
(* Frames, fences and resources.  FenceTellsInFlight alone is not inductive:  *)
(* Complete signals the fence of one submission, so no other submission may   *)
(* have the same frame; that holds because Submit follows a WaitFence that    *)
(* saw the fence signalled, which nothing but ResetFence undoes.              *)

FenceSeen == pc \in {"acquire", "resetFence"} => renderFen[frame]

RecordsAlone == pc \in {"record", "submit"} => frame \notin InFlight

IdleToRecreate == pc = "recreate" => queue = <<>>

SafetyInv ==
  /\ TypeOK
  /\ FenceTellsInFlight
  /\ Distinct(queue)
  /\ FenceSeen
  /\ RecordsAlone
  /\ IdleToRecreate
  /\ ResourcesOutliveUse

LEMMA InFlightIsFramesOf == InFlight = FramesOf(queue) /\ InFlight' = FramesOf(queue')
BY DEF InFlight, FramesOf

\* A step that changes neither the queue, the fences, the frame nor the
\* swapchain keeps the invariant if it goes to a place that asks for no more
\* than the place it leaves.
LEMMA QuietStep ==
  ASSUME SafetyInv, TypeOK',
         UNCHANGED <<queue, renderFen, frame, swapchain>>,
         pc' \in {"record", "submit"} <=> pc \in {"record", "submit"},
         pc' \in {"acquire", "resetFence"} => renderFen[frame],
         pc' \in {"recreate", "stopped"} => queue = <<>>
  PROVE  SafetyInv'
BY InFlightIsFramesOf
   DEF SafetyInv, FenceTellsInFlight, Distinct, FenceSeen, RecordsAlone, IdleToRecreate,
       ResourcesOutliveUse

LEMMA SafetyInit == Init => SafetyInv
<1> SUFFICES ASSUME Init PROVE SafetyInv
  OBVIOUS
<1>1. TypeOK
  BY FrameArithmetic, ImagesAssumption, EmptySeq DEF Init, TypeOK, Places
<1>2. queue = <<>> /\ Len(queue) = 0
  BY EmptySeq DEF Init
<1>3. InFlight = {}
  BY <1>2 DEF InFlight
<1>4. QED
  BY <1>1, <1>2, <1>3
     DEF Init, SafetyInv, FenceTellsInFlight, Distinct, FenceSeen, RecordsAlone,
         IdleToRecreate, ResourcesOutliveUse

LEMMA SafetyStep == SafetyInv /\ [Next]_vars => SafetyInv'
<1> SUFFICES ASSUME SafetyInv, [Next]_vars PROVE SafetyInv'
  OBVIOUS
<1>0. TypeOK /\ TypeOK'
  BY TypeStep DEF SafetyInv
<1> USE DEF AfterDraw
<1>1. CASE UNCHANGED vars
  BY <1>0, <1>1, QuietStep
     DEF vars, cpuVars, syncVars, deviceVars, SafetyInv, FenceSeen, IdleToRecreate,
         ResourcesOutliveUse
<1>2. CASE PollEvents
  BY <1>0, <1>2, QuietStep DEF PollEvents, syncVars, deviceVars
<1>3. CASE WaitFence
  BY <1>0, <1>3, QuietStep DEF WaitFence, syncVars, deviceVars
<1>4. CASE FenceTimeout
  BY <1>0, <1>4, QuietStep DEF FenceTimeout, syncVars, deviceVars
<1>5. ASSUME NEW i \in Images, AcquireImage(i) PROVE SafetyInv'
  BY <1>0, <1>5, QuietStep
     DEF AcquireImage, AfterAcquire, deviceVars, SafetyInv, FenceSeen
<1>6. CASE AcquireOutOfDate
  BY <1>0, <1>6, QuietStep DEF AcquireOutOfDate, AfterAcquire, syncVars, deviceVars
<1>7. CASE AcquireTimeout
  BY <1>0, <1>7, QuietStep DEF AcquireTimeout, AfterAcquire, syncVars, deviceVars
<1>8. CASE WaitIdle
  BY <1>0, <1>8, QuietStep DEF WaitIdle, Idle, syncVars, deviceVars
<1>9. CASE RecreateSwapchain
  <2>1. queue = <<>> /\ Len(queue) = 0 /\ UNCHANGED <<queue, renderFen, frame>>
    BY <1>9, EmptySeq DEF RecreateSwapchain, SafetyInv, IdleToRecreate
  <2>2. pc = "recreate" /\ pc' \in {"deinit", "events"}
    BY <1>9 DEF RecreateSwapchain
  <2>3. QED
    BY <1>0, <2>1, <2>2, InFlightIsFramesOf
       DEF SafetyInv, FenceTellsInFlight, Distinct, FenceSeen, RecordsAlone,
           IdleToRecreate, ResourcesOutliveUse
<1>10. CASE ResetFence
  <2>1. /\ pc = "resetFence" /\ pc' = "record"
        /\ UNCHANGED <<queue, frame, swapchain>>
        /\ \A f \in Frames : renderFen'[f] = IF f = frame THEN FALSE ELSE renderFen[f]
    BY <1>0, <1>10 DEF ResetFence, TypeOK, deviceVars
  <2>2. frame \in Frames /\ frame \notin InFlight
    BY <1>0, <2>1 DEF SafetyInv, FenceSeen, FenceTellsInFlight, TypeOK
  <2>3. QED
    BY <1>0, <2>1, <2>2, InFlightIsFramesOf
       DEF SafetyInv, FenceTellsInFlight, Distinct, FenceSeen, RecordsAlone,
           IdleToRecreate, ResourcesOutliveUse
<1>11. CASE Record
  BY <1>0, <1>11, QuietStep DEF Record, syncVars, deviceVars
<1>12. CASE Submit
  <2> DEFINE s == [frame |-> frame, image |-> image,
                   swapchain |-> swapchain, drawing |-> FALSE]
  <2>1. s \in Submission /\ s.frame = frame /\ s.swapchain = swapchain
    BY <1>0, <1>12 DEF Submit, Submission, TypeOK
  <2>2. /\ pc = "submit" /\ pc' = "present"
        /\ queue' = Append(queue, s)
        /\ UNCHANGED <<renderFen, frame, swapchain>>
    BY <1>12 DEF Submit, syncVars
  <2>3. frame \notin InFlight
    BY <2>2 DEF SafetyInv, RecordsAlone
  <2> HIDE DEF s
  <2>4. InFlight' = InFlight \cup {frame} /\ Distinct(queue')
    BY <1>0, <2>1, <2>2, <2>3, InFlightIsFramesOf, AppendSubmission DEF SafetyInv, TypeOK
  <2>5. \A k \in 1 .. Len(queue') : queue'[k].swapchain = swapchain'
    BY <1>0, <2>1, <2>2, AppendProperties DEF SafetyInv, TypeOK, ResourcesOutliveUse
  <2>6. FenceTellsInFlight'
    BY <1>0, <2>2, <2>4 DEF SafetyInv, FenceTellsInFlight, TypeOK
  <2>7. QED
    BY <1>0, <2>2, <2>4, <2>5, <2>6
       DEF SafetyInv, FenceSeen, RecordsAlone, IdleToRecreate, ResourcesOutliveUse
<1>13. CASE Present
  <2>1. /\ pc = "present" /\ pc' \in {"deinit", "events"}
        /\ UNCHANGED <<queue, renderFen, swapchain>>
    BY <1>13 DEF Present, NextFrame, syncVars
  <2>2. FenceTellsInFlight'
    BY <2>1, InFlightIsFramesOf DEF SafetyInv, FenceTellsInFlight
  <2>3. QED
    BY <1>0, <2>1, <2>2
       DEF SafetyInv, Distinct, FenceSeen, RecordsAlone, IdleToRecreate, ResourcesOutliveUse
<1>14. CASE Deinit
  BY <1>0, <1>14, QuietStep DEF Deinit, Idle, syncVars, deviceVars
<1>15. ASSUME NEW k \in 1 .. Len(queue), BeginDrawing(k) PROVE SafetyInv'
  <2>1. /\ Len(queue') = Len(queue)
        /\ \A j \in 1 .. Len(queue) : queue'[j].swapchain = queue[j].swapchain
        /\ InFlight' = InFlight
        /\ Distinct(queue')
    <3>1. queue \in Seq(Submission) /\ Distinct(queue)
      BY <1>0 DEF SafetyInv, TypeOK
    <3>2. queue' = Drawn(queue, k)
      BY <1>15 DEF BeginDrawing, Drawn
    <3>3. QED
      BY <3>1, <3>2, DrawSubmission, InFlightIsFramesOf
  <2>2. queue # <<>> /\ UNCHANGED <<pc, frame, swapchain, renderFen>>
    BY <1>15, EmptySeq DEF BeginDrawing, cpuVars
  <2>3. QED
    BY <1>0, <2>1, <2>2
       DEF SafetyInv, FenceTellsInFlight, FenceSeen, RecordsAlone, IdleToRecreate,
           ResourcesOutliveUse
<1>16. CASE Complete
  <2> DEFINE h == Head(queue)
  <2>1. /\ queue # <<>>
        /\ queue' = Tail(queue)
        /\ UNCHANGED <<pc, frame, swapchain>>
        /\ h.frame \in Frames
        /\ \A f \in Frames : renderFen'[f] = IF f = h.frame THEN TRUE ELSE renderFen[f]
    BY <1>0, <1>16, CompleteSubmission DEF Complete, cpuVars, TypeOK, Submission
  <2>2. InFlight' = InFlight \ {h.frame} /\ Distinct(queue') /\ h.frame \in InFlight
    <3>1. queue \in Seq(Submission) /\ Distinct(queue)
      BY <1>0 DEF SafetyInv, TypeOK
    <3>2. h = queue[1] /\ 1 \in 1 .. Len(queue)
      BY <2>1, <3>1, EmptySeq
    <3>3. h.frame \in InFlight
      BY <3>2 DEF InFlight
    <3>4. FramesOf(Tail(queue)) = FramesOf(queue) \ {h.frame} /\ Distinct(Tail(queue))
      BY <2>1, <3>1, CompleteSubmission
    <3>5. QED
      BY <2>1, <3>3, <3>4, InFlightIsFramesOf
  <2>3. \A k \in 1 .. Len(queue') : queue'[k].swapchain = swapchain'
    BY <1>0, <2>1, HeadTailProperties, EmptySeq DEF SafetyInv, TypeOK, ResourcesOutliveUse
  <2>4. FenceTellsInFlight'
    BY <1>0, <2>1, <2>2 DEF SafetyInv, FenceTellsInFlight, RecordsAlone
  <2>5. FenceSeen'
    BY <1>0, <2>1 DEF SafetyInv, FenceSeen, TypeOK
  <2> HIDE DEF h
  <2>6. QED
    BY <1>0, <2>1, <2>2, <2>3, <2>4, <2>5
       DEF SafetyInv, RecordsAlone, IdleToRecreate, ResourcesOutliveUse
<1>17. CASE Show
  BY <1>0, <1>17, QuietStep
     DEF Show, cpuVars, SafetyInv, FenceSeen, IdleToRecreate, ResourcesOutliveUse
<1>18. ASSUME NEW f \in Frames, Release(f) PROVE SafetyInv'
  BY <1>0, <1>18, QuietStep
     DEF Release, cpuVars, deviceVars, SafetyInv, FenceSeen, IdleToRecreate,
         ResourcesOutliveUse
<1>19. QED
  BY <1>1, <1>2, <1>3, <1>4, <1>5, <1>6, <1>7, <1>8, <1>9, <1>10, <1>11, <1>12, <1>13,
     <1>14, <1>15, <1>16, <1>17, <1>18 DEF Next, Thread, Gpu, Presentation, Ended

LEMMA SafetyInvariant == Spec => []SafetyInv
BY SafetyInit, SafetyStep, PTL DEF Spec

\* The CPU writes the data of a frame only when the GPU has finished with it.
THEOREM FrameDataSafe == Spec => []FrameDataExclusive
<1>1. SafetyInv => FrameDataExclusive
  BY DEF SafetyInv, FrameDataExclusive, RecordsAlone, FenceSeen, FenceTellsInFlight, TypeOK
<1>2. QED
  BY <1>1, SafetyInvariant, PTL

\* A fence is unsignalled exactly while something is still to signal it, so
\* BeginFrame never waits for a fence that nothing will signal.
THEOREM FencesAnswered == Spec => []FenceTellsInFlight
<1>1. SafetyInv => FenceTellsInFlight
  BY DEF SafetyInv
<1>2. QED
  BY <1>1, SafetyInvariant, PTL

\* recreateSwapchain and Deinit destroy nothing a submission still uses.
THEOREM ResourcesSafe == Spec => []ResourcesOutliveUse
<1>1. SafetyInv => ResourcesOutliveUse
  BY DEF SafetyInv
<1>2. QED
  BY <1>1, SafetyInvariant, PTL

-----------------------------------------------------------------------------
(* Refinement: ResetFence begins a frame, Submit hands it over, Complete gives *)
(* it back, and every other step is a stutter.                                 *)

LEMMA ReadingAsSequence ==
  ASSUME NEW q \in Seq(Submission)
  PROVE  /\ [k \in 1 .. Len(q) |-> q[k].frame] \in Seq(Frames)
         /\ Len([k \in 1 .. Len(q) |-> q[k].frame]) = Len(q)
<1>1. Len(q) \in Nat /\ \A k \in 1 .. Len(q) : q[k] \in Submission
  BY LenProperties, ElementOfSeq
<1>2. \A k \in 1 .. Len(q) : q[k].frame \in Frames
  BY <1>1 DEF Submission
<1>3. QED
  BY <1>1, <1>2

LEMMA ReadingHandOver ==
  ASSUME queue \in Seq(Submission), NEW s \in Submission, queue' = Append(queue, s)
  PROVE  Reading' = Append(Reading, s.frame)
<1>1. /\ Reading \in Seq(Frames) /\ Len(Reading) = Len(queue)
      /\ Reading' \in Seq(Frames) /\ Len(Reading') = Len(queue')
  BY ReadingAsSequence, AppendProperties DEF Reading
<1>2. s.frame \in Frames
  BY DEF Submission
<1>3. /\ Len(queue) \in Nat
      /\ Len(queue') = Len(queue) + 1
      /\ \A k \in 1 .. Len(queue) : queue'[k] = queue[k]
      /\ queue'[Len(queue) + 1] = s
  BY AppendProperties, LenProperties
<1>4. /\ Append(Reading, s.frame) \in Seq(Frames)
      /\ Len(Append(Reading, s.frame)) = Len(queue) + 1
      /\ \A k \in 1 .. Len(queue) : Append(Reading, s.frame)[k] = Reading[k]
      /\ Append(Reading, s.frame)[Len(queue) + 1] = s.frame
  BY <1>1, <1>2, AppendProperties
<1>5. \A k \in 1 .. Len(queue) + 1 : Reading'[k] = Append(Reading, s.frame)[k]
  BY <1>3, <1>4 DEF Reading
<1>6. QED
  BY <1>1, <1>3, <1>4, <1>5, SeqEqual

LEMMA ReadingGiveBack ==
  ASSUME queue \in Seq(Submission), queue # <<>>, queue' = Tail(queue)
  PROVE  Reading # <<>> /\ Reading' = Tail(Reading)
<1>1. /\ queue' \in Seq(Submission)
      /\ Len(queue) \in Nat \ {0}
      /\ Len(queue') = Len(queue) - 1
      /\ \A k \in 1 .. Len(queue') : queue'[k] = queue[k + 1]
  BY HeadTailProperties, EmptySeq
<1>2. /\ Reading \in Seq(Frames) /\ Len(Reading) = Len(queue)
      /\ Reading' \in Seq(Frames) /\ Len(Reading') = Len(queue')
  BY <1>1, ReadingAsSequence DEF Reading
<1>3. Reading # <<>>
  BY <1>1, <1>2, EmptySeq
<1>4. /\ Tail(Reading) \in Seq(Frames)
      /\ Len(Tail(Reading)) = Len(queue')
      /\ \A k \in 1 .. Len(queue') : Tail(Reading)[k] = Reading[k + 1]
  BY <1>1, <1>2, <1>3, HeadTailProperties
<1>5. \A k \in 1 .. Len(queue') : Reading'[k] = Tail(Reading)[k]
  BY <1>1, <1>4 DEF Reading
<1>6. QED
  BY <1>2, <1>3, <1>4, <1>5, SeqEqual

LEMMA ReadingKept ==
  ASSUME queue \in Seq(Submission), NEW k \in 1 .. Len(queue), queue' = Drawn(queue, k)
  PROVE  Reading' = Reading
BY DrawSubmission DEF Reading

LEMMA RefinementInit == Init => Abstract!Init
<1> SUFFICES ASSUME Init PROVE Abstract!Init
  OBVIOUS
<1>1. queue \in Seq(Submission) /\ Len(queue) = 0
  BY EmptySeq DEF Init
<1>2. Reading = <<>>
  BY <1>1, ReadingAsSequence, EmptySeq DEF Reading
<1>3. QED
  BY <1>2 DEF Init, Abstract!Init, Turn, NextFrame, Filling

LEMMA RefinementStep == SafetyInv /\ [Next]_vars => [Abstract!Next]_(Abstract!vars)
<1> SUFFICES ASSUME SafetyInv, [Next]_vars PROVE [Abstract!Next]_(Abstract!vars)
  OBVIOUS
<1>0. TypeOK /\ queue \in Seq(Submission)
  BY DEF SafetyInv, TypeOK
<1> USE DEF AfterDraw, Turn, NextFrame, Filling
<1> DEFINE Stutter == UNCHANGED <<Turn, Filling, Reading>>
<1>s. Stutter => [Abstract!Next]_(Abstract!vars)
  BY DEF Abstract!vars
<1>q. ASSUME UNCHANGED queue PROVE UNCHANGED Reading
  BY <1>q DEF Reading
<1>1. CASE UNCHANGED vars
  BY <1>1, <1>s, <1>q DEF vars, cpuVars, deviceVars
<1>2. CASE PollEvents
  BY <1>2, <1>s, <1>q DEF PollEvents, deviceVars
<1>3. CASE WaitFence
  BY <1>3, <1>s, <1>q DEF WaitFence, deviceVars
<1>4. CASE FenceTimeout
  BY <1>4, <1>s, <1>q DEF FenceTimeout, deviceVars
<1>5. ASSUME NEW i \in Images, AcquireImage(i) PROVE Stutter
  BY <1>5, <1>q DEF AcquireImage, AfterAcquire, deviceVars
<1>6. CASE AcquireOutOfDate
  BY <1>6, <1>s, <1>q DEF AcquireOutOfDate, AfterAcquire, deviceVars
<1>7. CASE AcquireTimeout
  BY <1>7, <1>s, <1>q DEF AcquireTimeout, AfterAcquire, deviceVars
<1>8. CASE WaitIdle
  BY <1>8, <1>s, <1>q DEF WaitIdle, deviceVars
<1>9. CASE RecreateSwapchain
  BY <1>9, <1>s, <1>q DEF RecreateSwapchain
<1>10. CASE ResetFence
  <2>1. frame \notin InFlight
    BY <1>0, <1>10
       DEF ResetFence, SafetyInv, FenceSeen, FenceTellsInFlight, TypeOK
  <2>2. Len(queue) \in Nat /\ Len(Reading) = Len(queue)
    BY <1>0, ReadingAsSequence, LenProperties DEF Reading
  <2>3. ~Abstract!IsRead(frame)
    BY <2>1, <2>2 DEF InFlight, Reading, Abstract!IsRead
  <2>4. Abstract!Begin
    BY <1>10, <1>q, <2>3 DEF ResetFence, deviceVars, Abstract!Begin
  <2>5. QED
    BY <2>4 DEF Abstract!Next
<1>11. CASE Record
  BY <1>11, <1>s, <1>q DEF Record, deviceVars
<1>12. CASE Submit
  <2> DEFINE s == [frame |-> frame, image |-> image,
                   swapchain |-> swapchain, drawing |-> FALSE]
  <2>1. s \in Submission /\ s.frame = frame
    BY <1>0, <1>12 DEF Submit, Submission, TypeOK
  <2>2. queue' = Append(queue, s)
    BY <1>12 DEF Submit
  <2> HIDE DEF s
  <2>3. Reading' = Append(Reading, frame)
    BY <1>0, <2>1, <2>2, ReadingHandOver
  <2>4. Abstract!HandOver
    BY <1>12, <2>3 DEF Submit, Abstract!HandOver
  <2>5. QED
    BY <2>4 DEF Abstract!Next
<1>13. CASE Present
  BY <1>13, <1>s, <1>q DEF Present
<1>14. CASE Deinit
  BY <1>14, <1>s, <1>q DEF Deinit, deviceVars
<1>15. ASSUME NEW k \in 1 .. Len(queue), BeginDrawing(k) PROVE Stutter
  <2>1. queue' = Drawn(queue, k)
    BY <1>15 DEF BeginDrawing, Drawn
  <2>2. QED
    BY <1>0, <1>15, <2>1, ReadingKept DEF BeginDrawing, cpuVars
<1>16. CASE Complete
  <2>1. Reading # <<>> /\ Reading' = Tail(Reading)
    BY <1>0, <1>16, ReadingGiveBack DEF Complete
  <2>2. Abstract!GiveBack
    BY <1>16, <2>1 DEF Complete, cpuVars, Abstract!GiveBack
  <2>3. QED
    BY <2>2 DEF Abstract!Next
<1>17. CASE Show
  BY <1>17, <1>s, <1>q DEF Show, cpuVars
<1>18. ASSUME NEW f \in Frames, Release(f) PROVE Stutter
  BY <1>18, <1>q DEF Release, cpuVars, deviceVars
<1>19. QED
  BY <1>1, <1>2, <1>3, <1>4, <1>5, <1>6, <1>7, <1>8, <1>9, <1>10, <1>11, <1>12, <1>13,
     <1>14, <1>15, <1>16, <1>17, <1>18, <1>s DEF Next, Thread, Gpu, Presentation, Ended

\* Seen through the frame it fills and the frames the GPU reads, the loop behaves
\* as FramesInFlight: round robin, exclusive, in submission order.
THEOREM Refinement == Spec => Abstract!Spec
BY RefinementInit, RefinementStep, SafetyInvariant, PTL DEF Spec, Abstract!Spec

-----------------------------------------------------------------------------
(* The acquire semaphore.  As long as BeginFrame never gives up an image it    *)
(* has acquired, each signal of a presentSem, delivered or owed, belongs to a  *)
(* submission that will wait for it.                                           *)

\* The frames in flight that have not waited for their presentSem yet.
WaitingIn(q) == {q[k].frame : k \in {j \in 1 .. Len(q) : ~q[j].drawing}}

SignalledOrOwed(f) == presentSem[f] \/ acquired[f] # NoImage

SignalsOwned ==
  /\ \A f \in Frames : presentSem[f] => acquired[f] = NoImage
  /\ \A f \in Frames :
       SignalledOrOwed(f) => \/ f \in WaitingIn(queue)
                             \/ f = frame /\ pc \in {"resetFence", "record", "submit"}

SemaphoreInv == "imageGivenUp" \in mishaps \/ SignalsOwned

\* What went wrong once is remembered.
LEMMA MishapsStay == [Next]_vars => mishaps \subseteq mishaps'
<1> SUFFICES ASSUME [Next]_vars PROVE mishaps \subseteq mishaps'
  OBVIOUS
<1>1. CASE UNCHANGED vars \/ PollEvents \/ WaitFence \/ FenceTimeout \/ AcquireOutOfDate
  BY <1>1 DEF vars, PollEvents, WaitFence, FenceTimeout, AcquireOutOfDate, syncVars
<1>2. CASE \E i \in Images : AcquireImage(i)
  BY <1>2 DEF AcquireImage, GivingUp
<1>3. CASE AcquireTimeout \/ WaitIdle \/ RecreateSwapchain \/ ResetFence \/ Record
  BY <1>3 DEF AcquireTimeout, WaitIdle, RecreateSwapchain, ResetFence, Record, syncVars
<1>4. CASE Submit \/ Present \/ Deinit \/ Complete \/ Show
  BY <1>4 DEF Submit, Present, Deinit, Complete, Show, syncVars
<1>5. CASE (\E k \in 1 .. Len(queue) : BeginDrawing(k)) \/ \E f \in Frames : Release(f)
  BY <1>5 DEF BeginDrawing, Release
<1>6. QED
  BY <1>1, <1>2, <1>3, <1>4, <1>5 DEF Next, Thread, Gpu, Presentation, Ended

LEMMA WaitingAppended ==
  ASSUME NEW q \in Seq(Submission), NEW s \in Submission, ~s.drawing
  PROVE  WaitingIn(Append(q, s)) = WaitingIn(q) \cup {s.frame}
<1> DEFINE r == Append(q, s)
<1>1. /\ Len(q) \in Nat
      /\ Len(r) = Len(q) + 1
      /\ \A k \in 1 .. Len(q) : r[k] = q[k]
      /\ r[Len(q) + 1] = s
  BY AppendProperties, LenProperties
<1> HIDE DEF r
<1>2. WaitingIn(r) = WaitingIn(q) \cup {s.frame}
  BY <1>1 DEF WaitingIn
<1>3. QED
  BY <1>2 DEF r

LEMMA WaitingCompleted ==
  ASSUME NEW q \in Seq(Submission), q # <<>>, Head(q).drawing
  PROVE  WaitingIn(q) \subseteq WaitingIn(Tail(q))
<1> DEFINE r == Tail(q)
<1>1. /\ Len(q) \in Nat \ {0}
      /\ Len(r) = Len(q) - 1
      /\ \A k \in 1 .. Len(r) : r[k] = q[k + 1]
      /\ q[1].drawing
  BY HeadTailProperties, EmptySeq
<1> HIDE DEF r
<1>2. ASSUME NEW k \in 1 .. Len(q), ~q[k].drawing
      PROVE  k - 1 \in 1 .. Len(r) /\ r[k - 1] = q[k]
  <2>1. k # 1
    BY <1>1, <1>2
  <2>2. QED
    BY <1>1, <2>1
<1>3. WaitingIn(q) \subseteq WaitingIn(r)
  BY <1>2 DEF WaitingIn
<1>4. QED
  BY <1>3 DEF r

LEMMA WaitingDrawn ==
  ASSUME NEW q \in Seq(Submission), NEW k \in 1 .. Len(q)
  PROVE  WaitingIn(q) \subseteq WaitingIn(Drawn(q, k)) \cup {q[k].frame}
<1> DEFINE r == Drawn(q, k)
<1>1. Len(r) = Len(q) /\ \A j \in 1 .. Len(q) : r[j].frame = q[j].frame
  BY DrawSubmission
<1>2. \A j \in 1 .. Len(q) : j # k => r[j] = q[j]
  BY LenProperties DEF Drawn
<1> HIDE DEF r
<1>3. ASSUME NEW j \in 1 .. Len(q), ~q[j].drawing
      PROVE  q[j].frame \in WaitingIn(r) \cup {q[k].frame}
  BY <1>1, <1>2, <1>3 DEF WaitingIn
<1>4. WaitingIn(q) \subseteq WaitingIn(r) \cup {q[k].frame}
  BY <1>3 DEF WaitingIn
<1>5. QED
  BY <1>4 DEF r

LEMMA WaitingInFlight == WaitingIn(queue) \subseteq InFlight
BY DEF WaitingIn, InFlight

LEMMA SemaphoreInit == Init => SemaphoreInv
BY DEF Init, SemaphoreInv, SignalsOwned, SignalledOrOwed

LEMMA SemaphoreStep ==
  ASSUME SafetyInv, SemaphoreInv, [Next]_vars
  PROVE  SemaphoreInv'
<1>0. TypeOK /\ TypeOK' /\ queue \in Seq(Submission)
  BY TypeStep DEF SafetyInv, TypeOK
<1> SUFFICES ASSUME "imageGivenUp" \notin mishaps' PROVE SignalsOwned'
  BY DEF SemaphoreInv
<1>d. SignalsOwned
  BY MishapsStay DEF SemaphoreInv
<1> DEFINE Keep == /\ UNCHANGED <<presentSem, acquired, queue, frame>>
                   /\ pc \in {"resetFence", "record", "submit"} =>
                        pc' \in {"resetFence", "record", "submit"}
<1>k. Keep => SignalsOwned'
  BY <1>d DEF SignalsOwned, SignalledOrOwed
<1>1. CASE UNCHANGED vars
  BY <1>1, <1>k DEF vars, cpuVars, syncVars, deviceVars
<1>2. CASE PollEvents
  BY <1>2, <1>k DEF PollEvents, syncVars, deviceVars
<1>3. CASE WaitFence
  BY <1>3, <1>k DEF WaitFence, syncVars, deviceVars
<1>4. CASE FenceTimeout
  BY <1>4, <1>k DEF FenceTimeout, syncVars, deviceVars
<1>5. ASSUME NEW i \in Images, AcquireImage(i) PROVE SignalsOwned'
  <2>1. /\ pc = "acquire" /\ pc' = "resetFence"
        /\ UNCHANGED <<presentSem, queue, frame>>
    BY <1>5 DEF AcquireImage, AfterAcquire, GivingUp, deviceVars
  <2>2. \A f \in Frames : acquired'[f] = IF f = frame THEN i ELSE acquired[f]
    BY <1>0, <1>5 DEF AcquireImage, TypeOK
  <2>3. frame \in Frames /\ frame \notin WaitingIn(queue)
    BY <1>0, <2>1, WaitingInFlight
       DEF SafetyInv, FenceSeen, FenceTellsInFlight, TypeOK
  <2>4. ~presentSem[frame]
    BY <1>d, <2>1, <2>3 DEF SignalsOwned, SignalledOrOwed
  <2>5. QED
    BY <1>d, <2>1, <2>2, <2>3, <2>4 DEF SignalsOwned, SignalledOrOwed
<1>6. CASE AcquireOutOfDate
  BY <1>6, <1>k DEF AcquireOutOfDate, AfterAcquire, syncVars, deviceVars
<1>7. CASE AcquireTimeout
  BY <1>7, <1>k DEF AcquireTimeout, AfterAcquire, syncVars, deviceVars
<1>8. CASE WaitIdle
  BY <1>8, <1>k DEF WaitIdle, syncVars, deviceVars
<1>9. CASE RecreateSwapchain
  <2>1. WaitingIn(queue) = {}
    BY <1>9, EmptySeq DEF RecreateSwapchain, SafetyInv, IdleToRecreate, WaitingIn
  <2>2. \A f \in Frames : ~presentSem[f] /\ acquired[f] = NoImage
    BY <1>d, <1>9, <2>1 DEF RecreateSwapchain, SignalsOwned, SignalledOrOwed
  <2>3. \A f \in Frames : ~presentSem'[f] /\ acquired'[f] = NoImage
    BY <1>9, <2>2 DEF RecreateSwapchain
  <2>4. QED
    BY <1>9, <2>3 DEF RecreateSwapchain, SignalsOwned, SignalledOrOwed
<1>10. CASE ResetFence
  BY <1>10, <1>k DEF ResetFence, deviceVars
<1>11. CASE Record
  BY <1>11, <1>k DEF Record, syncVars, deviceVars
<1>12. CASE Submit
  <2> DEFINE s == [frame |-> frame, image |-> image,
                   swapchain |-> swapchain, drawing |-> FALSE]
  <2>1. s \in Submission /\ s.frame = frame /\ ~s.drawing
    BY <1>0, <1>12 DEF Submit, Submission, TypeOK
  <2>2. queue' = Append(queue, s) /\ UNCHANGED <<frame, presentSem, acquired>>
    BY <1>12 DEF Submit, syncVars
  <2> HIDE DEF s
  <2>3. WaitingIn(queue') = WaitingIn(queue) \cup {frame}
    BY <1>0, <2>1, <2>2, WaitingAppended
  <2>4. QED
    BY <1>d, <2>2, <2>3 DEF SignalsOwned, SignalledOrOwed
<1>13. CASE Present
  <2>1. pc = "present" /\ UNCHANGED <<queue, presentSem, acquired>>
    BY <1>13 DEF Present, NextFrame, syncVars
  <2>2. QED
    BY <1>d, <2>1 DEF SignalsOwned, SignalledOrOwed
<1>14. CASE Deinit
  BY <1>14, <1>k DEF Deinit, syncVars, deviceVars
<1>15. ASSUME NEW k \in 1 .. Len(queue), BeginDrawing(k) PROVE SignalsOwned'
  <2>1. /\ queue' = Drawn(queue, k)
        /\ presentSem[queue[k].frame]
        /\ presentSem' = [presentSem EXCEPT ![queue[k].frame] = FALSE]
        /\ UNCHANGED <<pc, frame, acquired>>
    BY <1>15 DEF BeginDrawing, Drawn, cpuVars
  <2>2. queue[k] \in Submission
    BY <1>0, ElementOfSeq
  <2>3. PICK g \in Frames : g = queue[k].frame
    BY <2>2 DEF Submission
  <2>4. \A f \in Frames : presentSem'[f] = IF f = g THEN FALSE ELSE presentSem[f]
    BY <1>0, <2>1, <2>3 DEF TypeOK
  <2>5. presentSem[g] /\ acquired[g] = NoImage
    BY <1>d, <2>1, <2>3 DEF SignalsOwned
  <2>6. \A f \in Frames : f # g /\ f \in WaitingIn(queue) => f \in WaitingIn(queue')
    BY <1>0, <2>1, <2>3, WaitingDrawn
  <2>7. \A f \in Frames : /\ SignalledOrOwed(f)' => SignalledOrOwed(f) /\ f # g
                          /\ presentSem'[f] => acquired'[f] = NoImage
    BY <1>d, <2>1, <2>4, <2>5 DEF SignalledOrOwed, SignalsOwned
  <2>8. QED
    BY <1>d, <2>1, <2>6, <2>7 DEF SignalsOwned
<1>16. CASE Complete
  <2>1. queue # <<>> /\ Head(queue).drawing /\ queue' = Tail(queue)
    BY <1>16 DEF Complete
  <2>2. WaitingIn(queue) \subseteq WaitingIn(queue')
    BY <1>0, <2>1, WaitingCompleted
  <2>3. UNCHANGED <<pc, frame, presentSem, acquired>>
    BY <1>16 DEF Complete, cpuVars
  <2>4. QED
    BY <1>d, <2>2, <2>3 DEF SignalsOwned, SignalledOrOwed
<1>17. CASE Show
  BY <1>17, <1>k DEF Show, cpuVars
<1>18. ASSUME NEW f \in Frames, Release(f) PROVE SignalsOwned'
  <2>1. \A g \in Frames : /\ acquired'[g] = IF g = f THEN NoImage ELSE acquired[g]
                          /\ presentSem'[g] = IF g = f THEN TRUE ELSE presentSem[g]
    BY <1>0, <1>18 DEF Release, TypeOK
  <2>2. SignalledOrOwed(f)
    BY <1>18 DEF Release, SignalledOrOwed
  <2>3. UNCHANGED <<pc, frame, queue>>
    BY <1>18 DEF Release, cpuVars, deviceVars
  <2>4. QED
    BY <1>d, <2>1, <2>2, <2>3 DEF SignalsOwned, SignalledOrOwed
<1>19. QED
  BY <1>1, <1>2, <1>3, <1>4, <1>5, <1>6, <1>7, <1>8, <1>9, <1>10, <1>11, <1>12, <1>13,
     <1>14, <1>15, <1>16, <1>17, <1>18 DEF Next, Thread, Gpu, Presentation, Ended

\* Until BeginFrame gives up an image it has acquired, vkAcquireNextImageKHR always
\* gets a semaphore nothing else signals, whatever the environment does.
THEOREM AcquireSemaphoreSafe == Spec => []AcquireSemaphoreFresh
<1>1. SafetyInv /\ SemaphoreInv => AcquireSemaphoreFresh
  <2> SUFFICES ASSUME SafetyInv, SemaphoreInv, pc = "acquire", "imageGivenUp" \notin mishaps
               PROVE  ~presentSem[frame] /\ acquired[frame] = NoImage
    BY DEF AcquireSemaphoreFresh
  <2>1. frame \in Frames /\ frame \notin WaitingIn(queue)
    BY WaitingInFlight DEF SafetyInv, FenceSeen, FenceTellsInFlight, TypeOK
  <2>2. QED
    BY <2>1 DEF SemaphoreInv, SignalsOwned, SignalledOrOwed
<1>2. SafetyInv /\ SemaphoreInv /\ [Next]_vars => SemaphoreInv'
  BY SemaphoreStep
<1>3. QED
  BY <1>1, <1>2, SemaphoreInit, SafetyInvariant, PTL DEF Spec

-----------------------------------------------------------------------------
(* Presents.  An image is pending from its submission until it is shown: the   *)
(* submission comes first, then the present, and Show needs its signal.  What  *)
(* the queue still holds are the last of the pending images.                   *)

Entry == [frame : Frames, image : Images]

\* The thread presents what it has just submitted.
Pending == IF pc = "present" THEN Append(presents, [frame |-> frame, image |-> image])
           ELSE presents

\* The thread holds an image it has acquired and not submitted yet.
HoldsImage == pc \in {"resetFence", "record", "submit"}

\* q are the last of p.
LastOf(p, q) ==
  /\ Len(q) <= Len(p)
  /\ \A k \in 1 .. Len(q) : /\ q[k].frame = p[Len(p) - Len(q) + k].frame
                            /\ q[k].image = p[Len(p) - Len(q) + k].image

ImagesDiffer(p) == \A j, k \in 1 .. Len(p) : p[j].image = p[k].image => j = k

\* A signal that Show may take is that of a submission that has completed.
SignalsFrom(p, n) == \A f \in Frames : renderSem[f] => \E k \in 1 .. n : p[k].frame = f

PresentInv ==
  /\ LastOf(Pending, queue)
  /\ ImagesDiffer(Pending)
  /\ HoldsImage => \A k \in 1 .. Len(Pending) : Pending[k].image # image
  /\ SignalsFrom(Pending, Len(Pending) - Len(queue))
  /\ pc = "recreate" => presents = <<>>

LEMMA LastOfAppended ==
  ASSUME NEW p \in Seq(Entry), NEW q \in Seq(Submission), LastOf(p, q),
         NEW e \in Entry, NEW s \in Submission, e.frame = s.frame, e.image = s.image
  PROVE  /\ LastOf(Append(p, e), Append(q, s))
         /\ Len(Append(p, e)) - Len(Append(q, s)) = Len(p) - Len(q)
<1> DEFINE pe == Append(p, e)
           qs == Append(q, s)
<1>1. /\ Len(p) \in Nat /\ Len(pe) = Len(p) + 1 /\ pe[Len(p) + 1] = e
      /\ \A k \in 1 .. Len(p) : pe[k] = p[k]
  BY AppendProperties, LenProperties
<1>2. /\ Len(q) \in Nat /\ Len(qs) = Len(q) + 1 /\ qs[Len(q) + 1] = s
      /\ \A k \in 1 .. Len(q) : qs[k] = q[k]
  BY AppendProperties, LenProperties
<1> HIDE DEF pe, qs
<1>3. Len(q) <= Len(p) /\ Len(pe) - Len(qs) = Len(p) - Len(q)
  BY <1>1, <1>2 DEF LastOf
<1>4. ASSUME NEW k \in 1 .. Len(qs)
      PROVE  /\ qs[k].frame = pe[Len(p) - Len(q) + k].frame
             /\ qs[k].image = pe[Len(p) - Len(q) + k].image
  <2>1. CASE k = Len(q) + 1
    <3>1. Len(p) - Len(q) + k = Len(p) + 1
      BY <1>1, <1>2, <2>1
    <3>2. QED
      BY <1>1, <1>2, <2>1, <3>1
  <2>2. CASE k # Len(q) + 1
    <3>1. k \in 1 .. Len(q) /\ Len(p) - Len(q) + k \in 1 .. Len(p)
      BY <1>1, <1>2, <1>3, <2>2
    <3>2. QED
      BY <1>1, <1>2, <3>1 DEF LastOf
  <2>3. QED
    BY <2>1, <2>2
<1>5. LastOf(pe, qs)
  BY <1>1, <1>2, <1>3, <1>4 DEF LastOf
<1>6. QED
  BY <1>3, <1>5 DEF pe, qs

LEMMA LastOfCompleted ==
  ASSUME NEW p \in Seq(Entry), NEW q \in Seq(Submission), LastOf(p, q), q # <<>>
  PROVE  /\ LastOf(p, Tail(q))
         /\ Len(p) - Len(q) + 1 \in 1 .. Len(p)
         /\ Len(p) - Len(Tail(q)) = Len(p) - Len(q) + 1
         /\ Head(q).frame = p[Len(p) - Len(q) + 1].frame
<1> DEFINE r == Tail(q)
<1>1. /\ Len(q) \in Nat \ {0} /\ Len(r) = Len(q) - 1 /\ Len(p) \in Nat
      /\ \A k \in 1 .. Len(r) : r[k] = q[k + 1]
      /\ Head(q) = q[1]
  BY HeadTailProperties, EmptySeq, LenProperties
<1> HIDE DEF r
<1>2. Len(q) <= Len(p) /\ Len(p) - Len(r) = Len(p) - Len(q) + 1
  BY <1>1 DEF LastOf
<1>3. ASSUME NEW k \in 1 .. Len(r)
      PROVE  /\ r[k].frame = p[Len(p) - Len(r) + k].frame
             /\ r[k].image = p[Len(p) - Len(r) + k].image
  <2>1. k + 1 \in 1 .. Len(q) /\ Len(p) - Len(r) + k = Len(p) - Len(q) + (k + 1)
    BY <1>1, <1>2
  <2>2. QED
    BY <1>1, <2>1 DEF LastOf
<1>4. LastOf(p, r)
  BY <1>1, <1>2, <1>3 DEF LastOf
<1>5. 1 \in 1 .. Len(q) /\ Len(p) - Len(q) + 1 \in 1 .. Len(p)
  BY <1>1, <1>2
<1>6. q[1].frame = p[Len(p) - Len(q) + 1].frame
  BY <1>5 DEF LastOf
<1>7. QED
  BY <1>1, <1>2, <1>4, <1>5, <1>6 DEF r

LEMMA LastOfShown ==
  ASSUME NEW p \in Seq(Entry), NEW q \in Seq(Submission), LastOf(p, q), Len(q) < Len(p)
  PROVE  /\ LastOf(Tail(p), q)
         /\ Len(Tail(p)) = Len(p) - 1 /\ Len(p) \in Nat \ {0}
         /\ \A k \in 1 .. Len(Tail(p)) : Tail(p)[k] = p[k + 1] /\ k + 1 \in 1 .. Len(p)
         /\ Head(p) = p[1]
<1> DEFINE r == Tail(p)
<1>1. Len(p) \in Nat /\ Len(q) \in Nat
  BY LenProperties
<1>2. p # <<>>
  BY <1>1, EmptySeq
<1>3. /\ Len(p) \in Nat \ {0} /\ Len(r) = Len(p) - 1
      /\ \A k \in 1 .. Len(r) : r[k] = p[k + 1]
      /\ Head(p) = p[1]
  BY <1>2, HeadTailProperties, EmptySeq, LenProperties
<1> HIDE DEF r
<1>4. ASSUME NEW k \in 1 .. Len(q)
      PROVE  /\ q[k].frame = r[Len(r) - Len(q) + k].frame
             /\ q[k].image = r[Len(r) - Len(q) + k].image
  <2>1. Len(r) - Len(q) + k \in 1 .. Len(r) /\ Len(r) - Len(q) + k + 1 = Len(p) - Len(q) + k
    BY <1>1, <1>3
  <2>2. QED
    BY <1>3, <2>1 DEF LastOf
<1>5. LastOf(r, q)
  BY <1>1, <1>3, <1>4 DEF LastOf
<1>6. \A k \in 1 .. Len(r) : k + 1 \in 1 .. Len(p)
  BY <1>3
<1>7. QED
  BY <1>3, <1>5, <1>6 DEF r

LEMMA PendingType ==
  ASSUME TypeOK
  PROVE  Pending \in Seq(Entry) /\ Len(Pending) \in Nat
<1>1. presents \in Seq(Entry)
  BY DEF TypeOK, Entry
<1>2. ASSUME pc = "present" PROVE [frame |-> frame, image |-> image] \in Entry
  BY <1>2 DEF TypeOK, Entry
<1>3. CASE pc = "present"
  BY <1>1, <1>2, <1>3, AppendProperties, LenProperties DEF Pending
<1>4. CASE pc # "present"
  BY <1>1, <1>4, LenProperties DEF Pending
<1>5. QED
  BY <1>3, <1>4

\* Show takes the oldest of the pending images, whether or not the thread is about to
\* present another.
LEMMA PendingShown ==
  ASSUME TypeOK, Show
  PROVE  Pending # <<>> /\ Head(Pending) = Head(presents) /\ Pending' = Tail(Pending)
<1>1. /\ presents \in Seq(Entry) /\ presents # <<>> /\ presents' = Tail(presents)
      /\ UNCHANGED <<pc, frame, image>>
  BY DEF Show, TypeOK, Entry, cpuVars
<1>2. CASE pc = "present"
  <2> DEFINE e == [frame |-> frame, image |-> image]
  <2>1. e \in Entry
    BY <1>2 DEF TypeOK, Entry
  <2>2. Pending = Append(presents, e) /\ Pending' = Append(Tail(presents), e)
    BY <1>1, <1>2 DEF Pending
  <2> HIDE DEF e
  <2>3. /\ Append(presents, e) # <<>> /\ Head(Append(presents, e)) = Head(presents)
        /\ Tail(Append(presents, e)) = Append(Tail(presents), e)
    BY <1>1, <2>1, AppendProperties, HeadTailAppend
  <2>4. QED
    BY <2>2, <2>3
<1>3. CASE pc # "present"
  BY <1>1, <1>3 DEF Pending
<1>4. QED
  BY <1>2, <1>3

\* No other step changes what is pending, but that Submit adds to it.
LEMMA PendingKept ==
  ASSUME presents' = presents,
         (pc # "present" /\ pc' # "present") \/ UNCHANGED <<pc, frame, image>>
  PROVE  Pending' = Pending
BY DEF Pending

LEMMA PresentInit == Init => PresentInv
<1> SUFFICES ASSUME Init PROVE PresentInv
  OBVIOUS
<1>1. queue = <<>> /\ presents = <<>> /\ Pending = <<>> /\ pc = "events"
  BY DEF Init, Pending
<1>2. \A f \in Frames : ~renderSem[f]
  BY DEF Init
<1>3. QED
  BY <1>1, <1>2, EmptySeq DEF PresentInv, LastOf, ImagesDiffer, HoldsImage, SignalsFrom

\* What is shown has been drawn: its submission has completed.
LEMMA CompletedFirst ==
  ASSUME TypeOK, PresentInv, Show
  PROVE  Len(queue) < Len(Pending)
<1>1. /\ Pending \in Seq(Entry) /\ Len(Pending) \in Nat /\ Len(queue) \in Nat
      /\ Pending # <<>> /\ Head(Pending) = Head(presents)
  BY PendingType, PendingShown, LenProperties DEF TypeOK
<1>2. Head(Pending) \in Entry
  BY <1>1, HeadTailProperties
<1>3. Head(Pending).frame \in Frames /\ renderSem[Head(Pending).frame]
  BY <1>1, <1>2 DEF Show, Entry
<1>4. PICK k \in 1 .. Len(Pending) - Len(queue) : TRUE
  BY <1>3 DEF PresentInv, SignalsFrom
<1>5. QED
  BY <1>1, <1>4

LEMMA PresentStep ==
  ASSUME SafetyInv, PresentInv, [Next]_vars
  PROVE  PresentInv'
<1>0. /\ TypeOK /\ TypeOK' /\ queue \in Seq(Submission)
      /\ Pending \in Seq(Entry) /\ Len(Pending) \in Nat
  BY TypeStep, PendingType DEF SafetyInv, TypeOK
<1> DEFINE n == Len(Pending) - Len(queue)
<1> DEFINE Keep == /\ presents' = presents
                   /\ (pc # "present" /\ pc' # "present") \/ UNCHANGED <<pc, frame, image>>
                   /\ UNCHANGED <<queue, renderSem>>
                   /\ HoldsImage' => HoldsImage /\ image' = image
                   /\ pc' = "recreate" => presents = <<>>
<1>k. ASSUME Keep PROVE PresentInv'
  <2>1. Pending' = Pending
    BY <1>k, PendingKept
  <2>2. QED
    BY <1>k, <2>1 DEF PresentInv, SignalsFrom
<1>r. pc = "recreate" => presents = <<>>
  BY DEF PresentInv
<1>1. CASE UNCHANGED vars
  BY <1>1, <1>k, <1>r DEF vars, cpuVars, syncVars, deviceVars, HoldsImage
<1>2. CASE PollEvents \/ WaitFence \/ FenceTimeout \/ WaitIdle \/ Deinit
  BY <1>2, <1>k DEF PollEvents, WaitFence, FenceTimeout, WaitIdle, Deinit, Idle, HoldsImage,
                    syncVars, deviceVars
<1>3. CASE AcquireOutOfDate \/ AcquireTimeout
  BY <1>3, <1>k
  DEF AcquireOutOfDate, AcquireTimeout, AfterAcquire, HoldsImage, syncVars, deviceVars
<1>4. CASE ResetFence \/ Record
  BY <1>4, <1>k DEF ResetFence, Record, HoldsImage, syncVars, deviceVars
<1>5. ASSUME NEW i \in Images, AcquireImage(i) PROVE PresentInv'
  <2>1. /\ pc = "acquire" /\ pc' \in {"waitIdle", "resetFence"} /\ image' = i
        /\ UNCHANGED <<presents, queue, renderSem>> /\ i \notin Presented
    BY <1>5 DEF AcquireImage, AfterAcquire, Acquirable, deviceVars
  <2>2. Pending' = Pending /\ Pending = presents
    BY <2>1, PendingKept DEF Pending
  <2>3. \A k \in 1 .. Len(Pending) : Pending[k].image # i
    BY <2>1, <2>2 DEF Presented
  <2>4. QED
    BY <2>1, <2>2, <2>3 DEF PresentInv, SignalsFrom
<1>6. CASE RecreateSwapchain
  <2>1. /\ pc = "recreate" /\ pc' \in {"deinit", "events"}
        /\ UNCHANGED <<presents, queue, renderSem>>
    BY <1>6 DEF RecreateSwapchain, AfterDraw
  <2>2. QED
    BY <2>1, <1>k DEF HoldsImage
<1>7. CASE Submit
  <2> DEFINE s == [frame |-> frame, image |-> image,
                   swapchain |-> swapchain, drawing |-> FALSE]
             e == [frame |-> frame, image |-> image]
  <2>1. /\ s \in Submission /\ e \in Entry
        /\ e.frame = s.frame /\ e.image = s.image /\ e.image = image
    BY <1>0, <1>7 DEF Submit, Submission, TypeOK, Entry
  <2>2. /\ pc = "submit" /\ pc' = "present" /\ queue' = Append(queue, s)
        /\ UNCHANGED <<presents, frame, image, renderSem>>
    BY <1>7 DEF Submit, syncVars
  <2>3. Pending' = Append(Pending, e)
    BY <2>2 DEF Pending
  <2>4. \A k \in 1 .. Len(Pending) : Pending[k].image # image
    BY <2>2 DEF PresentInv, HoldsImage
  <2> HIDE DEF s, e
  <2>5. /\ LastOf(Pending', queue')
        /\ Len(Pending') - Len(queue') = n
    BY <1>0, <2>1, <2>2, <2>3, LastOfAppended DEF PresentInv
  <2>6. /\ Len(Pending') = Len(Pending) + 1
        /\ \A k \in 1 .. Len(Pending) : Pending'[k] = Pending[k]
        /\ Pending'[Len(Pending) + 1] = e
    BY <1>0, <2>1, <2>3, AppendProperties
  <2>7. ImagesDiffer(Pending')
    BY <1>0, <2>1, <2>4, <2>6 DEF PresentInv, ImagesDiffer
  <2> HIDE DEF n
  <2>8. \A f \in Frames : renderSem'[f] => \E k \in 1 .. n : Pending'[k].frame = f
    <3>1. \A k \in 1 .. n : k \in 1 .. Len(Pending)
      BY <1>0, LenProperties DEF n
    <3>2. \A f \in Frames : renderSem[f] => \E k \in 1 .. n : Pending[k].frame = f
      BY DEF PresentInv, SignalsFrom, n
    <3>3. QED
      BY <2>2, <2>6, <3>1, <3>2
  <2>9. QED
    BY <2>2, <2>5, <2>7, <2>8 DEF PresentInv, HoldsImage, SignalsFrom
<1>8. CASE Present
  <2>1. /\ pc = "present" /\ pc' \in {"deinit", "events"}
        /\ presents' = Append(presents, [frame |-> frame, image |-> image])
        /\ UNCHANGED <<queue, renderSem>>
    BY <1>8 DEF Present, AfterDraw, syncVars
  <2>2. Pending' = Pending
    BY <2>1 DEF Pending
  <2>3. QED
    BY <2>1, <2>2 DEF PresentInv, SignalsFrom, HoldsImage
<1>9. ASSUME NEW k \in 1 .. Len(queue), BeginDrawing(k) PROVE PresentInv'
  <2>1. queue' = Drawn(queue, k) /\ UNCHANGED <<pc, frame, image, presents, renderSem>>
    BY <1>9 DEF BeginDrawing, Drawn, cpuVars
  <2>2. Len(queue') = Len(queue)
        /\ \A j \in 1 .. Len(queue) :
             queue'[j].frame = queue[j].frame /\ queue'[j].image = queue[j].image
    BY <1>0, <2>1, DrawSubmission
  <2>3. Pending' = Pending
    BY <2>1, PendingKept
  <2>4. LastOf(Pending', queue')
    BY <2>2, <2>3 DEF PresentInv, LastOf
  <2>5. QED
    BY <2>1, <2>2, <2>3, <2>4 DEF PresentInv, SignalsFrom, HoldsImage
<1>10. CASE Complete
  <2>1. /\ queue # <<>> /\ queue' = Tail(queue)
        /\ renderSem' = [renderSem EXCEPT ![Head(queue).frame] = TRUE]
        /\ UNCHANGED <<pc, frame, image, presents>>
    BY <1>10 DEF Complete, cpuVars
  <2>2. Pending' = Pending
    BY <2>1, PendingKept
  <2>3. /\ LastOf(Pending, queue') /\ n + 1 \in 1 .. Len(Pending)
        /\ Len(Pending) - Len(queue') = n + 1
        /\ Head(queue).frame = Pending[n + 1].frame
    BY <1>0, <2>1, LastOfCompleted DEF PresentInv
  <2>4. n \in Nat
    BY <1>0, LenProperties DEF PresentInv, LastOf
  <2> HIDE DEF n
  <2>5. ASSUME NEW f \in Frames, renderSem'[f] PROVE \E j \in 1 .. n + 1 : Pending[j].frame = f
    <3>1. CASE f = Head(queue).frame
      BY <2>3, <2>4, <3>1
    <3>2. CASE f # Head(queue).frame
      <4>1. renderSem[f]
        BY <1>0, <2>1, <2>5, <3>2 DEF TypeOK
      <4>2. \E j \in 1 .. n : Pending[j].frame = f
        BY <4>1 DEF PresentInv, SignalsFrom, n
      <4>3. QED
        BY <2>4, <4>2
    <3>3. QED
      BY <3>1, <3>2
  <2>6. QED
    BY <2>1, <2>2, <2>3, <2>5 DEF PresentInv, SignalsFrom, HoldsImage
<1>11. CASE Show
  <2>1. /\ renderSem[Head(presents).frame] /\ presents # <<>> /\ presents' = Tail(presents)
        /\ renderSem' = [renderSem EXCEPT ![Head(presents).frame] = FALSE]
        /\ UNCHANGED <<pc, frame, image, queue>>
    BY <1>11 DEF Show, cpuVars
  <2>2. Pending # <<>> /\ Head(Pending) = Head(presents) /\ Pending' = Tail(Pending)
    BY <1>0, <1>11, PendingShown
  <2>3. Len(queue) < Len(Pending)
    BY <1>0, <1>11, CompletedFirst
  <2>4. /\ LastOf(Pending', queue) /\ Len(Pending') = Len(Pending) - 1
        /\ \A k \in 1 .. Len(Pending') : Pending'[k] = Pending[k + 1] /\ k + 1 \in 1 .. Len(Pending)
        /\ Head(Pending) = Pending[1]
    BY <1>0, <2>2, <2>3, LastOfShown DEF PresentInv
  <2>5. ImagesDiffer(Pending')
    <3>1. ASSUME NEW j \in 1 .. Len(Pending'), NEW k \in 1 .. Len(Pending'),
                 Pending'[j].image = Pending'[k].image
          PROVE  j = k
      <4>1. j + 1 = k + 1
        BY <2>4, <3>1 DEF PresentInv, ImagesDiffer
      <4>2. QED
        BY <4>1
    <3>2. QED
      BY <3>1 DEF ImagesDiffer
  <2>6. ASSUME NEW f \in Frames, renderSem'[f]
        PROVE  \E k \in 1 .. n - 1 : Pending'[k].frame = f
    <3>0. Head(Pending) \in Entry
      BY <1>0, <2>2, HeadTailProperties
    <3>1. Pending[1].frame \in Frames
      BY <2>4, <3>0 DEF Entry
    <3>2. f # Pending[1].frame /\ renderSem[f]
      BY <1>0, <2>1, <2>2, <2>4, <2>6, <3>1 DEF TypeOK
    <3>3. PICK k \in 1 .. n : Pending[k].frame = f
      BY <3>2 DEF PresentInv, SignalsFrom
    <3>4. n \in Nat /\ n <= Len(Pending)
      BY <1>0, <2>3, LenProperties
    <3>5. k # 1
      BY <3>2, <3>3
    <3>6. k - 1 \in 1 .. n - 1 /\ k - 1 \in 1 .. Len(Pending') /\ k - 1 + 1 = k
      BY <1>0, <2>4, <3>4, <3>5
    <3>7. Pending'[k - 1].frame = f
      BY <2>4, <3>3, <3>6
    <3>8. QED
      BY <3>6, <3>7
  <2>7. Len(Pending') - Len(queue') = n - 1
    BY <1>0, <2>1, <2>4, LenProperties
  <2>8. LastOf(Pending', queue')
    BY <2>1, <2>4
  <2>9. HoldsImage' => \A k \in 1 .. Len(Pending') : Pending'[k].image # image'
    BY <2>1, <2>4 DEF PresentInv, HoldsImage
  <2>10. pc' = "recreate" => presents' = <<>>
    BY <1>r, <2>1
  <2> HIDE DEF n
  <2>11. QED
    BY <2>5, <2>6, <2>7, <2>8, <2>9, <2>10 DEF PresentInv, SignalsFrom
<1>12. ASSUME NEW f \in Frames, Release(f) PROVE Keep
  BY <1>12, <1>r DEF Release, HoldsImage, cpuVars, deviceVars
<1>13. QED
  BY <1>k, <1>1, <1>2, <1>3, <1>4, <1>5, <1>6, <1>7, <1>8, <1>9, <1>10, <1>11, <1>12
     DEF Next, Thread, Gpu, Presentation, Ended

LEMMA PresentInvariant == Spec => [](SafetyInv /\ PresentInv)
<1>1. PresentInv /\ SafetyInv /\ [Next]_vars => PresentInv'
  BY PresentStep
<1>2. QED
  BY <1>1, PresentInit, SafetyInvariant, PTL DEF Spec

-----------------------------------------------------------------------------
(* The render semaphore.  The last FRAME_OVERLAP of the pending images are of  *)
(* different frames, so that no signal is given twice while there are no more  *)
(* of them, however many images the swapchain has.                             *)

\* The frame that was drawn d frames ago.
FrameBefore(d) == IF Turn >= d THEN Turn - d ELSE Turn + FRAME_OVERLAP - d

\* The last of what is pending was drawn by the last frames, one each.
OrderInv ==
  \A k \in 1 .. Len(Pending) :
    Len(Pending) + 1 - k <= FRAME_OVERLAP =>
      Pending[k].frame = FrameBefore(Len(Pending) + 1 - k)

LEMMA OrderInit == Init => OrderInv
<1> SUFFICES ASSUME Init PROVE OrderInv
  OBVIOUS
<1>1. Pending = <<>> /\ Len(Pending) = 0
  BY EmptySeq DEF Init, Pending
<1>2. QED
  BY <1>1 DEF OrderInv

\* Only Submit comes to the next frame and adds to what is pending; only Show takes
\* from it; and beside them only Complete changes what has completed and its signals.
LEMMA OrderKept ==
  ASSUME [Next]_vars, TypeOK, PresentInv
  PROVE  /\ Submit \/ Show \/ (Turn' = Turn /\ Pending' = Pending)
         /\ Submit \/ Show \/ Complete \/ (Len(queue') = Len(queue) /\ renderSem' = renderSem)
<1> USE DEF Turn, NextFrame
<1> DEFINE Keep == /\ presents' = presents
                   /\ (pc # "present" /\ pc' # "present") \/ UNCHANGED <<pc, frame, image>>
                   /\ frame' = frame
           Kept == Turn' = Turn /\ Pending' = Pending
           Quiet == Len(queue') = Len(queue) /\ renderSem' = renderSem
<1>k. Keep => Kept
  BY PendingKept
<1>1. CASE UNCHANGED vars
  BY <1>1, <1>k DEF vars, cpuVars, syncVars, deviceVars
<1>2. CASE PollEvents \/ WaitFence \/ FenceTimeout \/ WaitIdle \/ Deinit \/ ResetFence \/ Record
  BY <1>2, <1>k DEF PollEvents, WaitFence, FenceTimeout, WaitIdle, Deinit, ResetFence, Record,
                    syncVars, deviceVars
<1>3. CASE AcquireOutOfDate \/ AcquireTimeout
  BY <1>3, <1>k DEF AcquireOutOfDate, AcquireTimeout, AfterAcquire, syncVars, deviceVars
<1>4. ASSUME NEW i \in Images, AcquireImage(i) PROVE Kept /\ Quiet
  BY <1>4, <1>k DEF AcquireImage, AfterAcquire, deviceVars
<1>5. CASE RecreateSwapchain
  BY <1>5, <1>k DEF RecreateSwapchain, AfterDraw
<1>6. CASE Present
  <2>1. /\ pc = "present" /\ pc' # "present" /\ frame' = (frame + 1) % FRAME_OVERLAP
        /\ presents' = Append(presents, [frame |-> frame, image |-> image])
        /\ UNCHANGED <<queue, renderSem>>
    BY <1>6 DEF Present, AfterDraw, syncVars
  <2>2. Pending' = Pending
    BY <2>1 DEF Pending
  <2>3. QED
    BY <2>1, <2>2
<1>7. ASSUME NEW k \in 1 .. Len(queue), BeginDrawing(k) PROVE Kept /\ Quiet
  <2>1. Len(queue') = Len(queue)
    BY <1>7, DrawSubmission DEF BeginDrawing, Drawn, TypeOK
  <2>2. QED
    BY <1>7, <1>k, <2>1 DEF BeginDrawing, cpuVars
<1>8. CASE Complete
  BY <1>8, <1>k DEF Complete, cpuVars
<1>9. ASSUME NEW f \in Frames, Release(f) PROVE Kept /\ Quiet
  BY <1>9, <1>k DEF Release, cpuVars, deviceVars
<1>10. QED
  BY <1>1, <1>2, <1>3, <1>4, <1>5, <1>6, <1>7, <1>8, <1>9
     DEF Next, Thread, Gpu, Presentation, Ended

LEMMA OrderStep ==
  ASSUME SafetyInv, PresentInv, OrderInv, [Next]_vars
  PROVE  OrderInv'
<1>0. /\ TypeOK /\ TypeOK' /\ PresentInv' /\ frame \in Frames
      /\ Pending \in Seq(Entry) /\ Len(Pending) \in Nat
      /\ FRAME_OVERLAP \in Nat \ {0}
  BY TypeStep, PresentStep, PendingType, FrameOverlapAssumption DEF SafetyInv, TypeOK
<1>1. CASE Submit
  <2>1. /\ pc = "submit" /\ pc' = "present" /\ UNCHANGED <<presents, frame, image>>
    BY <1>1 DEF Submit, syncVars
  <2> DEFINE e == [frame |-> frame, image |-> image]
             n == Len(Pending)
  <2>2. Pending' = Append(Pending, e) /\ e \in Entry /\ e.frame = frame
    BY <1>0, <2>1 DEF Pending, Entry, TypeOK
  <2> HIDE DEF e
  <2>3. /\ Len(Pending') = n + 1 /\ Pending'[n + 1].frame = frame
        /\ \A k \in 1 .. n : Pending'[k] = Pending[k]
    BY <1>0, <2>2, AppendProperties
  <2>6. Turn = frame /\ Turn' = (frame + 1) % FRAME_OVERLAP
    BY <2>1 DEF Turn, NextFrame
  <2>7. Turn' = IF frame + 1 = FRAME_OVERLAP THEN 0 ELSE frame + 1
    BY <1>0, <2>6 DEF Frames
  <2> DEFINE Earlier(t, d) == IF t >= d THEN t - d ELSE t + FRAME_OVERLAP - d
  <2>8. \A d \in 0 .. FRAME_OVERLAP - 1 : Earlier(Turn', d + 1) = Earlier(frame, d)
    BY <1>0, <2>7 DEF Frames
  <2>9. ASSUME NEW k \in 1 .. n + 1, n + 1 + 1 - k <= FRAME_OVERLAP
        PROVE  Pending'[k].frame = Earlier(Turn', n + 1 + 1 - k)
    <3>1. n + 1 - k \in 0 .. FRAME_OVERLAP - 1 /\ n + 1 + 1 - k = n + 1 - k + 1
      BY <1>0, <2>9
    <3>2. Pending'[k].frame = Earlier(frame, n + 1 - k)
      <4>1. CASE k = n + 1
        <5>1. Earlier(frame, 0) = frame /\ n + 1 - k = 0
          BY <1>0, <4>1 DEF Frames
        <5>2. QED
          BY <2>3, <4>1, <5>1
      <4>2. CASE k # n + 1
        <5>1. k \in 1 .. n /\ n + 1 - k <= FRAME_OVERLAP
          BY <1>0, <2>9, <4>2
        <5>2. Pending[k].frame = Earlier(frame, n + 1 - k)
          BY <2>6, <5>1 DEF OrderInv, FrameBefore
        <5>3. QED
          BY <2>3, <5>1, <5>2
      <4>3. QED
        BY <4>1, <4>2
    <3> HIDE DEF n, Earlier
    <3>3. Earlier(Turn', n + 1 - k + 1) = Earlier(frame, n + 1 - k)
      BY <2>8, <3>1
    <3>4. QED
      BY <3>1, <3>2, <3>3
  <2>10. QED
    BY <2>3, <2>9 DEF OrderInv, FrameBefore
<1>2. CASE Show
  <2>1. Turn' = Turn
    BY <1>2 DEF Show, cpuVars, Turn, NextFrame
  <2>2. /\ Pending' = Tail(Pending) /\ Len(queue) < Len(Pending) /\ queue \in Seq(Submission)
        /\ LastOf(Pending, queue)
    BY <1>0, <1>2, PendingShown, CompletedFirst DEF PresentInv, TypeOK
  <2>3. /\ Len(Pending') = Len(Pending) - 1
        /\ \A k \in 1 .. Len(Pending') : Pending'[k] = Pending[k + 1] /\ k + 1 \in 1 .. Len(Pending)
    BY <1>0, <2>2, LastOfShown
  <2>4. ASSUME NEW k \in 1 .. Len(Pending'), Len(Pending') + 1 - k <= FRAME_OVERLAP
        PROVE  Pending'[k].frame = FrameBefore(Len(Pending) + 1 - k)'
    <3>1. Pending'[k] = Pending[k + 1] /\ k + 1 \in 1 .. Len(Pending)
      BY <2>3
    <3>2. Len(Pending') + 1 - k = Len(Pending) + 1 - (k + 1)
      <4>1. k \in Int /\ Len(Pending) \in Int /\ Len(Pending') = Len(Pending) - 1
        BY <1>0, <2>3
      <4>2. QED
        BY <4>1
    <3>3. Pending[k + 1].frame = FrameBefore(Len(Pending) + 1 - (k + 1))
      BY <2>4, <3>1, <3>2 DEF OrderInv
    <3>4. QED
      BY <2>1, <3>1, <3>2, <3>3 DEF FrameBefore
  <2>5. QED
    BY <2>4 DEF OrderInv
<1>3. CASE Turn' = Turn /\ Pending' = Pending
  BY <1>3 DEF OrderInv, FrameBefore
<1>4. QED
  BY <1>0, <1>1, <1>2, <1>3, OrderKept

LEMMA OrderInvariant == Spec => [](SafetyInv /\ PresentInv /\ OrderInv)
<1>1. SafetyInv /\ PresentInv /\ OrderInv /\ [Next]_vars => OrderInv'
  BY OrderStep
<1>2. QED
  BY <1>1, OrderInit, PresentInvariant, PTL DEF Spec

\* The frames of the last FRAME_OVERLAP turns are different frames.
LEMMA FramesBeforeDiffer ==
  ASSUME TypeOK, NEW c \in 1 .. FRAME_OVERLAP, NEW d \in 1 .. FRAME_OVERLAP,
         FrameBefore(c) = FrameBefore(d)
  PROVE  c = d
<1>1. Turn \in 0 .. FRAME_OVERLAP - 1 /\ FRAME_OVERLAP \in Nat \ {0}
  BY FrameArithmetic, FrameOverlapAssumption DEF Turn, NextFrame, TypeOK, Frames
<1>2. QED
  BY <1>1 DEF FrameBefore

LEMMA PendingFramesDiffer ==
  ASSUME SafetyInv, PresentInv, OrderInv, Len(Pending) <= FRAME_OVERLAP,
         NEW j \in 1 .. Len(Pending), NEW k \in 1 .. Len(Pending),
         Pending[j].frame = Pending[k].frame
  PROVE  j = k
<1> DEFINE l == Len(Pending)
<1>1. TypeOK /\ Pending \in Seq(Entry) /\ l \in Nat
  BY PendingType DEF SafetyInv
<1>2. l <= FRAME_OVERLAP
  OBVIOUS
<1> HIDE DEF l
<1>3. j \in 1 .. l /\ k \in 1 .. l
  BY DEF l
<1>4. l + 1 - j \in 1 .. FRAME_OVERLAP /\ l + 1 - k \in 1 .. FRAME_OVERLAP
  BY <1>1, <1>2, <1>3, FrameOverlapAssumption
<1>5. FrameBefore(l + 1 - j) = FrameBefore(l + 1 - k)
  BY <1>1, <1>4, FrameOverlapAssumption DEF OrderInv, l
<1>6. l + 1 - j = l + 1 - k
  BY <1>1, <1>4, <1>5, FramesBeforeDiffer
<1>7. QED
  BY <1>1, <1>3, <1>6

LEMMA UndisplayedIsPending == ASSUME TypeOK PROVE Undisplayed = Len(Pending)
<1>1. presents \in Seq(Entry)
  BY DEF TypeOK, Entry
<1>2. CASE pc = "present"
  <2>1. [frame |-> frame, image |-> image] \in Entry
    BY <1>2 DEF TypeOK, Entry
  <2>2. QED
    BY <1>1, <1>2, <2>1, AppendProperties DEF Undisplayed, Pending
<1>3. CASE pc # "present"
  BY <1>1, <1>3, LenProperties DEF Undisplayed, Pending
<1>4. QED
  BY <1>2, <1>3

\* While no more frames wait for the display than there are frames, the presentation
\* engine has taken the signal of a frame before the frame's next submission gives it
\* again, whatever the environment does and however many images there are.
THEOREM RenderSemaphoreSafe == Spec => []SignalsInRound
<1>1. ASSUME SafetyInv, PresentInv, OrderInv PROVE SignalsInRound
  <2> SUFFICES ASSUME Undisplayed <= FRAME_OVERLAP, queue # <<>>, renderSem[Head(queue).frame]
               PROVE  FALSE
    BY DEF SignalsInRound, RenderSemaphoreFresh
  <2> DEFINE n == Len(Pending) - Len(queue)
  <2>1. /\ queue \in Seq(Submission) /\ Pending \in Seq(Entry) /\ Len(Pending) \in Nat /\ n \in Int
        /\ Len(Pending) <= FRAME_OVERLAP
    BY <1>1, PendingType, UndisplayedIsPending, LenProperties DEF SafetyInv, TypeOK
  <2>2. n + 1 \in 1 .. Len(Pending) /\ Head(queue).frame = Pending[n + 1].frame
    BY <1>1, <2>1, LastOfCompleted DEF PresentInv
  <2>3. Head(queue).frame \in Frames
    <3>1. Head(queue) \in Submission
      BY <2>1, CompleteSubmission
    <3>2. QED
      BY <3>1 DEF Submission
  <2>4. PICK k \in 1 .. n : Pending[k].frame = Head(queue).frame
    BY <1>1, <2>3 DEF PresentInv, SignalsFrom
  <2> HIDE DEF n
  <2>5. k \in 1 .. Len(Pending) /\ k # n + 1
    BY <2>1, <2>2
  <2>6. QED
    BY <1>1, <2>1, <2>2, <2>4, <2>5, PendingFramesDiffer
<1>2. QED
  BY <1>1, OrderInvariant, PTL

-----------------------------------------------------------------------------
(* Waits.  A submission that waits is owed a signal from its acquire on, and  *)
(* until two signals become one, what has completed keeps a signal of its own  *)
(* until its present is shown.                                                 *)

AnswerInv ==
  /\ \A k \in 1 .. Len(queue) : queue[k].drawing \/ SignalledOrOwed(queue[k].frame)
  /\ HoldsImage => SignalledOrOwed(frame)

\* The first n of p have a signal each.
SignalsKept(p, n) ==
  \A k \in 1 .. n : renderSem[p[k].frame] /\ \A j \in 1 .. n : p[j].frame = p[k].frame => j = k

SignalInv == "signalTwice" \in mishaps \/ SignalsKept(Pending, Len(Pending) - Len(queue))

LEMMA AnswerInit == Init => AnswerInv
<1> SUFFICES ASSUME Init PROVE AnswerInv
  OBVIOUS
<1>1. Len(queue) = 0 /\ Len(Pending) = 0 /\ ~HoldsImage
  BY EmptySeq DEF Init, Pending, HoldsImage
<1>2. QED
  BY <1>1 DEF AnswerInv

LEMMA AnswerStep ==
  ASSUME SafetyInv, AnswerInv, [Next]_vars
  PROVE  AnswerInv'
<1>0. TypeOK /\ queue \in Seq(Submission) /\ Len(queue) \in Nat /\ frame \in Frames
  BY LenProperties DEF SafetyInv, TypeOK
<1>q. \A k \in 1 .. Len(queue) : queue[k].frame \in Frames
  <2>1. ASSUME NEW k \in 1 .. Len(queue) PROVE queue[k] \in Submission
    BY <1>0, ElementOfSeq
  <2>2. QED
    BY <2>1 DEF Submission
<1>h. HoldsImage => frame \notin InFlight
  BY <1>0 DEF SafetyInv, RecordsAlone, FenceSeen, FenceTellsInFlight, HoldsImage
<1> DEFINE Same == /\ queue' = queue
                   /\ HoldsImage' => HoldsImage /\ frame' = frame
                   /\ \A f \in Frames : SignalledOrOwed(f) => SignalledOrOwed(f)'
<1>k. ASSUME Same PROVE AnswerInv'
  BY <1>0, <1>q, <1>k DEF AnswerInv
<1>o. ASSUME UNCHANGED <<presentSem, acquired>>
      PROVE  \A f \in Frames : SignalledOrOwed(f) => SignalledOrOwed(f)'
  BY <1>o DEF SignalledOrOwed
<1>1. CASE UNCHANGED vars
  BY <1>1, <1>k, <1>o DEF vars, cpuVars, syncVars, deviceVars, HoldsImage
<1>2. CASE PollEvents \/ WaitFence \/ FenceTimeout \/ WaitIdle \/ Deinit
  BY <1>2, <1>k, <1>o DEF PollEvents, WaitFence, FenceTimeout, WaitIdle, Deinit, HoldsImage,
                          syncVars, deviceVars
<1>3. CASE AcquireOutOfDate \/ AcquireTimeout
  BY <1>3, <1>k, <1>o DEF AcquireOutOfDate, AcquireTimeout, AfterAcquire, HoldsImage,
                          syncVars, deviceVars
<1>4. CASE ResetFence \/ Record
  BY <1>4, <1>k, <1>o DEF ResetFence, Record, HoldsImage, syncVars, deviceVars
<1>5. ASSUME NEW i \in Images, AcquireImage(i) PROVE AnswerInv'
  <2>1. UNCHANGED <<frame, queue, presentSem>>
    BY <1>5 DEF AcquireImage, deviceVars
  <2>2. \A f \in Frames : acquired'[f] = IF f = frame THEN i ELSE acquired[f]
    BY <1>0, <1>5 DEF AcquireImage, TypeOK
  <2>3. /\ \A f \in Frames : SignalledOrOwed(f) => SignalledOrOwed(f)'
        /\ SignalledOrOwed(frame)'
    BY <1>0, <2>1, <2>2, ImagesAssumption DEF SignalledOrOwed
  <2>4. QED
    BY <1>0, <1>q, <2>1, <2>3 DEF AnswerInv
<1>6. CASE RecreateSwapchain
  <2>1. Len(queue') = 0 /\ ~HoldsImage'
    BY <1>6, EmptySeq DEF RecreateSwapchain, AfterDraw, SafetyInv, IdleToRecreate, HoldsImage
  <2>2. QED
    BY <2>1 DEF AnswerInv
<1>7. CASE Submit
  <2> DEFINE s == [frame |-> frame, image |-> image,
                   swapchain |-> swapchain, drawing |-> FALSE]
  <2>1. s \in Submission /\ s.frame = frame
    BY <1>0, <1>7 DEF Submit, Submission, TypeOK
  <2>2. /\ pc = "submit" /\ pc' = "present" /\ ~HoldsImage' /\ HoldsImage
        /\ queue' = Append(queue, s)
        /\ UNCHANGED <<frame, presentSem, acquired>>
    BY <1>7 DEF Submit, syncVars, HoldsImage
  <2> HIDE DEF s
  <2>4. /\ Len(queue') = Len(queue) + 1
        /\ \A k \in 1 .. Len(queue) : queue'[k] = queue[k]
        /\ queue'[Len(queue) + 1].frame = frame
    BY <1>0, <2>1, <2>2, AppendProperties
  <2>5. /\ SignalledOrOwed(frame)
        /\ \A f \in Frames : SignalledOrOwed(f) => SignalledOrOwed(f)'
        /\ SignalledOrOwed(frame) => presentSem'[frame] \/ acquired'[frame] # NoImage
    BY <2>2, <1>o DEF AnswerInv, SignalledOrOwed
  <2>6. ASSUME NEW k \in 1 .. Len(queue')
        PROVE  \/ queue'[k].drawing \/ presentSem'[queue'[k].frame]
               \/ acquired'[queue'[k].frame] # NoImage
    <3>1. CASE k = Len(queue) + 1
      BY <2>4, <2>5, <3>1
    <3>2. CASE k # Len(queue) + 1
      <4>1. k \in 1 .. Len(queue) /\ queue'[k] = queue[k]
        BY <1>0, <2>4, <3>2
      <4>2. QED
        BY <2>2, <4>1 DEF AnswerInv, SignalledOrOwed
    <3>3. QED
      BY <3>1, <3>2
  <2>7. QED
    BY <2>2, <2>6 DEF AnswerInv, SignalledOrOwed
<1>8. CASE Present
  BY <1>8, <1>k, <1>o DEF Present, AfterDraw, HoldsImage, syncVars
<1>9. ASSUME NEW k \in 1 .. Len(queue), BeginDrawing(k) PROVE AnswerInv'
  <2>1. /\ queue' = Drawn(queue, k)
        /\ UNCHANGED <<pc, frame, acquired>>
    BY <1>9 DEF BeginDrawing, Drawn, cpuVars
  <2>2. \A f \in Frames : f # queue[k].frame => presentSem'[f] = presentSem[f]
    BY <1>0, <1>9, <1>q DEF BeginDrawing, TypeOK
  <2>3. /\ Len(queue') = Len(queue)
        /\ \A j \in 1 .. Len(queue) : /\ queue'[j].frame = queue[j].frame
                                      /\ queue'[j].drawing = (j = k \/ queue[j].drawing)
    BY <1>0, <2>1, DrawSubmission
  <2>4. \A j \in 1 .. Len(queue) : j # k => queue[j].frame # queue[k].frame
    BY DEF SafetyInv, Distinct
  <2>5. HoldsImage => frame # queue[k].frame
    BY <1>h DEF InFlight
  <2>6. \A f \in Frames : f # queue[k].frame /\ SignalledOrOwed(f) => SignalledOrOwed(f)'
    BY <2>1, <2>2 DEF SignalledOrOwed
  <2>7. \A j \in 1 .. Len(queue) : queue'[j].drawing \/ SignalledOrOwed(queue[j].frame)'
    <3>1. ASSUME NEW j \in 1 .. Len(queue)
          PROVE  \/ queue'[j].drawing \/ presentSem'[queue[j].frame]
                 \/ acquired'[queue[j].frame] # NoImage
      <4>1. CASE j = k
        BY <2>3, <4>1
      <4>2. CASE j # k
        BY <1>q, <2>1, <2>2, <2>3, <2>4, <4>2 DEF AnswerInv, SignalledOrOwed
      <4>3. QED
        BY <4>1, <4>2
    <3>2. QED
      BY <2>1, <2>3, <3>1 DEF SignalledOrOwed
  <2>8. HoldsImage' => SignalledOrOwed(frame)'
    BY <1>0, <2>1, <2>5, <2>6 DEF AnswerInv, HoldsImage
  <2>9. QED
    BY <2>1, <2>3, <2>7, <2>8 DEF AnswerInv, SignalledOrOwed
<1>10. CASE Complete
  <2>1. queue # <<>> /\ queue' = Tail(queue) /\ UNCHANGED <<pc, frame, presentSem, acquired>>
    BY <1>10 DEF Complete, cpuVars
  <2>2. /\ Len(queue') = Len(queue) - 1
        /\ \A k \in 1 .. Len(queue') : queue'[k] = queue[k + 1]
    BY <1>0, <2>1, HeadTailProperties
  <2>3. \A k \in 1 .. Len(queue') : k + 1 \in 1 .. Len(queue)
    BY <1>0, <2>2
  <2>4. QED
    BY <2>1, <2>2, <2>3 DEF AnswerInv, SignalledOrOwed, HoldsImage
<1>11. CASE Show
  BY <1>11, <1>k, <1>o DEF Show, cpuVars, HoldsImage
<1>12. ASSUME NEW f \in Frames, Release(f) PROVE AnswerInv'
  <2>1. /\ UNCHANGED <<pc, frame, queue>>
        /\ acquired' = [acquired EXCEPT ![f] = NoImage]
        /\ presentSem' = [presentSem EXCEPT ![f] = TRUE]
    BY <1>12 DEF Release, cpuVars, deviceVars
  <2>2. \A g \in Frames : SignalledOrOwed(g) => SignalledOrOwed(g)'
    BY <1>0, <2>1 DEF SignalledOrOwed, TypeOK
  <2>3. QED
    BY <1>k, <2>1, <2>2 DEF HoldsImage
<1>13. QED
  BY <1>1, <1>2, <1>3, <1>4, <1>5, <1>6, <1>7, <1>8, <1>9, <1>10, <1>11, <1>12
     DEF Next, Thread, Gpu, Presentation, Ended

LEMMA SignalInit == Init => SignalInv
<1> SUFFICES ASSUME Init PROVE SignalInv
  OBVIOUS
<1>1. Len(queue) = 0 /\ Len(Pending) = 0
  BY EmptySeq DEF Init, Pending
<1>2. QED
  BY <1>1 DEF SignalInv, SignalsKept

LEMMA SignalStep ==
  ASSUME SafetyInv, PresentInv, SignalInv, [Next]_vars
  PROVE  SignalInv'
<1> SUFFICES ASSUME "signalTwice" \notin mishaps'
             PROVE  SignalsKept(Pending, Len(Pending) - Len(queue))'
  BY DEF SignalInv
<1> DEFINE n == Len(Pending) - Len(queue)
<1>0. /\ TypeOK /\ queue \in Seq(Submission) /\ Len(queue) \in Nat
      /\ Pending \in Seq(Entry) /\ Len(Pending) \in Nat /\ n \in Nat
  BY PendingType, LenProperties DEF SafetyInv, PresentInv, LastOf, TypeOK
<1>s. SignalsKept(Pending, n)
  BY MishapsStay DEF SignalInv
<1>f. \A k \in 1 .. Len(Pending) : Pending[k].frame \in Frames
  <2>1. ASSUME NEW k \in 1 .. Len(Pending) PROVE Pending[k] \in Entry
    BY <1>0, ElementOfSeq
  <2>2. QED
    BY <2>1 DEF Entry
<1>1. CASE Submit
  <2> DEFINE s == [frame |-> frame, image |-> image,
                   swapchain |-> swapchain, drawing |-> FALSE]
             e == [frame |-> frame, image |-> image]
  <2>1. s \in Submission /\ e \in Entry
    BY <1>0, <1>1 DEF Submit, Submission, Entry, TypeOK
  <2>2. /\ pc = "submit" /\ pc' = "present" /\ queue' = Append(queue, s)
        /\ UNCHANGED <<presents, frame, image, renderSem>>
    BY <1>1 DEF Submit, syncVars
  <2>3. Pending' = Append(Pending, e)
    BY <2>2 DEF Pending
  <2> HIDE DEF s, e
  <2>4. /\ Len(Pending') - Len(queue') = n
        /\ \A k \in 1 .. Len(Pending) : Pending'[k] = Pending[k]
    BY <1>0, <2>1, <2>2, <2>3, AppendProperties
  <2>5. \A k \in 1 .. n : k \in 1 .. Len(Pending)
    BY <1>0
  <2> HIDE DEF n
  <2>6. QED
    BY <1>s, <2>2, <2>4, <2>5 DEF SignalsKept
<1>2. CASE Complete
  <2>1. /\ queue # <<>> /\ queue' = Tail(queue)
        /\ renderSem' = [renderSem EXCEPT ![Head(queue).frame] = TRUE]
        /\ ~renderSem[Head(queue).frame]
        /\ UNCHANGED <<pc, frame, image, presents>>
    BY <1>2 DEF Complete, cpuVars
  <2>2. Pending' = Pending
    BY <2>1, PendingKept
  <2>3. /\ Pending[n + 1].frame = Head(queue).frame /\ Len(Pending) - Len(queue') = n + 1
        /\ n + 1 \in 1 .. Len(Pending)
    BY <1>0, <2>1, LastOfCompleted DEF PresentInv
  <2>4. \A k \in 1 .. n : k \in 1 .. Len(Pending)
    BY <1>0
  <2> HIDE DEF n
  <2>5. \A f \in Frames : renderSem'[f] = (f = Pending[n + 1].frame \/ renderSem[f])
    BY <1>0, <1>f, <2>1, <2>3 DEF TypeOK
  <2>6. \A k \in 1 .. n : renderSem[Pending[k].frame] /\ Pending[k].frame # Pending[n + 1].frame
    BY <1>s, <2>1, <2>3 DEF SignalsKept
  <2>7. ASSUME NEW k \in 1 .. n + 1
        PROVE  /\ renderSem'[Pending[k].frame]
               /\ \A j \in 1 .. n + 1 : Pending[j].frame = Pending[k].frame => j = k
    <3>1. \A j \in 1 .. n + 1 : j = n + 1 \/ j \in 1 .. n
      BY <1>0
    <3>2. renderSem'[Pending[k].frame]
      BY <1>f, <2>3, <2>4, <2>5, <2>6, <3>1
    <3>3. ASSUME NEW j \in 1 .. n + 1, Pending[j].frame = Pending[k].frame PROVE j = k
      BY <1>s, <2>6, <3>1, <3>3 DEF SignalsKept
    <3>4. QED
      BY <3>2, <3>3
  <2>8. QED
    BY <2>2, <2>3, <2>7 DEF SignalsKept
<1>3. CASE Show
  <2>1. /\ queue' = queue
        /\ renderSem' = [renderSem EXCEPT ![Head(presents).frame] = FALSE]
    BY <1>3 DEF Show
  <2>2. /\ Head(Pending) = Head(presents) /\ Pending' = Tail(Pending)
        /\ Len(queue) < Len(Pending)
    BY <1>0, <1>3, PendingShown, CompletedFirst
  <2>3. /\ Len(Pending') = Len(Pending) - 1 /\ Head(Pending) = Pending[1]
        /\ \A k \in 1 .. Len(Pending') : Pending'[k] = Pending[k + 1]
                                        /\ k + 1 \in 1 .. Len(Pending)
    BY <1>0, <2>2, LastOfShown DEF PresentInv
  <2>4. /\ Len(Pending') - Len(queue') = n - 1
        /\ \A k \in 1 .. n - 1 : k + 1 \in 1 .. n /\ k + 1 # 1 /\ k \in 1 .. Len(Pending')
        /\ 1 \in 1 .. n /\ 1 \in 1 .. Len(Pending)
    BY <1>0, <2>1, <2>2, <2>3
  <2> HIDE DEF n
  <2>5. ASSUME NEW k \in 1 .. n - 1 PROVE renderSem'[Pending'[k].frame]
    <3>1. /\ Pending'[k] = Pending[k + 1] /\ renderSem[Pending[k + 1].frame]
          /\ Pending[k + 1].frame # Pending[1].frame /\ Pending[k + 1].frame \in Frames
      BY <1>s, <1>f, <2>3, <2>4 DEF SignalsKept
    <3>2. QED
      BY <1>0, <1>f, <2>1, <2>2, <2>3, <2>4, <3>1 DEF TypeOK
  <2>6. ASSUME NEW k \in 1 .. n - 1, NEW j \in 1 .. n - 1, Pending'[j].frame = Pending'[k].frame
        PROVE  j = k
    <3>1. j + 1 = k + 1
      BY <1>s, <2>3, <2>4, <2>6 DEF SignalsKept
    <3>2. QED
      BY <1>0, <3>1
  <2>7. QED
    BY <2>4, <2>5, <2>6 DEF SignalsKept
<1>4. CASE Pending' = Pending /\ Len(queue') = Len(queue) /\ renderSem' = renderSem
  BY <1>s, <1>4 DEF SignalsKept
<1>5. QED
  BY <1>0, <1>1, <1>2, <1>3, <1>4, OrderKept

\* No submission ever waits for a signal that nothing will give, and no present unless
\* two signals of a renderSem have become one, whatever the environment does.
THEOREM WaitsAnswered == Spec => []EveryWaitAnswered
<1>1. ASSUME SafetyInv, PresentInv, AnswerInv, SignalInv PROVE EveryWaitAnswered
  <2> DEFINE n == Len(Pending) - Len(queue)
  <2>1. /\ TypeOK /\ queue \in Seq(Submission) /\ Len(queue) \in Nat
        /\ presents \in Seq(Entry) /\ Len(presents) \in Nat
        /\ Len(Pending) \in Nat /\ LastOf(Pending, queue)
    BY <1>1, PendingType, LenProperties DEF SafetyInv, PresentInv, TypeOK, Entry
  <2>2. ASSUME NEW k \in 1 .. Len(presents)
        PROVE  k \in 1 .. Len(Pending) /\ presents[k] = Pending[k]
    <3>1. CASE pc = "present"
      <4> DEFINE e == [frame |-> frame, image |-> image]
      <4>1. e \in Entry
        BY <2>1, <3>1 DEF TypeOK, Entry
      <4>2. Pending = Append(presents, e)
        BY <3>1 DEF Pending
      <4> HIDE DEF e
      <4>3. QED
        BY <2>1, <4>1, <4>2, AppendProperties
    <3>2. CASE pc # "present"
      BY <3>2 DEF Pending
    <3>3. QED
      BY <3>1, <3>2
  <2>3. ASSUME "signalTwice" \notin mishaps, NEW k \in 1 .. Len(Pending)
        PROVE  renderSem[Pending[k].frame] \/ Pending[k].frame \in InFlight
    <3>1. CASE k \in 1 .. n
      BY <1>1, <2>3, <3>1 DEF SignalInv, SignalsKept
    <3>2. CASE k \notin 1 .. n
      <4>1. k - n \in 1 .. Len(queue) /\ n + (k - n) = k
        BY <2>1, <3>2 DEF LastOf
      <4>2. queue[k - n].frame = Pending[n + (k - n)].frame
        BY <2>1, <4>1 DEF LastOf
      <4> HIDE DEF n
      <4>3. QED
        BY <4>1, <4>2 DEF InFlight
    <3>3. QED
      BY <3>1, <3>2
  <2>4. \A k \in 1 .. Len(queue) :
          queue[k].drawing \/ presentSem[queue[k].frame] \/ acquired[queue[k].frame] # NoImage
    BY <1>1 DEF AnswerInv, SignalledOrOwed
  <2>5. \/ "signalTwice" \in mishaps
        \/ \A k \in 1 .. Len(presents) :
             renderSem[presents[k].frame] \/ presents[k].frame \in InFlight
    BY <2>2, <2>3
  <2>6. QED
    BY <2>4, <2>5 DEF EveryWaitAnswered
<1>2. SafetyInv /\ AnswerInv /\ [Next]_vars => AnswerInv'
  BY AnswerStep
<1>3. SafetyInv /\ PresentInv /\ SignalInv /\ [Next]_vars => SignalInv'
  BY SignalStep
<1>4. QED
  BY <1>1, <1>2, <1>3, AnswerInit, SignalInit, PresentInvariant, PTL DEF Spec

-----------------------------------------------------------------------------
(* The image on display.  A submission that waits for presentSem is owed the   *)
(* release of its own image and of no other, and once the signal is there the  *)
(* image is off the display and stays off it until its own present is shown,   *)
(* which comes after its submission has completed.                             *)

\* What the semaphore of frame f tells of image i.
Owes(f, i) == (presentSem[f] => i # shown) /\ acquired[f] \in {NoImage, i}

ReleasesOwed ==
  /\ \A k \in 1 .. Len(queue) :
       IF queue[k].drawing THEN queue[k].image # shown
                           ELSE Owes(queue[k].frame, queue[k].image)
  /\ HoldsImage => Owes(frame, image)

ImageInv == "imageGivenUp" \in mishaps \/ ReleasesOwed

LEMMA ImageInit == Init => ImageInv
<1> SUFFICES ASSUME Init PROVE ImageInv
  OBVIOUS
<1>1. Len(queue) = 0 /\ ~HoldsImage
  BY EmptySeq DEF Init, HoldsImage
<1>2. QED
  BY <1>1 DEF ImageInv, ReleasesOwed

LEMMA ImageStep ==
  ASSUME SafetyInv, SemaphoreInv, PresentInv, ImageInv, [Next]_vars
  PROVE  ImageInv'
<1> SUFFICES ASSUME "imageGivenUp" \notin mishaps' PROVE ReleasesOwed'
  BY DEF ImageInv
<1>i. SignalsOwned /\ ReleasesOwed
  BY MishapsStay DEF SemaphoreInv, ImageInv
<1>0. TypeOK /\ queue \in Seq(Submission) /\ Pending \in Seq(Entry) /\ Len(Pending) \in Nat
  BY PendingType DEF SafetyInv, TypeOK
<1>q. \A k \in 1 .. Len(queue) : queue[k].frame \in Frames /\ queue[k].image \in Images
  <2>1. ASSUME NEW k \in 1 .. Len(queue) PROVE queue[k] \in Submission
    BY <1>0, ElementOfSeq
  <2>2. QED
    BY <2>1 DEF Submission
<1>f. frame \in Frames
  BY <1>0 DEF TypeOK
<1> DEFINE Keep == /\ UNCHANGED <<queue, shown, presentSem, acquired>>
                   /\ HoldsImage' => HoldsImage /\ UNCHANGED <<frame, image>>
<1>k. ASSUME Keep PROVE ReleasesOwed'
  BY <1>i, <1>k DEF ReleasesOwed, Owes
<1>1. CASE UNCHANGED vars
  BY <1>1, <1>k DEF vars, cpuVars, syncVars, deviceVars, HoldsImage
<1>2. CASE PollEvents \/ WaitFence \/ FenceTimeout \/ WaitIdle \/ Deinit
  BY <1>2, <1>k DEF PollEvents, WaitFence, FenceTimeout, WaitIdle, Deinit, HoldsImage,
                    syncVars, deviceVars
<1>3. CASE AcquireOutOfDate \/ AcquireTimeout
  BY <1>3, <1>k DEF AcquireOutOfDate, AcquireTimeout, AfterAcquire, HoldsImage, syncVars,
                    deviceVars
<1>4. CASE ResetFence \/ Record
  BY <1>4, <1>k DEF ResetFence, Record, HoldsImage, syncVars, deviceVars
<1>5. ASSUME NEW i \in Images, AcquireImage(i) PROVE ReleasesOwed'
  <2>1. /\ pc = "acquire" /\ image' = i
        /\ UNCHANGED <<presentSem, queue, frame, shown>>
    BY <1>5 DEF AcquireImage, deviceVars
  <2>2. \A f \in Frames : acquired'[f] = IF f = frame THEN i ELSE acquired[f]
    BY <1>0, <1>5 DEF AcquireImage, TypeOK
  <2>3. frame \notin InFlight /\ ~presentSem[frame]
    BY <1>0, <1>f, <1>i, <2>1, WaitingInFlight
       DEF SafetyInv, FenceSeen, FenceTellsInFlight, SignalsOwned, SignalledOrOwed
  <2>4. Owes(frame, image)'
    BY <1>f, <2>1, <2>2, <2>3 DEF Owes
  <2>5. \A k \in 1 .. Len(queue) : acquired'[queue[k].frame] = acquired[queue[k].frame]
    BY <1>q, <2>2, <2>3 DEF InFlight
  <2>6. QED
    BY <1>i, <2>1, <2>4, <2>5 DEF ReleasesOwed, Owes
<1>6. CASE RecreateSwapchain
  <2>1. /\ Len(queue') = 0 /\ ~HoldsImage'
    BY <1>6, EmptySeq DEF RecreateSwapchain, AfterDraw, SafetyInv, IdleToRecreate, HoldsImage
  <2>2. QED
    BY <1>i, <2>1 DEF ReleasesOwed
<1>7. CASE Submit
  <2> DEFINE s == [frame |-> frame, image |-> image,
                   swapchain |-> swapchain, drawing |-> FALSE]
  <2>1. s \in Submission /\ s.frame = frame /\ s.image = image /\ ~s.drawing
    BY <1>0, <1>7 DEF Submit, Submission, TypeOK
  <2>2. /\ pc = "submit" /\ ~HoldsImage' /\ queue' = Append(queue, s)
        /\ UNCHANGED <<shown, presentSem, acquired>>
    BY <1>7 DEF Submit, syncVars, HoldsImage
  <2> HIDE DEF s
  <2>3. /\ Len(queue') = Len(queue) + 1 /\ Len(queue) \in Nat
        /\ \A k \in 1 .. Len(queue) : queue'[k] = queue[k]
        /\ queue'[Len(queue) + 1] = s
    BY <1>0, <2>1, <2>2, AppendProperties, LenProperties
  <2>4. (presentSem'[frame] => image # shown') /\ acquired'[frame] \in {NoImage, image}
    BY <1>i, <2>2 DEF ReleasesOwed, HoldsImage, Owes
  <2>5. ASSUME NEW k \in 1 .. Len(queue')
        PROVE  IF queue'[k].drawing THEN queue'[k].image # shown'
               ELSE /\ presentSem'[queue'[k].frame] => queue'[k].image # shown'
                    /\ acquired'[queue'[k].frame] \in {NoImage, queue'[k].image}
    <3>1. CASE k = Len(queue) + 1
      BY <2>1, <2>2, <2>3, <2>4, <3>1
    <3>2. CASE k # Len(queue) + 1
      <4>1. k \in 1 .. Len(queue) /\ queue'[k] = queue[k]
        BY <2>3, <3>2
      <4>2. QED
        BY <1>i, <2>2, <4>1 DEF ReleasesOwed, Owes
    <3>3. QED
      BY <3>1, <3>2
  <2>6. QED
    BY <1>i, <2>2, <2>5 DEF ReleasesOwed, Owes
<1>8. CASE Present
  BY <1>8, <1>k DEF Present, AfterDraw, HoldsImage, syncVars
<1>9. ASSUME NEW k \in 1 .. Len(queue), BeginDrawing(k) PROVE ReleasesOwed'
  <2>1. /\ queue' = Drawn(queue, k) /\ UNCHANGED <<pc, frame, image, shown, acquired>>
        /\ ~queue[k].drawing /\ presentSem[queue[k].frame]
    BY <1>9 DEF BeginDrawing, Drawn, cpuVars
  <2>2. \A f \in Frames : presentSem'[f] => presentSem[f]
    BY <1>0, <1>9, <1>q DEF BeginDrawing, TypeOK
  <2>3. /\ Len(queue') = Len(queue)
        /\ \A j \in 1 .. Len(queue) : /\ queue'[j].frame = queue[j].frame
                                      /\ queue'[j].image = queue[j].image
                                      /\ queue'[j].drawing = (j = k \/ queue[j].drawing)
    <3>1. queue \in Seq(Submission) /\ queue' = Drawn(queue, k)
      BY <1>0, <2>1
    <3>2. QED
      BY <3>1, DrawSubmission
  <2>4. queue[k].image # shown
    BY <1>i, <2>1 DEF ReleasesOwed, Owes
  <2>5. HoldsImage' => Owes(frame, image)'
    BY <1>i, <1>f, <2>1, <2>2 DEF ReleasesOwed, Owes, HoldsImage
  <2>6. ASSUME NEW j \in 1 .. Len(queue)
        PROVE  IF queue'[j].drawing THEN queue'[j].image # shown'
               ELSE /\ presentSem'[queue'[j].frame] => queue'[j].image # shown'
                    /\ acquired'[queue'[j].frame] \in {NoImage, queue'[j].image}
    <3>1. CASE j = k
      BY <2>1, <2>3, <2>4, <3>1
    <3>2. CASE j # k
      BY <1>i, <1>q, <2>1, <2>2, <2>3, <3>2 DEF ReleasesOwed, Owes
    <3>3. QED
      BY <3>1, <3>2
  <2>7. QED
    BY <1>i, <2>3, <2>5, <2>6 DEF ReleasesOwed, Owes
<1>10. CASE Complete
  <2>1. /\ queue # <<>> /\ queue' = Tail(queue)
        /\ UNCHANGED <<pc, frame, image, shown, presentSem, acquired>>
    BY <1>10 DEF Complete, cpuVars
  <2>2. /\ Len(queue') = Len(queue) - 1 /\ Len(queue) \in Nat
        /\ \A k \in 1 .. Len(queue') : queue'[k] = queue[k + 1]
    BY <1>0, <2>1, HeadTailProperties, LenProperties
  <2>3. \A k \in 1 .. Len(queue') : k + 1 \in 1 .. Len(queue)
    BY <2>2
  <2>4. QED
    BY <1>i, <2>1, <2>2, <2>3 DEF ReleasesOwed, Owes, HoldsImage
<1>11. CASE Show
  <2> DEFINE n == Len(Pending) - Len(queue)
  <2>1. /\ UNCHANGED <<pc, frame, image, queue, presentSem, acquired>>
        /\ shown' = Head(presents).image
    BY <1>11 DEF Show, cpuVars
  <2>2. /\ LastOf(Pending, queue) /\ Len(queue) < Len(Pending) /\ Len(queue) \in Nat
        /\ Head(presents) = Head(Pending)
    BY <1>0, <1>11, PendingShown, CompletedFirst, LenProperties DEF PresentInv
  <2>3. shown' = Pending[1].image /\ 1 \in 1 .. Len(Pending)
    BY <1>0, <2>1, <2>2, LastOfShown
  <2>4. ASSUME NEW k \in 1 .. Len(queue) PROVE queue[k].image # shown'
    <3>1. n + k \in 1 .. Len(Pending) /\ n + k # 1
      BY <1>0, <2>2
    <3>2. queue[k].image = Pending[n + k].image
      BY <2>2 DEF LastOf
    <3> HIDE DEF n
    <3>3. QED
      BY <2>3, <3>1, <3>2 DEF PresentInv, ImagesDiffer
  <2>5. HoldsImage => image # shown'
    BY <2>3 DEF PresentInv
  <2>6. QED
    BY <1>i, <2>1, <2>4, <2>5 DEF ReleasesOwed, Owes, HoldsImage
<1>12. ASSUME NEW f \in Frames, Release(f) PROVE ReleasesOwed'
  <2>1. /\ UNCHANGED <<pc, frame, image, queue, shown>>
        /\ acquired[f] # NoImage /\ acquired[f] # shown
    BY <1>12 DEF Release, cpuVars, deviceVars
  <2>2. \A g \in Frames : /\ acquired'[g] = IF g = f THEN NoImage ELSE acquired[g]
                          /\ presentSem'[g] = IF g = f THEN TRUE ELSE presentSem[g]
    BY <1>0, <1>12 DEF Release, TypeOK
  <2>3. ASSUME NEW g \in Frames, NEW i \in Images, Owes(g, i)
        PROVE  (presentSem'[g] => i # shown') /\ acquired'[g] \in {NoImage, i}
    BY <2>1, <2>2, <2>3 DEF Owes
  <2>4. HoldsImage => image \in Images
    BY <1>0 DEF HoldsImage, TypeOK
  <2>5. HoldsImage' => Owes(frame, image)'
    BY <1>i, <1>f, <2>1, <2>3, <2>4 DEF ReleasesOwed, HoldsImage, Owes
  <2>6. \A k \in 1 .. Len(queue) :
          IF queue[k].drawing THEN queue[k].image # shown
          ELSE /\ presentSem'[queue[k].frame] => queue[k].image # shown'
               /\ acquired'[queue[k].frame] \in {NoImage, queue[k].image}
    BY <1>i, <1>q, <2>3 DEF ReleasesOwed
  <2>7. QED
    BY <1>i, <2>1, <2>5, <2>6 DEF ReleasesOwed, Owes
<1>13. QED
  BY <1>1, <1>2, <1>3, <1>4, <1>5, <1>6, <1>7, <1>8, <1>9, <1>10, <1>11, <1>12
     DEF Next, Thread, Gpu, Presentation, Ended

\* Until BeginFrame gives up an image it has acquired, the GPU draws into an image only
\* while the presentation engine does not read it.
THEOREM ImagesSafe == Spec => []ImageExclusiveUntilGivenUp
<1>1. ImageInv => ImageExclusiveUntilGivenUp
  BY DEF ImageInv, ReleasesOwed, ImageExclusiveUntilGivenUp, ImageExclusive
<1>2. SafetyInv /\ SemaphoreInv /\ [Next]_vars => SemaphoreInv'
  BY SemaphoreStep
<1>3. SafetyInv /\ SemaphoreInv /\ PresentInv /\ ImageInv /\ [Next]_vars => ImageInv'
  BY ImageStep
<1>4. QED
  BY <1>1, <1>2, <1>3, SemaphoreInit, ImageInit, PresentInvariant, PTL DEF Spec
=============================================================================
