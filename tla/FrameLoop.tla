------------------------------ MODULE FrameLoop ------------------------------
(***************************************************************************)
(* The frame loop of the engine: one thread that runs Engine::run,         *)
(* Renderer::Draw and Device::BeginFrame/Present, the graphics queue that  *)
(* executes what it submits, and the presentation engine that hands out    *)
(* and displays swapchain images.                                          *)
(*                                                                         *)
(* FRAME_OVERLAP RenderFrames (a fence renderFen, semaphores presentSem    *)
(* and renderSem, a command buffer and a set of mapped buffers each) are   *)
(* used round robin.  `frame' is GetCurrentFrameNumber(), the only thing   *)
(* the code reads of m_frameNumber.                                        *)
(***************************************************************************)
EXTENDS Naturals, Sequences

CONSTANTS
  FRAME_OVERLAP,  \* frames the CPU may have in flight (Device.h: 2)
  Images,         \* the images of a swapchain
  NoImage,
  Disturbances    \* what the environment may do beside the smooth path

ASSUME FrameOverlapAssumption == FRAME_OVERLAP \in Nat \ {0}
ASSUME ImagesAssumption == Images # {} /\ NoImage \notin Images
ASSUME DisturbancesAssumption ==
  Disturbances \subseteq
    {"RESIZE",        \* a window event sets m_dirtySwapchain
     "SUBOPTIMAL",    \* acquire returns VK_SUBOPTIMAL_KHR
     "OUT_OF_DATE",   \* acquire returns VK_ERROR_OUT_OF_DATE_KHR
     "TIMEOUT"}       \* a wait of one second ends before what it waits for

VARIABLES
  pc,          \* where the thread stands
  quit,        \* bQuit of Engine::run
  dirty,       \* m_dirtySwapchain
  frame,       \* m_frameNumber % FRAME_OVERLAP
  image,       \* m_currentSwapchainImage
  swapchain,   \* identity of the live swapchain, flipped when it is replaced
  renderFen,   \* per frame: is the fence signalled
  presentSem,  \* per frame: is the image-available semaphore signalled
  renderSem,   \* per frame: is the render-finished semaphore signalled
  acquired,    \* per frame: the image whose release will signal presentSem
  queue,       \* submissions the graphics queue has not completed
  presents,    \* presents whose wait for renderSem has not been executed
  shown,       \* the image the presentation engine reads
  mishaps      \* history: the misuses of semaphores there have been

cpuVars == <<pc, quit, dirty, frame, image, swapchain>>
syncVars == <<renderFen, presentSem, renderSem, acquired, mishaps>>
deviceVars == <<queue, presents, shown>>
vars == <<cpuVars, syncVars, deviceVars>>

Frames == 0 .. FRAME_OVERLAP - 1

\* Fault: the frame number is not advanced.
NextFrameStuck == frame

\* Fault: the frame number is used without the modulo.
NextFrameUnwrapped == frame + 1

\* GetCurrentFrameNumber() after m_frameNumber++.
NextFrame == (frame + 1) % FRAME_OVERLAP

Places == {"events", "waitFence", "acquire", "waitIdle", "recreate", "resetFence",
           "record", "submit", "present", "deinit", "stopped", "aborted"}

Submission == [frame : Frames, image : Images, swapchain : {0, 1}, drawing : BOOLEAN]

\* BeginFrame gave up an image it had acquired, whose presentSem stays signalled
\* with nothing to wait for it; a renderSem was signalled that was signalled still.
Mishaps == {"imageGivenUp", "signalTwice"}

\* The frames whose command buffer and mapped buffers the GPU may read: the
\* color-attachment wait stage lets it read them before presentSem is signalled.
InFlight == {queue[k].frame : k \in 1 .. Len(queue)}

\* The images with a present the presentation engine has not taken yet.
Presented == {presents[k].image : k \in 1 .. Len(presents)}

TypeOK ==
  /\ pc \in Places
  /\ quit \in BOOLEAN
  /\ dirty \in BOOLEAN
  /\ frame \in Frames
  /\ image \in Images \cup {NoImage}
  /\ swapchain \in {0, 1}
  /\ renderFen \in [Frames -> BOOLEAN]
  /\ presentSem \in [Frames -> BOOLEAN]
  /\ renderSem \in [Frames -> BOOLEAN]
  /\ acquired \in [Frames -> Images \cup {NoImage}]
  /\ queue \in Seq(Submission)
  /\ presents \in Seq([frame : Frames, image : Images])
  /\ shown \in Images \cup {NoImage}
  /\ mishaps \subseteq Mishaps
  /\ pc \in {"resetFence", "record", "submit", "present"} => image \in Images

\* Device::Init and Renderer::Init have run: fences are created signalled.
Init ==
  /\ pc = "events"
  /\ quit = FALSE
  /\ dirty = FALSE
  /\ frame = 0
  /\ image = NoImage
  /\ swapchain = 0
  /\ renderFen = [f \in Frames |-> TRUE]
  /\ presentSem = [f \in Frames |-> FALSE]
  /\ renderSem = [f \in Frames |-> FALSE]
  /\ acquired = [f \in Frames |-> NoImage]
  /\ queue = <<>>
  /\ presents = <<>>
  /\ shown = NoImage
  /\ mishaps = {}

-----------------------------------------------------------------------------
(* The thread *)

\* Where Engine::run goes on after a Draw: its loop ends once bQuit is set.
AfterDraw == IF quit THEN "deinit" ELSE "events"

\* The event loop of Engine::run: SDL_QUIT sets bQuit, a resize or minimise
\* event sets m_dirtySwapchain, and Draw is called whatever was polled.
PollEvents ==
  /\ pc = "events"
  /\ quit' \in BOOLEAN
  /\ dirty' \in IF "RESIZE" \in Disturbances THEN {dirty, TRUE} ELSE {dirty}
  /\ pc' = "waitFence"
  /\ UNCHANGED <<frame, image, swapchain, syncVars, deviceVars>>

\* Fault: BeginFrame does not wait for the fence of the frame.
WaitFenceSkipped ==
  /\ pc = "waitFence"
  /\ pc' = "acquire"
  /\ UNCHANGED <<quit, dirty, frame, image, swapchain, syncVars, deviceVars>>

\* Fault: the fence is reset before the returns of BeginFrame.
WaitFenceResets ==
  /\ pc = "waitFence"
  /\ renderFen[frame]
  /\ renderFen' = [renderFen EXCEPT ![frame] = FALSE]
  /\ pc' = "acquire"
  /\ UNCHANGED <<quit, dirty, frame, image, swapchain, presentSem, renderSem, acquired,
                 mishaps, deviceVars>>

WaitFence ==
  /\ pc = "waitFence"
  /\ renderFen[frame]
  /\ pc' = "acquire"
  /\ UNCHANGED <<quit, dirty, frame, image, swapchain, syncVars, deviceVars>>

\* VK_CHECK takes the VK_TIMEOUT of the wait for an error and aborts.
FenceTimeout ==
  /\ "TIMEOUT" \in Disturbances
  /\ pc = "waitFence"
  /\ ~renderFen[frame]
  /\ pc' = "aborted"
  /\ UNCHANGED <<quit, dirty, frame, image, swapchain, syncVars, deviceVars>>

\* An image the presentation engine may hand out: one it does not use, or the
\* one on display when a queued present is about to replace it.
Acquirable(i) ==
  /\ i \notin Presented
  /\ i = shown => presents # <<>>

\* The return of BeginFrame through recreateSwapchain, or its way on.
AfterAcquire(recreate) ==
  IF recreate THEN dirty' = FALSE /\ pc' = "waitIdle"
              ELSE dirty' = dirty /\ pc' = "resetFence"

GivingUp(recreate) ==
  mishaps' = IF recreate THEN mishaps \cup {"imageGivenUp"} ELSE mishaps

\* Fault: the acquire signals the semaphore of another frame.
AcquireOnNextSemaphore(i) ==
  /\ pc = "acquire"
  /\ Acquirable(i)
  /\ image' = i
  /\ acquired' = [acquired EXCEPT ![NextFrame] = i]
  /\ AfterAcquire(dirty)
  /\ GivingUp(dirty)
  /\ UNCHANGED <<quit, frame, swapchain, renderFen, presentSem, renderSem, deviceVars>>

\* vkAcquireNextImageKHR gives image i.  The semaphore is signalled when the
\* presentation engine has let go of it, which may be later.
AcquireImage(i) ==
  /\ pc = "acquire"
  /\ Acquirable(i)
  /\ image' = i
  /\ acquired' = [acquired EXCEPT ![frame] = i]
  /\ \E suboptimal \in {FALSE} \cup {"SUBOPTIMAL" \in Disturbances} :
       LET recreate == suboptimal \/ dirty
       IN  AfterAcquire(recreate) /\ GivingUp(recreate)
  /\ UNCHANGED <<quit, frame, swapchain, renderFen, presentSem, renderSem, deviceVars>>

AcquireOutOfDate ==
  /\ "OUT_OF_DATE" \in Disturbances
  /\ pc = "acquire"
  /\ AfterAcquire(TRUE)
  /\ UNCHANGED <<quit, frame, image, swapchain, syncVars, deviceVars>>

\* The wait for an image times out: the dirty flag is looked at first, any other
\* result that is not VK_SUCCESS is thrown, and nothing catches it.
AcquireTimeout ==
  /\ "TIMEOUT" \in Disturbances
  /\ pc = "acquire"
  /\ IF dirty THEN AfterAcquire(TRUE) ELSE dirty' = dirty /\ pc' = "aborted"
  /\ UNCHANGED <<quit, frame, image, swapchain, syncVars, deviceVars>>

\* vkDeviceWaitIdle returns when the queue has executed all it was given, the
\* waits of the presents included.
Idle == queue = <<>> /\ presents = <<>>

\* Fault: the swapchain is replaced without vkDeviceWaitIdle.
WaitIdleSkipped ==
  /\ pc = "waitIdle"
  /\ pc' = "recreate"
  /\ UNCHANGED <<quit, dirty, frame, image, swapchain, syncVars, deviceVars>>

WaitIdle ==
  /\ pc = "waitIdle"
  /\ Idle
  /\ pc' = "recreate"
  /\ UNCHANGED <<quit, dirty, frame, image, swapchain, syncVars, deviceVars>>

\* Fault: a frame that was given up counts as drawn.
RecreateAdvancesFrame ==
  /\ pc = "recreate"
  /\ swapchain' = 1 - swapchain
  /\ shown' = NoImage
  /\ \E delivered \in BOOLEAN :
       presentSem' = [f \in Frames |->
                        presentSem[f] \/ (delivered /\ acquired[f] # NoImage)]
  /\ acquired' = [f \in Frames |-> NoImage]
  /\ pc' = AfterDraw
  /\ frame' = NextFrame
  /\ UNCHANGED <<quit, dirty, image, renderFen, renderSem, mishaps, queue, presents>>

\* Fault: BeginFrame goes on to draw after recreateSwapchain.
RecreateThenDraws ==
  /\ pc = "recreate"
  /\ swapchain' = 1 - swapchain
  /\ shown' = NoImage
  /\ \E delivered \in BOOLEAN :
       presentSem' = [f \in Frames |->
                        presentSem[f] \/ (delivered /\ acquired[f] # NoImage)]
  /\ acquired' = [f \in Frames |-> NoImage]
  /\ pc' = "resetFence"
  /\ UNCHANGED <<quit, dirty, frame, image, renderFen, renderSem, mishaps, queue,
                 presents>>

\* destroySwapchain, createSwapchain, recreateRenderTargetImages and
\* initImguiRenderpass; BeginFrame then returns false and Draw returns.  The
\* frame number does not advance.  A release the old swapchain still owed to a
\* semaphore may or may not be delivered.
RecreateSwapchain ==
  /\ pc = "recreate"
  /\ swapchain' = 1 - swapchain
  /\ shown' = NoImage
  /\ \E delivered \in BOOLEAN :
       presentSem' = [f \in Frames |->
                        presentSem[f] \/ (delivered /\ acquired[f] # NoImage)]
  /\ acquired' = [f \in Frames |-> NoImage]
  /\ pc' = AfterDraw
  /\ UNCHANGED <<quit, dirty, frame, image, renderFen, renderSem, mishaps, queue,
                 presents>>

ResetFence ==
  /\ pc = "resetFence"
  /\ renderFen' = [renderFen EXCEPT ![frame] = FALSE]
  /\ pc' = "record"
  /\ UNCHANGED <<quit, dirty, frame, image, swapchain, presentSem, renderSem, acquired,
                 mishaps, deviceVars>>

\* vkResetCommandBuffer, then Draw records the commands and drawObjects fills
\* the mapped buffers: while pc = "record" the CPU writes the data of `frame'.
Record ==
  /\ pc = "record"
  /\ pc' = "submit"
  /\ UNCHANGED <<quit, dirty, frame, image, swapchain, syncVars, deviceVars>>

Submit ==
  /\ pc = "submit"
  /\ queue' = Append(queue, [frame |-> frame, image |-> image,
                             swapchain |-> swapchain, drawing |-> FALSE])
  /\ pc' = "present"
  /\ UNCHANGED <<quit, dirty, frame, image, swapchain, syncVars, presents, shown>>

\* Fault: m_frameNumber++ comes before the present.
PresentOfNextFrame ==
  /\ pc = "present"
  /\ presents' = Append(presents, [frame |-> NextFrame, image |-> image])
  /\ frame' = NextFrame
  /\ pc' = AfterDraw
  /\ UNCHANGED <<quit, dirty, image, swapchain, syncVars, queue, shown>>

Present ==
  /\ pc = "present"
  /\ presents' = Append(presents, [frame |-> frame, image |-> image])
  /\ frame' = NextFrame
  /\ pc' = AfterDraw
  /\ UNCHANGED <<quit, dirty, image, swapchain, syncVars, queue, shown>>

\* Engine::Deinit: Renderer::Deinit waits for the device, then destroys the
\* descriptor pools and layouts.
Deinit ==
  /\ pc = "deinit"
  /\ Idle
  /\ pc' = "stopped"
  /\ UNCHANGED <<quit, dirty, frame, image, swapchain, syncVars, deviceVars>>

-----------------------------------------------------------------------------
(* The graphics queue *)

\* The color output of submission k begins once its wait for presentSem, which
\* unsignals the semaphore, is satisfied.
BeginDrawing(k) ==
  /\ k \in 1 .. Len(queue)
  /\ ~queue[k].drawing
  /\ presentSem[queue[k].frame]
  /\ queue' = [queue EXCEPT ![k].drawing = TRUE]
  /\ presentSem' = [presentSem EXCEPT ![queue[k].frame] = FALSE]
  /\ UNCHANGED <<cpuVars, renderFen, renderSem, acquired, mishaps, presents, shown>>

\* Submissions complete in the order they were submitted.
Complete ==
  /\ queue # <<>>
  /\ Head(queue).drawing
  /\ queue' = Tail(queue)
  /\ renderSem' = [renderSem EXCEPT ![Head(queue).frame] = TRUE]
  /\ renderFen' = [renderFen EXCEPT ![Head(queue).frame] = TRUE]
  /\ mishaps' = IF renderSem[Head(queue).frame] THEN mishaps \cup {"signalTwice"}
                                                ELSE mishaps
  /\ UNCHANGED <<cpuVars, presentSem, acquired, presents, shown>>

-----------------------------------------------------------------------------
(* The presentation engine, in VK_PRESENT_MODE_FIFO_KHR *)

\* The oldest present has waited for its semaphore: its image replaces the one
\* on display.
Show ==
  /\ presents # <<>>
  /\ renderSem[Head(presents).frame]
  /\ renderSem' = [renderSem EXCEPT ![Head(presents).frame] = FALSE]
  /\ shown' = Head(presents).image
  /\ presents' = Tail(presents)
  /\ UNCHANGED <<cpuVars, renderFen, presentSem, acquired, mishaps, queue>>

\* The image acquired for frame f is no longer read.
Release(f) ==
  /\ acquired[f] # NoImage
  /\ acquired[f] # shown
  /\ acquired' = [acquired EXCEPT ![f] = NoImage]
  /\ presentSem' = [presentSem EXCEPT ![f] = TRUE]
  /\ UNCHANGED <<cpuVars, renderFen, renderSem, mishaps, deviceVars>>

-----------------------------------------------------------------------------
Thread ==
  \/ PollEvents
  \/ WaitFence
  \/ FenceTimeout
  \/ \E i \in Images : AcquireImage(i)
  \/ AcquireOutOfDate
  \/ AcquireTimeout
  \/ WaitIdle
  \/ RecreateSwapchain
  \/ ResetFence
  \/ Record
  \/ Submit
  \/ Present
  \/ Deinit

Gpu ==
  \/ \E k \in 1 .. Len(queue) : BeginDrawing(k)
  \/ Complete

Presentation ==
  \/ Show
  \/ \E f \in Frames : Release(f)

\* The process has ended.
Ended == pc \in {"stopped", "aborted"} /\ UNCHANGED vars

Next == Thread \/ Gpu \/ Presentation \/ Ended

Spec == Init /\ [][Next]_vars

\* The thread is scheduled, the device executes what it can and a display
\* refreshes: no step that stays possible is put off for ever.
Fairness == WF_vars(Thread) /\ WF_vars(Gpu) /\ WF_vars(Presentation)

FairSpec == Spec /\ Fairness

-----------------------------------------------------------------------------
(* Correctness *)

\* The CPU resets and fills the command buffer and the mapped buffers of a frame
\* only when no submission the GPU may still execute reads them: the guarantee
\* BeginFrame's wait for renderFen has to give to drawObjects.
FrameDataExclusive ==
  pc \in {"resetFence", "record", "submit"} => frame \notin InFlight

\* A fence tells the truth and never waits for ever: it is unsignalled exactly
\* while its frame is in flight or is being recorded between vkResetFences and
\* vkQueueSubmit.  A return of BeginFrame that left a fence reset would hang the
\* frame that waits for it next.
FenceTellsInFlight ==
  \A f \in Frames :
    ~renderFen[f] <=> (f \in InFlight \/ (f = frame /\ pc \in {"record", "submit"}))

\* What recreateSwapchain and Deinit destroy is not in use: every submission the
\* GPU may still execute draws into images of the live swapchain, and none is
\* left when the process ends.
ResourcesOutliveUse ==
  /\ \A k \in 1 .. Len(queue) : queue[k].swapchain = swapchain
  /\ pc = "stopped" => queue = <<>>

\* The GPU never draws into the image on display: what the wait for presentSem
\* is there for, and why the barrier in Draw has no source stage.
ImageExclusive ==
  \A k \in 1 .. Len(queue) : queue[k].drawing => queue[k].image # shown

\* The same as far as the code has it: until BeginFrame gives up an image it has
\* acquired, whatever else happens.
ImageExclusiveUntilGivenUp == "imageGivenUp" \in mishaps \/ ImageExclusive

\* Until then a semaphore given to vkAcquireNextImageKHR is unsignalled and no
\* earlier acquire is still to signal it.
AcquireSemaphoreFresh ==
  pc = "acquire" =>
    \/ "imageGivenUp" \in mishaps
    \/ ~presentSem[frame] /\ acquired[frame] = NoImage

\* A submission signals its renderSem only after the present that waited for the
\* signal before has taken it: two frames never share a pending signal.
RenderSemaphoreFresh ==
  queue # <<>> /\ Head(queue).drawing => ~renderSem[Head(queue).frame]

\* The frames submitted whose images have not come to the display.
Undisplayed == Len(presents) + (IF pc = "present" THEN 1 ELSE 0)

\* The same as far as the code has it: as long as no more frames wait for the
\* display than there are semaphores, however many images a swapchain has.
SignalsInRound == Undisplayed <= FRAME_OVERLAP => RenderSemaphoreFresh

\* Nothing on the device waits for a signal that nobody will give: the image of a
\* submission that waits has been released or its release is still owed, and a
\* present has its signal or its submission is still to complete, unless two
\* signals of a renderSem have become one.
EveryWaitAnswered ==
  /\ \A k \in 1 .. Len(queue) :
       queue[k].drawing \/ presentSem[queue[k].frame] \/ acquired[queue[k].frame] # NoImage
  /\ \/ "signalTwice" \in mishaps
     \/ \A k \in 1 .. Len(presents) :
          renderSem[presents[k].frame] \/ presents[k].frame \in InFlight

\* Every image presented comes to the display: neither the queue nor the
\* presentation engine waits for a signal that never comes.
EveryPresentShown == \A i \in Images : i \in Presented ~> shown = i

\* Once Engine::run has seen SDL_QUIT the engine shuts down: no fence, image or
\* idle wait on the way blocks for ever.
QuitStops == quit ~> pc = "stopped"

\* The same when waits may time out, with any number of images: the engine shuts
\* down or the process aborts, unless two signals of a renderSem have become one,
\* which leaves a present, and vkDeviceWaitIdle with it, waiting for ever.
QuitEnds == quit ~> (pc \in {"stopped", "aborted"} \/ "signalTwice" \in mishaps)

-----------------------------------------------------------------------------
(* The loop implements FramesInFlight: a frame is being filled from the reset *)
(* of its fence to its submission, and m_frameNumber++ comes in Present.      *)

Turn == IF pc = "present" THEN NextFrame ELSE frame

Filling == pc \in {"record", "submit"}

Reading == [k \in 1 .. Len(queue) |-> queue[k].frame]

Abstract == INSTANCE FramesInFlight
              WITH N <- FRAME_OVERLAP, turn <- Turn, filling <- Filling,
                   reading <- Reading

\* The frame loop, its device and its display implement FramesInFlight, with its
\* promise that every frame recorded is executed and its data given back.
ImplementsFramesInFlight == Abstract!FairSpec
=============================================================================
