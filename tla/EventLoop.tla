------------------------------ MODULE EventLoop -------------------------------
(***************************************************************************)
(* The events of the window and the sizes derived from it: SDL's event     *)
(* queue, Engine::run that polls it, Window::Update, and the part of       *)
(* Device::BeginFrame that replaces the swapchain, with the loop that      *)
(* waits for a minimised window.  What a frame does to the GPU is in       *)
(* FrameLoop.                                                              *)
(*                                                                         *)
(* The window changes, and its events are queued, while SDL pumps the      *)
(* messages of the window system: in SDL_PollEvent and SDL_WaitEvent, when *)
(* they find the queue empty.  The pump of SDL_PollEvent puts an           *)
(* SDL_POLLSENTINEL behind what it queued, which ends the poll cycle.      *)
(***************************************************************************)
EXTENDS Naturals, Sequences

CONSTANTS
  Sizes,        \* the sizes a window may have
  InitialSize,  \* the size Engine::Init asks for
  MaxEvents,    \* bound: events in SDL's queue
  MaxMinimises  \* bound: how often the window is minimised

ASSUME SizesAssumption == InitialSize \in Sizes
ASSUME BoundsAssumption == MaxEvents \in Nat /\ MaxMinimises \in Nat

VARIABLES
  pc,            \* where the thread stands
  bQuit,
  dirty,         \* m_dirtySwapchain
  minimizedFlag, \* the local variable minimized of recreateSwapchain
  events,        \* SDL's queue
  size,          \* the size of the window and of its surface
  minimised,     \* SDL_WINDOW_MINIMIZED: the surface has no extent
  minimises,     \* how often it was minimised
  props,         \* m_windowData.props: the size the engine renders at
  swapExtent,    \* the size of the swapchain images
  targetExtent,  \* the size of the render targets and framebuffers
  dropped        \* history: the kinds of events recreateSwapchain threw away

vars == <<pc, bQuit, dirty, minimizedFlag, events, size, minimised, minimises, props,
          swapExtent, targetExtent, dropped>>
windowVars == <<size, minimised, minimises>>
extentVars == <<props, swapExtent, targetExtent>>

\* "OTHER": keys (DrawList has the camera), mouse and every other event.
Kinds == {"QUIT", "RESIZED", "MINIMIZED", "RESTORED", "OTHER", "SENTINEL"}

TypeOK ==
  /\ pc \in {"poll", "pump", "beginFrame", "flags", "reread", "waitEvent", "waitPump",
             "recreate", "draw", "ended", "aborted"}
  /\ bQuit \in BOOLEAN
  /\ dirty \in BOOLEAN
  /\ minimizedFlag \in BOOLEAN
  /\ events \in Seq(Kinds)
  /\ size \in Sizes
  /\ minimised \in BOOLEAN
  /\ minimises \in 0 .. MaxMinimises
  /\ props \in Sizes
  /\ swapExtent \in Sizes
  /\ targetExtent \in Sizes
  /\ dropped \subseteq Kinds

\* Engine::Init has run.
Init ==
  /\ pc = "poll"
  /\ bQuit = FALSE
  /\ dirty = FALSE
  /\ minimizedFlag = FALSE
  /\ events = <<>>
  /\ size = InitialSize
  /\ minimised = FALSE
  /\ minimises = 0
  /\ props = InitialSize
  /\ swapExtent = InitialSize
  /\ targetExtent = InitialSize
  /\ dropped = {}

-----------------------------------------------------------------------------
(* The window system, while SDL pumps its messages *)

Pumping == pc \in {"pump", "waitPump"}

Queued(kinds) ==
  /\ Pumping
  /\ Len(events) + Len(kinds) <= MaxEvents
  /\ events' = events \o kinds
  /\ UNCHANGED <<pc, bQuit, dirty, minimizedFlag, extentVars, dropped>>

RequestQuit == Queued(<<"QUIT">>) /\ UNCHANGED windowVars

OtherInput == Queued(<<"OTHER">>) /\ UNCHANGED windowVars

Resize(s) ==
  /\ ~minimised
  /\ s # size
  /\ Queued(<<"RESIZED">>)
  /\ size' = s
  /\ UNCHANGED <<minimised, minimises>>

Minimise ==
  /\ ~minimised
  /\ minimises < MaxMinimises
  /\ Queued(<<"MINIMIZED">>)
  /\ minimised' = TRUE
  /\ minimises' = minimises + 1
  /\ UNCHANGED size

\* A window may be restored at another size than it had.
Restore(s) ==
  /\ minimised
  /\ Queued(IF s = size THEN <<"RESTORED">> ELSE <<"RESTORED", "RESIZED">>)
  /\ minimised' = FALSE
  /\ size' = s
  /\ UNCHANGED minimises

\* SDL_PollEvent and SDL_WaitEvent pump when there is nothing in the queue.
StartPump ==
  /\ pc \in {"poll", "waitEvent"}
  /\ events = <<>>
  /\ pc' = IF pc = "poll" THEN "pump" ELSE "waitPump"
  /\ UNCHANGED <<bQuit, dirty, minimizedFlag, events, windowVars, extentVars, dropped>>

EndPump ==
  /\ pc = "pump"
  /\ events' = Append(events, "SENTINEL")
  /\ pc' = "poll"
  /\ UNCHANGED <<bQuit, dirty, minimizedFlag, windowVars, extentVars, dropped>>

\* SDL_WaitEvent passes over a sentinel left by a poll that was broken off.
SkipSentinel ==
  /\ pc = "waitEvent"
  /\ events # <<>> /\ Head(events) = "SENTINEL"
  /\ events' = Tail(events)
  /\ UNCHANGED <<pc, bQuit, dirty, minimizedFlag, windowVars, extentVars, dropped>>

-----------------------------------------------------------------------------
(* Engine::run *)

\* The kinds of events for which e.window.event reads RESIZED or MINIMIZED: the
\* type of the event is not compared, so that a byte of an event which is not a
\* window event may be taken for one.
MayBeResize == {"RESIZED", "MINIMIZED", "QUIT", "OTHER"}
MustBeResize == {"RESIZED", "MINIMIZED"}

\* Fault: Window::Update is left out.
HandleResizeUpdatesNothing ==
  /\ dirty' = TRUE
  /\ props' = props
  /\ pc' = "beginFrame"

\* Fault: a minimised window counts as one of size 0.
HandleResizeOfSurface ==
  /\ dirty' = TRUE
  /\ props' = IF minimised THEN 0 ELSE size
  /\ pc' = "beginFrame"

\* What is taken for a resize ends the polling: m_dirtySwapchain, Window::Update,
\* and the break.
HandleResize ==
  /\ dirty' = TRUE
  /\ props' = size
  /\ pc' = "beginFrame"

\* Fault: an event that is not SDL_QUIT takes bQuit back.
PollEventResetsQuit ==
  /\ pc = "poll"
  /\ events # <<>> /\ Head(events) # "SENTINEL"
  /\ events' = Tail(events)
  /\ bQuit' = (Head(events) = "QUIT")
  /\ \/ /\ Head(events) \in MayBeResize
        /\ HandleResize
     \/ /\ Head(events) \notin MustBeResize
        /\ UNCHANGED <<pc, dirty, props>>
  /\ UNCHANGED <<minimizedFlag, windowVars, swapExtent, targetExtent, dropped>>

PollEvent ==
  /\ pc = "poll"
  /\ events # <<>> /\ Head(events) # "SENTINEL"
  /\ events' = Tail(events)
  /\ bQuit' = (bQuit \/ Head(events) = "QUIT")
  /\ \/ /\ Head(events) \in MayBeResize
        /\ HandleResize
     \/ /\ Head(events) \notin MustBeResize
        /\ UNCHANGED <<pc, dirty, props>>
  /\ UNCHANGED <<minimizedFlag, windowVars, swapExtent, targetExtent, dropped>>

\* SDL_PollEvent returns 0: the poll cycle has come to its end.
PollNothing ==
  /\ pc = "poll"
  /\ events # <<>> /\ Head(events) = "SENTINEL"
  /\ events' = Tail(events)
  /\ pc' = "beginFrame"
  /\ UNCHANGED <<bQuit, dirty, minimizedFlag, windowVars, extentVars, dropped>>

AfterDraw == IF bQuit THEN "ended" ELSE "poll"

\* vkAcquireNextImageKHR finds the swapchain out of date when the surface has
\* another extent by now.
OutOfDate == minimised \/ swapExtent # size

BeginFrame ==
  /\ pc = "beginFrame"
  /\ IF dirty \/ OutOfDate THEN dirty' = FALSE /\ pc' = "flags"
                           ELSE dirty' = dirty /\ pc' = "draw"
  /\ UNCHANGED <<bQuit, minimizedFlag, events, windowVars, extentVars, dropped>>

\* Draw records at the size of the window, submits and presents.
Draw ==
  /\ pc = "draw"
  /\ pc' = AfterDraw
  /\ UNCHANGED <<bQuit, dirty, minimizedFlag, events, windowVars, extentVars, dropped>>

-----------------------------------------------------------------------------
(* recreateSwapchain *)

\* Fault: nothing waits for a minimised window.
CheckFlagsSkipped ==
  /\ pc = "flags"
  /\ minimizedFlag' = minimised
  /\ pc' = "recreate"
  /\ UNCHANGED <<bQuit, dirty, events, windowVars, extentVars, dropped>>

CheckFlags ==
  /\ pc = "flags"
  /\ minimizedFlag' = minimised
  /\ pc' = IF minimised THEN "reread" ELSE "recreate"
  /\ UNCHANGED <<bQuit, dirty, events, windowVars, extentVars, dropped>>

\* The loop looks at the flags first and waits for an event afterwards.
RereadFlags ==
  /\ pc = "reread"
  /\ minimizedFlag' = minimised
  /\ pc' = "waitEvent"
  /\ UNCHANGED <<bQuit, dirty, events, windowVars, extentVars, dropped>>

\* SDL_WaitEvent takes an event off the queue, and nothing looks at it.
WaitEvent ==
  /\ pc \in {"waitEvent", "waitPump"}
  /\ events # <<>> /\ Head(events) # "SENTINEL"
  /\ events' = Tail(events)
  /\ dropped' = dropped \cup {Head(events)}
  /\ pc' = IF minimizedFlag THEN "reread" ELSE "recreate"
  /\ UNCHANGED <<bQuit, dirty, minimizedFlag, windowVars, extentVars>>

\* Fault: the render targets and framebuffers are kept.
RecreateKeepsTargets ==
  /\ pc = "recreate"
  /\ IF minimised
     THEN pc' = "aborted" /\ UNCHANGED <<swapExtent, targetExtent>>
     ELSE pc' = AfterDraw /\ swapExtent' = size /\ targetExtent' = targetExtent
  /\ UNCHANGED <<bQuit, dirty, minimizedFlag, events, windowVars, props, dropped>>

\* The swapchain images get the extent of the surface, the render targets and
\* framebuffers the size in m_windowData.  Without an extent there is no
\* swapchain to take the value() of.
RecreateSwapchain ==
  /\ pc = "recreate"
  /\ IF minimised
     THEN pc' = "aborted" /\ UNCHANGED <<swapExtent, targetExtent>>
     ELSE pc' = AfterDraw /\ swapExtent' = size /\ targetExtent' = props
  /\ UNCHANGED <<bQuit, dirty, minimizedFlag, events, windowVars, props, dropped>>

-----------------------------------------------------------------------------
Thread ==
  \/ StartPump
  \/ EndPump
  \/ SkipSentinel
  \/ PollEvent
  \/ PollNothing
  \/ BeginFrame
  \/ Draw
  \/ CheckFlags
  \/ RereadFlags
  \/ WaitEvent
  \/ RecreateSwapchain

User ==
  \/ RequestQuit
  \/ OtherInput
  \/ \E s \in Sizes : Resize(s)
  \/ Minimise
  \/ \E s \in Sizes : Restore(s)

Ended == pc \in {"ended", "aborted"} /\ UNCHANGED vars

Next == Thread \/ User \/ Ended

Spec == Init /\ [][Next]_vars

\* The thread is scheduled.  Nothing is asked of the user.
FairSpec == Spec /\ WF_vars(Thread)

-----------------------------------------------------------------------------
(* Correctness *)

\* A frame is drawn at the size of the images it is drawn into, whatever happens
\* to the window between and after the events that tell of it: the render area is
\* that of the render targets and framebuffers, and that of the swapchain unless
\* the loop for a minimised window threw a resize away.
DrawsFit ==
  pc = "draw" =>
    /\ targetExtent = props
    /\ "RESIZED" \notin dropped => swapExtent = props

\* A swapchain is only built for a surface that has an extent: what the loop in
\* recreateSwapchain waits for, and what value() asserts.
SwapchainBuilds == pc = "recreate" => ~minimised

\* The same as far as the code has it: a window without an extent gets by that loop
\* only when it was restored and minimised again while the loop waited for an event
\* with the flags it had read before.
MinimiseWaitedOut == pc = "recreate" /\ minimised => minimises > 1 /\ dropped # {}

\* A resize is acted on: the images and the render targets get the size of the
\* window, unless the loop ends, or the window is minimised: once it has been,
\* recreateSwapchain may throw the resize away, or wait for an event for ever.
ResizeHonoured ==
  size # targetExtent
    ~> \/ size = targetExtent /\ size = swapExtent
       \/ minimises > 0 \/ pc \in {"ended", "aborted"}

\* A queued SDL_QUIT ends the loop, also when resizes keep breaking off the
\* polling, unless the window is minimised or the event was thrown away.
QuitHonoured ==
  (\E k \in 1 .. Len(events) : events[k] = "QUIT")
    ~> (pc \in {"ended", "aborted"} \/ minimised \/ "QUIT" \in dropped)
=============================================================================
