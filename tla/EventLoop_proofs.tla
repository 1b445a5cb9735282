--------------------------- MODULE EventLoop_proofs ---------------------------
(***************************************************************************)
(* Proofs about the event loop, for any window sizes, any length of SDL's  *)
(* queue and any number of times the window is minimised: every frame is   *)
(* drawn at the size of what it is drawn into, and a swapchain is built    *)
(* without an extent only when a window is minimised again during the wait *)
(* for it.                                                                 *)
(***************************************************************************)
EXTENDS EventLoop, SequenceTheorems, TLAPS

-----------------------------------------------------------------------------
(* Queues of events *)

Contains(q, kind) == \E k \in 1 .. Len(q) : q[k] = kind

\* A sentinel is behind everything else.
SentinelLast(q) == \A k \in 1 .. Len(q) : q[k] = "SENTINEL" => k = Len(q)

LEMMA QueuedContains ==
  ASSUME NEW p \in Seq(Kinds), NEW q \in Seq(Kinds), NEW kind
  PROVE  /\ p \o q \in Seq(Kinds)
         /\ Contains(p \o q, kind) <=> Contains(p, kind) \/ Contains(q, kind)
<1>1. /\ p \o q \in Seq(Kinds)
      /\ Len(p \o q) = Len(p) + Len(q)
      /\ \A k \in 1 .. Len(p) + Len(q) :
           (p \o q)[k] = IF k <= Len(p) THEN p[k] ELSE q[k - Len(p)]
  BY ConcatProperties
<1>2. Len(p) \in Nat /\ Len(q) \in Nat
  BY LenProperties
<1>3. ASSUME Contains(p \o q, kind) PROVE Contains(p, kind) \/ Contains(q, kind)
  BY <1>1, <1>2, <1>3 DEF Contains
<1>4. ASSUME Contains(p, kind) PROVE Contains(p \o q, kind)
  BY <1>1, <1>2, <1>4 DEF Contains
<1>5. ASSUME NEW k \in 1 .. Len(q), q[k] = kind PROVE Contains(p \o q, kind)
  <2>1. /\ Len(p) + k \in 1 .. Len(p) + Len(q)
        /\ ~(Len(p) + k <= Len(p)) /\ (Len(p) + k) - Len(p) = k
    BY <1>2
  <2>2. (p \o q)[Len(p) + k] = kind
    BY <1>1, <1>5, <2>1
  <2>3. QED
    BY <1>1, <2>1, <2>2 DEF Contains
<1>6. QED
  BY <1>1, <1>3, <1>4, <1>5 DEF Contains

LEMMA TakenFromQueue ==
  ASSUME NEW q \in Seq(Kinds), q # <<>>
  PROVE  /\ Head(q) \in Kinds
         /\ Tail(q) \in Seq(Kinds)
         /\ \A kind : Contains(q, kind) => Head(q) = kind \/ Contains(Tail(q), kind)
         /\ \A kind : Contains(Tail(q), kind) => Contains(q, kind)
         /\ SentinelLast(q) => SentinelLast(Tail(q))
         /\ SentinelLast(q) /\ Head(q) = "SENTINEL" => Tail(q) = <<>>
<1> DEFINE h == Head(q)
           t == Tail(q)
           n == Len(q)
           m == Len(t)
<1>1. /\ h \in Kinds /\ h = q[1]
      /\ t \in Seq(Kinds) /\ m = n - 1
      /\ \A k \in 1 .. m : t[k] = q[k + 1]
      /\ n \in Nat \ {0}
  BY HeadTailProperties, LenProperties, EmptySeq
<1>2. m \in Nat /\ (t # <<>> => m # 0)
  BY <1>1, LenProperties, EmptySeq
<1>3. \A kind : /\ Contains(q, kind) <=> \E k \in 1 .. n : q[k] = kind
                /\ Contains(t, kind) <=> \E k \in 1 .. m : t[k] = kind
  BY DEF Contains
<1>4. /\ SentinelLast(q) <=> \A k \in 1 .. n : q[k] = "SENTINEL" => k = n
      /\ SentinelLast(t) <=> \A k \in 1 .. m : t[k] = "SENTINEL" => k = m
  BY DEF SentinelLast
<1> HIDE DEF h, t, n, m
<1>5. ASSUME NEW kind, NEW k \in 1 .. n, q[k] = kind
      PROVE  h = kind \/ \E j \in 1 .. m : t[j] = kind
  <2>1. CASE k = 1
    BY <1>1, <1>5, <2>1
  <2>2. CASE k # 1
    <3>1. k - 1 \in 1 .. m /\ (k - 1) + 1 = k
      BY <1>1, <1>2, <2>2
    <3>2. QED
      BY <1>1, <1>5, <3>1
  <2>3. QED
    BY <2>1, <2>2
<1>6. ASSUME NEW kind, NEW k \in 1 .. m, t[k] = kind
      PROVE  \E j \in 1 .. n : q[j] = kind
  <2>1. k + 1 \in 1 .. n /\ q[k + 1] = kind
    BY <1>1, <1>2, <1>6
  <2>2. QED
    BY <2>1
<1>7. ASSUME \A k \in 1 .. n : q[k] = "SENTINEL" => k = n
      PROVE  /\ \A k \in 1 .. m : t[k] = "SENTINEL" => k = m
             /\ h = "SENTINEL" => t = <<>>
  <2>1. ASSUME NEW k \in 1 .. m, t[k] = "SENTINEL" PROVE k = m
    <3>1. k + 1 \in 1 .. n /\ q[k + 1] = "SENTINEL"
      BY <1>1, <1>2, <2>1
    <3>2. k + 1 = n
      BY <1>7, <3>1
    <3>3. QED
      BY <1>1, <1>2, <3>2
  <2>2. ASSUME h = "SENTINEL" PROVE t = <<>>
    <3>1. 1 \in 1 .. n /\ q[1] = "SENTINEL"
      BY <1>1, <2>2
    <3>2. 1 = n
      BY <1>7, <3>1
    <3>3. QED
      BY <1>1, <1>2, <3>2
  <2>3. QED
    BY <2>1, <2>2
<1>8. QED
  BY <1>1, <1>3, <1>4, <1>5, <1>6, <1>7 DEF h, t

LEMMA SentinelQueued ==
  ASSUME NEW q \in Seq(Kinds), ~Contains(q, "SENTINEL")
  PROVE  /\ Append(q, "SENTINEL") \in Seq(Kinds)
         /\ SentinelLast(Append(q, "SENTINEL"))
         /\ \A kind : Contains(q, kind) => Contains(Append(q, "SENTINEL"), kind)
<1>1. "SENTINEL" \in Kinds
  BY DEF Kinds
<1>2. /\ Append(q, "SENTINEL") \in Seq(Kinds)
      /\ Len(Append(q, "SENTINEL")) = Len(q) + 1
      /\ \A k \in 1 .. Len(q) : Append(q, "SENTINEL")[k] = q[k]
      /\ Len(q) \in Nat
  BY <1>1, AppendProperties, LenProperties
<1>3. SentinelLast(Append(q, "SENTINEL"))
  BY <1>2 DEF SentinelLast, Contains
<1>4. QED
  BY <1>2, <1>3 DEF Contains

-----------------------------------------------------------------------------
(* The inductive invariant *)

\* The sentinel is the last thing in the queue, and there is none while SDL pumps.
QueueShape ==
  /\ SentinelLast(events)
  /\ Pumping => ~Contains(events, "SENTINEL")

\* m_dirtySwapchain lives from the handling of a resize to BeginFrame.  A frame is
\* begun without it only after the poll cycle came to its end.
DirtyMeansResize ==
  /\ dirty => pc = "beginFrame"
  /\ pc = "draw" \/ (pc = "beginFrame" /\ ~dirty) => events = <<>>

\* Only recreateSwapchain may work while the targets have another size than
\* m_windowData says.
TargetsFollow ==
  \/ targetExtent = props
  \/ dirty
  \/ pc \in {"flags", "reread", "waitEvent", "waitPump", "recreate", "aborted"}

\* Until the engine knows the size of the window, an event tells of it.
ResizeAnnounced ==
  props # size => Contains(events, "RESIZED") \/ "RESIZED" \in dropped

EventInv ==
  /\ TypeOK
  /\ QueueShape
  /\ DirtyMeansResize
  /\ TargetsFollow
  /\ ResizeAnnounced
  /\ pc = "draw" => swapExtent = size

LEMMA EventInit == Init => EventInv
<1> SUFFICES ASSUME Init PROVE EventInv
  OBVIOUS
<1>1. events = <<>> /\ events \in Seq(Kinds) /\ Len(events) = 0
  BY EmptySeq DEF Init
<1>2. SentinelLast(events)
  BY <1>1 DEF SentinelLast
<1>3. minimises \in 0 .. MaxMinimises
  BY BoundsAssumption DEF Init
<1>4. TypeOK
  BY <1>1, <1>3, SizesAssumption DEF Init, TypeOK
<1>5. QueueShape /\ DirtyMeansResize
  BY <1>2 DEF Init, QueueShape, Pumping, DirtyMeansResize
<1>6. TargetsFollow /\ ResizeAnnounced /\ pc # "draw"
  BY DEF Init, TargetsFollow, ResizeAnnounced
<1>7. QED
  BY <1>4, <1>5, <1>6 DEF EventInv

\* What the window system queues while SDL pumps.
LEMMA QueuedKeeps ==
  ASSUME EventInv, NEW kinds \in Seq(Kinds), ~Contains(kinds, "SENTINEL"),
         Queued(kinds), size' \in Sizes, minimised' \in BOOLEAN,
         minimises' \in 0 .. MaxMinimises,
         size' # size => Contains(kinds, "RESIZED")
  PROVE  EventInv'
<1>1. /\ Pumping /\ events \in Seq(Kinds) /\ events' = events \o kinds
      /\ UNCHANGED <<pc, bQuit, dirty, minimizedFlag, props, swapExtent, targetExtent,
                     dropped>>
  BY DEF Queued, EventInv, TypeOK, extentVars
<1>2. /\ events' \in Seq(Kinds)
      /\ \A kind : Contains(events', kind)
                     <=> Contains(events, kind) \/ Contains(kinds, kind)
  BY <1>1, QueuedContains
<1>3. TypeOK'
  BY <1>1, <1>2 DEF EventInv, TypeOK
<1>4. ~Contains(events', "SENTINEL")
  BY <1>1, <1>2 DEF EventInv, QueueShape
<1>5. QueueShape'
  BY <1>4 DEF QueueShape, SentinelLast, Contains
<1>6. ResizeAnnounced'
  BY <1>1, <1>2 DEF EventInv, ResizeAnnounced
<1>7. pc' = pc /\ pc \notin {"beginFrame", "draw"} /\ ~dirty
  BY <1>1 DEF Pumping, EventInv, DirtyMeansResize
<1>8. QED
  BY <1>1, <1>3, <1>5, <1>6, <1>7 DEF EventInv, DirtyMeansResize, TargetsFollow

LEMMA OneEvent ==
  ASSUME NEW kind \in Kinds
  PROVE  /\ <<kind>> \in Seq(Kinds)
         /\ \A other : Contains(<<kind>>, other) <=> other = kind
<1>1. <<kind>> \in Seq(Kinds) /\ Len(<<kind>>) = 1 /\ <<kind>>[1] = kind
  OBVIOUS
<1>2. QED
  BY <1>1 DEF Contains

LEMMA UserKeeps ==
  ASSUME EventInv, User
  PROVE  EventInv'
<1>1. /\ size \in Sizes /\ minimised \in BOOLEAN /\ minimises \in 0 .. MaxMinimises
      /\ {"QUIT", "OTHER", "RESIZED", "MINIMIZED", "RESTORED"} \subseteq Kinds
  BY DEF EventInv, TypeOK, Kinds
<1>2. CASE RequestQuit
  BY <1>1, <1>2, OneEvent, QueuedKeeps DEF RequestQuit, windowVars
<1>3. CASE OtherInput
  BY <1>1, <1>3, OneEvent, QueuedKeeps DEF OtherInput, windowVars
<1>4. ASSUME NEW s \in Sizes, Resize(s) PROVE EventInv'
  <2>1. /\ Queued(<<"RESIZED">>) /\ size' = s /\ UNCHANGED <<minimised, minimises>>
    BY <1>4 DEF Resize
  <2>2. QED
    BY <1>1, <2>1, OneEvent, QueuedKeeps
<1>5. CASE Minimise
  <2>1. /\ Queued(<<"MINIMIZED">>) /\ size' = size /\ minimised' = TRUE
        /\ minimises' \in 0 .. MaxMinimises
    BY <1>1, <1>5, BoundsAssumption DEF Minimise
  <2>2. QED
    BY <1>1, <2>1, OneEvent, QueuedKeeps
<1>6. ASSUME NEW s \in Sizes, Restore(s) PROVE EventInv'
  <2>1. /\ size' = s /\ minimised' = FALSE /\ minimises' = minimises
    BY <1>6 DEF Restore
  <2>2. CASE s = size
    <3>1. Queued(<<"RESTORED">>)
      BY <1>6, <2>2 DEF Restore
    <3>2. QED
      BY <1>1, <2>1, <2>2, <3>1, OneEvent, QueuedKeeps
  <2>3. CASE s # size
    <3>1. Queued(<<"RESTORED", "RESIZED">>)
      BY <1>6, <2>3 DEF Restore
    <3>2. /\ <<"RESTORED", "RESIZED">> \in Seq(Kinds)
          /\ ~Contains(<<"RESTORED", "RESIZED">>, "SENTINEL")
          /\ Contains(<<"RESTORED", "RESIZED">>, "RESIZED")
      BY <1>1 DEF Contains
    <3>3. QED
      BY <1>1, <2>1, <3>1, <3>2, QueuedKeeps
  <2>4. QED
    BY <2>2, <2>3
<1>7. QED
  BY <1>2, <1>3, <1>4, <1>5, <1>6 DEF User

LEMMA EventStep == EventInv /\ [Next]_vars => EventInv'
<1> SUFFICES ASSUME EventInv, [Next]_vars PROVE EventInv'
  OBVIOUS
<1>0. TypeOK /\ events \in Seq(Kinds)
  BY DEF EventInv, TypeOK
<1>t. events # <<>> =>
        /\ Head(events) \in Kinds
        /\ Tail(events) \in Seq(Kinds)
        /\ \A kind : Contains(events, kind)
                       => Head(events) = kind \/ Contains(Tail(events), kind)
        /\ SentinelLast(Tail(events))
        /\ Head(events) = "SENTINEL" => Tail(events) = <<>>
  BY <1>0, TakenFromQueue DEF EventInv, QueueShape
<1>1. CASE StartPump
  <2>1. events = <<>> /\ ~Contains(events, "SENTINEL")
    BY <1>1, EmptySeq DEF StartPump, Contains
  <2>2. QED
    BY <1>1, <2>1
       DEF StartPump, EventInv, TypeOK, QueueShape, DirtyMeansResize, TargetsFollow,
           ResizeAnnounced, windowVars, extentVars
<1>2. CASE EndPump
  <2>1. /\ pc = "pump" /\ pc' = "poll" /\ events' = Append(events, "SENTINEL")
        /\ UNCHANGED <<bQuit, dirty, minimizedFlag, size, minimised, minimises, props,
                       swapExtent, targetExtent, dropped>>
    BY <1>2 DEF EndPump, windowVars, extentVars
  <2>2. ~Contains(events, "SENTINEL")
    BY <2>1 DEF EventInv, QueueShape, Pumping
  <2>3. /\ events' \in Seq(Kinds) /\ SentinelLast(events')
        /\ \A kind : Contains(events, kind) => Contains(events', kind)
    BY <1>0, <2>1, <2>2, SentinelQueued
  <2>4. QED
    BY <2>1, <2>3
       DEF EventInv, TypeOK, QueueShape, Pumping, DirtyMeansResize, TargetsFollow,
           ResizeAnnounced
<1>3. CASE SkipSentinel
  <2>1. /\ pc = "waitEvent" /\ events # <<>> /\ Head(events) = "SENTINEL"
        /\ events' = Tail(events)
        /\ UNCHANGED <<pc, bQuit, dirty, minimizedFlag, size, minimised, minimises,
                       props, swapExtent, targetExtent, dropped>>
    BY <1>3 DEF SkipSentinel, windowVars, extentVars
  <2>2. /\ Contains(events, "RESIZED") => Contains(events', "RESIZED")
        /\ events' \in Seq(Kinds) /\ SentinelLast(events')
    BY <1>t, <2>1
  <2>3. QED
    BY <2>1, <2>2
       DEF EventInv, TypeOK, QueueShape, Pumping, DirtyMeansResize, TargetsFollow,
           ResizeAnnounced
<1>4. CASE PollEvent
  <2>1. /\ pc = "poll" /\ events # <<>> /\ events' = Tail(events)
        /\ bQuit' \in BOOLEAN
        /\ UNCHANGED <<minimizedFlag, size, minimised, minimises, swapExtent,
                       targetExtent, dropped>>
    BY <1>0, <1>4 DEF PollEvent, TypeOK, windowVars
  <2>2. events' \in Seq(Kinds) /\ SentinelLast(events')
    BY <1>t, <2>1
  <2>3. CASE HandleResize
    BY <2>1, <2>2, <2>3
       DEF HandleResize, EventInv, TypeOK, QueueShape, Pumping, DirtyMeansResize,
           TargetsFollow, ResizeAnnounced
  <2>4. CASE Head(events) \notin MustBeResize /\ UNCHANGED <<pc, dirty, props>>
    <3>1. Contains(events, "RESIZED") => Contains(events', "RESIZED")
      BY <1>t, <2>1, <2>4 DEF MustBeResize
    <3>2. QED
      BY <2>1, <2>2, <2>4, <3>1
         DEF EventInv, TypeOK, QueueShape, Pumping, DirtyMeansResize, TargetsFollow,
             ResizeAnnounced
  <2>5. QED
    BY <1>4, <2>3, <2>4 DEF PollEvent
<1>5. CASE PollNothing
  <2>1. /\ pc = "poll" /\ events # <<>> /\ Head(events) = "SENTINEL"
        /\ events' = Tail(events) /\ pc' = "beginFrame"
        /\ UNCHANGED <<bQuit, dirty, minimizedFlag, size, minimised, minimises,
                       props, swapExtent, targetExtent, dropped>>
    BY <1>5 DEF PollNothing, windowVars, extentVars
  <2>2. /\ Contains(events, "RESIZED") => Contains(events', "RESIZED")
        /\ events' \in Seq(Kinds) /\ SentinelLast(events') /\ events' = <<>>
    BY <1>t, <2>1
  <2>3. QED
    BY <2>1, <2>2
       DEF EventInv, TypeOK, QueueShape, Pumping, DirtyMeansResize, TargetsFollow,
           ResizeAnnounced
<1>6. CASE BeginFrame
  BY <1>6
     DEF BeginFrame, OutOfDate, EventInv, TypeOK, QueueShape, Pumping, DirtyMeansResize,
         TargetsFollow, ResizeAnnounced, windowVars, extentVars
<1>7. CASE Draw
  BY <1>7
     DEF Draw, AfterDraw, EventInv, TypeOK, QueueShape, Pumping, DirtyMeansResize,
         TargetsFollow, ResizeAnnounced, windowVars, extentVars
<1>8. CASE CheckFlags
  BY <1>8
     DEF CheckFlags, EventInv, TypeOK, QueueShape, Pumping, DirtyMeansResize,
         TargetsFollow, ResizeAnnounced, windowVars, extentVars
<1>9. CASE RereadFlags
  BY <1>9
     DEF RereadFlags, EventInv, TypeOK, QueueShape, Pumping, DirtyMeansResize,
         TargetsFollow, ResizeAnnounced, windowVars, extentVars
<1>10. CASE WaitEvent
  <2>1. /\ pc \in {"waitEvent", "waitPump"} /\ events # <<>> /\ events' = Tail(events)
        /\ pc' \in {"reread", "recreate"} /\ dropped' = dropped \cup {Head(events)}
        /\ UNCHANGED <<bQuit, dirty, minimizedFlag, size, minimised, minimises,
                       props, swapExtent, targetExtent>>
    BY <1>10 DEF WaitEvent, windowVars, extentVars
  <2>2. /\ Contains(events, "RESIZED")
             => Contains(events', "RESIZED") \/ "RESIZED" \in dropped'
        /\ dropped' \subseteq Kinds
        /\ events' \in Seq(Kinds) /\ SentinelLast(events')
    BY <1>0, <1>t, <2>1 DEF TypeOK
  <2>3. QED
    BY <2>1, <2>2
       DEF EventInv, TypeOK, QueueShape, Pumping, DirtyMeansResize, TargetsFollow,
           ResizeAnnounced
<1>11. CASE RecreateSwapchain
  BY <1>11
     DEF RecreateSwapchain, AfterDraw, EventInv, TypeOK, QueueShape, Pumping,
         DirtyMeansResize, TargetsFollow, ResizeAnnounced, windowVars
<1>12. CASE User
  BY <1>12, UserKeeps
<1>13. CASE UNCHANGED vars
  BY <1>13
     DEF vars, EventInv, TypeOK, QueueShape, Pumping, DirtyMeansResize, TargetsFollow,
         ResizeAnnounced
<1>14. QED
  BY <1>1, <1>2, <1>3, <1>4, <1>5, <1>6, <1>7, <1>8, <1>9, <1>10, <1>11, <1>12, <1>13
     DEF Next, Thread, Ended

-----------------------------------------------------------------------------
(* The theorems *)

LEMMA EventInvariant == Spec => []EventInv
<1>1. QED
  BY EventInit, EventStep, PTL DEF Spec

\* The thread, the queue and the sizes stay what their declarations say.
THEOREM EventTypes == Spec => []TypeOK
<1>1. EventInv => TypeOK
  BY DEF EventInv
<1>2. QED
  BY <1>1, EventInvariant, PTL

\* Every frame is drawn at the size of the render targets and framebuffers, and of
\* the swapchain images unless recreateSwapchain threw a resize away, in whatever
\* order resizes, polls and frames come.
THEOREM FramesFit == Spec => []DrawsFit
<1>1. EventInv => DrawsFit
  <2> SUFFICES ASSUME EventInv, pc = "draw"
               PROVE  targetExtent = props
                      /\ ("RESIZED" \notin dropped => swapExtent = props)
    BY DEF DrawsFit
  <2>1. events = <<>> /\ ~dirty /\ swapExtent = size
    BY DEF EventInv, DirtyMeansResize
  <2>2. ~Contains(events, "RESIZED")
    BY <2>1 DEF Contains
  <2>3. QED
    BY <2>1, <2>2 DEF EventInv, TargetsFollow, ResizeAnnounced
<1>2. QED
  BY <1>1, EventInvariant, PTL

-----------------------------------------------------------------------------
(* Minimised windows *)

\* A window that is minimised, was minimised; whoever waits in recreateSwapchain has
\* seen it minimised; and if the flags said it was restored, it takes another time.
MinimisedInv ==
  /\ minimised => minimises # 0
  /\ pc \in {"reread", "waitEvent", "waitPump"} => minimises # 0
  /\ pc \in {"waitEvent", "waitPump"} /\ ~minimizedFlag => (minimised => minimises > 1)
  /\ MinimiseWaitedOut

LEMMA MinimisedInit == Init => MinimisedInv
BY DEF Init, MinimisedInv, MinimiseWaitedOut

LEMMA MinimisedStep ==
  ASSUME TypeOK, MinimisedInv, [Next]_vars
  PROVE  MinimisedInv'
<1>0. minimises \in 0 .. MaxMinimises /\ minimised \in BOOLEAN
  BY DEF TypeOK
<1> USE DEF MinimiseWaitedOut
<1>1. CASE StartPump
  BY <1>1 DEF StartPump, MinimisedInv, windowVars
<1>2. CASE EndPump \/ SkipSentinel
  BY <1>2 DEF EndPump, SkipSentinel, MinimisedInv, windowVars
<1>3. CASE PollEvent \/ PollNothing
  BY <1>3 DEF PollEvent, HandleResize, PollNothing, MinimisedInv, windowVars
<1>4. CASE BeginFrame \/ Draw
  BY <1>4 DEF BeginFrame, Draw, AfterDraw, MinimisedInv, windowVars
<1>5. CASE CheckFlags
  BY <1>5 DEF CheckFlags, MinimisedInv, windowVars
<1>6. CASE RereadFlags
  BY <1>6 DEF RereadFlags, MinimisedInv, windowVars
<1>7. CASE WaitEvent
  <2>1. ~minimizedFlag => (minimised => minimises > 1)
    BY <1>7 DEF WaitEvent, MinimisedInv
  <2>2. dropped' # {}
    BY <1>7 DEF WaitEvent
  <2>3. QED
    BY <1>7, <2>1, <2>2 DEF WaitEvent, MinimisedInv, windowVars
<1>8. CASE RecreateSwapchain
  BY <1>8 DEF RecreateSwapchain, AfterDraw, MinimisedInv, windowVars
<1>9. CASE RequestQuit \/ OtherInput
  BY <1>9 DEF RequestQuit, OtherInput, Queued, MinimisedInv, windowVars
<1>10. ASSUME NEW t \in Sizes, Resize(t) \/ Restore(t) PROVE MinimisedInv'
  BY <1>10 DEF Resize, Restore, Queued, MinimisedInv
<1>11. CASE Minimise
  <2>1. minimises' = minimises + 1 /\ minimises \in Nat
    BY <1>0, <1>11, BoundsAssumption DEF Minimise
  <2>2. pc' = pc /\ pc \in {"pump", "waitPump"}
    BY <1>11 DEF Minimise, Queued, Pumping
  <2>3. pc = "waitPump" => minimises' > 1
    BY <2>1 DEF MinimisedInv
  <2>4. QED
    BY <2>1, <2>2, <2>3 DEF MinimisedInv
<1>12. CASE UNCHANGED vars
  BY <1>12 DEF vars, MinimisedInv
<1>13. QED
  BY <1>1, <1>2, <1>3, <1>4, <1>5, <1>6, <1>7, <1>8, <1>9, <1>10, <1>11, <1>12
     DEF Next, Thread, User, Ended

\* However often the window is minimised, a swapchain is built for a window without an
\* extent only when the window was minimised again while the loop that waits for it to
\* be restored was in SDL_WaitEvent.
THEOREM SwapchainSafe == Spec => []MinimiseWaitedOut
<1>1. MinimisedInv => MinimiseWaitedOut
  BY DEF MinimisedInv
<1>2. TypeOK /\ MinimisedInv /\ [Next]_vars => MinimisedInv'
  BY MinimisedStep
<1>3. QED
  BY <1>1, <1>2, MinimisedInit, EventTypes, PTL DEF Spec
=============================================================================
