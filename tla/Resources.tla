------------------------------ MODULE Resources -------------------------------
(***************************************************************************)
(* The ResourceManager (buffers and images behind handles) and the render  *)
(* targets the Device keeps on top of it, under any order of calls of the  *)
(* Device's interface.  A GPU object is identified by its place in the     *)
(* order of creation.                                                      *)
(***************************************************************************)
EXTENDS Slotmap, FiniteSets

CONSTANT MaxHandle  \* bound: no slotmap gives out a handle above it

ASSUME MaxHandleAssumption == MaxHandle \in Nat

VARIABLES
  buffers,      \* Slotmap<Buffer>
  images,       \* Slotmap<Image>
  targets,      \* m_renderTargets, a Slotmap<RenderTarget>
  liveBuffers,  \* the VkBuffers that exist
  liveImages,   \* the VkImages that exist, each with its view
  created,      \* number of objects created so far
  heldBuffers,  \* the buffer handles callers hold, each with what it stands for
  heldImages,   \* the same for images; render target images are not among them
  pending,      \* targets recreateRenderTargetImages has still to visit
  up            \* before ResourceManager::Deinit

vars == <<buffers, images, targets, liveBuffers, liveImages, created,
          heldBuffers, heldImages, pending, up>>

Objects == Nat \ {0}
Image == [object : Objects, depth : BOOLEAN]
RenderTarget == [imageHandle : Nat, depth : BOOLEAN]
ASSUME NullAssumption == Null \notin Objects /\ Null \notin Image /\ Null \notin RenderTarget

Held(T) == [handle : Nat, value : T]

\* The VkImages of a set of slots' contents.
ObjectsOf(slots) == {image.object : image \in slots \ {Null}}

TypeOK ==
  /\ buffers \in SlotmapOf(Objects)
  /\ images \in SlotmapOf(Image)
  /\ targets \in SlotmapOf(RenderTarget)
  /\ liveBuffers \subseteq Objects
  /\ liveImages \subseteq Objects
  /\ created \in Nat
  /\ heldBuffers \subseteq Held(Objects)
  /\ heldImages \subseteq Held(Image)
  /\ pending \subseteq Slots
  /\ up \in BOOLEAN

Init ==
  /\ buffers = EmptySlotmap
  /\ images = EmptySlotmap
  /\ targets = EmptySlotmap
  /\ liveBuffers = {}
  /\ liveImages = {}
  /\ created = 0
  /\ heldBuffers = {}
  /\ heldImages = {}
  /\ pending = {}
  /\ up = TRUE

NewObject == created + 1

CreateBuffer ==
  /\ up /\ pending = {}
  /\ NewHandle(buffers) <= MaxHandle
  /\ created' = NewObject
  /\ liveBuffers' = liveBuffers \cup {NewObject}
  /\ buffers' \in Added(buffers, NewObject)
  /\ heldBuffers' = heldBuffers \cup {[handle |-> NewHandle(buffers), value |-> NewObject]}
  /\ UNCHANGED <<images, targets, liveImages, heldImages, pending, up>>

\* Fault: the slot of a destroyed buffer is not cleared.
DestroyBufferKeepsSlot(h) ==
  /\ up /\ pending = {}
  /\ h \in Slots
  /\ h <= buffers.lastHandle
  /\ liveBuffers' = liveBuffers \ {buffers.array[h]}
  /\ heldBuffers' = {p \in heldBuffers : p.handle # h}
  /\ UNCHANGED <<buffers, images, targets, liveImages, created, heldImages, pending, up>>

\* Fault: the handle of the object is zeroed, the slot not emptied.
DestroyBufferLeavesZero(h) ==
  /\ up /\ pending = {}
  /\ h \in Slots
  /\ h <= buffers.lastHandle
  /\ liveBuffers' = liveBuffers \ {buffers.array[h]}
  /\ buffers' = Overwritten(buffers, h, 0)
  /\ heldBuffers' = {p \in heldBuffers : p.handle # h}
  /\ UNCHANGED <<images, targets, liveImages, created, heldImages, pending, up>>

\* Destroying a buffer twice is allowed: the slot is cleared the first time.
DestroyBuffer(h) ==
  /\ up /\ pending = {}
  /\ h \in Slots
  /\ h <= buffers.lastHandle
  /\ liveBuffers' = liveBuffers \ {buffers.array[h]}
  /\ buffers' = Overwritten(buffers, h, Null)
  /\ heldBuffers' = {p \in heldBuffers : p.handle # h}
  /\ UNCHANGED <<images, targets, liveImages, created, heldImages, pending, up>>

CreateImage(depth) ==
  LET image == [object |-> NewObject, depth |-> depth]
  IN  /\ up /\ pending = {}
      /\ NewHandle(images) <= MaxHandle
      /\ created' = NewObject
      /\ liveImages' = liveImages \cup {NewObject}
      /\ images' \in Added(images, image)
      /\ heldImages' = heldImages \cup {[handle |-> NewHandle(images), value |-> image]}
      /\ UNCHANGED <<buffers, targets, liveBuffers, heldBuffers, pending, up>>

\* createRenderTargetImage, then the target is added with the image's handle.
CreateRenderTarget(depth) ==
  /\ up /\ pending = {}
  /\ NewHandle(images) <= MaxHandle
  /\ NewHandle(targets) <= MaxHandle
  /\ created' = NewObject
  /\ liveImages' = liveImages \cup {NewObject}
  /\ images' \in Added(images, [object |-> NewObject, depth |-> depth])
  /\ targets' \in Added(targets, [imageHandle |-> NewHandle(images), depth |-> depth])
  /\ UNCHANGED <<buffers, liveBuffers, heldBuffers, heldImages, pending, up>>

\* The slots recreateRenderTargetImages works on.
Targets == {t \in Slots : targets.array[t] # Null /\ targets.array[t].imageHandle # 0}

\* The loop of recreateRenderTargetImages starts.  It runs to its end before the
\* thread does anything else.
BeginRecreate ==
  /\ up
  /\ pending = {}
  /\ images.lastHandle + Cardinality(Targets) <= MaxHandle
  /\ pending' = Targets
  /\ UNCHANGED <<buffers, images, targets, liveBuffers, liveImages, created,
                 heldBuffers, heldImages, up>>

\* Fault: the target keeps the handle of the image it had.
RecreateKeepsHandle(t) ==
  LET target == targets.array[t]
      old    == images.array[target.imageHandle]
      freed  == Overwritten(images, target.imageHandle, Null)
  IN  /\ up
      /\ t \in pending
      /\ \A other \in pending : t <= other
      /\ target.imageHandle \in Slots
      /\ NewHandle(images) <= MaxHandle
      /\ created' = NewObject
      /\ liveImages' = (liveImages \ ObjectsOf({old})) \cup {NewObject}
      /\ images' \in Added(freed, [object |-> NewObject, depth |-> target.depth])
      /\ pending' = pending \ {t}
      /\ UNCHANGED <<buffers, targets, liveBuffers, heldBuffers, heldImages, up>>

\* The next iteration: DestroyImage, then a new image under a new handle.
RecreateTarget(t) ==
  LET target == targets.array[t]
      old    == images.array[target.imageHandle]
      freed  == Overwritten(images, target.imageHandle, Null)
  IN  /\ up
      /\ t \in pending
      /\ \A other \in pending : t <= other
      /\ target.imageHandle \in Slots
      /\ NewHandle(images) <= MaxHandle
      /\ created' = NewObject
      /\ liveImages' = (liveImages \ ObjectsOf({old})) \cup {NewObject}
      /\ images' \in Added(freed, [object |-> NewObject, depth |-> target.depth])
      /\ targets' = Overwritten(targets, t, [target EXCEPT !.imageHandle = NewHandle(images)])
      /\ pending' = pending \ {t}
      /\ UNCHANGED <<buffers, liveBuffers, heldBuffers, heldImages, up>>

\* ResourceManager::Deinit destroys what the slots still hold.
Deinit ==
  /\ up
  /\ pending = {}
  /\ liveBuffers' = liveBuffers \ Stored(buffers)
  /\ liveImages' = liveImages \ ObjectsOf(Stored(images))
  /\ heldBuffers' = {}
  /\ heldImages' = {}
  /\ up' = FALSE
  /\ UNCHANGED <<buffers, images, targets, created, pending>>

Ended == ~up /\ UNCHANGED vars

Next ==
  \/ CreateBuffer
  \/ \E h \in Slots : DestroyBuffer(h)
  \/ \E depth \in BOOLEAN : CreateImage(depth)
  \/ \E depth \in BOOLEAN : CreateRenderTarget(depth)
  \/ BeginRecreate
  \/ \E t \in Slots : RecreateTarget(t)
  \/ Deinit
  \/ Ended

Spec == Init /\ [][Next]_vars

-----------------------------------------------------------------------------
(* Correctness *)

\* The slots and the objects that exist agree: nothing leaks, because what exists
\* is in a slot that Deinit will visit, and nothing is destroyed twice, because
\* what is in a slot exists.  After Deinit nothing exists.
SlotsOwnObjects ==
  IF up THEN liveBuffers = Stored(buffers) /\ liveImages = ObjectsOf(Stored(images))
        ELSE liveBuffers = {} /\ liveImages = {}

\* "Persistent handle to data": a handle gives back what was added under it for
\* as long as its holder has not destroyed it, whatever else is created,
\* destroyed or recreated at a new size in between.
HandlesPersist ==
  /\ \A p \in heldBuffers : p.handle \in Slots /\ buffers.array[p.handle] = p.value
  /\ \A p \in heldImages : p.handle \in Slots /\ images.array[p.handle] = p.value

\* After any number of resizes a render target gives the image that was created
\* for it last, of its own kind, and shares it with no other target and no
\* texture: recreating a target never destroys what somebody else uses.
TargetsOwnImages ==
  \A t \in Targets :
    LET target == targets.array[t]
    IN  /\ target.imageHandle \in Slots
        /\ images.array[target.imageHandle] # Null
        /\ images.array[target.imageHandle].depth = target.depth
        /\ \A other \in Targets \ {t} :
             targets.array[other].imageHandle # target.imageHandle
        /\ \A p \in heldImages : p.handle # target.imageHandle
=============================================================================
