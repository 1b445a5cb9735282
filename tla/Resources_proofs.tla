--------------------------- MODULE Resources_proofs ---------------------------
(***************************************************************************)
(* Proofs about the ResourceManager and the render targets, for any number *)
(* of slots and any order of calls.  As long as no handle past the last    *)
(* slot is given out, handles persist, nothing leaks, nothing is destroyed *)
(* twice, and a resize touches only the images of the render targets; the  *)
(* slotmaps keep their types also when they have run out of slots.         *)
(***************************************************************************)
EXTENDS Resources, TLAPS

-----------------------------------------------------------------------------
(* Slotmaps that have not run out of slots *)

\* No slot past the last handle has been written.
Unwritten(s) == \A h \in Slots : s.lastHandle < h => s.array[h] = Null

LEMMA AddWithinSlots ==
  ASSUME NEW T, NEW s \in SlotmapOf(T), NEW x \in T, NEW r \in Added(s, x),
         NewHandle(s) \in Slots, Unwritten(s)
  PROVE  /\ r \in SlotmapOf(T)
         /\ r.lastHandle = NewHandle(s)
         /\ Unwritten(r)
         /\ s.array[NewHandle(s)] = Null
         /\ \A h \in Slots : r.array[h] = IF h = NewHandle(s) THEN x ELSE s.array[h]
<1>1. r = [array |-> [s.array EXCEPT ![NewHandle(s)] = x], lastHandle |-> NewHandle(s)]
  BY DEF Added
<1>2. s.array \in [Slots -> T \cup {Null}] /\ s.lastHandle \in Nat
  BY DEF SlotmapOf
<1>3. r \in SlotmapOf(T)
  BY <1>1, <1>2 DEF SlotmapOf, NewHandle
<1>4. \A h \in Slots : r.array[h] = IF h = NewHandle(s) THEN x ELSE s.array[h]
  BY <1>1, <1>2
<1>5. r.lastHandle = s.lastHandle + 1
  BY <1>1 DEF NewHandle
<1>6. Unwritten(r)
  BY <1>2, <1>4, <1>5 DEF Unwritten, NewHandle, Slots
<1>7. QED
  BY <1>2, <1>3, <1>4, <1>5, <1>6 DEF Unwritten, NewHandle

LEMMA OverwriteSlot ==
  ASSUME NEW T, NEW s \in SlotmapOf(T), NEW h \in Slots, NEW x \in T \cup {Null},
         Unwritten(s), x = Null \/ s.array[h] # Null
  PROVE  /\ Overwritten(s, h, x) \in SlotmapOf(T)
         /\ Overwritten(s, h, x).lastHandle = s.lastHandle
         /\ Unwritten(Overwritten(s, h, x))
         /\ \A g \in Slots :
              Overwritten(s, h, x).array[g] = IF g = h THEN x ELSE s.array[g]
<1> DEFINE r == Overwritten(s, h, x)
<1>1. s.array \in [Slots -> T \cup {Null}] /\ s.lastHandle \in Nat
  BY DEF SlotmapOf
<1>2. r = [array |-> [s.array EXCEPT ![h] = x], lastHandle |-> s.lastHandle]
  BY DEF Overwritten, SlotmapOf
<1> HIDE DEF r
<1>3. r.lastHandle = s.lastHandle
      /\ \A g \in Slots : r.array[g] = IF g = h THEN x ELSE s.array[g]
  BY <1>1, <1>2
<1>4. r \in SlotmapOf(T)
  BY <1>1, <1>2 DEF SlotmapOf
<1>5. Unwritten(r)
  BY <1>3 DEF Unwritten
<1>6. QED
  BY <1>3, <1>4, <1>5 DEF r

-----------------------------------------------------------------------------
(* The inductive invariant.  What a new object must not collide with is in     *)
(* the past: every object in a slot is older than the next one, and no two     *)
(* slots hold the same object.                                                 *)

Filled(s) == {h \in Slots : s.array[h] # Null}

Shape ==
  /\ TypeOK
  /\ Unwritten(buffers) /\ Unwritten(images) /\ Unwritten(targets)

OldObjects ==
  /\ \A h \in Filled(buffers) : buffers.array[h] <= created
  /\ \A h \in Filled(images) : images.array[h].object <= created

OneSlotEach ==
  /\ \A g, h \in Filled(buffers) : buffers.array[g] = buffers.array[h] => g = h
  /\ \A g, h \in Filled(images) :
       images.array[g].object = images.array[h].object => g = h

\* SlotsOwnObjects, object by object.
Owned ==
  /\ up => /\ liveBuffers = {buffers.array[h] : h \in Filled(buffers)}
           /\ liveImages = {images.array[h].object : h \in Filled(images)}
  /\ ~up => liveBuffers = {} /\ liveImages = {}

ResourceInv ==
  /\ Shape
  /\ OldObjects
  /\ OneSlotEach
  /\ Owned
  /\ HandlesPersist
  /\ TargetsOwnImages
  /\ pending \subseteq Targets

LEMMA OwnedIsSlotsOwnObjects == TypeOK => (Owned <=> SlotsOwnObjects)
<1> SUFFICES ASSUME TypeOK PROVE Owned <=> SlotsOwnObjects
  OBVIOUS
<1>1. Stored(buffers) = {buffers.array[h] : h \in Filled(buffers)}
  BY DEF Stored, Filled
<1>2. ObjectsOf(Stored(images)) = {images.array[h].object : h \in Filled(images)}
  BY DEF ObjectsOf, Stored, Filled
<1>3. QED
  BY <1>1, <1>2 DEF Owned, SlotsOwnObjects, TypeOK

LEMMA ResourceInit == Init => ResourceInv
<1> SUFFICES ASSUME Init PROVE ResourceInv
  OBVIOUS
<1>1. /\ buffers.array = [h \in Slots |-> Null] /\ buffers.lastHandle = 0
      /\ images.array = [h \in Slots |-> Null] /\ images.lastHandle = 0
      /\ targets.array = [h \in Slots |-> Null] /\ targets.lastHandle = 0
  BY DEF Init, EmptySlotmap
<1>2. TypeOK
  BY DEF Init, TypeOK, SlotmapOf, EmptySlotmap
<1>3. Filled(buffers) = {} /\ Filled(images) = {} /\ Targets = {}
  BY <1>1 DEF Filled, Targets
<1>4. Shape
  BY <1>1, <1>2 DEF Shape, Unwritten
<1>5. QED
  BY <1>3, <1>4
     DEF Init, ResourceInv, OldObjects, OneSlotEach, Owned, HandlesPersist, TargetsOwnImages

LEMMA CreateBufferKeeps ==
  ASSUME MaxHandle < SIZE, ResourceInv, CreateBuffer
  PROVE  ResourceInv'
<1> DEFINE n == NewHandle(buffers)
           o == NewObject
<1>1. /\ TypeOK /\ Unwritten(buffers)
      /\ created \in Nat /\ o \in Objects /\ o = created + 1 /\ o # Null
      /\ buffers \in SlotmapOf(Objects)
  BY NullAssumption DEF ResourceInv, Shape, TypeOK, NewObject, Objects
<1>2. n \in Slots
  BY <1>1, SizeAssumption, MaxHandleAssumption
     DEF CreateBuffer, Slots, NewHandle, SlotmapOf
<1>3. buffers' \in Added(buffers, o)
  BY DEF CreateBuffer
<1>4. /\ buffers' \in SlotmapOf(Objects)
      /\ Unwritten(buffers')
      /\ buffers.array[n] = Null
      /\ \A h \in Slots : buffers'.array[h] = IF h = n THEN o ELSE buffers.array[h]
  BY <1>1, <1>2, <1>3, AddWithinSlots
<1> HIDE DEF n, o
<1>5. /\ UNCHANGED <<images, targets, liveImages, heldImages, pending, up>>
      /\ up
      /\ created' = o
      /\ liveBuffers' = liveBuffers \cup {o}
      /\ heldBuffers' = heldBuffers \cup {[handle |-> n, value |-> o]}
  BY DEF CreateBuffer, n, o
<1>6. Filled(buffers') = Filled(buffers) \cup {n} /\ n \notin Filled(buffers)
  BY <1>1, <1>2, <1>4 DEF Filled
<1>7. \A h \in Filled(buffers) : buffers'.array[h] = buffers.array[h]
  BY <1>4, <1>6 DEF Filled
<1>8. buffers'.array[n] = o
  BY <1>2, <1>4
<1>9. \A h \in Filled(buffers) : buffers.array[h] \in Nat /\ buffers.array[h] <= created
  BY <1>1 DEF ResourceInv, OldObjects, Filled, SlotmapOf, Objects
<1>10. Shape'
  <2>1. [handle |-> n, value |-> o] \in Held(Objects)
    BY <1>1, <1>2 DEF Held, Slots
  <2>2. TypeOK'
    BY <1>1, <1>4, <1>5, <2>1 DEF TypeOK, Objects
  <2>3. QED
    BY <1>4, <1>5, <2>2 DEF Shape, ResourceInv
<1>11. OldObjects'
  BY <1>1, <1>5, <1>6, <1>7, <1>8, <1>9 DEF OldObjects, ResourceInv, Shape, TypeOK,
     Filled, SlotmapOf, Image, Objects
<1>12. OneSlotEach'
  BY <1>1, <1>5, <1>6, <1>7, <1>8, <1>9 DEF OneSlotEach, ResourceInv
<1>13. Owned'
  BY <1>5, <1>6, <1>7, <1>8 DEF Owned, ResourceInv
<1>14. HandlesPersist'
  <2>1. ASSUME NEW p \in heldBuffers
        PROVE  p.handle \in Slots /\ buffers'.array[p.handle] = p.value
    <3>1. p.handle \in Slots /\ buffers.array[p.handle] = p.value /\ p.value # Null
      BY <1>1, NullAssumption DEF ResourceInv, HandlesPersist, TypeOK, Held
    <3>2. QED
      BY <1>7, <3>1 DEF Filled
  <2>2. QED
    BY <1>2, <1>5, <1>8, <2>1 DEF HandlesPersist, ResourceInv
<1>15. TargetsOwnImages' /\ pending' \subseteq Targets'
  BY <1>5 DEF TargetsOwnImages, Targets, ResourceInv
<1>16. QED
  BY <1>10, <1>11, <1>12, <1>13, <1>14, <1>15 DEF ResourceInv

LEMMA DestroyBufferKeeps ==
  ASSUME ResourceInv, NEW d \in Slots, DestroyBuffer(d)
  PROVE  ResourceInv'
<1>1. TypeOK /\ Unwritten(buffers) /\ buffers \in SlotmapOf(Objects)
  BY DEF ResourceInv, Shape, TypeOK
<1>2. buffers' = Overwritten(buffers, d, Null)
  BY DEF DestroyBuffer
<1>3. /\ buffers' \in SlotmapOf(Objects)
      /\ Unwritten(buffers')
      /\ \A h \in Slots : buffers'.array[h] = IF h = d THEN Null ELSE buffers.array[h]
  BY <1>1, <1>2, OverwriteSlot
<1>4. /\ UNCHANGED <<images, targets, liveImages, created, heldImages, pending, up>>
      /\ up
      /\ liveBuffers' = liveBuffers \ {buffers.array[d]}
      /\ heldBuffers' = {p \in heldBuffers : p.handle # d}
  BY DEF DestroyBuffer
<1>5. /\ Filled(buffers') = Filled(buffers) \ {d}
      /\ \A h \in Filled(buffers') : buffers'.array[h] = buffers.array[h]
  BY <1>3 DEF Filled
<1>6. Shape'
  <2>1. TypeOK'
    BY <1>1, <1>3, <1>4 DEF TypeOK, Objects
  <2>2. QED
    BY <1>3, <1>4, <2>1 DEF Shape, ResourceInv
<1>7. OldObjects'
  BY <1>4, <1>5 DEF OldObjects, ResourceInv
<1>8. OneSlotEach'
  BY <1>4, <1>5 DEF OneSlotEach, ResourceInv
<1>9. Owned'
  <2>1. \A h \in Filled(buffers) : h # d => buffers.array[h] # buffers.array[d]
    BY DEF ResourceInv, OneSlotEach, Filled
  <2>2. liveBuffers = {buffers.array[h] : h \in Filled(buffers)}
    BY <1>4 DEF ResourceInv, Owned
  <2>3. liveBuffers' = {buffers'.array[h] : h \in Filled(buffers')}
    BY <1>4, <1>5, <2>1, <2>2 DEF Filled
  <2>4. QED
    BY <1>4, <2>3 DEF Owned, ResourceInv
<1>10. HandlesPersist'
  BY <1>3, <1>4 DEF HandlesPersist, ResourceInv
<1>11. TargetsOwnImages' /\ pending' \subseteq Targets'
  BY <1>4 DEF TargetsOwnImages, Targets, ResourceInv
<1>12. QED
  BY <1>6, <1>7, <1>8, <1>9, <1>10, <1>11 DEF ResourceInv

\* What CreateImage, CreateRenderTarget and the second half of RecreateTarget
\* have in common, for any slotmap s that images may be at that moment.
LEMMA NewImage ==
  ASSUME MaxHandle < SIZE, TypeOK,
         NEW s \in SlotmapOf(Image), Unwritten(s), NewHandle(s) <= MaxHandle,
         NEW depth \in BOOLEAN, NEW r \in Added(s, [object |-> NewObject, depth |-> depth]),
         \A h \in Filled(s) : s.array[h].object <= created,
         \A g, h \in Filled(s) : s.array[g].object = s.array[h].object => g = h
  PROVE  /\ NewHandle(s) \in Slots \ {0}
         /\ NewObject \in Objects /\ NewObject # Null
         /\ [object |-> NewObject, depth |-> depth] \in Image
         /\ r \in SlotmapOf(Image)
         /\ Unwritten(r)
         /\ Filled(r) = Filled(s) \cup {NewHandle(s)}
         /\ NewHandle(s) \notin Filled(s)
         /\ r.array[NewHandle(s)] = [object |-> NewObject, depth |-> depth]
         /\ \A h \in Filled(s) : r.array[h] = s.array[h]
         /\ \A h \in Filled(r) : r.array[h].object <= NewObject
         /\ \A g, h \in Filled(r) : r.array[g].object = r.array[h].object => g = h
         /\ {r.array[h].object : h \in Filled(r)}
              = {s.array[h].object : h \in Filled(s)} \cup {NewObject}
<1> DEFINE n == NewHandle(s)
           x == [object |-> NewObject, depth |-> depth]
<1>1. /\ created \in Nat /\ NewObject = created + 1
      /\ NewObject \in Objects /\ NewObject # Null
      /\ x \in Image /\ x # Null /\ x.object = NewObject
  BY NullAssumption DEF TypeOK, NewObject, Objects, Image
<1>2. n \in Slots \ {0}
  BY SizeAssumption, MaxHandleAssumption DEF Slots, NewHandle, SlotmapOf
<1>3. /\ r \in SlotmapOf(Image)
      /\ Unwritten(r)
      /\ s.array[n] = Null
      /\ \A h \in Slots : r.array[h] = IF h = n THEN x ELSE s.array[h]
  BY <1>1, <1>2, AddWithinSlots
<1> HIDE DEF n, x
<1>4. /\ Filled(r) = Filled(s) \cup {n} /\ n \notin Filled(s)
      /\ r.array[n] = x
      /\ \A h \in Filled(s) : r.array[h] = s.array[h]
  BY <1>1, <1>2, <1>3 DEF Filled
<1>5. \A h \in Filled(s) : s.array[h].object \in Nat /\ s.array[h].object <= created
  BY DEF Filled, SlotmapOf, Image, Objects
<1>6. \A h \in Filled(r) : r.array[h].object <= NewObject
  BY <1>1, <1>4, <1>5
<1>7. \A g, h \in Filled(r) : r.array[g].object = r.array[h].object => g = h
  BY <1>1, <1>4, <1>5
<1>8. {r.array[h].object : h \in Filled(r)}
        = {s.array[h].object : h \in Filled(s)} \cup {NewObject}
  BY <1>1, <1>4
<1>9. QED
  BY <1>1, <1>2, <1>3, <1>4, <1>6, <1>7, <1>8 DEF n, x

LEMMA CreateImageKeeps ==
  ASSUME MaxHandle < SIZE, ResourceInv, NEW depth \in BOOLEAN, CreateImage(depth)
  PROVE  ResourceInv'
<1> DEFINE n == NewHandle(images)
           x == [object |-> NewObject, depth |-> depth]
<1>1. /\ TypeOK /\ Unwritten(images) /\ images \in SlotmapOf(Image)
      /\ n <= MaxHandle /\ images' \in Added(images, x)
      /\ UNCHANGED <<buffers, targets, liveBuffers, heldBuffers, pending, up>>
      /\ up
      /\ created' = NewObject
      /\ liveImages' = liveImages \cup {NewObject}
      /\ heldImages' = heldImages \cup {[handle |-> n, value |-> x]}
  BY DEF ResourceInv, Shape, TypeOK, CreateImage
<1>2. /\ \A h \in Filled(images) : images.array[h].object <= created
      /\ \A g, h \in Filled(images) :
           images.array[g].object = images.array[h].object => g = h
  BY DEF ResourceInv, OldObjects, OneSlotEach
<1>3. /\ n \in Slots \ {0}
      /\ NewObject \in Objects /\ x \in Image
      /\ images' \in SlotmapOf(Image)
      /\ Unwritten(images')
      /\ Filled(images') = Filled(images) \cup {n}
      /\ n \notin Filled(images)
      /\ images'.array[n] = x
      /\ \A h \in Filled(images) : images'.array[h] = images.array[h]
      /\ \A h \in Filled(images') : images'.array[h].object <= NewObject
      /\ \A g, h \in Filled(images') :
           images'.array[g].object = images'.array[h].object => g = h
      /\ {images'.array[h].object : h \in Filled(images')}
           = {images.array[h].object : h \in Filled(images)} \cup {NewObject}
  BY <1>1, <1>2, NewImage
<1> HIDE DEF n, x
<1>4. Shape'
  <2>1. [handle |-> n, value |-> x] \in Held(Image)
    BY <1>3 DEF Held, Slots
  <2>2. TypeOK'
    BY <1>1, <1>3, <2>1 DEF TypeOK, Objects
  <2>3. QED
    BY <1>1, <1>3, <2>2 DEF Shape, ResourceInv
<1>5. OldObjects'
  <2>1. \A h \in Filled(buffers) : buffers.array[h] \in Nat
    BY <1>1 DEF TypeOK, Filled, SlotmapOf, Objects
  <2>2. created \in Nat /\ NewObject = created + 1
    BY <1>1 DEF TypeOK, NewObject
  <2>3. QED
    BY <1>1, <1>3, <2>1, <2>2 DEF OldObjects, ResourceInv
<1>6. OneSlotEach'
  BY <1>1, <1>3 DEF OneSlotEach, ResourceInv
<1>7. Owned'
  BY <1>1, <1>3 DEF Owned, ResourceInv
<1>8. HandlesPersist'
  <2>1. ASSUME NEW p \in heldImages
        PROVE  p.handle \in Slots /\ images'.array[p.handle] = p.value
    <3>1. p.handle \in Slots /\ images.array[p.handle] = p.value /\ p.value # Null
      BY <1>1, NullAssumption DEF ResourceInv, HandlesPersist, TypeOK, Held
    <3>2. QED
      BY <1>3, <3>1 DEF Filled
  <2>2. QED
    BY <1>1, <1>3, <2>1 DEF HandlesPersist, ResourceInv
<1>9. TargetsOwnImages' /\ pending' \subseteq Targets'
  <2>1. Targets' = Targets
    BY <1>1 DEF Targets
  <2>2. \A t \in Targets : targets.array[t].imageHandle \in Filled(images)
    BY DEF ResourceInv, TargetsOwnImages, Filled
  <2>3. QED
    BY <1>1, <1>3, <2>1, <2>2 DEF TargetsOwnImages, ResourceInv, Filled
<1>10. QED
  BY <1>4, <1>5, <1>6, <1>7, <1>8, <1>9 DEF ResourceInv

LEMMA CreateRenderTargetKeeps ==
  ASSUME MaxHandle < SIZE, ResourceInv, NEW depth \in BOOLEAN, CreateRenderTarget(depth)
  PROVE  ResourceInv'
<1> DEFINE n == NewHandle(images)
           x == [object |-> NewObject, depth |-> depth]
           m == NewHandle(targets)
           target == [imageHandle |-> n, depth |-> depth]
<1>1. /\ TypeOK /\ Unwritten(images) /\ images \in SlotmapOf(Image)
      /\ Unwritten(targets) /\ targets \in SlotmapOf(RenderTarget)
      /\ n <= MaxHandle /\ images' \in Added(images, x)
      /\ m <= MaxHandle /\ targets' \in Added(targets, target)
      /\ UNCHANGED <<buffers, liveBuffers, heldBuffers, heldImages, pending, up>>
      /\ up
      /\ created' = NewObject
      /\ liveImages' = liveImages \cup {NewObject}
  BY DEF ResourceInv, Shape, TypeOK, CreateRenderTarget
<1>2. /\ \A h \in Filled(images) : images.array[h].object <= created
      /\ \A g, h \in Filled(images) :
           images.array[g].object = images.array[h].object => g = h
  BY DEF ResourceInv, OldObjects, OneSlotEach
<1>3. /\ n \in Slots \ {0}
      /\ NewObject \in Objects /\ x \in Image
      /\ images' \in SlotmapOf(Image)
      /\ Unwritten(images')
      /\ Filled(images') = Filled(images) \cup {n}
      /\ n \notin Filled(images)
      /\ images'.array[n] = x
      /\ \A h \in Filled(images) : images'.array[h] = images.array[h]
      /\ \A h \in Filled(images') : images'.array[h].object <= NewObject
      /\ \A g, h \in Filled(images') :
           images'.array[g].object = images'.array[h].object => g = h
      /\ {images'.array[h].object : h \in Filled(images')}
           = {images.array[h].object : h \in Filled(images)} \cup {NewObject}
  BY <1>1, <1>2, NewImage
<1>4. target \in RenderTarget /\ target # Null
  BY <1>3, NullAssumption DEF RenderTarget, Slots
<1>5. m \in Slots
  BY <1>1, SizeAssumption, MaxHandleAssumption DEF Slots, NewHandle, SlotmapOf
<1>6. /\ targets' \in SlotmapOf(RenderTarget)
      /\ Unwritten(targets')
      /\ targets.array[m] = Null
      /\ \A h \in Slots : targets'.array[h] = IF h = m THEN target ELSE targets.array[h]
  BY <1>1, <1>4, <1>5, AddWithinSlots
<1>7. x.depth = depth /\ target.depth = depth /\ target.imageHandle = n /\ x # Null
  BY <1>3, NullAssumption DEF Image
<1> HIDE DEF n, x, m, target
<1>8. Targets' = Targets \cup {m} /\ m \notin Targets
      /\ targets'.array[m] = target
      /\ \A t \in Targets : targets'.array[t] = targets.array[t]
  BY <1>3, <1>4, <1>5, <1>6, <1>7 DEF Targets
<1>9. Shape'
  <2>1. TypeOK'
    BY <1>1, <1>3, <1>6 DEF TypeOK, Objects
  <2>2. QED
    BY <1>1, <1>3, <1>6, <2>1 DEF Shape, ResourceInv
<1>10. OldObjects'
  <2>1. \A h \in Filled(buffers) : buffers.array[h] \in Nat
    BY <1>1 DEF TypeOK, Filled, SlotmapOf, Objects
  <2>2. created \in Nat /\ NewObject = created + 1
    BY <1>1 DEF TypeOK, NewObject
  <2>3. QED
    BY <1>1, <1>3, <2>1, <2>2 DEF OldObjects, ResourceInv
<1>11. OneSlotEach'
  BY <1>1, <1>3 DEF OneSlotEach, ResourceInv
<1>12. Owned'
  BY <1>1, <1>3 DEF Owned, ResourceInv
<1>13. \A p \in heldImages : p.handle \in Filled(images) /\ images.array[p.handle] = p.value
  BY <1>1, NullAssumption DEF ResourceInv, HandlesPersist, TypeOK, Held, Filled
<1>14. HandlesPersist'
  BY <1>1, <1>3, <1>13 DEF HandlesPersist, ResourceInv, Filled
<1>15. TargetsOwnImages'
  <2>1. \A t \in Targets : targets.array[t].imageHandle \in Filled(images)
    BY DEF ResourceInv, TargetsOwnImages, Filled
  <2>2. QED
    BY <1>1, <1>3, <1>7, <1>8, <1>13, <2>1 DEF TargetsOwnImages, ResourceInv, Filled
<1>16. pending' \subseteq Targets'
  BY <1>1, <1>8 DEF ResourceInv
<1>17. QED
  BY <1>9, <1>10, <1>11, <1>12, <1>14, <1>15, <1>16 DEF ResourceInv

LEMMA RecreateTargetKeeps ==
  ASSUME MaxHandle < SIZE, ResourceInv, NEW t \in Slots, RecreateTarget(t)
  PROVE  ResourceInv'
<1> DEFINE old == targets.array[t].imageHandle
           s == Overwritten(images, old, Null)
           n == NewHandle(images)
           d == targets.array[t].depth
           x == [object |-> NewObject, depth |-> d]
           target == [targets.array[t] EXCEPT !.imageHandle = n]
<1>1. /\ TypeOK /\ Unwritten(images) /\ images \in SlotmapOf(Image)
      /\ Unwritten(targets) /\ targets \in SlotmapOf(RenderTarget)
      /\ n <= MaxHandle /\ images' \in Added(s, x)
      /\ targets' = Overwritten(targets, t, target)
      /\ UNCHANGED <<buffers, liveBuffers, heldBuffers, heldImages, up>>
      /\ up
      /\ created' = NewObject
      /\ t \in pending /\ pending' = pending \ {t}
      /\ liveImages' = (liveImages \ ObjectsOf({images.array[old]})) \cup {NewObject}
  BY DEF ResourceInv, Shape, TypeOK, RecreateTarget
<1>2. /\ t \in Targets /\ targets.array[t] \in RenderTarget /\ targets.array[t] # Null
      /\ old \in Slots /\ images.array[old] # Null /\ d \in BOOLEAN
  BY <1>1 DEF ResourceInv, TargetsOwnImages, Targets, SlotmapOf, RenderTarget
<1>3. /\ s \in SlotmapOf(Image) /\ Unwritten(s) /\ NewHandle(s) = n
      /\ \A h \in Slots : s.array[h] = IF h = old THEN Null ELSE images.array[h]
  BY <1>1, <1>2, OverwriteSlot DEF NewHandle
<1>4. target \in RenderTarget /\ target.imageHandle = n /\ target.depth = d
  BY <1>1, <1>2 DEF RenderTarget, NewHandle, SlotmapOf
<1>5. /\ targets' \in SlotmapOf(RenderTarget) /\ Unwritten(targets')
      /\ \A g \in Slots : targets'.array[g] = IF g = t THEN target ELSE targets.array[g]
  BY <1>1, <1>2, <1>4, OverwriteSlot
<1> HIDE DEF s, target
<1>6. /\ Filled(s) = Filled(images) \ {old} /\ old \in Filled(images)
      /\ \A h \in Filled(s) : s.array[h] = images.array[h]
  BY <1>2, <1>3 DEF Filled
<1>7. /\ \A h \in Filled(s) : s.array[h].object <= created
      /\ \A g, h \in Filled(s) : s.array[g].object = s.array[h].object => g = h
  BY <1>6 DEF ResourceInv, OldObjects, OneSlotEach
<1>8. /\ n \in Slots \ {0}
      /\ NewObject \in Objects /\ x \in Image
      /\ images' \in SlotmapOf(Image)
      /\ Unwritten(images')
      /\ Filled(images') = Filled(s) \cup {n}
      /\ n \notin Filled(s)
      /\ images'.array[n] = x
      /\ \A h \in Filled(s) : images'.array[h] = s.array[h]
      /\ \A h \in Filled(images') : images'.array[h].object <= NewObject
      /\ \A g, h \in Filled(images') :
           images'.array[g].object = images'.array[h].object => g = h
      /\ {images'.array[h].object : h \in Filled(images')}
           = {s.array[h].object : h \in Filled(s)} \cup {NewObject}
  BY <1>1, <1>2, <1>3, <1>7, NewImage
<1>9. n # old
  BY <1>1, <1>2 DEF Unwritten, NewHandle, SlotmapOf, Slots
<1>10. x.depth = d /\ x # Null /\ target # Null
  BY <1>4, <1>8, NullAssumption DEF Image
<1>11. ObjectsOf({images.array[old]}) = {images.array[old].object}
  BY <1>2 DEF ObjectsOf
<1> HIDE DEF old, n, d, x
<1>12. Targets' = Targets /\ targets'.array[t] = target
       /\ \A g \in Targets \ {t} : targets'.array[g] = targets.array[g]
  BY <1>2, <1>4, <1>5, <1>8, <1>10 DEF Targets
<1>13. Shape'
  <2>1. TypeOK'
    BY <1>1, <1>5, <1>8 DEF TypeOK, Objects, ObjectsOf
  <2>2. QED
    BY <1>1, <1>5, <1>8, <2>1 DEF Shape, ResourceInv
<1>14. OldObjects'
  <2>1. \A h \in Filled(buffers) : buffers.array[h] \in Nat
    BY <1>1 DEF TypeOK, Filled, SlotmapOf, Objects
  <2>2. created \in Nat /\ NewObject = created + 1
    BY <1>1 DEF TypeOK, NewObject
  <2>3. QED
    BY <1>1, <1>8, <2>1, <2>2 DEF OldObjects, ResourceInv
<1>15. OneSlotEach'
  BY <1>1, <1>8 DEF OneSlotEach, ResourceInv
<1>16. Owned'
  <2>1. liveImages = {images.array[h].object : h \in Filled(images)}
    BY <1>1 DEF ResourceInv, Owned
  <2>2. \A h \in Filled(s) : images.array[h].object # images.array[old].object
    BY <1>6 DEF ResourceInv, OneSlotEach
  <2>3. {s.array[h].object : h \in Filled(s)} = liveImages \ {images.array[old].object}
    BY <1>6, <2>1, <2>2
  <2>4. liveImages' = {images'.array[h].object : h \in Filled(images')}
    BY <1>1, <1>8, <1>11, <2>3
  <2>5. QED
    BY <1>1, <2>4 DEF Owned, ResourceInv
<1>17. \A p \in heldImages : /\ p.handle \in Filled(s)
                             /\ images.array[p.handle] = p.value
  <2>1. \A p \in heldImages : p.handle \in Filled(images) /\ images.array[p.handle] = p.value
    BY <1>1, NullAssumption DEF ResourceInv, HandlesPersist, TypeOK, Held, Filled
  <2>2. \A p \in heldImages : p.handle # old
    BY <1>2 DEF ResourceInv, TargetsOwnImages, old
  <2>3. QED
    BY <1>6, <2>1, <2>2
<1>18. HandlesPersist'
  BY <1>1, <1>6, <1>8, <1>17 DEF HandlesPersist, ResourceInv, Filled
<1>19. TargetsOwnImages'
  <2>1. \A g \in Targets \ {t} : /\ targets.array[g].imageHandle \in Filled(s)
                                /\ images.array[targets.array[g].imageHandle].depth
                                      = targets.array[g].depth
    BY <1>2, <1>6 DEF ResourceInv, TargetsOwnImages, Filled, old
  <2>2. ASSUME NEW g \in Targets \ {t}
        PROVE  LET target2 == targets'.array[g]
               IN  /\ target2.imageHandle \in Slots
                   /\ images'.array[target2.imageHandle] # Null
                   /\ images'.array[target2.imageHandle].depth = target2.depth
                   /\ \A other \in Targets \ {g} :
                        targets'.array[other].imageHandle # target2.imageHandle
                   /\ \A p \in heldImages : p.handle # target2.imageHandle
    <3>1. targets'.array[g] = targets.array[g]
      BY <1>12
    <3>2. /\ targets.array[g].imageHandle \in Slots
          /\ images'.array[targets.array[g].imageHandle] # Null
          /\ images'.array[targets.array[g].imageHandle].depth = targets.array[g].depth
      BY <1>6, <1>8, <2>1 DEF Filled
    <3>3. \A other \in Targets \ {g} :
            targets'.array[other].imageHandle # targets.array[g].imageHandle
      BY <1>4, <1>8, <1>12, <2>1 DEF ResourceInv, TargetsOwnImages
    <3>4. \A p \in heldImages : p.handle # targets.array[g].imageHandle
      BY DEF ResourceInv, TargetsOwnImages
    <3>5. QED
      BY <3>1, <3>2, <3>3, <3>4
  <2>3. /\ target.imageHandle \in Slots
        /\ images'.array[target.imageHandle] # Null
        /\ images'.array[target.imageHandle].depth = target.depth
        /\ \A other \in Targets \ {t} :
             targets'.array[other].imageHandle # target.imageHandle
        /\ \A p \in heldImages : p.handle # target.imageHandle
    BY <1>4, <1>8, <1>10, <1>12, <1>17, <2>1
  <2>4. heldImages' = heldImages
    BY <1>1
  <2>5. QED
    BY <1>2, <1>12, <2>2, <2>3, <2>4 DEF TargetsOwnImages
<1>20. pending' \subseteq Targets'
  BY <1>1, <1>12 DEF ResourceInv
<1>21. QED
  BY <1>13, <1>14, <1>15, <1>16, <1>18, <1>19, <1>20 DEF ResourceInv

LEMMA BeginRecreateKeeps ==
  ASSUME ResourceInv, BeginRecreate
  PROVE  ResourceInv'
<1>1. /\ pending' = Targets
      /\ UNCHANGED <<buffers, images, targets, liveBuffers, liveImages, created,
                     heldBuffers, heldImages, up>>
  BY DEF BeginRecreate
<1>2. Targets \subseteq Slots /\ Targets' = Targets
  BY <1>1 DEF Targets
<1>3. Shape'
  BY <1>1, <1>2 DEF ResourceInv, Shape, TypeOK, Unwritten
<1>4. HandlesPersist' /\ TargetsOwnImages'
  BY <1>1, <1>2 DEF ResourceInv, HandlesPersist, TargetsOwnImages
<1>5. QED
  BY <1>1, <1>2, <1>3, <1>4
     DEF ResourceInv, OldObjects, OneSlotEach, Filled, Owned

LEMMA DeinitKeeps ==
  ASSUME ResourceInv, Deinit
  PROVE  ResourceInv'
<1>1. /\ up /\ ~up'
      /\ liveBuffers' = liveBuffers \ Stored(buffers)
      /\ liveImages' = liveImages \ ObjectsOf(Stored(images))
      /\ heldBuffers' = {} /\ heldImages' = {} /\ up' = FALSE
      /\ UNCHANGED <<buffers, images, targets, created, pending>>
  BY DEF Deinit
<1>2. liveBuffers = Stored(buffers) /\ liveImages = ObjectsOf(Stored(images))
  BY <1>1, OwnedIsSlotsOwnObjects DEF ResourceInv, Shape, SlotsOwnObjects
<1>3. Owned'
  BY <1>1, <1>2 DEF Owned
<1>4. Shape'
  BY <1>1, <1>2 DEF ResourceInv, Shape, TypeOK, Unwritten
<1>5. Targets' = Targets
  BY <1>1 DEF Targets
<1>6. HandlesPersist' /\ TargetsOwnImages' /\ pending' \subseteq Targets'
  BY <1>1, <1>5 DEF ResourceInv, HandlesPersist, TargetsOwnImages
<1>7. OldObjects' /\ OneSlotEach'
  BY <1>1 DEF ResourceInv, OldObjects, OneSlotEach, Filled
<1>8. QED
  BY <1>3, <1>4, <1>6, <1>7 DEF ResourceInv

-----------------------------------------------------------------------------
(* The theorems *)

LEMMA ResourceStep ==
  ASSUME MaxHandle < SIZE, ResourceInv, [Next]_vars
  PROVE  ResourceInv'
<1>1. CASE CreateBuffer
  BY <1>1, CreateBufferKeeps
<1>2. ASSUME NEW h \in Slots, DestroyBuffer(h) PROVE ResourceInv'
  BY <1>2, DestroyBufferKeeps
<1>3. ASSUME NEW depth \in BOOLEAN, CreateImage(depth) PROVE ResourceInv'
  BY <1>3, CreateImageKeeps
<1>4. ASSUME NEW depth \in BOOLEAN, CreateRenderTarget(depth) PROVE ResourceInv'
  BY <1>4, CreateRenderTargetKeeps
<1>5. CASE BeginRecreate
  BY <1>5, BeginRecreateKeeps
<1>6. ASSUME NEW t \in Slots, RecreateTarget(t) PROVE ResourceInv'
  BY <1>6, RecreateTargetKeeps
<1>7. CASE Deinit
  BY <1>7, DeinitKeeps
<1>8. CASE UNCHANGED vars
  <2>1. UNCHANGED <<buffers, images, targets, liveBuffers, liveImages, created,
                    heldBuffers, heldImages, pending, up>>
    BY <1>8 DEF vars
  <2>2. Shape'
    BY <2>1 DEF ResourceInv, Shape, TypeOK, Unwritten
  <2>3. HandlesPersist' /\ TargetsOwnImages' /\ pending' \subseteq Targets'
    BY <2>1 DEF ResourceInv, HandlesPersist, TargetsOwnImages, Targets
  <2>4. QED
    BY <2>1, <2>2, <2>3 DEF ResourceInv, OldObjects, OneSlotEach, Filled, Owned
<1>9. QED
  BY <1>1, <1>2, <1>3, <1>4, <1>5, <1>6, <1>7, <1>8 DEF Next, Ended

LEMMA ResourceInvariant == MaxHandle < SIZE => (Spec => []ResourceInv)
<1> SUFFICES ASSUME MaxHandle < SIZE PROVE Spec => []ResourceInv
  OBVIOUS
<1>1. ResourceInv /\ [Next]_vars => ResourceInv'
  BY ResourceStep
<1>2. QED
  BY <1>1, ResourceInit, PTL DEF Spec

\* As long as no slotmap runs out of slots, a handle keeps giving back what was
\* added under it, whatever is created, destroyed or resized in between.
THEOREM PersistentHandles ==
  ASSUME MaxHandle < SIZE
  PROVE  Spec => []HandlesPersist
<1>1. ResourceInv => HandlesPersist
  BY DEF ResourceInv
<1>2. QED
  BY <1>1, ResourceInvariant, PTL

\* As long as no slotmap runs out of slots, the ResourceManager neither leaks an
\* object nor destroys one twice, and Deinit destroys all that is left.
THEOREM NothingLeaks ==
  ASSUME MaxHandle < SIZE
  PROVE  Spec => []SlotsOwnObjects
<1>1. ResourceInv => SlotsOwnObjects
  BY OwnedIsSlotsOwnObjects DEF ResourceInv, Shape
<1>2. QED
  BY <1>1, ResourceInvariant, PTL

\* As long as no slotmap runs out of slots, any number of resizes leaves every
\* render target with an image of its kind that is its own.
THEOREM TargetsSafe ==
  ASSUME MaxHandle < SIZE
  PROVE  Spec => []TargetsOwnImages
<1>1. ResourceInv => TargetsOwnImages
  BY DEF ResourceInv
<1>2. QED
  BY <1>1, ResourceInvariant, PTL

-----------------------------------------------------------------------------
(* Types, whether or not a slotmap runs out of slots: past the last slot only  *)
(* lastHandle is overwritten, and get is called with handles that have a slot. *)

LEMMA AddKeepsType ==
  ASSUME NEW T, NEW s \in SlotmapOf(T), NEW x \in T, NEW r \in Added(s, x)
  PROVE  r \in SlotmapOf(T) /\ NewHandle(s) \in Nat
<1>1. s.array \in [Slots -> T \cup {Null}] /\ s.lastHandle \in Nat
  BY DEF SlotmapOf
<1>2. NewHandle(s) \in Nat
  BY <1>1 DEF NewHandle
<1>3. CASE NewHandle(s) \in Slots
  <2>1. r = [array |-> [s.array EXCEPT ![NewHandle(s)] = x], lastHandle |-> NewHandle(s)]
    BY <1>3 DEF Added
  <2>2. QED
    BY <1>1, <1>2, <2>1 DEF SlotmapOf
<1>4. CASE NewHandle(s) \notin Slots
  <2>1. PICK last \in 0 .. SIZE : r = [s EXCEPT !.lastHandle = last]
    BY <1>4 DEF Added
  <2>2. last \in Nat
    BY <2>1, SizeAssumption
  <2>3. r \in SlotmapOf(T)
    BY <2>1, <2>2 DEF SlotmapOf
  <2>4. QED
    BY <1>2, <2>3
<1>5. QED
  BY <1>2, <1>3, <1>4

LEMMA OverwriteKeepsType ==
  ASSUME NEW T, NEW s \in SlotmapOf(T), NEW h \in Slots, NEW x \in T \cup {Null}
  PROVE  /\ Overwritten(s, h, x) \in SlotmapOf(T)
         /\ \A g \in Slots : Overwritten(s, h, x).array[g] = IF g = h THEN x ELSE s.array[g]
<1>1. s.array \in [Slots -> T \cup {Null}] /\ s.lastHandle \in Nat
  BY DEF SlotmapOf
<1>2. Overwritten(s, h, x) = [array |-> [s.array EXCEPT ![h] = x], lastHandle |-> s.lastHandle]
  BY DEF Overwritten, SlotmapOf
<1>3. QED
  BY <1>1, <1>2 DEF SlotmapOf

\* A target that is still to be recreated is there.
TypeInv == TypeOK /\ \A t \in pending : targets.array[t] # Null

LEMMA NewObjectType == TypeOK => NewObject \in Objects
BY DEF TypeOK, NewObject, Objects

LEMMA TypeStep == TypeInv /\ [Next]_vars => TypeInv'
<1> SUFFICES ASSUME TypeInv, [Next]_vars PROVE TypeInv'
  OBVIOUS
<1>0. /\ TypeOK /\ NewObject \in Objects /\ Objects \subseteq Nat
      /\ buffers \in SlotmapOf(Objects) /\ images \in SlotmapOf(Image)
      /\ targets \in SlotmapOf(RenderTarget)
  BY NewObjectType DEF TypeInv, TypeOK, Objects
<1>1. CASE CreateBuffer
  <2>1. /\ buffers' \in SlotmapOf(Objects) /\ NewHandle(buffers) \in Nat
        /\ UNCHANGED <<targets, pending>>
    BY <1>0, <1>1, AddKeepsType DEF CreateBuffer
  <2>2. [handle |-> NewHandle(buffers), value |-> NewObject] \in Held(Objects)
    BY <1>0, <2>1 DEF Held
  <2>3. QED
    BY <1>0, <1>1, <2>1, <2>2 DEF CreateBuffer, TypeInv, TypeOK
<1>2. ASSUME NEW h \in Slots, DestroyBuffer(h) PROVE TypeInv'
  <2>1. buffers' \in SlotmapOf(Objects) /\ UNCHANGED <<targets, pending>>
    BY <1>0, <1>2, OverwriteKeepsType DEF DestroyBuffer
  <2>2. QED
    BY <1>2, <2>1 DEF DestroyBuffer, TypeInv, TypeOK
<1>3. ASSUME NEW depth \in BOOLEAN, CreateImage(depth) PROVE TypeInv'
  <2> DEFINE image == [object |-> NewObject, depth |-> depth]
  <2>1. image \in Image
    BY <1>0 DEF Image
  <2>2. /\ images' \in SlotmapOf(Image) /\ NewHandle(images) \in Nat
        /\ UNCHANGED <<targets, pending>>
    BY <1>0, <1>3, <2>1, AddKeepsType DEF CreateImage
  <2>3. [handle |-> NewHandle(images), value |-> image] \in Held(Image)
    BY <2>1, <2>2 DEF Held
  <2>4. QED
    BY <1>0, <1>3, <2>2, <2>3 DEF CreateImage, TypeInv, TypeOK
<1>4. ASSUME NEW depth \in BOOLEAN, CreateRenderTarget(depth) PROVE TypeInv'
  <2>1. [object |-> NewObject, depth |-> depth] \in Image
    BY <1>0 DEF Image
  <2>2. images' \in SlotmapOf(Image) /\ NewHandle(images) \in Nat
    BY <1>0, <1>4, <2>1, AddKeepsType DEF CreateRenderTarget
  <2>3. [imageHandle |-> NewHandle(images), depth |-> depth] \in RenderTarget
    BY <2>2 DEF RenderTarget
  <2>4. targets' \in SlotmapOf(RenderTarget) /\ pending' = {}
    BY <1>0, <1>4, <2>3, AddKeepsType DEF CreateRenderTarget
  <2>5. QED
    BY <1>0, <1>4, <2>2, <2>4 DEF CreateRenderTarget, TypeInv, TypeOK
<1>5. CASE BeginRecreate
  <2>1. Targets \subseteq Slots /\ \A t \in Targets : targets.array[t] # Null
    BY DEF Targets
  <2>2. QED
    BY <1>5, <2>1 DEF BeginRecreate, TypeInv, TypeOK
<1>6. ASSUME NEW t \in Slots, RecreateTarget(t) PROVE TypeInv'
  <2> DEFINE target == targets.array[t]
             freed == Overwritten(images, target.imageHandle, Null)
             image == [object |-> NewObject, depth |-> target.depth]
             moved == [target EXCEPT !.imageHandle = NewHandle(images)]
  <2>1. /\ target \in RenderTarget /\ target.imageHandle \in Slots
        /\ pending' = pending \ {t} /\ images' \in Added(freed, image)
        /\ targets' = Overwritten(targets, t, moved)
    BY <1>0, <1>6 DEF RecreateTarget, TypeInv, SlotmapOf
  <2>2. image \in Image /\ moved \in RenderTarget
    BY <1>0, <2>1 DEF Image, RenderTarget, NewHandle, SlotmapOf
  <2>3. freed \in SlotmapOf(Image)
    BY <1>0, <2>1, OverwriteKeepsType
  <2> HIDE DEF target, freed, image, moved
  <2>4. images' \in SlotmapOf(Image)
    BY <2>1, <2>2, <2>3, AddKeepsType
  <2>5. /\ targets' \in SlotmapOf(RenderTarget)
        /\ \A g \in Slots : targets'.array[g] = IF g = t THEN moved ELSE targets.array[g]
    BY <1>0, <2>1, <2>2, OverwriteKeepsType
  <2>6. \A g \in pending' : targets'.array[g] # Null
    BY <2>1, <2>5 DEF TypeInv, TypeOK
  <2>7. QED
    BY <1>0, <1>6, <2>1, <2>4, <2>5, <2>6 DEF RecreateTarget, TypeInv, TypeOK
<1>7. CASE Deinit
  BY <1>7 DEF Deinit, TypeInv, TypeOK
<1>8. CASE UNCHANGED vars
  BY <1>8 DEF vars, TypeInv, TypeOK
<1>9. QED
  BY <1>1, <1>2, <1>3, <1>4, <1>5, <1>6, <1>7, <1>8 DEF Next, Ended

\* Every variable keeps its type, also when a slotmap has run out of slots: a slot holds
\* what was added or nothing, and recreateRenderTargetImages visits only slots that hold
\* a target.
THEOREM TypeCorrect == Spec => []TypeOK
<1>1. Init => TypeInv
  BY DEF Init, TypeInv, TypeOK, SlotmapOf, EmptySlotmap
<1>2. TypeInv => TypeOK
  BY DEF TypeInv
<1>3. QED
  BY <1>1, <1>2, TypeStep, PTL DEF Spec
=============================================================================
