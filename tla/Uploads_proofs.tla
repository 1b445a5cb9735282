---------------------------- MODULE Uploads_proofs ----------------------------
(***************************************************************************)
(* That what an upload returns stands for what was uploaded, and that it   *)
(* leaves nothing else behind, for any data, any number of frames, and as  *)
(* many uploads as there are slots and descriptors for.                    *)
(***************************************************************************)
EXTENDS Uploads, SequenceTheorems, TLAPS

USE DEF Slots, Objects

\* Where the thread has a request to finish, and where it has a staging buffer.
Busy == {"submit", "wait", "reset", "release"}
Working == Busy \cup {"stage"}

\* How far the request has come: a part is left while the thread works on one, and
\* none when the handle is given out.
Progress ==
  /\ pc \in Working => Len(made) < Len(request.parts)
  /\ pc = "add" => Len(made) = Len(request.parts)
  /\ pc \in Working \cup {"add"} =>
       (request.kind # "MESH" => Len(request.parts) = 1)
  /\ pc \in Busy => Len(memory) >= 2

TypeInv == TypeOK /\ Progress

-----------------------------------------------------------------------------
(* Sequences and requests *)

\* A request has one part or two, and a part is data.
LEMMA PartsOfRequest ==
  ASSUME NEW r \in Request
  PROVE  /\ r.parts \in Seq(Data)
         /\ Len(r.parts) \in {1, 2}
         /\ \A k \in 1 .. Len(r.parts) : r.parts[k] \in Data
  <1>1. r.parts \in {<<d>> : d \in Data} \cup {<<d, e>> : d, e \in Data}
    <2>1. CASE r \in Meshes
      BY <2>1 DEF Meshes, Parts
    <2>2. CASE r \in Textures
      BY <2>2 DEF Textures
    <2> QED
      BY <2>1, <2>2 DEF Request
  <1>2. CASE r.parts \in {<<d>> : d \in Data}
    <2>1. PICK d \in Data : r.parts = <<d>>
      BY <1>2
    <2> QED
      BY <2>1
  <1>3. CASE r.parts \in {<<d, e>> : d, e \in Data}
    <2>1. PICK d \in Data, e \in Data : r.parts = <<d, e>>
      BY <1>3
    <2> QED
      BY <2>1
  <1> QED
    BY <1>1, <1>2, <1>3

\* Two objects more leave the others as they are.
LEMMA TwoMore ==
  ASSUME NEW S, NEW s \in Seq(S), NEW a \in S, NEW b \in S
  PROVE  /\ s \o <<a, b>> \in Seq(S)
         /\ Len(s \o <<a, b>>) = Len(s) + 2
         /\ \A k \in 1 .. Len(s) : (s \o <<a, b>>)[k] = s[k]
         /\ (s \o <<a, b>>)[Len(s) + 1] = a
         /\ (s \o <<a, b>>)[Len(s) + 2] = b
  <1>1. <<a, b>> \in Seq(S) /\ Len(<<a, b>>) = 2 /\ <<a, b>>[1] = a /\ <<a, b>>[2] = b
    OBVIOUS
  <1>2. Len(s) \in Nat
    BY LenProperties
  <1> QED
    BY <1>1, <1>2, ConcatProperties

\* A sequence overwritten at one place.
LEMMA OneOverwritten ==
  ASSUME NEW S, NEW s \in Seq(S), NEW i, NEW a \in S
  PROVE  /\ [s EXCEPT ![i] = a] \in Seq(S)
         /\ Len([s EXCEPT ![i] = a]) = Len(s)
         /\ \A k \in 1 .. Len(s) : [s EXCEPT ![i] = a][k] = IF k = i THEN a ELSE s[k]
  <1>1. CASE i \in 1 .. Len(s)
    BY <1>1, ExceptSeq
  <1>2. CASE i \notin 1 .. Len(s)
    <2>1. s \in [1 .. Len(s) -> S]
      BY LenProperties
    <2>2. [s EXCEPT ![i] = a] = s
      BY <1>2, <2>1
    <2> QED
      BY <1>2, <2>2
  <1> QED
    BY <1>1, <1>2

\* Overwriting does not need to be within the sequence, nor of the same kind.
LEMMA LenExcept ==
  ASSUME NEW S, NEW s \in Seq(S), NEW i, NEW a
  PROVE  /\ Len([s EXCEPT ![i] = a]) = Len(s)
         /\ \A k \in 1 .. Len(s) : k # i => [s EXCEPT ![i] = a][k] = s[k]
  <1>1. s \in Seq(S \cup {a}) /\ a \in S \cup {a}
    BY SeqMonotonic
  <1> QED
    BY <1>1, OneOverwritten

\* One copy in the queue.
LEMMA OnlyOne ==
  ASSUME NEW c
  PROVE  /\ Append(<<>>, c) = <<c>> /\ <<c>> # <<>>
         /\ Head(<<c>>) = c /\ Tail(<<c>>) = <<>>
  OBVIOUS

\* The staging buffer and the target of n objects, and two objects more.
LEMMA LastTwo ==
  ASSUME NEW n \in Nat
  PROVE  /\ n >= 2 => [from |-> n - 1, to |-> n] \in Copy
         /\ \A L \in SUBSET (1 .. n) : L \cup {n + 1, n + 2} \subseteq 1 .. n + 2
  BY DEF Copy

-----------------------------------------------------------------------------
(* Slotmaps *)

LEMMA AddedIsSlotmap ==
  ASSUME NEW T, NEW s \in SlotmapOf(T), NEW x \in T, NEW r \in Added(s, x)
  PROVE  r \in SlotmapOf(T)
  <1>1. s.array \in [Slots -> T \cup {Null}] /\ s.lastHandle \in Nat
    BY DEF SlotmapOf
  <1>2. CASE NewHandle(s) \in Slots
    <2>1. r = [array |-> [s.array EXCEPT ![NewHandle(s)] = x], lastHandle |-> NewHandle(s)]
      BY <1>2 DEF Added
    <2>2. NewHandle(s) \in Nat
      BY <1>1 DEF NewHandle
    <2> QED
      BY <1>1, <2>1, <2>2 DEF SlotmapOf
  <1>3. CASE NewHandle(s) \notin Slots
    <2>1. PICK last \in 0 .. SIZE : r = [s EXCEPT !.lastHandle = last]
      BY <1>3 DEF Added
    <2>2. last \in Nat
      BY <2>1, SizeAssumption
    <2> QED
      BY <2>1, <2>2 DEF SlotmapOf
  <1> QED
    BY <1>2, <1>3

\* As long as there are slots, a value goes where no value was.
LEMMA AddedWithinSlots ==
  ASSUME NEW T, NEW s \in SlotmapOf(T), NEW x \in T, NEW r \in Added(s, x),
         s.lastHandle + 1 < SIZE
  PROVE  /\ r.lastHandle = s.lastHandle + 1
         /\ r.array[s.lastHandle + 1] = x
         /\ \A h \in 1 .. s.lastHandle : r.array[h] = s.array[h]
  <1>1. s.array \in [Slots -> T \cup {Null}] /\ s.lastHandle \in Nat
    BY DEF SlotmapOf
  <1>2. s.lastHandle + 1 \in Slots
    BY <1>1, SizeAssumption
  <1>3. r = [array |-> [s.array EXCEPT ![s.lastHandle + 1] = x], lastHandle |-> s.lastHandle + 1]
    BY <1>2 DEF Added, NewHandle
  <1>4. \A h \in Slots : r.array[h] = IF h = s.lastHandle + 1 THEN x ELSE s.array[h]
    BY <1>1, <1>3
  <1> QED
    BY <1>1, <1>2, <1>3, <1>4, SizeAssumption

-----------------------------------------------------------------------------
(* Types *)

LEMMA InitTypeInv == Init => TypeInv
  <1> SUFFICES ASSUME Init PROVE TypeInv
    OBVIOUS
  <1>1. meshes \in SlotmapOf(RenderMesh) /\ textures \in SlotmapOf(Objects)
    BY DEF Init, EmptySlotmap, SlotmapOf
  <1>2. descriptors \in [Sets -> [Elements -> Objects \cup {Null}]]
    BY DEF Init
  <1>3. made \in Seq(Objects) /\ memory \in Seq(Data \cup {Undefined}) /\ queue \in Seq(Copy)
    BY EmptySeq DEF Init
  <1>4. live \subseteq 1 .. Len(memory)
    BY DEF Init
  <1>5. Progress
    BY DEF Init, Progress, Working, Busy
  <1> QED
    BY <1>1, <1>2, <1>3, <1>4, <1>5 DEF Init, TypeInv, TypeOK

LEMMA UploadsBegin ==
  ASSUME UploadMesh \/ UploadTexture
  PROVE  \E r \in Request : Begin(r) /\ (r.kind # "MESH" => Len(r.parts) = 1)
  <1>1. CASE UploadMesh
    <2>1. PICK mesh \in Meshes : Begin(mesh)
      BY <1>1 DEF UploadMesh
    <2>2. mesh \in Request /\ mesh.kind = "MESH"
      BY DEF Request, Meshes
    <2> QED
      BY <2>1, <2>2
  <1>2. CASE UploadTexture
    <2>1. PICK texture \in Textures : Begin(texture)
      BY <1>2 DEF UploadTexture
    <2>2. texture \in Request /\ Len(texture.parts) = 1
      BY DEF Request, Textures
    <2> QED
      BY <2>1, <2>2
  <1> QED
    BY <1>1, <1>2

LEMMA PartIsData ==
  ASSUME TypeInv, pc \in Working
  PROVE  Part \in Data
  <1>1. Len(made) < Len(request.parts) /\ request \in Request
    BY DEF TypeInv, TypeOK, Progress, Working, Busy
  <1>2. Len(made) \in Nat
    BY LenProperties DEF TypeInv, TypeOK
  <1> QED
    BY <1>1, <1>2, PartsOfRequest DEF Part

LEMMA OneImage ==
  ASSUME TypeInv, pc = "add", request.kind # "MESH"
  PROVE  made[1] \in Objects
  <1>1. Len(made) = 1
    BY DEF TypeInv, Progress
  <1>2. made \in Seq(Objects) /\ 1 \in 1 .. Len(made)
    BY <1>1 DEF TypeInv, TypeOK
  <1> QED
    BY <1>2, ElementOfSeq

LEMMA NextTypeInv == TypeInv /\ [Next]_vars => TypeInv'
  <1> SUFFICES ASSUME TypeInv, [Next]_vars PROVE TypeInv'
    OBVIOUS
  <1>a. TypeOK /\ Progress
    BY DEF TypeInv
  <1>b. /\ made \in Seq(Objects) /\ memory \in Seq(Data \cup {Undefined}) /\ queue \in Seq(Copy)
        /\ meshes \in SlotmapOf(RenderMesh) /\ textures \in SlotmapOf(Objects)
    BY <1>a DEF TypeOK
  <1>live. live \subseteq 1 .. Len(memory)
    BY <1>a DEF TypeOK
  <1>0. Len(made) \in Nat /\ Len(memory) \in Nat
    BY <1>b, LenProperties
  <1>c. pc \in Working \cup {"add"} => request \in Request
    BY <1>a DEF TypeOK, Working, Busy
  <1>1. ASSUME NEW r \in Request, Begin(r), r.kind # "MESH" => Len(r.parts) = 1
        PROVE  TypeInv'
    <2>1. Len(r.parts) \in {1, 2}
      BY PartsOfRequest
    <2>2. made' = <<>>
      BY <1>1 DEF Begin
    <2>3. made' \in Seq(Objects)
      BY <2>2, EmptySeq
    <2>n. Len(made') = 0
      BY <2>2, EmptySeq
    <2>4. /\ request' = r /\ pc' = "stage"
          /\ UNCHANGED <<memory, live, uploadFence, queue, storeVars, late>>
      BY <1>1 DEF Begin
    <2>5. Progress'
      <3>1. 0 < Len(r.parts)
        BY <2>1
      <3>2. Len(made') < Len(request'.parts)
        BY <2>n, <2>4, <3>1
      <3>3. request'.kind # "MESH" => Len(request'.parts) = 1
        BY <1>1, <2>4
      <3>4. pc' = "stage" /\ pc' # "add" /\ pc' \notin Busy
        BY <2>4 DEF Busy
      <3> QED
        BY <3>2, <3>3, <3>4 DEF Progress
    <2>6. TypeOK'
      BY <1>a, <2>3, <2>4, NothingAssumption DEF storeVars, TypeOK
    <2> QED
      BY <2>5, <2>6 DEF TypeInv
  <1>2. CASE UploadMesh \/ UploadTexture
    <2>1. PICK r \in Request : Begin(r) /\ (r.kind # "MESH" => Len(r.parts) = 1)
      BY <1>2, UploadsBegin
    <2> QED
      BY <1>1, <2>1
  <1>4. CASE Stage
    <2>1. Part \in Data
      BY <1>4, PartIsData DEF Stage, Working
    <2>2. CASE request.loaded
      <3>1. memory' = memory \o <<Part, Undefined>>
        BY <1>4, <2>2 DEF Stage
      <3>2. /\ memory' \in Seq(Data \cup {Undefined})
            /\ Len(memory') = Len(memory) + 2
        BY <1>b, <2>1, <3>1, TwoMore
      <3>3. live' = live \cup {Len(memory) + 1, Len(memory) + 2}
        BY <1>4, <2>2 DEF Stage
      <3>4. live' \subseteq 1 .. Len(memory')
        BY <1>0, <1>live, <3>2, <3>3, LastTwo
      <3> QED
        BY <1>0, <1>a, <1>4, <2>2, <3>2, <3>4
        DEF Stage, storeVars, TypeInv, TypeOK, Progress, Working, Busy
    <2>3. CASE ~request.loaded
      BY <1>a, <1>4, <2>3 DEF Stage, storeVars, TypeInv, TypeOK, Progress, Working, Busy
    <2> QED
      BY <2>2, <2>3
  <1>5. CASE Submit
    <2>1. [from |-> Staging, to |-> Target] \in Copy
      <3>1. Len(memory) >= 2
        BY <1>a, <1>5 DEF Submit, Progress, Busy
      <3> QED
        BY <1>0, <3>1, LastTwo DEF Staging, Target
    <2>2. queue' = Append(queue, [from |-> Staging, to |-> Target])
      BY <1>5 DEF Submit
    <2>3. queue' \in Seq(Copy)
      BY <1>b, <2>1, <2>2, AppendProperties
    <2> QED
      BY <1>a, <1>5, <2>3 DEF Submit, storeVars, TypeInv, TypeOK, Progress, Working, Busy
  <1>6. CASE WaitUpload \/ WaitTimeout \/ ResetUpload \/ Run \/ Ended
    BY <1>a, <1>6 DEF WaitUpload, WaitTimeout, ResetUpload, Run, Ended, storeVars, vars,
                      TypeInv, TypeOK, Progress, Working, Busy
  <1>7. CASE ReleaseStaging
    <2>1. Target \in Objects
      <3>1. Len(memory) >= 2
        BY <1>a, <1>7 DEF ReleaseStaging, Progress, Busy
      <3> QED
        BY <1>0, <3>1 DEF Target
    <2>2. made' \in Seq(Objects) /\ Len(made') = Len(made) + 1
      BY <1>b, <1>7, <2>1, AppendProperties DEF ReleaseStaging
    <2>3. Len(request.parts) \in Nat /\ Len(made) < Len(request.parts)
      BY <1>a, <1>c, <1>7, PartsOfRequest DEF ReleaseStaging, Progress, Working, Busy
    <2>4. /\ pc' = IF Len(made') < Len(request.parts) THEN "stage" ELSE "add"
          /\ live' = live \ {Staging} /\ pc = "release"
          /\ UNCHANGED <<request, memory, uploadFence, queue, storeVars, late>>
      BY <1>7 DEF ReleaseStaging
    <2>5. Progress'
      BY <1>0, <1>a, <2>2, <2>3, <2>4 DEF Progress, Working, Busy
    <2>6. TypeOK'
      BY <1>a, <2>2, <2>4 DEF storeVars, TypeOK
    <2> QED
      BY <2>5, <2>6 DEF TypeInv
  <1>8. ASSUME NEW handle \in Nat, Return(handle), pc = "add"
        PROVE  /\ returned' \subseteq [handle : Nat, request : Request]
               /\ Progress'
    BY <1>a, <1>c, <1>8 DEF Return, TypeOK, Progress, Working, Busy
  <1>9. CASE AddMesh
    <2>1. [desc |-> request, buffers |-> made] \in RenderMesh
      BY <1>b, <1>c, <1>9 DEF AddMesh, RenderMesh
    <2>2. meshes' \in SlotmapOf(RenderMesh)
      BY <1>b, <1>9, <2>1, AddedIsSlotmap DEF AddMesh
    <2>3. NewHandle(meshes) \in Nat
      BY <1>b DEF NewHandle, SlotmapOf
    <2>4. Return(NewHandle(meshes)) /\ pc = "add"
      BY <1>9 DEF AddMesh
    <2>5. /\ returned' \subseteq [handle : Nat, request : Request]
          /\ Progress'
      BY <1>8, <2>3, <2>4
    <2> QED
      BY <1>a, <1>9, <2>2, <2>4, <2>5 DEF AddMesh, Return, TypeInv, TypeOK
  <1>10. CASE AddTexture
    <2>1. made[1] \in Objects
      BY <1>10, OneImage DEF AddTexture
    <2>2. textures' \in SlotmapOf(Objects)
      BY <1>b, <1>10, <2>1, AddedIsSlotmap DEF AddTexture
    <2>3. descriptors' \in [Sets -> [Elements -> Objects \cup {Null}]]
      <3>1. PICK places : descriptors' = [f \in Sets |-> [e \in Elements |->
                            IF <<f, e>> \in places THEN made[1] ELSE descriptors[f][e]]]
        BY <1>10 DEF AddTexture
      <3>2. descriptors \in [Sets -> [Elements -> Objects \cup {Null}]]
        BY <1>a DEF TypeOK
      <3> QED
        BY <2>1, <3>1, <3>2
    <2>4. NewHandle(textures) \in Nat
      BY <1>b DEF NewHandle, SlotmapOf
    <2>5. Return(NewHandle(textures)) /\ pc = "add"
      BY <1>10 DEF AddTexture
    <2>6. /\ returned' \subseteq [handle : Nat, request : Request]
          /\ Progress'
      BY <1>8, <2>4, <2>5
    <2> QED
      BY <1>a, <1>10, <2>2, <2>3, <2>5, <2>6 DEF AddTexture, Return, TypeInv, TypeOK
  <1>11. CASE ExecuteCopy
    <2>1. Head(queue) \in Copy /\ Tail(queue) \in Seq(Copy)
      BY <1>b, <1>11, HeadTailProperties DEF ExecuteCopy
    <2> DEFINE new == IF Head(queue).from \in live THEN memory[Head(queue).from] ELSE Undefined
    <2>2. new \in Data \cup {Undefined}
      BY <1>b, <1>live, ElementOfSeq
    <2>3. memory' = [memory EXCEPT ![Head(queue).to] = new]
      BY <1>11 DEF ExecuteCopy
    <2> HIDE DEF new
    <2> DEFINE S == Data \cup {Undefined}
               to  == Head(queue).to
    <2>a. memory \in Seq(S) /\ new \in S /\ memory' = [memory EXCEPT ![to] = new]
      BY <1>b, <2>2, <2>3
    <2>4. memory' \in Seq(Data \cup {Undefined}) /\ Len(memory') = Len(memory)
      <3>1. memory' \in Seq(S) /\ Len(memory') = Len(memory)
        <4> HIDE DEF S, to
        <4> QED
          BY <2>a, OneOverwritten
      <3> QED
        BY <3>1
    <2> QED
      BY <1>a, <1>11, <2>1, <2>4
      DEF ExecuteCopy, storeVars, TypeInv, TypeOK, Progress, Working, Busy
  <1>12. CASE UNCHANGED vars
    BY <1>a, <1>12 DEF vars, TypeInv, TypeOK, Progress, Working, Busy
  <1> QED
    BY <1>2, <1>4, <1>5, <1>6, <1>7, <1>9, <1>10, <1>11, <1>12 DEF Next

\* The state keeps its types, however many uploads there are.
THEOREM TypeCorrect == Spec => []TypeOK
  <1>1. Spec => []TypeInv
    BY InitTypeInv, NextTypeInv, PTL DEF Spec
  <1>2. TypeInv => TypeOK
    BY DEF TypeInv
  <1> QED
    BY <1>1, <1>2, PTL

-----------------------------------------------------------------------------
(* The inductive invariant.  An object keeps its contents once the thread has    *)
(* gone past it: the only copy that may still be executed is to the last object, *)
(* and the only object that may still be destroyed is the one before.            *)

\* Object o has contents d for good.
Settled(thread, mem, alive, o, d) ==
  o \in alive /\ mem[o] = d /\ (thread \in Busy => o < Len(mem) - 1)

\* There is at most one copy, the one the thread waits for; its staging buffer is
\* there, and once the fence is signalled the part has arrived.
CopyInv ==
  /\ queue # <<>> =>
       pc = "wait" /\ ~uploadFence /\ queue = <<[from |-> Staging, to |-> Target]>>
  /\ pc = "wait" => uploadFence \/ queue # <<>>
  /\ uploadFence => pc \in {"wait", "reset"}
  /\ pc \in Busy => Staging \in live /\ Target \in live /\ memory[Staging] = Part
  /\ pc \in {"reset", "release"} \/ (pc = "wait" /\ uploadFence) => memory[Target] = Part

MadeInv ==
  pc \in Working \cup {"add"} =>
    \A k \in 1 .. Len(made) : Settled(pc, memory, live, made[k], request.parts[k])

MeshInv ==
  \A r \in returned :
    r.request.kind = "MESH" =>
      /\ r.handle \in 1 .. meshes.lastHandle
      /\ meshes.array[r.handle] # Null
      /\ Len(meshes.array[r.handle].buffers) = Len(r.request.parts)
      /\ \A k \in 1 .. Len(r.request.parts) :
           Settled(pc, memory, live, meshes.array[r.handle].buffers[k], r.request.parts[k])

TextureInv ==
  \A r \in returned :
    r.request.kind # "MESH" =>
      /\ r.handle \in 1 .. textures.lastHandle
      /\ \A f \in Sets :
           Settled(pc, memory, live, descriptors[f][r.handle], r.request.parts[1])

\* No more handles are given out than MaxMeshes and MaxTextures, and one is left for
\* the request.
HandleBound ==
  /\ meshes.lastHandle <= MaxMeshes
  /\ textures.lastHandle <= MaxTextures
  /\ pc \in Working \cup {"add"} =>
       IF request.kind = "MESH" THEN meshes.lastHandle < MaxMeshes
                                ELSE textures.lastHandle < MaxTextures

\* Meshes and textures have a slotmap each.
LEMMA SlotsEnough == ASSUME EnoughSlots PROVE MaxMeshes < SIZE /\ MaxTextures < SIZE
  <1>1. /\ FRAME_OVERLAP \in Nat /\ MaxMeshes \in Nat /\ MaxTextures \in Nat /\ SIZE \in Nat
        /\ 6 * FRAME_OVERLAP + 4 * MaxMeshes + MaxTextures < SIZE
    BY UploadsAssumption, SizeAssumption DEF EnoughSlots
  <1> QED
    BY <1>1, SMT

UploadInv ==
  /\ TypeInv
  /\ HandleBound
  /\ late \/ (CopyInv /\ MadeInv /\ MeshInv)

-----------------------------------------------------------------------------
(* Each part of the invariant is kept by every step *)

LEMMA NextCopyInv ==
  ASSUME TypeInv, CopyInv, [Next]_vars
  PROVE  late' \/ CopyInv'
  <1> USE DEF Busy
  <1>1. CASE UploadMesh \/ UploadTexture
    <2>1. PICK r \in Request : Begin(r)
      BY <1>1, UploadsBegin
    <2> QED
      BY <2>1 DEF Begin, CopyInv, Staging, Target, Part
  <1>2. CASE Stage
    <2>1. pc = "stage" /\ queue = <<>> /\ ~uploadFence
      BY <1>2 DEF Stage, CopyInv
    <2>2. CASE request.loaded
      <3>1. pc' = "submit" /\ UNCHANGED <<queue, uploadFence, request, made>>
        BY <1>2, <2>2 DEF Stage
      <3>2. /\ memory' = memory \o <<Part, Undefined>>
            /\ live' = live \cup {Len(memory) + 1, Len(memory) + 2}
        BY <1>2, <2>2 DEF Stage
      <3>3. memory \in Seq(Data \cup {Undefined}) /\ Part \in Data /\ Len(memory) \in Nat
        BY <2>1, PartIsData, LenProperties DEF TypeInv, TypeOK, Working
      <3>4. Len(memory') = Len(memory) + 2 /\ memory'[Len(memory) + 1] = Part
        BY <3>2, <3>3, TwoMore
      <3>5. Part' = Part
        BY <3>1 DEF Part
      <3> QED
        BY <2>1, <3>1, <3>2, <3>3, <3>4, <3>5 DEF CopyInv, Staging, Target
    <2>3. CASE ~request.loaded
      BY <1>2, <2>1, <2>3 DEF Stage, CopyInv
    <2> QED
      BY <2>2, <2>3
  <1>3. CASE Submit
    <2>1. queue = <<>> /\ ~uploadFence /\ pc = "submit"
      BY <1>3 DEF Submit, CopyInv
    <2>2. queue' = <<[from |-> Staging, to |-> Target]>> /\ queue' # <<>>
      BY <1>3, <2>1, OnlyOne DEF Submit
    <2> QED
      BY <1>3, <2>1, <2>2 DEF Submit, CopyInv, Staging, Target, Part
  <1>4. CASE WaitUpload \/ WaitTimeout \/ ResetUpload \/ ReleaseStaging \/ Run
    BY <1>4 DEF WaitUpload, WaitTimeout, ResetUpload, ReleaseStaging, Run,
                CopyInv, Staging, Target, Part, storeVars
  <1>5. CASE AddMesh \/ AddTexture \/ Ended \/ UNCHANGED vars
    BY <1>5 DEF AddMesh, AddTexture, Return, Ended, vars, CopyInv, Staging, Target, Part
  <1>6. CASE ExecuteCopy
    <2>1. /\ pc = "wait" /\ queue = <<[from |-> Staging, to |-> Target]>>
          /\ Staging \in live /\ Target \in live /\ memory[Staging] = Part
      BY <1>6 DEF ExecuteCopy, CopyInv
    <2>2. queue' = <<>> /\ memory' = [memory EXCEPT ![Target] = Part]
      <3>1. Head(queue) = [from |-> Staging, to |-> Target] /\ Tail(queue) = <<>>
        BY <2>1, OnlyOne
      <3>2. Head(queue).from = Staging /\ Head(queue).to = Target
        BY <3>1
      <3>3. /\ queue' = Tail(queue)
            /\ memory' = [memory EXCEPT ![Head(queue).to] =
                            IF Head(queue).from \in live
                            THEN memory[Head(queue).from] ELSE Undefined]
        BY <1>6 DEF ExecuteCopy
      <3> QED
        BY <2>1, <3>1, <3>2, <3>3
    <2>3. /\ memory \in Seq(Data \cup {Undefined}) /\ Part \in Data
          /\ Len(memory) \in Nat /\ Len(memory) >= 2
      BY <2>1, PartIsData, LenProperties DEF TypeInv, TypeOK, Progress, Working
    <2>4. Len(memory') = Len(memory) /\ memory'[Target] = Part /\ memory'[Staging] = Part
      BY <2>1, <2>2, <2>3, OneOverwritten DEF Staging, Target
    <2>5. Part' = Part /\ Staging' = Staging /\ Target' = Target
      BY <1>6, <2>4 DEF ExecuteCopy, Part, Staging, Target
    <2> QED
      BY <1>6, <2>1, <2>2, <2>4, <2>5 DEF ExecuteCopy, CopyInv
  <1> QED
    BY <1>1, <1>2, <1>3, <1>4, <1>5, <1>6 DEF Next

\* No step changes or destroys what is settled.
LEMMA SettledStays ==
  ASSUME TypeInv, CopyInv, [Next]_vars
  PROVE  \A o, d : Settled(pc, memory, live, o, d) => Settled(pc', memory', live', o, d)
  <1> SUFFICES ASSUME NEW o, NEW d, Settled(pc, memory, live, o, d)
               PROVE  Settled(pc', memory', live', o, d)
    OBVIOUS
  <1>0. /\ memory \in Seq(Data \cup {Undefined}) /\ live \subseteq 1 .. Len(memory)
        /\ Len(memory) \in Nat
    BY LenProperties DEF TypeInv, TypeOK
  <1>a. o \in 1 .. Len(memory) /\ o \in live /\ memory[o] = d
    BY <1>0 DEF Settled
  <1>1. CASE UploadMesh \/ UploadTexture
    <2>1. PICK r \in Request : Begin(r)
      BY <1>1, UploadsBegin
    <2> QED
      BY <1>a, <2>1 DEF Begin, Settled, Busy
  <1>2. CASE Stage
    <2>1. CASE request.loaded
      <3>1. /\ memory' = memory \o <<Part, Undefined>>
            /\ live' = live \cup {Len(memory) + 1, Len(memory) + 2}
        BY <1>2, <2>1 DEF Stage
      <3>2. Part \in Data
        BY <1>2, PartIsData DEF Stage, Working
      <3>3. Len(memory') = Len(memory) + 2 /\ memory'[o] = memory[o]
        BY <1>0, <1>a, <3>1, <3>2, TwoMore
      <3> QED
        BY <1>0, <1>a, <3>1, <3>3 DEF Settled
    <2>2. CASE ~request.loaded
      BY <1>2, <1>a, <2>2 DEF Stage, Settled, Busy
    <2> QED
      BY <2>1, <2>2
  <1>3. CASE Submit \/ WaitUpload \/ WaitTimeout \/ ResetUpload \/ Run
    <2>1. CASE Submit
      <3>1. pc \in Busy /\ UNCHANGED <<memory, live>>
        BY <2>1 DEF Submit, Busy
      <3> QED
        BY <3>1 DEF Settled
    <2>2. CASE WaitUpload \/ WaitTimeout \/ ResetUpload
      <3>1. pc \in Busy /\ UNCHANGED <<memory, live>>
        BY <2>2 DEF WaitUpload, WaitTimeout, ResetUpload, Busy
      <3> QED
        BY <3>1 DEF Settled
    <2>3. CASE Run
      BY <1>a, <2>3 DEF Run, Settled, Busy
    <2> QED
      BY <1>3, <2>1, <2>2, <2>3
  <1>4. CASE ReleaseStaging
    <2>1. pc \in Busy /\ pc' \notin Busy /\ memory' = memory /\ live' = live \ {Staging}
      BY <1>4 DEF ReleaseStaging, Busy
    <2>2. o # Staging
      BY <1>0, <1>a, <2>1 DEF Settled, Staging
    <2> QED
      BY <1>a, <2>1, <2>2 DEF Settled
  <1>5. CASE AddMesh \/ AddTexture
    <2>1. pc' \notin Busy /\ UNCHANGED <<memory, live>>
      BY <1>5 DEF AddMesh, AddTexture, Return, Busy
    <2> QED
      BY <1>a, <2>1 DEF Settled
  <1>6. CASE ExecuteCopy
    <2>1. pc = "wait" /\ queue = <<[from |-> Staging, to |-> Target]>>
      BY <1>6 DEF ExecuteCopy, CopyInv
    <2>2. Head(queue).to = Target
      BY <2>1, OnlyOne
    <2>3. o # Target /\ o < Len(memory) - 1
      BY <1>0, <1>a, <2>1 DEF Settled, Target, Busy
    <2>4. Len(memory') = Len(memory) /\ memory'[o] = memory[o]
      BY <1>0, <1>6, <1>a, <2>2, <2>3, LenExcept DEF ExecuteCopy
    <2>5. live' = live
      BY <1>6 DEF ExecuteCopy
    <2> QED
      BY <1>a, <2>3, <2>4, <2>5 DEF Settled
  <1>7. CASE Ended \/ UNCHANGED vars
    BY <1>7 DEF Ended, vars, Settled
  <1> QED
    BY <1>1, <1>2, <1>3, <1>4, <1>5, <1>6, <1>7 DEF Next

LEMMA NextHandleBound ==
  ASSUME EnoughSlots, TypeInv, HandleBound, [Next]_vars
  PROVE  HandleBound'
  <1> USE DEF Working, Busy
  <1>0. /\ meshes \in SlotmapOf(RenderMesh) /\ textures \in SlotmapOf(Objects)
        /\ meshes.lastHandle \in Nat /\ textures.lastHandle \in Nat
        /\ MaxMeshes \in Nat /\ MaxTextures \in Nat /\ SIZE \in Nat
        /\ MaxMeshes < SIZE /\ MaxTextures < SIZE
    BY UploadsAssumption, SizeAssumption, SlotsEnough DEF TypeInv, TypeOK, SlotmapOf
  <1>1. CASE UploadMesh \/ UploadTexture
    <2>1. PICK r \in Request : Begin(r)
      BY <1>1, UploadsBegin
    <2> QED
      BY <2>1 DEF Begin, HandleBound, storeVars
  <1>2. CASE AddMesh
    <2>1. meshes.lastHandle < MaxMeshes
      BY <1>2 DEF AddMesh, HandleBound
    <2>2. [desc |-> request, buffers |-> made] \in RenderMesh
      BY <1>2 DEF AddMesh, RenderMesh, TypeInv, TypeOK
    <2>3. meshes'.lastHandle = meshes.lastHandle + 1
      BY <1>0, <1>2, <2>1, <2>2, AddedWithinSlots DEF AddMesh
    <2>4. textures' = textures /\ pc' = "idle"
      BY <1>2 DEF AddMesh, Return
    <2> QED
      BY <1>0, <2>1, <2>3, <2>4 DEF HandleBound
  <1>3. CASE AddTexture
    <2>1. textures.lastHandle < MaxTextures
      BY <1>3 DEF AddTexture, HandleBound
    <2>2. made[1] \in Objects
      BY <1>3, OneImage DEF AddTexture
    <2>3. textures'.lastHandle = textures.lastHandle + 1
      BY <1>0, <1>3, <2>1, <2>2, AddedWithinSlots DEF AddTexture
    <2>4. meshes' = meshes /\ pc' = "idle"
      BY <1>3 DEF AddTexture, Return
    <2> QED
      BY <1>0, <2>1, <2>3, <2>4 DEF HandleBound
  <1>4. CASE Stage \/ Submit \/ WaitUpload \/ WaitTimeout \/ ResetUpload
    BY <1>4 DEF Stage, Submit, WaitUpload, WaitTimeout, ResetUpload, storeVars, HandleBound
  <1>5. CASE ReleaseStaging \/ Run \/ ExecuteCopy \/ Ended \/ UNCHANGED vars
    BY <1>5 DEF ReleaseStaging, Run, ExecuteCopy, Ended, vars, storeVars, HandleBound
  <1> QED
    BY <1>1, <1>2, <1>3, <1>4, <1>5 DEF Next

LEMMA NextMadeInv ==
  ASSUME TypeInv, CopyInv, MadeInv, [Next]_vars
  PROVE  MadeInv'
  <1> USE DEF Working, Busy
  <1>1. CASE UploadMesh \/ UploadTexture
    <2>1. PICK r \in Request : Begin(r)
      BY <1>1, UploadsBegin
    <2>2. made' = <<>>
      BY <2>1 DEF Begin
    <2>3. Len(made') = 0
      BY <2>2, EmptySeq
    <2> QED
      BY <2>3 DEF MadeInv
  <1>2. CASE ReleaseStaging
    <2>1. /\ pc = "release" /\ made' = Append(made, Target) /\ pc' \notin Busy
          /\ request' = request /\ memory' = memory /\ live' = live \ {Staging}
      BY <1>2 DEF ReleaseStaging
    <2>2. /\ made \in Seq(Objects) /\ Len(memory) \in Nat /\ Len(memory) >= 2
          /\ Len(made) \in Nat
      BY <2>1, LenProperties DEF TypeInv, TypeOK, Progress
    <2>3. Target \in Objects /\ Target # Staging
      BY <2>2 DEF Target, Staging
    <2>4. /\ Len(made') = Len(made) + 1
          /\ \A k \in 1 .. Len(made) : made'[k] = made[k]
          /\ made'[Len(made) + 1] = Target
      BY <2>1, <2>2, <2>3, AppendProperties
    <2>5. Target \in live /\ memory[Target] = request.parts[Len(made) + 1]
      BY <2>1 DEF CopyInv, Part
    <2>6. Settled(pc', memory', live', Target, request.parts[Len(made) + 1])
      BY <2>1, <2>3, <2>5 DEF Settled
    <2>7. \A k \in 1 .. Len(made) : Settled(pc', memory', live', made[k], request.parts[k])
      BY <2>1, SettledStays DEF MadeInv
    <2>8. SUFFICES ASSUME NEW k \in 1 .. Len(made')
                   PROVE  Settled(pc', memory', live', made'[k], request'.parts[k])
      BY DEF MadeInv
    <2>9. k \in 1 .. Len(made) \/ k = Len(made) + 1
      BY <2>2, <2>4
    <2> QED
      BY <2>1, <2>4, <2>6, <2>7, <2>9
  <1>3. CASE Stage \/ Submit \/ WaitUpload \/ WaitTimeout \/ ResetUpload \/ ExecuteCopy
    <2>1. /\ made' = made /\ request' = request
          /\ pc' \in Working \cup {"add"} => pc \in Working \cup {"add"}
      BY <1>3 DEF Stage, Submit, WaitUpload, WaitTimeout, ResetUpload, ExecuteCopy
    <2> QED
      BY <2>1, SettledStays DEF MadeInv
  <1>4. CASE AddMesh \/ AddTexture \/ Run
    BY <1>4 DEF AddMesh, AddTexture, Return, Run, MadeInv
  <1>5. CASE Ended \/ UNCHANGED vars
    BY <1>5 DEF Ended, vars, MadeInv
  <1> QED
    BY <1>1, <1>2, <1>3, <1>4, <1>5 DEF Next

\* A step that is not the return of an upload leaves the handles as they are.
LEMMA OnlyAddsReturn ==
  ASSUME [Next]_vars
  PROVE  AddMesh \/ AddTexture \/ UNCHANGED storeVars
  <1>1. CASE UploadMesh \/ UploadTexture
    <2>1. PICK r \in Request : Begin(r)
      BY <1>1, UploadsBegin
    <2> QED
      BY <2>1 DEF Begin
  <1>2. CASE Stage \/ Submit \/ WaitUpload \/ WaitTimeout \/ ResetUpload
    BY <1>2 DEF Stage, Submit, WaitUpload, WaitTimeout, ResetUpload
  <1>3. CASE ReleaseStaging \/ Run \/ ExecuteCopy \/ Ended \/ UNCHANGED vars
    BY <1>3 DEF ReleaseStaging, Run, ExecuteCopy, Ended, vars, storeVars
  <1> QED
    BY <1>1, <1>2, <1>3 DEF Next

LEMMA NextMeshInv ==
  ASSUME EnoughSlots, TypeInv, HandleBound, CopyInv, MadeInv, MeshInv, [Next]_vars
  PROVE  MeshInv'
  <1>1. CASE UNCHANGED storeVars
    BY <1>1, SettledStays DEF MeshInv, storeVars
  <1>2. CASE AddTexture
    <2>1. /\ meshes' = meshes /\ request.kind # "MESH"
          /\ \E h : returned' = returned \cup {[handle |-> h, request |-> request]}
      BY <1>2 DEF AddTexture, Return
    <2>2. \A r \in returned' : r.request.kind = "MESH" => r \in returned
      BY <2>1
    <2> QED
      BY <2>1, <2>2, SettledStays DEF MeshInv
  <1>3. CASE AddMesh
    <2> DEFINE mesh == [desc |-> request, buffers |-> made]
               new == meshes.lastHandle + 1
    <2>1. /\ meshes \in SlotmapOf(RenderMesh) /\ mesh \in RenderMesh
          /\ meshes' \in Added(meshes, mesh) /\ Null \notin RenderMesh
      BY <1>3, NothingAssumption DEF AddMesh, RenderMesh, TypeInv, TypeOK
    <2>2. meshes.lastHandle \in Nat /\ new < SIZE
      BY <1>3, <2>1, UploadsAssumption, SizeAssumption, SlotsEnough
      DEF AddMesh, HandleBound, SlotmapOf, TypeInv, TypeOK
    <2>3. /\ returned' = returned \cup {[handle |-> new, request |-> request]}
          /\ pc = "add"
      BY <1>3 DEF AddMesh, Return, NewHandle
    <2>4. mesh.buffers = made
      OBVIOUS
    <2> HIDE DEF mesh
    <2>5. /\ meshes'.lastHandle = new
          /\ meshes'.array[new] = mesh /\ mesh # Null
          /\ \A h \in 1 .. meshes.lastHandle : meshes'.array[h] = meshes.array[h]
      BY <2>1, <2>2, AddedWithinSlots
    <2>6. SUFFICES ASSUME NEW r \in returned', r.request.kind = "MESH"
                   PROVE  /\ r.handle \in 1 .. meshes'.lastHandle
                          /\ meshes'.array[r.handle] # Null
                          /\ Len(meshes'.array[r.handle].buffers) = Len(r.request.parts)
                          /\ \A k \in 1 .. Len(r.request.parts) :
                               Settled(pc', memory', live',
                                       meshes'.array[r.handle].buffers[k], r.request.parts[k])
      BY DEF MeshInv
    <2>7. CASE r \in returned
      <3>1. /\ r.handle \in 1 .. meshes.lastHandle
            /\ meshes.array[r.handle] # Null
            /\ Len(meshes.array[r.handle].buffers) = Len(r.request.parts)
            /\ \A k \in 1 .. Len(r.request.parts) :
                 Settled(pc', memory', live',
                         meshes.array[r.handle].buffers[k], r.request.parts[k])
        BY <2>6, <2>7, SettledStays DEF MeshInv
      <3> QED
        BY <2>2, <2>5, <3>1
    <2>8. CASE r = [handle |-> new, request |-> request]
      <3>1. Len(made) = Len(request.parts)
        BY <2>3 DEF TypeInv, Progress
      <3>2. \A k \in 1 .. Len(request.parts) :
              Settled(pc', memory', live', made[k], request.parts[k])
        BY <2>3, <3>1, SettledStays DEF MadeInv
      <3>3. r.handle = new /\ r.request = request
        BY <2>8
      <3> QED
        BY <2>2, <2>4, <2>5, <3>1, <3>2, <3>3
    <2> QED
      BY <2>3, <2>6, <2>7, <2>8
  <1> QED
    BY <1>1, <1>2, <1>3, OnlyAddsReturn

LEMMA NextTextureInv ==
  ASSUME EnoughSlots, EnoughDescriptors, TypeInv, HandleBound, CopyInv, MadeInv, TextureInv,
         [Next]_vars
  PROVE  TextureInv'
  <1>1. CASE UNCHANGED storeVars
    BY <1>1, SettledStays DEF TextureInv, storeVars
  <1>2. CASE AddMesh
    <2>1. /\ textures' = textures /\ descriptors' = descriptors /\ request.kind = "MESH"
          /\ \E h : returned' = returned \cup {[handle |-> h, request |-> request]}
      BY <1>2 DEF AddMesh, Return
    <2>2. \A r \in returned' : r.request.kind # "MESH" => r \in returned
      BY <2>1
    <2> QED
      BY <2>1, <2>2, SettledStays DEF TextureInv
  <1>3. CASE AddTexture
    <2> DEFINE image == made[1]
               new == textures.lastHandle + 1
    <2>1. /\ textures \in SlotmapOf(Objects) /\ image \in Objects
          /\ textures' \in Added(textures, image)
      BY <1>3, OneImage DEF AddTexture, TypeInv, TypeOK
    <2>2. textures.lastHandle \in Nat /\ new < SIZE /\ new \in Elements
      <3>1. textures.lastHandle < MaxTextures
        BY <1>3 DEF AddTexture, HandleBound
      <3>2. textures.lastHandle \in Nat
        BY <2>1 DEF SlotmapOf
      <3> QED
        BY <3>1, <3>2, UploadsAssumption, SizeAssumption, SlotsEnough
        DEF EnoughDescriptors, Elements
    <2>3. /\ returned' = returned \cup {[handle |-> new, request |-> request]}
          /\ pc = "add" /\ request.kind # "MESH"
      BY <1>3 DEF AddTexture, Return, NewHandle
    <2>4. descriptors' = [f \in Sets |-> [e \in Elements |->
                            IF <<f, e>> \in Sets \X {new} THEN image ELSE descriptors[f][e]]]
      <3>1. \E places \in Written(new) :
              descriptors' = [f \in Sets |-> [e \in Elements |->
                                IF <<f, e>> \in places THEN image ELSE descriptors[f][e]]]
        BY <1>3 DEF AddTexture, NewHandle
      <3>2. Written(new) = {Sets \X {new}}
        BY <2>2 DEF Written
      <3> QED
        BY <3>1, <3>2
    <2>5. Settled(pc', memory', live', image, request.parts[1])
      <3>1. Len(made) = 1 /\ pc = "add"
        BY <2>3 DEF TypeInv, Progress
      <3> QED
        BY <3>1, SettledStays DEF MadeInv
    <2> HIDE DEF image
    <2>6. textures'.lastHandle = new
      BY <2>1, <2>2, AddedWithinSlots
    <2>7. \A f \in Sets : \A h \in Elements :
            descriptors'[f][h] = IF h = new THEN image ELSE descriptors[f][h]
      BY <2>4
    <2>8. SUFFICES ASSUME NEW r \in returned', r.request.kind # "MESH"
                   PROVE  /\ r.handle \in 1 .. textures'.lastHandle
                          /\ \A f \in Sets :
                               Settled(pc', memory', live', descriptors'[f][r.handle],
                                       r.request.parts[1])
      BY DEF TextureInv
    <2>9. CASE r \in returned
      <3>1. /\ r.handle \in 1 .. textures.lastHandle
            /\ \A f \in Sets :
                 Settled(pc', memory', live', descriptors[f][r.handle], r.request.parts[1])
        BY <2>8, <2>9, SettledStays DEF TextureInv
      <3>2. r.handle \in Elements /\ r.handle # new /\ r.handle \in 1 .. new
        BY <2>2, <3>1, UploadsAssumption DEF Elements
      <3> QED
        BY <2>6, <2>7, <3>1, <3>2
    <2>10. CASE r = [handle |-> new, request |-> request]
      <3>1. r.handle = new /\ r.request = request
        BY <2>10
      <3>2. new \in Elements /\ new \in 1 .. new
        BY <2>2
      <3> QED
        BY <2>5, <2>6, <2>7, <3>1, <3>2
    <2> QED
      BY <2>3, <2>8, <2>9, <2>10
  <1> QED
    BY <1>1, <1>2, <1>3, OnlyAddsReturn

LEMMA LateForGood == ASSUME [Next]_vars, late PROVE late'
  <1>1. CASE UploadMesh \/ UploadTexture
    <2>1. PICK r \in Request : Begin(r)
      BY <1>1, UploadsBegin
    <2> QED
      BY <2>1 DEF Begin
  <1>2. CASE ~(UploadMesh \/ UploadTexture)
    BY <1>2 DEF Next, Stage, Submit, WaitUpload, WaitTimeout, ResetUpload, ReleaseStaging,
                AddMesh, AddTexture, Return, Run, ExecuteCopy, Ended, vars
  <1> QED
    BY <1>1, <1>2

-----------------------------------------------------------------------------

\* The invariant holds of all uploads that there are slots for.
LEMMA InductiveInvariant == ASSUME EnoughSlots PROVE Spec => []UploadInv
  <1>1. Init => UploadInv
    <2> SUFFICES ASSUME Init PROVE UploadInv
      OBVIOUS
    <2>1. TypeInv
      BY InitTypeInv
    <2>2. HandleBound
      BY UploadsAssumption DEF Init, HandleBound, EmptySlotmap, Working, Busy
    <2>3. CopyInv /\ MadeInv /\ MeshInv
      BY DEF Init, CopyInv, MadeInv, MeshInv, Working, Busy
    <2> QED
      BY <2>1, <2>2, <2>3 DEF UploadInv
  <1>2. UploadInv /\ [Next]_vars => UploadInv'
    <2> SUFFICES ASSUME UploadInv, [Next]_vars PROVE UploadInv'
      OBVIOUS
    <2>1. TypeInv' /\ HandleBound'
      BY NextTypeInv, NextHandleBound DEF UploadInv
    <2>2. CASE late
      BY <2>1, <2>2, LateForGood DEF UploadInv
    <2>3. CASE ~late
      <3>1. TypeInv /\ HandleBound /\ CopyInv /\ MadeInv /\ MeshInv
        BY <2>3 DEF UploadInv
      <3>2. late' \/ CopyInv'
        BY <3>1, NextCopyInv
      <3>3. MadeInv' /\ MeshInv'
        BY <3>1, NextMadeInv, NextMeshInv
      <3> QED
        BY <2>1, <3>2, <3>3 DEF UploadInv
    <2> QED
      BY <2>2, <2>3
  <1> QED
    BY <1>1, <1>2, PTL DEF Spec

\* Where descriptors are enough too, those of textures are written once.
LEMMA DescriptorInvariant ==
  ASSUME EnoughSlots, EnoughDescriptors PROVE Spec => [](late \/ TextureInv)
  <1>1. Init => late \/ TextureInv
    BY DEF Init, TextureInv
  <1>2. UploadInv /\ (late \/ TextureInv) /\ [Next]_vars => (late \/ TextureInv)'
    <2> SUFFICES ASSUME UploadInv, late \/ TextureInv, [Next]_vars PROVE late' \/ TextureInv'
      OBVIOUS
    <2>1. CASE late
      BY <2>1, LateForGood
    <2>2. CASE ~late
      BY <2>2, NextTextureInv DEF UploadInv
    <2> QED
      BY <2>1, <2>2
  <1> QED
    BY <1>1, <1>2, InductiveInvariant, PTL DEF Spec

\* As long as there are slots for all uploads, the source of a copy that the graphics
\* queue still has to execute is alive.
THEOREM StagingSafe == ASSUME EnoughSlots PROVE Spec => []StagingOutlivesCopy
  <1>1. UploadInv => StagingOutlivesCopy
    <2> SUFFICES ASSUME UploadInv, ~late, queue # <<>>, NEW k \in 1 .. Len(queue)
                 PROVE  queue[k].from \in live
      <3>1. queue = <<>> => Len(queue) = 0
        BY EmptySeq
      <3> QED
        BY <3>1 DEF StagingOutlivesCopy
    <2>1. queue = <<[from |-> Staging, to |-> Target]>> /\ Staging \in live
      BY DEF UploadInv, CopyInv, Busy
    <2>2. Len(queue) = 1 /\ queue[1] = [from |-> Staging, to |-> Target]
      BY <2>1
    <2>3. k = 1
      BY <2>2
    <2> QED
      BY <2>1, <2>2, <2>3
  <1> QED
    BY <1>1, InductiveInvariant, PTL

\* As long as there are slots for all uploads, every mesh handle stands for the vertices
\* and the indices it was asked for.
THEOREM MeshesSafe == ASSUME EnoughSlots PROVE Spec => []MeshesArrived
  <1>1. UploadInv => MeshesArrived
    <2> SUFFICES ASSUME UploadInv, ~late, NEW r \in returned, r.request.kind = "MESH"
                 PROVE  /\ r.handle \in Slots
                        /\ meshes.array[r.handle] # Null
                        /\ Len(meshes.array[r.handle].buffers) = Len(r.request.parts)
                        /\ \A k \in 1 .. Len(r.request.parts) :
                             /\ meshes.array[r.handle].buffers[k] \in live
                             /\ memory[meshes.array[r.handle].buffers[k]] = r.request.parts[k]
      BY DEF MeshesArrived
    <2>1. r.handle \in 1 .. meshes.lastHandle /\ meshes.lastHandle <= MaxMeshes
      BY UploadsAssumption DEF UploadInv, HandleBound, MeshInv, TypeInv, TypeOK, SlotmapOf
    <2>2. r.handle \in Slots
      BY <2>1, UploadsAssumption, SizeAssumption, SlotsEnough
      DEF UploadInv, TypeInv, TypeOK, SlotmapOf
    <2> QED
      BY <2>2 DEF UploadInv, MeshInv, Settled
  <1> QED
    BY <1>1, InductiveInvariant, PTL

\* As long as there are slots and descriptors for all uploads, the descriptor a texture
\* handle names has, in every set there is, that texture's pixels.
THEOREM TexturesSafe ==
  ASSUME EnoughSlots, EnoughDescriptors PROVE Spec => []TexturesBound
  <1>1. UploadInv /\ (late \/ TextureInv) => TexturesBound
    <2> SUFFICES ASSUME UploadInv, TextureInv, NEW r \in returned, r.request.kind # "MESH"
                 PROVE  /\ r.handle \in Elements \ {0}
                        /\ \A f \in Sets :
                             /\ descriptors[f][r.handle] \in live
                             /\ memory[descriptors[f][r.handle]] = r.request.parts[1]
      BY DEF TexturesBound
    <2>1. r.handle \in 1 .. textures.lastHandle /\ textures.lastHandle <= MaxTextures
      BY DEF UploadInv, HandleBound, TextureInv
    <2>2. r.handle \in Elements \ {0}
      <3>1. textures.lastHandle \in Nat
        BY DEF UploadInv, TypeInv, TypeOK, SlotmapOf
      <3> QED
        BY <2>1, <3>1, UploadsAssumption DEF EnoughDescriptors, Elements
    <2> QED
      BY <2>2 DEF TextureInv, Settled
  <1> QED
    BY <1>1, InductiveInvariant, DescriptorInvariant, PTL

-----------------------------------------------------------------------------
(* What exists.  An object is behind a handle, or was filled for the request the *)
(* thread is busy with, or is the staging buffer or the target of the part it is *)
(* filling; the staging buffer that is destroyed is none of the others.          *)

RangeOf(s) == {s[k] : k \in 1 .. Len(s)}

Unwritten(s) == \A h \in Slots : s.lastHandle < h => s.array[h] = Null

\* The objects filled for the request so far.
InHand == IF pc \in Working \cup {"add"} THEN RangeOf(made) ELSE {}

\* The staging buffer and the target of the part in work.
InWork == IF pc \in Busy THEN {Staging, Target} ELSE {}

LiveInv ==
  /\ Unwritten(meshes) /\ Unwritten(textures)
  /\ pc # "aborted" => live = Stores \cup InHand \cup InWork
  /\ pc \in Busy => \A o \in Stores \cup InHand : o < Staging

\* Adding to a slotmap that has a slot left overwrites nothing.
LEMMA StoredMore ==
  ASSUME NEW T, Null \notin T, NEW s \in SlotmapOf(T), NEW x \in T, NEW r \in Added(s, x),
         s.lastHandle + 1 < SIZE, Unwritten(s)
  PROVE  Unwritten(r) /\ Stored(r) = Stored(s) \cup {x}
  <1>1. s.array \in [Slots -> T \cup {Null}] /\ s.lastHandle \in Nat
    BY DEF SlotmapOf
  <1>2. s.lastHandle + 1 \in Slots
    BY <1>1, SizeAssumption
  <1>3. r = [array |-> [s.array EXCEPT ![s.lastHandle + 1] = x], lastHandle |-> s.lastHandle + 1]
    BY <1>2 DEF Added, NewHandle
  <1>4. /\ \A h \in Slots : r.array[h] = IF h = s.lastHandle + 1 THEN x ELSE s.array[h]
        /\ r.lastHandle = s.lastHandle + 1
    BY <1>1, <1>3
  <1>5. s.array[s.lastHandle + 1] = Null
    BY <1>1, <1>2 DEF Unwritten
  <1>6. Unwritten(r)
    <2>1. ASSUME NEW h \in Slots, s.lastHandle + 1 < h PROVE r.array[h] = Null
      <3>1. s.lastHandle < h /\ h # s.lastHandle + 1
        BY <1>1, <2>1
      <3> QED
        BY <1>4, <3>1 DEF Unwritten
    <2> QED
      BY <1>4, <2>1 DEF Unwritten
  <1> DEFINE n == s.lastHandle + 1
  <1>7. Stored(r) \subseteq Stored(s) \cup {x}
    <2>1. ASSUME NEW h \in Slots, r.array[h] # Null PROVE r.array[h] \in Stored(s) \cup {x}
      BY <1>4, <2>1 DEF Stored
    <2> QED
      BY <2>1 DEF Stored
  <1>8. Stored(s) \cup {x} \subseteq Stored(r)
    <2>1. ASSUME NEW h \in Slots, s.array[h] # Null PROVE s.array[h] \in Stored(r)
      <3>1. h # n /\ r.array[h] = s.array[h]
        BY <1>4, <1>5, <2>1
      <3> QED
        BY <2>1, <3>1 DEF Stored
    <2>2. r.array[n] = x /\ x # Null
      BY <1>2, <1>4
    <2>3. x \in Stored(r)
      BY <1>2, <2>2 DEF Stored
    <2> QED
      BY <2>1, <2>3 DEF Stored
  <1> QED
    BY <1>6, <1>7, <1>8

\* The objects of the meshes and of the images of two slotmaps.
BuffersIn(stored) ==
  UNION {{mesh.buffers[k] : k \in 1 .. Len(mesh.buffers)} : mesh \in stored}
StoresOf(m, t) == BuffersIn(Stored(m)) \cup Stored(t)

LEMMA StoresAreStoresOf ==
  Stores = StoresOf(meshes, textures) /\ Stores' = StoresOf(meshes', textures')
  BY DEF Stores, StoresOf, BuffersIn

LEMMA OneMeshMore ==
  ASSUME NEW S, NEW mesh
  PROVE  BuffersIn(S \cup {mesh}) = BuffersIn(S) \cup RangeOf(mesh.buffers)
  <1>1. BuffersIn(S \cup {mesh}) \subseteq BuffersIn(S) \cup RangeOf(mesh.buffers)
    BY DEF BuffersIn, RangeOf
  <1>2. BuffersIn(S) \cup RangeOf(mesh.buffers) \subseteq BuffersIn(S \cup {mesh})
    BY DEF BuffersIn, RangeOf
  <1> QED
    BY <1>1, <1>2

\* A step that adds nothing to the slotmaps.
LEMMA StoresKept ==
  ASSUME UNCHANGED <<meshes, textures>>
  PROVE  /\ Stores' = Stores
         /\ Unwritten(meshes) => Unwritten(meshes')
         /\ Unwritten(textures) => Unwritten(textures')
  BY StoresAreStoresOf DEF Unwritten

LEMMA NextLiveInv ==
  ASSUME EnoughSlots, TypeInv, HandleBound, LiveInv, [Next]_vars
  PROVE  LiveInv'
  <1> USE DEF Working, Busy
  <1>0. /\ memory \in Seq(Data \cup {Undefined}) /\ live \subseteq 1 .. Len(memory)
        /\ Len(memory) \in Nat /\ made \in Seq(Objects) /\ Len(made) \in Nat
        /\ pc \in Busy => Len(memory) >= 2
    BY LenProperties DEF TypeInv, TypeOK, Progress
  <1>1. CASE UploadMesh \/ UploadTexture
    <2>1. PICK r \in Request : Begin(r)
      BY <1>1, UploadsBegin
    <2>2. /\ pc = "idle" /\ pc' = "stage" /\ made' = <<>>
          /\ UNCHANGED <<live, meshes, textures>>
      BY <2>1 DEF Begin, storeVars
    <2>3. InHand' = {} /\ InHand = {} /\ InWork = {} /\ InWork' = {}
      BY <2>2, EmptySeq DEF InHand, InWork, RangeOf
    <2> QED
      BY <2>2, <2>3, StoresKept DEF LiveInv
  <1>2. CASE Stage
    <2>1. pc = "stage" /\ UNCHANGED <<made, meshes, textures>> /\ InWork = {}
      BY <1>2 DEF Stage, storeVars, InWork
    <2>2. CASE request.loaded
      <3>1. /\ pc' = "submit" /\ memory' = memory \o <<Part, Undefined>>
            /\ live' = live \cup {Len(memory) + 1, Len(memory) + 2}
        BY <1>2, <2>2 DEF Stage
      <3>2. Part \in Data
        BY <2>1, PartIsData
      <3>3. Len(memory') = Len(memory) + 2
        BY <1>0, <3>1, <3>2, TwoMore
      <3>4. Staging' = Len(memory) + 1 /\ Target' = Len(memory) + 2
        BY <1>0, <3>3 DEF Staging, Target
      <3>5. InHand' = InHand /\ InWork' = {Len(memory) + 1, Len(memory) + 2}
        BY <2>1, <3>1, <3>4 DEF InHand, InWork
      <3>6. live = Stores \cup InHand
        BY <2>1 DEF LiveInv
      <3>7. \A o \in Stores \cup InHand : o < Len(memory) + 1
        BY <1>0, <3>6
      <3> QED
        BY <2>1, <3>1, <3>4, <3>5, <3>6, <3>7, StoresKept DEF LiveInv
    <2>3. CASE ~request.loaded
      <3>1. pc' = "aborted"
        BY <1>2, <2>3 DEF Stage
      <3> QED
        BY <2>1, <3>1, StoresKept DEF LiveInv
    <2> QED
      BY <2>2, <2>3
  <1>3. CASE Submit \/ WaitUpload \/ WaitTimeout \/ ResetUpload
    <2>1. /\ pc \in Busy /\ pc' \in Busy
          /\ UNCHANGED <<made, memory, live, meshes, textures>>
      BY <1>3 DEF Submit, WaitUpload, WaitTimeout, ResetUpload, storeVars
    <2>2. InHand' = InHand /\ InWork' = InWork /\ Staging' = Staging
      BY <2>1 DEF InHand, InWork, Staging, Target
    <2> QED
      BY <2>1, <2>2, StoresKept DEF LiveInv
  <1>4. CASE ReleaseStaging
    <2>1. /\ pc = "release" /\ pc' \in {"stage", "add"} /\ made' = Append(made, Target)
          /\ live' = live \ {Staging} /\ UNCHANGED <<memory, meshes, textures>>
      BY <1>4 DEF ReleaseStaging, storeVars
    <2>2. Target \in Objects /\ Target # Staging /\ Staging \in Nat
      BY <1>0, <2>1 DEF Target, Staging
    <2>3. /\ Len(made') = Len(made) + 1 /\ made'[Len(made) + 1] = Target
          /\ \A k \in 1 .. Len(made) : made'[k] = made[k]
      BY <1>0, <2>1, <2>2, AppendProperties
    <2>4. RangeOf(made') = RangeOf(made) \cup {Target}
      BY <1>0, <2>3 DEF RangeOf
    <2>5. /\ InHand = RangeOf(made) /\ InWork = {Staging, Target}
          /\ InHand' = RangeOf(made') /\ InWork' = {}
      BY <2>1 DEF InHand, InWork
    <2>6. live = Stores \cup RangeOf(made) \cup {Staging, Target}
          /\ \A o \in Stores \cup RangeOf(made) : o < Staging
      BY <2>1, <2>5 DEF LiveInv
    <2>7. Staging \notin Stores \cup RangeOf(made)
      BY <2>2, <2>6
    <2>8. live' = Stores \cup RangeOf(made) \cup {Target}
      BY <2>1, <2>2, <2>6, <2>7
    <2> QED
      BY <2>1, <2>4, <2>5, <2>8, StoresKept DEF LiveInv
  <1>5. CASE AddMesh
    <2> DEFINE mesh == [desc |-> request, buffers |-> made]
    <2>1. /\ pc = "add" /\ pc' = "idle" /\ UNCHANGED <<live, textures>>
          /\ meshes' \in Added(meshes, mesh)
      BY <1>5 DEF AddMesh, Return
    <2>2. /\ meshes \in SlotmapOf(RenderMesh) /\ mesh \in RenderMesh /\ Null \notin RenderMesh
      BY <2>1, NothingAssumption DEF RenderMesh, TypeInv, TypeOK
    <2>3. meshes.lastHandle + 1 < SIZE
      BY <1>5, <2>1, UploadsAssumption, SizeAssumption, SlotsEnough
      DEF AddMesh, HandleBound, SlotmapOf, TypeInv, TypeOK
    <2>4. mesh.buffers = made
      OBVIOUS
    <2> HIDE DEF mesh
    <2>5. Unwritten(meshes') /\ Stored(meshes') = Stored(meshes) \cup {mesh}
      BY <2>1, <2>2, <2>3, StoredMore DEF LiveInv
    <2>6. Stores' = Stores \cup RangeOf(made)
      BY <2>1, <2>4, <2>5, StoresAreStoresOf, OneMeshMore DEF StoresOf
    <2>7. InHand = RangeOf(made) /\ InWork = {} /\ InHand' = {} /\ InWork' = {}
      BY <2>1 DEF InHand, InWork
    <2> QED
      BY <2>1, <2>5, <2>6, <2>7 DEF LiveInv, Unwritten
  <1>6. CASE AddTexture
    <2>1. /\ pc = "add" /\ pc' = "idle" /\ UNCHANGED <<live, meshes>> /\ request.kind # "MESH"
          /\ textures' \in Added(textures, made[1])
      BY <1>6 DEF AddTexture, Return
    <2>2. /\ textures \in SlotmapOf(Objects) /\ made[1] \in Objects /\ Null \notin Objects
      BY <2>1, OneImage, NothingAssumption DEF TypeInv, TypeOK
    <2>3. textures.lastHandle + 1 < SIZE
      BY <2>1, UploadsAssumption, SizeAssumption, SlotsEnough
      DEF HandleBound, SlotmapOf, TypeInv, TypeOK
    <2>4. Unwritten(textures') /\ Stored(textures') = Stored(textures) \cup {made[1]}
      BY <2>1, <2>2, <2>3, StoredMore DEF LiveInv
    <2>5. Len(made) = 1
      BY <2>1 DEF TypeInv, Progress
    <2>6. RangeOf(made) = {made[1]}
      BY <2>5 DEF RangeOf
    <2>7. Stores' = Stores \cup RangeOf(made)
      BY <2>1, <2>4, <2>6, StoresAreStoresOf DEF StoresOf
    <2>8. InHand = RangeOf(made) /\ InWork = {} /\ InHand' = {} /\ InWork' = {}
      BY <2>1 DEF InHand, InWork
    <2> QED
      BY <2>1, <2>4, <2>7, <2>8 DEF LiveInv, Unwritten
  <1>7. CASE Run
    <2>1. pc = "idle" /\ pc' = "running" /\ UNCHANGED <<live, meshes, textures>>
      BY <1>7 DEF Run, storeVars
    <2>2. InHand = {} /\ InHand' = {} /\ InWork = {} /\ InWork' = {}
      BY <2>1 DEF InHand, InWork
    <2> QED
      BY <2>1, <2>2, StoresKept DEF LiveInv
  <1>8. CASE ExecuteCopy
    <2>1. /\ UNCHANGED <<pc, made, live, meshes, textures>>
          /\ \E i, a : memory' = [memory EXCEPT ![i] = a]
      BY <1>8 DEF ExecuteCopy, storeVars
    <2>2. Len(memory') = Len(memory)
      BY <1>0, <2>1, LenExcept
    <2>3. InHand' = InHand /\ InWork' = InWork /\ Staging' = Staging
      BY <2>1, <2>2 DEF InHand, InWork, Staging, Target
    <2> QED
      BY <2>1, <2>3, StoresKept DEF LiveInv
  <1>9. CASE Ended \/ UNCHANGED vars
    <2>1. UNCHANGED <<pc, made, memory, live, meshes, textures>>
      BY <1>9 DEF Ended, vars
    <2>2. InHand' = InHand /\ InWork' = InWork /\ Staging' = Staging
      BY <2>1 DEF InHand, InWork, Staging, Target
    <2> QED
      BY <2>1, <2>2, StoresKept DEF LiveInv
  <1> QED
    BY <1>1, <1>2, <1>3, <1>4, <1>5, <1>6, <1>7, <1>8, <1>9 DEF Next

LEMMA InitLiveInv == Init => LiveInv
  <1> SUFFICES ASSUME Init PROVE LiveInv
    OBVIOUS
  <1>1. /\ meshes.array = [h \in Slots |-> Null] /\ textures.array = [h \in Slots |-> Null]
        /\ live = {} /\ pc = "idle"
    BY DEF Init, EmptySlotmap
  <1>2. Stored(meshes) = {} /\ Stored(textures) = {}
    BY <1>1 DEF Stored
  <1>3. Stores = {} /\ InHand = {} /\ InWork = {}
    BY <1>1, <1>2 DEF Stores, InHand, InWork, Working, Busy
  <1> QED
    BY <1>1, <1>3 DEF LiveInv, Unwritten, Busy

\* As long as there are slots for all uploads, nothing is left of them: between two of
\* them every buffer and image that exists is one a handle stands for, and the graphics
\* queue has no copy to execute.
THEOREM NothingLeft == ASSUME EnoughSlots PROVE Spec => []NoStagingLeft
  <1>1. UploadInv /\ LiveInv => NoStagingLeft
    <2> SUFFICES ASSUME UploadInv, LiveInv, ~late, pc \in {"idle", "running"}
                 PROVE  queue = <<>> /\ live = Stores
      BY DEF NoStagingLeft
    <2>1. queue = <<>>
      BY DEF UploadInv, CopyInv
    <2>2. InHand = {} /\ InWork = {}
      BY DEF InHand, InWork, Working, Busy
    <2> QED
      BY <2>1, <2>2 DEF LiveInv
  <1>2. UploadInv /\ LiveInv /\ [Next]_vars => LiveInv'
    BY NextLiveInv DEF UploadInv
  <1> QED
    BY <1>1, <1>2, InitLiveInv, InductiveInvariant, PTL DEF Spec
=============================================================================
