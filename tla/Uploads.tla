------------------------------- MODULE Uploads --------------------------------
(***************************************************************************)
(* Renderer::UploadMesh and UploadTexture, as Engine::Init calls them: each *)
(* buffer or image is filled through a staging buffer by a copy that       *)
(* Device::ImmediateSubmit gives to the graphics queue and waits for, with *)
(* one fence and one command buffer for all uploads.                       *)
(*                                                                         *)
(* Buffers and images are numbered in the order of their creation;         *)
(* `memory' has what is in each.                                           *)
(***************************************************************************)
EXTENDS Slotmap, Sequences

CONSTANTS
  FRAME_OVERLAP,  \* frames in flight: 2 in the code
  Sets,           \* the frames whose globalSet the pool gave
  MAX_TEXTURES,   \* length of binding 3 of a globalSet: 128 in the code
  Data,           \* what a buffer or an image may be filled with
  Undefined,      \* the contents of memory nobody has written
  MaxMeshes,      \* bound: meshes that are uploaded
  MaxTextures     \* bound: textures that are uploaded

ASSUME UploadsAssumption ==
  /\ FRAME_OVERLAP \in Nat \ {0}
  /\ Sets \subseteq 0 .. FRAME_OVERLAP - 1 /\ 0 \in Sets
  /\ MAX_TEXTURES \in Nat \ {0}
  /\ MaxMeshes \in Nat /\ MaxTextures \in Nat
  /\ Undefined \notin Data

VARIABLES
  pc,           \* where the thread stands
  request,      \* the mesh or texture being uploaded
  made,         \* the buffers or the image filled for it so far
  memory,       \* the contents of every buffer and image
  live,         \* those that are not destroyed
  uploadFence,  \* is the fence of the upload context signalled
  queue,        \* copies the graphics queue has not executed
  meshes,       \* m_meshes
  textures,     \* m_bindlessImages
  descriptors,  \* per set: the images of binding 3
  returned,     \* history: the handles callers were given, and for what
  late          \* history: a wait ended before the copy it waited for

vars == <<pc, request, made, memory, live, uploadFence, queue, meshes, textures,
          descriptors, returned, late>>
storeVars == <<meshes, textures, descriptors, returned>>

Elements == 0 .. MAX_TEXTURES - 1

Objects == Nat \ {0}

\* The vertices and maybe the indices of a mesh.
Parts == {<<d>> : d \in Data} \cup {<<d, e>> : d, e \in Data}

\* The MeshDescs, with or without indices.
Meshes == [kind : {"MESH"}, parts : Parts, loaded : {TRUE}]

\* What loading a texture may leave.  A load that fails writes nothing: there are
\* no pixels, and the type, which nothing else sets, may be either.
Textures ==
  [kind   : {"TEXTURE_2D", "TEXTURE_CUBEMAP"},
   parts  : {<<pixels>> : pixels \in Data},
   loaded : BOOLEAN]

Request == Meshes \cup Textures

RenderMesh == [desc : Request, buffers : Seq(Objects)]

ASSUME NothingAssumption ==
  Null \notin Request /\ Null \notin Objects /\ Null \notin RenderMesh

Copy == [from : Objects, to : Objects]

TypeOK ==
  /\ pc \in {"idle", "stage", "submit", "wait", "reset", "release", "add", "running",
             "aborted"}
  /\ request \in Request \cup {Null}
  /\ pc \in {"stage", "submit", "wait", "reset", "release", "add"} => request # Null
  /\ made \in Seq(Objects)
  /\ memory \in Seq(Data \cup {Undefined})
  /\ live \subseteq 1 .. Len(memory)
  /\ uploadFence \in BOOLEAN
  /\ queue \in Seq(Copy)
  /\ meshes \in SlotmapOf(RenderMesh)
  /\ textures \in SlotmapOf(Objects)
  /\ descriptors \in [Sets -> [Elements -> Objects \cup {Null}]]
  /\ returned \subseteq [handle : Nat, request : Request]
  /\ late \in BOOLEAN

\* Device::Init has run: the fonts of imgui are uploaded and the fence is reset.
Init ==
  /\ pc = "idle"
  /\ request = Null
  /\ made = <<>>
  /\ memory = <<>>
  /\ live = {}
  /\ uploadFence = FALSE
  /\ queue = <<>>
  /\ meshes = EmptySlotmap
  /\ textures = EmptySlotmap
  /\ descriptors = [f \in Sets |-> [e \in Elements |-> Null]]
  /\ returned = {}
  /\ late = FALSE

Begin(r) ==
  /\ pc = "idle"
  /\ IF r.kind = "MESH" THEN meshes.lastHandle < MaxMeshes ELSE textures.lastHandle < MaxTextures
  /\ request' = r
  /\ made' = <<>>
  /\ pc' = "stage"
  /\ UNCHANGED <<memory, live, uploadFence, queue, storeVars, late>>

UploadMesh == \E mesh \in Meshes : Begin(mesh)

\* The test of texture.ptr, an array, for nullptr never holds: what failed to load
\* is uploaded too.
UploadTexture == \E texture \in Textures : Begin(texture)

\* The part of the request that is being uploaded: vertices, indices or pixels.
Part == request.parts[Len(made) + 1]

\* Fault: the staging buffer of the upload before.
StagingOffByOne == Len(memory) - 2

\* The staging buffer and what it is copied to: the two objects made last.
Staging == Len(memory) - 1
Target == Len(memory)

\* The staging buffer is created and filled, its target is created.  Without
\* pixels an assertion fails or a null pointer is read.
Stage ==
  /\ pc = "stage"
  /\ IF request.loaded
     THEN /\ memory' = memory \o <<Part, Undefined>>
          /\ live' = live \cup {Len(memory) + 1, Len(memory) + 2}
          /\ pc' = "submit"
     ELSE pc' = "aborted" /\ UNCHANGED <<memory, live>>
  /\ UNCHANGED <<request, made, uploadFence, queue, storeVars, late>>

\* ImmediateSubmit records the copy and submits it with the fence.
Submit ==
  /\ pc = "submit"
  /\ queue' = Append(queue, [from |-> Staging, to |-> Target])
  /\ pc' = "wait"
  /\ UNCHANGED <<request, made, memory, live, uploadFence, storeVars, late>>

WaitUpload ==
  /\ pc = "wait"
  /\ uploadFence
  /\ pc' = "reset"
  /\ UNCHANGED <<request, made, memory, live, uploadFence, queue, storeVars, late>>

\* After ten seconds the wait returns VK_TIMEOUT, which nothing looks at.
WaitTimeout ==
  /\ pc = "wait"
  /\ ~uploadFence
  /\ late' = TRUE
  /\ pc' = "reset"
  /\ UNCHANGED <<request, made, memory, live, uploadFence, queue, storeVars>>

\* Fault: the fence is not reset.
ResetPoolOnly ==
  /\ pc = "reset"
  /\ pc' = "release"
  /\ UNCHANGED <<request, made, memory, live, uploadFence, queue, storeVars, late>>

\* The fence and the command pool are reset, and ImmediateSubmit returns.
ResetUpload ==
  /\ pc = "reset"
  /\ uploadFence' = FALSE
  /\ pc' = "release"
  /\ UNCHANGED <<request, made, memory, live, queue, storeVars, late>>

\* Fault: only the last staging buffer of a mesh is destroyed.
ReleaseLastStaging ==
  /\ pc = "release"
  /\ made' = Append(made, Target)
  /\ IF Len(made') < Len(request.parts)
     THEN pc' = "stage" /\ UNCHANGED live
     ELSE pc' = "add" /\ live' = live \ {Staging}
  /\ UNCHANGED <<request, memory, uploadFence, queue, storeVars, late>>

\* Fault: the target of the first part is written down for every part.
ReleaseKeepsFirst ==
  /\ pc = "release"
  /\ live' = live \ {Staging}
  /\ made' = Append(made, IF made = <<>> THEN Target ELSE made[1])
  /\ pc' = IF Len(made') < Len(request.parts) THEN "stage" ELSE "add"
  /\ UNCHANGED <<request, memory, uploadFence, queue, storeVars, late>>

\* The staging buffer is destroyed.
ReleaseStaging ==
  /\ pc = "release"
  /\ live' = live \ {Staging}
  /\ made' = Append(made, Target)
  /\ pc' = IF Len(made') < Len(request.parts) THEN "stage" ELSE "add"
  /\ UNCHANGED <<request, memory, uploadFence, queue, storeVars, late>>

Return(handle) ==
  /\ returned' = returned \cup {[handle |-> handle, request |-> request]}
  /\ pc' = "idle"
  /\ UNCHANGED <<request, made, memory, live, uploadFence, queue, late>>

AddMesh ==
  /\ pc = "add"
  /\ request.kind = "MESH"
  /\ meshes' \in Added(meshes, [desc |-> request, buffers |-> made])
  /\ Return(NewHandle(meshes))
  /\ UNCHANGED <<textures, descriptors>>

\* Fault: only the descriptor set of the first frame is written.
AddTextureToFirstFrame ==
  /\ pc = "add"
  /\ request.kind # "MESH"
  /\ textures' \in Added(textures, made[1])
  /\ descriptors' = [descriptors EXCEPT ![0][NewHandle(textures)] = made[1]]
  /\ Return(NewHandle(textures))
  /\ UNCHANGED meshes

\* The elements that may be written for a handle: its own, in every set.  It is not
\* compared with MAX_TEXTURES: past the array it is undefined what is written.
Written(handle) ==
  IF handle \in Elements THEN {Sets \X {handle}} ELSE SUBSET (Sets \X Elements)

\* The image gets a bindless handle, and an element in the descriptor set of every
\* frame.  For a frame without a set nothing is written, if the program goes on.
AddTexture ==
  /\ pc = "add"
  /\ request.kind # "MESH"
  /\ textures' \in Added(textures, made[1])
  /\ \E places \in Written(NewHandle(textures)) :
       descriptors' = [f \in Sets |-> [e \in Elements |->
                         IF <<f, e>> \in places THEN made[1] ELSE descriptors[f][e]]]
  /\ Return(NewHandle(textures))
  /\ UNCHANGED meshes

\* setupScene returns and Engine::run begins.
Run ==
  /\ pc = "idle"
  /\ pc' = "running"
  /\ UNCHANGED <<request, made, memory, live, uploadFence, queue, storeVars, late>>

\* The graphics queue executes a copy and signals the fence.
ExecuteCopy ==
  /\ queue # <<>>
  /\ memory' = [memory EXCEPT ![Head(queue).to] =
                  IF Head(queue).from \in live THEN memory[Head(queue).from] ELSE Undefined]
  /\ queue' = Tail(queue)
  /\ uploadFence' = TRUE
  /\ UNCHANGED <<pc, request, made, live, storeVars, late>>

Ended == pc \in {"running", "aborted"} /\ UNCHANGED vars

Next ==
  \/ UploadMesh
  \/ UploadTexture
  \/ Stage
  \/ Submit
  \/ WaitUpload
  \/ WaitTimeout
  \/ ResetUpload
  \/ ReleaseStaging
  \/ AddMesh
  \/ AddTexture
  \/ Run
  \/ ExecuteCopy
  \/ Ended

Spec == Init /\ [][Next]_vars

-----------------------------------------------------------------------------
(* How many uploads the engine has room for.  Neither is tested by the code. *)

\* No slotmap runs out of handles, that of buffers before the others: six for each
\* frame, vertices, indices and two staging buffers for each mesh, and the staging
\* buffer of each texture.
EnoughSlots == 6 * FRAME_OVERLAP + 4 * MaxMeshes + MaxTextures < SIZE

\* Every texture has an element; no texture gets the first.
EnoughDescriptors == MaxTextures < MAX_TEXTURES

-----------------------------------------------------------------------------
(* Correctness, as long as no wait has ended before its copy *)

\* A staging buffer is there until the copy from it has been executed, also the
\* second time the fence of the upload context is used, and the third.
StagingOutlivesCopy ==
  late \/ \A k \in 1 .. Len(queue) : queue[k].from \in live

\* A mesh handle stands for vertices and indices that have arrived: the caller may
\* draw it in the next frame without waiting for anything.
MeshesArrived ==
  late \/
  \A r \in returned :
    r.request.kind = "MESH" =>
      /\ r.handle \in Slots
      /\ meshes.array[r.handle] # Null
      /\ Len(meshes.array[r.handle].buffers) = Len(r.request.parts)
      /\ \A k \in 1 .. Len(r.request.parts) :
           /\ meshes.array[r.handle].buffers[k] \in live
           /\ memory[meshes.array[r.handle].buffers[k]] = r.request.parts[k]

\* A texture handle is an element of every descriptor set, not the one that means no
\* texture to the shaders, and the image bound there has the pixels of that texture,
\* whatever was uploaded since.
TexturesBound ==
  late \/
  \A r \in returned :
    r.request.kind # "MESH" =>
      /\ r.handle \in Elements \ {0}
      /\ \A f \in Sets :
           /\ descriptors[f][r.handle] \in live
           /\ memory[descriptors[f][r.handle]] = r.request.parts[1]

\* The objects behind handles.
Stores ==
  (UNION {{mesh.buffers[k] : k \in 1 .. Len(mesh.buffers)} : mesh \in Stored(meshes)})
    \cup Stored(textures)

\* Between uploads, and when the loop starts, nothing is left of them: the queue is
\* empty, and what exists is behind a handle.
NoStagingLeft ==
  late \/ (pc \in {"idle", "running"} => queue = <<>> /\ live = Stores)

\* What uploadTextureInternalCubemap asserts: a cubemap that is uploaded was loaded.
PixelsLoaded ==
  pc = "stage" /\ request.kind = "TEXTURE_CUBEMAP" => request.loaded
=============================================================================
