--------------------------- MODULE SceneLoad_proofs ---------------------------
(***************************************************************************)
(* That what setupScene loads is drawn as the file says: for any files, any *)
(* number of frames, and as many uploads as there are slots and descriptors *)
(* for.                                                                    *)
(* Every step of the loader is one of Uploads or leaves it alone, so what  *)
(* handles stand for is known from Uploads_proofs; what is left is that    *)
(* the loader keeps the right handle for everything.                       *)
(***************************************************************************)
EXTENDS SceneLoad, Uploads_proofs

\* The caller was given handle h for request r.
Handed(h, r) == [handle |-> h, request |-> r] \in returned

\* The same of an image of the file.
ImageHanded(h, pixels) == \E loaded \in BOOLEAN : Handed(h, ImageRequest(pixels, loaded))

\* What is being uploaded is what the loader has come to.
RequestInv ==
  pc \in Working \cup {"add"} =>
    \/ step = "cube" /\ request = MeshRequest(CubeParts)
    \/ /\ step = "model" /\ Len(loadedTextures) < Len(model.images)
       /\ \E loaded \in BOOLEAN :
            request = ImageRequest(model.images[Len(loadedTextures) + 1], loaded)
    \/ /\ step = "model" /\ Len(loadedTextures) = Len(model.images)
       /\ Len(objects) < Len(model.primitives)
       /\ request = MeshRequest(Primitive.parts)
    \/ step = "cubemap" /\ request \in CubemapRequests

\* Image i has the handle at place i.
ImagesInv ==
  \A i \in 1 .. Len(loadedTextures) :
    ImageHanded(loadedTextures[i], model.images[i])

\* Objects are made when all images are there, each from its own primitive.
ObjectsInv ==
  /\ Len(objects) > 0 => Len(loadedTextures) = Len(model.images)
  /\ \A p \in 1 .. Len(objects) :
       /\ Handed(objects[p].meshHandle, MeshRequest(model.primitives[p].parts))
       /\ \A k \in Kinds : objects[p].textures[k] = TextureHandle(ImageOf(p, k))

\* How far the loader has come.
StepInv ==
  /\ step \in {"cube", "parse"} => Len(loadedTextures) = 0 /\ Len(objects) = 0
  /\ step \in {"cubemap", "done"} =>
       Len(loadedTextures) = Len(model.images) /\ Len(objects) = Len(model.primitives)
  /\ step # "cube" => Handed(skybox.meshHandle, MeshRequest(CubeParts))
  /\ step = "done" => \E r \in CubemapRequests : Handed(skybox.textureHandle, r)
  /\ pc = "running" => step = "done"

LoadInv == LoadTypeOK /\ RequestInv /\ ImagesInv /\ ObjectsInv /\ StepInv

-----------------------------------------------------------------------------
(* What the actions of Uploads do to what the loader looks at *)

LEMMA BeginFacts ==
  ASSUME NEW r, Begin(r)
  PROVE  /\ pc = "idle" /\ pc' = "stage" /\ request' = r
         /\ returned' = returned
  BY DEF Begin, storeVars

LEMMA AddMeshFacts ==
  ASSUME AddMesh
  PROVE  /\ pc = "add" /\ pc' = "idle" /\ request.kind = "MESH"
         /\ returned' = returned \cup {[handle |-> NewHandle(meshes), request |-> request]}
  BY DEF AddMesh, Return

LEMMA AddTextureFacts ==
  ASSUME AddTexture
  PROVE  /\ pc = "add" /\ pc' = "idle" /\ request.kind # "MESH"
         /\ returned' = returned \cup {[handle |-> NewHandle(textures), request |-> request]}
  BY DEF AddTexture, Return

LEMMA UploadFacts ==
  ASSUME Upload
  PROVE  /\ request' = request /\ returned' = returned /\ UNCHANGED loaderVars
         /\ pc' \in Working \cup {"add"} => pc \in Working \cup {"add"}
         /\ pc' = "running" => pc = "running"
  BY DEF Upload, Stage, Submit, WaitUpload, WaitTimeout, ResetUpload, ReleaseStaging,
         ExecuteCopy, Ended, storeVars, vars, Working, Busy

LEMMA HandlesAreNumbers ==
  ASSUME TypeOK
  PROVE  NewHandle(meshes) \in Nat /\ NewHandle(textures) \in Nat
  BY DEF TypeOK, SlotmapOf, NewHandle

\* The requests of the loader are requests of Uploads, of the kind they say.
LEMMA RequestsOfLoader ==
  /\ \A parts \in Parts : MeshRequest(parts) \in Meshes /\ MeshRequest(parts).kind = "MESH"
  /\ \A d \in Data, l \in BOOLEAN :
       /\ ImageRequest(d, l) \in Textures /\ ImageRequest(d, l).kind # "MESH"
       /\ ImageRequest(d, l).parts[1] = d
  /\ \A r \in CubemapRequests : r \in Textures /\ r.kind # "MESH" /\ r.parts[1] = SkyPixels
  BY DEF MeshRequest, ImageRequest, CubemapRequests, Meshes, Textures

LEMMA FileCounts ==
  ASSUME NEW m, WellFormed(m)
  PROVE  Len(m.images) \in Nat /\ Len(m.primitives) \in Nat
  <1>1. m.images \in Seq(Data) /\ m.primitives \in Seq(Primitives)
    BY DEF WellFormed, ModelType
  <1> QED
    BY <1>1, LenProperties

\* What a well-formed file has at its indices.
LEMMA FileParts ==
  ASSUME NEW m, WellFormed(m)
  PROVE  /\ \A i \in 1 .. Len(m.images) : m.images[i] \in Data
         /\ \A p \in 1 .. Len(m.primitives) : m.primitives[p].parts \in Parts
         /\ \A p \in 1 .. Len(m.primitives), k \in Kinds :
              LET t == m.materials[m.primitives[p].material][k]
              IN  t = 0 \/ (t \in Nat /\ m.textures[t] \in 0 .. Len(m.images))
  <1>1. /\ m.images \in Seq(Data) /\ m.textures \in Seq(Nat)
        /\ m.primitives \in Seq(Primitives)
    BY DEF WellFormed, ModelType
  <1>2. Len(m.textures) \in Nat
    BY <1>1, LenProperties
  <1>3. \A p \in 1 .. Len(m.primitives) : m.primitives[p] \in Primitives
    BY <1>1, ElementOfSeq
  <1>4. \A i \in 1 .. Len(m.images) : m.images[i] \in Data
    BY <1>1, ElementOfSeq
  <1>5. ASSUME NEW p \in 1 .. Len(m.primitives), NEW k \in Kinds
        PROVE  LET t == m.materials[m.primitives[p].material][k]
               IN  t = 0 \/ (t \in Nat /\ m.textures[t] \in 0 .. Len(m.images))
    <2> DEFINE n == m.primitives[p].material
               t == m.materials[n][k]
    <2>1. n \in 1 .. Len(m.materials)
      BY DEF WellFormed
    <2>2. t \in 0 .. Len(m.textures)
      BY <2>1 DEF WellFormed
    <2> HIDE DEF t
    <2>3. t = 0 \/ t \in 1 .. Len(m.textures)
      BY <1>2, <2>2
    <2>4. t \in 1 .. Len(m.textures) => m.textures[t] \in 0 .. Len(m.images)
      BY DEF WellFormed
    <2>5. t = 0 \/ (t \in Nat /\ m.textures[t] \in 0 .. Len(m.images))
      BY <1>2, <2>3, <2>4
    <2> QED
      BY <2>5 DEF t
  <1>6. \A p \in 1 .. Len(m.primitives) : m.primitives[p].parts \in Parts
    BY <1>3 DEF Primitives
  <1> QED
    BY <1>4, <1>5, <1>6

\* The image of a primitive, and that the loader's two steps from an index to a handle
\* are one step from the image.
LEMMA ImageInFile ==
  ASSUME WellFormed(model), NEW p \in 1 .. Len(model.primitives), NEW k \in Kinds
  PROVE  /\ ImageOf(p, k) \in 0 .. Len(model.images)
         /\ TextureIndex(model.materials[model.primitives[p].material][k]) = ImageOf(p, k)
  <1> DEFINE t == model.materials[model.primitives[p].material][k]
  <1>1. Len(model.images) \in Nat /\ 0 \in 0 .. Len(model.images)
    BY FileCounts
  <1>2. t = 0 \/ model.textures[t] \in 0 .. Len(model.images)
    BY FileParts
  <1>3. ImageOf(p, k) = IF t = 0 THEN 0 ELSE model.textures[t]
    BY DEF ImageOf
  <1>4. TextureIndex(t) = IF t = 0 THEN 0 ELSE model.textures[t]
    BY DEF TextureIndex
  <1> HIDE DEF t
  <1>5. ImageOf(p, k) \in 0 .. Len(model.images) /\ TextureIndex(t) = ImageOf(p, k)
    BY <1>1, <1>2, <1>3, <1>4
  <1> QED
    BY <1>5 DEF t

-----------------------------------------------------------------------------
(* The loader does what Uploads allows *)

LEMMA LoadInitUploads == LoadInit => Init
  BY DEF LoadInit

\* A step of the loader is a step of Uploads, or Uploads does not see it.
LEMMA LoadStepUploads ==
  ASSUME LoadTypeOK, [LoadNext]_loadVars
  PROVE  [Next]_vars
  <1>1. \A parts \in Parts : Begin(MeshRequest(parts)) => UploadMesh
    BY RequestsOfLoader DEF UploadMesh
  <1>2. \A r \in Textures : Begin(r) => UploadTexture
    BY DEF UploadTexture
  <1>3. CASE BeginCube
    BY <1>1, <1>3, SkyboxAssumption DEF BeginCube, Next
  <1>4. CASE BeginImage
    <2>1. Len(loadedTextures) + 1 \in 1 .. Len(model.images)
      <3>1. Len(loadedTextures) \in Nat
        BY LenProperties DEF LoadTypeOK
      <3> QED
        BY <1>4, <3>1, FileCounts DEF BeginImage, LoadTypeOK
    <2>2. PICK loaded \in BOOLEAN :
            Begin(ImageRequest(model.images[Len(loadedTextures) + 1], loaded))
      BY <1>4 DEF BeginImage
    <2>3. ImageRequest(model.images[Len(loadedTextures) + 1], loaded) \in Textures
      BY <2>1, FileParts, RequestsOfLoader DEF LoadTypeOK
    <2> QED
      BY <1>2, <2>2, <2>3 DEF Next
  <1>5. CASE BeginPrimitive
    <2>1. Len(objects) + 1 \in 1 .. Len(model.primitives)
      <3>1. Len(objects) \in Nat
        BY LenProperties DEF LoadTypeOK
      <3> QED
        BY <1>5, <3>1, FileCounts DEF BeginPrimitive, LoadTypeOK
    <2>2. Primitive.parts \in Parts
      BY <2>1, FileParts DEF Primitive, LoadTypeOK
    <2> QED
      BY <1>1, <1>5, <2>2 DEF BeginPrimitive, Next
  <1>6. CASE BeginCubemap
    BY <1>2, <1>6, RequestsOfLoader DEF BeginCubemap, Next
  <1>7. CASE AddCube \/ AddImage \/ AddPrimitive \/ AddCubemap
    BY <1>7 DEF AddCube, AddImage, AddPrimitive, AddCubemap, Next
  <1>8. CASE Upload
    BY <1>8 DEF Upload, Next
  <1>9. CASE StartLoop
    BY <1>9 DEF StartLoop, Next
  <1>10. CASE ParseModel \/ UNCHANGED loadVars
    BY <1>10 DEF ParseModel, loadVars
  <1> QED
    BY <1>3, <1>4, <1>5, <1>6, <1>7, <1>8, <1>9, <1>10 DEF LoadNext
-----------------------------------------------------------------------------
(* The invariant of the loader *)

\* A new value after a sequence.
LEMMA OneMore ==
  ASSUME NEW S, NEW s \in Seq(S), NEW x \in S
  PROVE  /\ Append(s, x) \in Seq(S)
         /\ Len(s) \in Nat
         /\ Len(Append(s, x)) = Len(s) + 1
         /\ Append(s, x)[Len(s) + 1] = x
         /\ \A i \in 1 .. Len(s) : Append(s, x)[i] = s[i]
  BY AppendProperties, LenProperties

LEMMA InitLoadInv == LoadInit => LoadInv
  <1> SUFFICES ASSUME LoadInit PROVE LoadInv
    OBVIOUS
  <1>1. /\ pc = "idle" /\ step = "cube" /\ model = NoModel
        /\ loadedTextures = <<>> /\ objects = <<>>
        /\ skybox = [meshHandle |-> 0, textureHandle |-> 0]
    BY DEF LoadInit, Init
  <1>2. Len(loadedTextures) = 0 /\ Len(objects) = 0
    BY <1>1, EmptySeq
  <1>3. WellFormed(NoModel) /\ Len(NoModel.images) = 0 /\ Len(NoModel.primitives) = 0
    <2>1. /\ <<>> \in Seq(Data) /\ <<>> \in Seq(Nat) /\ <<>> \in Seq([Kinds -> Nat])
          /\ <<>> \in Seq(Primitives)
      BY EmptySeq
    <2> QED
      BY <2>1 DEF NoModel, WellFormed, ModelType
  <1>4. LoadTypeOK
    <2>1. loadedTextures \in Seq(Nat) /\ objects \in Seq(RenderableComponent)
      BY <1>1, EmptySeq
    <2>2. skybox \in [meshHandle : Nat, textureHandle : Nat]
      BY <1>1
    <2> QED
      BY <1>1, <1>2, <1>3, <2>1, <2>2 DEF LoadTypeOK
  <1>5. RequestInv
    BY <1>1 DEF RequestInv, Working, Busy
  <1>6. ImagesInv /\ ObjectsInv
    BY <1>2 DEF ImagesInv, ObjectsInv
  <1>7. StepInv
    BY <1>1, <1>2 DEF StepInv
  <1> QED
    BY <1>4, <1>5, <1>6, <1>7 DEF LoadInv

\* Handles are never taken back.
LEMMA HandedStays ==
  ASSUME NEW h, NEW r, Handed(h, r), returned \subseteq returned'
  PROVE  Handed(h, r)'
  BY DEF Handed

LEMMA SceneStays ==
  ASSUME ImagesInv, ObjectsInv, UNCHANGED <<model, loadedTextures, objects>>,
         returned \subseteq returned'
  PROVE  ImagesInv' /\ ObjectsInv'
  BY DEF ImagesInv, ObjectsInv, ImageHanded, Handed, ImageOf, TextureHandle

\* The beginning of an upload: nothing but the request is new.
LEMMA BeginKeeps ==
  ASSUME LoadInv, BeginCube \/ BeginImage \/ BeginPrimitive \/ BeginCubemap
  PROVE  LoadInv'
  <1>1. PICK r : Begin(r)
    BY DEF BeginCube, BeginImage, BeginPrimitive, BeginCubemap
  <1>2. /\ pc' = "stage" /\ request' = r /\ returned' = returned
        /\ UNCHANGED <<model, loadedTextures, objects, skybox>>
    BY <1>1, BeginFacts
    DEF BeginCube, BeginImage, BeginPrimitive, BeginCubemap, loaderVars
  <1>3. ImagesInv' /\ ObjectsInv'
    BY <1>2, SceneStays DEF LoadInv
  <1>4. CASE BeginCube \/ BeginImage \/ BeginPrimitive
    <2>1. step' = step
      BY <1>4 DEF BeginCube, BeginImage, BeginPrimitive, loaderVars
    <2>2. LoadTypeOK'
      BY <1>2, <2>1 DEF LoadInv, LoadTypeOK
    <2>3. StepInv'
      BY <1>2, <2>1 DEF LoadInv, StepInv, Handed
    <2>4. RequestInv'
      <3>1. CASE BeginCube
        <4>1. request' = MeshRequest(CubeParts) /\ step = "cube"
          BY <3>1, BeginFacts DEF BeginCube
        <4> QED
          BY <2>1, <4>1 DEF RequestInv, MeshRequest
      <3>2. CASE BeginImage
        <4>1. /\ step = "model" /\ Len(loadedTextures) < Len(model.images)
              /\ \E loaded \in BOOLEAN :
                   request' = ImageRequest(model.images[Len(loadedTextures) + 1], loaded)
          BY <3>2, BeginFacts DEF BeginImage
        <4> QED
          BY <1>2, <2>1, <4>1 DEF RequestInv, ImageRequest
      <3>3. CASE BeginPrimitive
        <4>1. /\ step = "model" /\ Len(loadedTextures) = Len(model.images)
              /\ Len(objects) < Len(model.primitives)
              /\ request' = MeshRequest(Primitive.parts)
          BY <3>3, BeginFacts DEF BeginPrimitive
        <4> QED
          BY <1>2, <2>1, <4>1 DEF RequestInv, MeshRequest, Primitive
      <3> QED
        BY <1>4, <3>1, <3>2, <3>3
    <2> QED
      BY <1>3, <2>2, <2>3, <2>4 DEF LoadInv
  <1>5. CASE BeginCubemap
    <2>1. /\ step = "model" /\ step' = "cubemap" /\ request' \in CubemapRequests
          /\ Len(loadedTextures) = Len(model.images)
          /\ Len(objects) = Len(model.primitives)
      BY <1>5, BeginFacts DEF BeginCubemap
    <2>2. LoadTypeOK'
      BY <1>2, <2>1 DEF LoadInv, LoadTypeOK
    <2>3. StepInv'
      BY <1>2, <2>1 DEF LoadInv, StepInv, Handed
    <2>4. RequestInv'
      BY <2>1 DEF RequestInv, CubemapRequests
    <2> QED
      BY <1>3, <2>2, <2>3, <2>4 DEF LoadInv
  <1> QED
    BY <1>4, <1>5

\* Between the beginning and the end of an upload, in the queue, and where the thread
\* stands still.
LEMMA UploadKeeps ==
  ASSUME LoadInv, Upload \/ StartLoop \/ UNCHANGED loadVars
  PROVE  LoadInv'
  <1>1. /\ request' = request /\ returned' = returned /\ UNCHANGED loaderVars
        /\ pc' \in Working \cup {"add"} => pc \in Working \cup {"add"}
        /\ pc' = "running" => pc = "running" \/ step = "done"
    BY UploadFacts DEF StartLoop, Run, loadVars, vars, storeVars, Working, Busy
  <1>2. UNCHANGED <<step, model, loadedTextures, objects, skybox>>
    BY <1>1 DEF loaderVars
  <1>3. ImagesInv' /\ ObjectsInv'
    BY <1>1, <1>2, SceneStays DEF LoadInv
  <1>4. LoadTypeOK'
    BY <1>2 DEF LoadInv, LoadTypeOK
  <1>5. RequestInv'
    BY <1>1, <1>2 DEF LoadInv, RequestInv, MeshRequest, ImageRequest, Primitive,
                      CubemapRequests
  <1>6. StepInv'
    BY <1>1, <1>2 DEF LoadInv, StepInv, Handed
  <1> QED
    BY <1>3, <1>4, <1>5, <1>6 DEF LoadInv

LEMMA ParseKeeps ==
  ASSUME LoadInv, ParseModel
  PROVE  LoadInv'
  <1>1. /\ step = "parse" /\ step' = "model" /\ pc = "idle" /\ pc' = pc
        /\ returned' = returned /\ UNCHANGED <<loadedTextures, objects, skybox>>
        /\ Len(loadedTextures) = 0 /\ Len(objects) = 0
    BY DEF ParseModel, vars, LoadInv, StepInv
  <1>2. WellFormed(model')
    <2>1. WellFormed(NoModel)
      <3>1. /\ <<>> \in Seq(Data) /\ <<>> \in Seq(Nat) /\ <<>> \in Seq([Kinds -> Nat])
            /\ <<>> \in Seq(Primitives)
        BY EmptySeq
      <3> QED
        BY <3>1 DEF NoModel, WellFormed, ModelType
    <2> QED
      BY <2>1, ModelsAssumption DEF ParseModel
  <1>3. Len(model'.images) \in Nat /\ Len(model'.primitives) \in Nat
    BY <1>2, FileCounts
  <1>4. LoadTypeOK'
    BY <1>1, <1>2, <1>3 DEF LoadInv, LoadTypeOK, WellFormed
  <1>5. ImagesInv' /\ ObjectsInv'
    BY <1>1 DEF ImagesInv, ObjectsInv
  <1>6. RequestInv'
    BY <1>1 DEF RequestInv, Working, Busy
  <1>7. StepInv'
    BY <1>1 DEF LoadInv, StepInv, Handed
  <1> QED
    BY <1>4, <1>5, <1>6, <1>7 DEF LoadInv

\* The mesh of the skybox.
LEMMA AddCubeKeeps ==
  ASSUME LoadInv, TypeOK, AddCube
  PROVE  LoadInv'
  <1>1. /\ step = "cube" /\ step' = "parse" /\ pc = "add" /\ pc' = "idle"
        /\ request.kind = "MESH"
        /\ returned' = returned \cup {[handle |-> NewHandle(meshes), request |-> request]}
        /\ skybox' = [meshHandle |-> NewHandle(meshes), textureHandle |-> 0]
        /\ UNCHANGED <<model, loadedTextures, objects>>
    BY AddMeshFacts DEF AddCube
  <1>2. request = MeshRequest(CubeParts)
    BY <1>1 DEF LoadInv, RequestInv
  <1>3. ImagesInv' /\ ObjectsInv'
    BY <1>1, SceneStays DEF LoadInv
  <1>4. LoadTypeOK'
    BY <1>1, HandlesAreNumbers DEF LoadInv, LoadTypeOK
  <1>5. RequestInv'
    BY <1>1 DEF RequestInv, Working, Busy
  <1>6. StepInv'
    BY <1>1, <1>2 DEF LoadInv, StepInv, Handed
  <1> QED
    BY <1>3, <1>4, <1>5, <1>6 DEF LoadInv

\* An image: its handle goes to its place.
LEMMA AddImageKeeps ==
  ASSUME LoadInv, TypeOK, AddImage
  PROVE  LoadInv'
  <1> DEFINE n == Len(loadedTextures)
             new == NewHandle(textures)
  <1>1. /\ step = "model" /\ step' = step /\ pc = "add" /\ pc' = "idle"
        /\ request.kind # "MESH"
        /\ returned' = returned \cup {[handle |-> new, request |-> request]}
        /\ loadedTextures' = Append(loadedTextures, new)
        /\ UNCHANGED <<model, objects, skybox>>
    BY AddTextureFacts DEF AddImage
  <1>2. /\ n < Len(model.images)
        /\ \E loaded \in BOOLEAN : request = ImageRequest(model.images[n + 1], loaded)
    BY <1>1 DEF LoadInv, RequestInv, MeshRequest
  <1>3. new \in Nat /\ loadedTextures \in Seq(Nat) /\ Len(model.images) \in Nat
    BY HandlesAreNumbers, FileCounts DEF LoadInv, LoadTypeOK
  <1> HIDE DEF new
  <1>4. /\ loadedTextures' \in Seq(Nat) /\ n \in Nat /\ Len(loadedTextures') = n + 1
        /\ loadedTextures'[n + 1] = new
        /\ \A i \in 1 .. n : loadedTextures'[i] = loadedTextures[i]
    BY <1>1, <1>3, OneMore
  <1>5. Len(objects) = 0 /\ Len(objects') = 0
    <2>1. Len(objects) \in Nat
      BY LenProperties DEF LoadInv, LoadTypeOK
    <2>2. ~(Len(objects) > 0)
      BY <1>2, <1>3, <1>4 DEF LoadInv, ObjectsInv
    <2> QED
      BY <1>1, <2>1, <2>2
  <1>6. ImagesInv'
    <2> SUFFICES ASSUME NEW i \in 1 .. Len(loadedTextures')
                 PROVE  ImageHanded(loadedTextures[i], model.images[i])'
      BY DEF ImagesInv
    <2>1. CASE i \in 1 .. n
      <3>1. PICK loaded \in BOOLEAN :
              [handle |-> loadedTextures[i], request |-> ImageRequest(model.images[i], loaded)]
                \in returned
        BY <2>1 DEF LoadInv, ImagesInv, ImageHanded, Handed
      <3> QED
        BY <1>1, <1>4, <2>1, <3>1 DEF ImageHanded, Handed, ImageRequest
    <2>2. CASE i = n + 1
      BY <1>1, <1>2, <1>4, <2>2 DEF ImageHanded, Handed, ImageRequest
    <2> QED
      BY <1>4, <2>1, <2>2
  <1>7. ObjectsInv'
    BY <1>5 DEF ObjectsInv
  <1>8. LoadTypeOK'
    BY <1>1, <1>2, <1>3, <1>4 DEF LoadInv, LoadTypeOK
  <1>9. RequestInv'
    BY <1>1 DEF RequestInv, Working, Busy
  <1>10. StepInv'
    BY <1>1 DEF LoadInv, StepInv, Handed
  <1> QED
    BY <1>6, <1>7, <1>8, <1>9, <1>10 DEF LoadInv

\* A primitive: its object has the handle of its mesh and of the images its material
\* names.
LEMMA AddPrimitiveKeeps ==
  ASSUME LoadInv, TypeOK, AddPrimitive
  PROVE  LoadInv'
  <1> DEFINE n == Len(objects)
             new == NewHandle(meshes)
             kinds == [k \in Kinds |->
               TextureHandle(TextureIndex(model.materials[Primitive.material][k]))]
             object == [meshHandle |-> new, textures |-> kinds]
  <1>1. /\ step = "model" /\ step' = step /\ pc = "add" /\ pc' = "idle"
        /\ request.kind = "MESH"
        /\ returned' = returned \cup {[handle |-> new, request |-> request]}
        /\ objects' = Append(objects, object)
        /\ UNCHANGED <<model, loadedTextures, skybox>>
    BY AddMeshFacts DEF AddPrimitive
  <1>2. /\ Len(loadedTextures) = Len(model.images) /\ n < Len(model.primitives)
        /\ request = MeshRequest(Primitive.parts)
    <2>1. \A l \in BOOLEAN : request # ImageRequest(model.images[Len(loadedTextures) + 1], l)
      BY <1>1 DEF ImageRequest
    <2> QED
      BY <1>1, <2>1 DEF LoadInv, RequestInv
  <1>3. /\ WellFormed(model) /\ objects \in Seq(RenderableComponent)
        /\ loadedTextures \in Seq(Nat) /\ new \in Nat
        /\ Len(model.images) \in Nat /\ Len(model.primitives) \in Nat /\ n \in Nat
    BY HandlesAreNumbers, FileCounts, LenProperties DEF LoadInv, LoadTypeOK
  <1>4. Primitive = model.primitives[n + 1] /\ n + 1 \in 1 .. Len(model.primitives)
    BY <1>2, <1>3 DEF Primitive
  <1>5. \A k \in Kinds : kinds[k] = TextureHandle(ImageOf(n + 1, k))
    BY <1>3, <1>4, ImageInFile
  <1>6. \A k \in Kinds : TextureHandle(ImageOf(n + 1, k)) \in Nat
    <2> TAKE k \in Kinds
    <2>1. ImageOf(n + 1, k) \in 0 .. Len(loadedTextures)
      BY <1>2, <1>3, <1>4, ImageInFile
    <2>2. \A i \in 1 .. Len(loadedTextures) : loadedTextures[i] \in Nat
      BY <1>3, ElementOfSeq
    <2> QED
      BY <1>2, <1>3, <2>1, <2>2 DEF TextureHandle
  <1>7. kinds \in [Kinds -> Nat]
    BY <1>5, <1>6
  <1>8. object.meshHandle = new /\ object.textures = kinds
    OBVIOUS
  <1> HIDE DEF kinds, new
  <1>9. object \in RenderableComponent
    BY <1>3, <1>7 DEF RenderableComponent
  <1> HIDE DEF object
  <1>10. /\ objects' \in Seq(RenderableComponent) /\ Len(objects') = n + 1
         /\ objects'[n + 1] = object
         /\ \A p \in 1 .. n : objects'[p] = objects[p]
    BY <1>1, <1>3, <1>9, OneMore
  <1>11. ImagesInv'
    BY <1>1 DEF LoadInv, ImagesInv, ImageHanded, Handed
  <1>12. ObjectsInv'
    <2> SUFFICES ASSUME NEW p \in 1 .. Len(objects')
                 PROVE  /\ Handed(objects[p].meshHandle,
                                  MeshRequest(model.primitives[p].parts))'
                        /\ \A k \in Kinds :
                             (objects[p].textures[k] = TextureHandle(ImageOf(p, k)))'
      BY <1>1, <1>2 DEF ObjectsInv
    <2>1. \A k \in Kinds : TextureHandle(ImageOf(p, k))' = TextureHandle(ImageOf(p, k))
      BY <1>1 DEF TextureHandle, ImageOf
    <2>2. CASE p \in 1 .. n
      <3>1. /\ [handle |-> objects[p].meshHandle,
                request |-> MeshRequest(model.primitives[p].parts)] \in returned
            /\ \A k \in Kinds : objects[p].textures[k] = TextureHandle(ImageOf(p, k))
        BY <2>2 DEF LoadInv, ObjectsInv, Handed
      <3>2. objects'[p] = objects[p]
        BY <1>10, <2>2
      <3>3. Handed(objects[p].meshHandle, MeshRequest(model.primitives[p].parts))'
        BY <1>1, <3>1, <3>2 DEF Handed, MeshRequest
      <3> QED
        BY <2>1, <3>1, <3>2, <3>3
    <2>3. CASE p = n + 1
      <3>1. objects'[p] = object
        BY <1>10, <2>3
      <3>2. Handed(objects[p].meshHandle, MeshRequest(model.primitives[p].parts))'
        BY <1>1, <1>2, <1>4, <1>8, <2>3, <3>1 DEF Handed, MeshRequest
      <3>3. \A k \in Kinds : objects'[p].textures[k] = TextureHandle(ImageOf(p, k))
        BY <1>5, <1>8, <2>3, <3>1
      <3> QED
        BY <2>1, <3>2, <3>3
    <2> QED
      BY <1>3, <1>10, <2>2, <2>3
  <1>13. LoadTypeOK'
    BY <1>1, <1>2, <1>3, <1>10 DEF LoadInv, LoadTypeOK
  <1>14. RequestInv'
    BY <1>1 DEF RequestInv, Working, Busy
  <1>15. StepInv'
    BY <1>1 DEF LoadInv, StepInv, Handed
  <1> QED
    BY <1>11, <1>12, <1>13, <1>14, <1>15 DEF LoadInv

\* The sky.
LEMMA AddCubemapKeeps ==
  ASSUME LoadInv, TypeOK, AddCubemap
  PROVE  LoadInv'
  <1> DEFINE new == NewHandle(textures)
  <1>1. /\ step = "cubemap" /\ step' = "done" /\ pc = "add" /\ pc' = "idle"
        /\ returned' = returned \cup {[handle |-> new, request |-> request]}
        /\ skybox' = [skybox EXCEPT !.textureHandle = new]
        /\ UNCHANGED <<model, loadedTextures, objects>>
    BY AddTextureFacts DEF AddCubemap
  <1>2. request \in CubemapRequests
    BY <1>1 DEF LoadInv, RequestInv
  <1>3. skybox \in [meshHandle : Nat, textureHandle : Nat] /\ new \in Nat
    BY HandlesAreNumbers DEF LoadInv, LoadTypeOK
  <1> HIDE DEF new
  <1>4. /\ skybox' \in [meshHandle : Nat, textureHandle : Nat]
        /\ skybox'.meshHandle = skybox.meshHandle /\ skybox'.textureHandle = new
    BY <1>1, <1>3
  <1>5. ImagesInv' /\ ObjectsInv'
    BY <1>1, SceneStays DEF LoadInv
  <1>6. LoadTypeOK'
    BY <1>1, <1>4 DEF LoadInv, LoadTypeOK
  <1>7. RequestInv'
    BY <1>1 DEF RequestInv, Working, Busy
  <1>8. StepInv'
    <2>1. Handed(skybox.meshHandle, MeshRequest(CubeParts))'
      BY <1>1, <1>4 DEF LoadInv, StepInv, Handed, MeshRequest
    <2>2. [handle |-> skybox'.textureHandle, request |-> request] \in returned'
      BY <1>1, <1>4
    <2>3. (\E r \in CubemapRequests : Handed(skybox.textureHandle, r))'
      BY <1>2, <2>2 DEF Handed, CubemapRequests
    <2> QED
      BY <1>1, <2>1, <2>3 DEF LoadInv, StepInv
  <1> QED
    BY <1>5, <1>6, <1>7, <1>8 DEF LoadInv

-----------------------------------------------------------------------------
(* The theorems *)

LEMMA NextLoadInv ==
  ASSUME LoadInv, TypeInv, [LoadNext]_loadVars
  PROVE  LoadInv' /\ TypeInv'
  <1>1. TypeInv'
    BY LoadStepUploads, NextTypeInv DEF LoadInv
  <1>2. LoadInv'
    BY BeginKeeps, UploadKeeps, ParseKeeps, AddCubeKeeps, AddImageKeeps, AddPrimitiveKeeps,
       AddCubemapKeeps
    DEF LoadNext, TypeInv
  <1> QED
    BY <1>1, <1>2

LEMMA LoadInductive == LoadSpec => [](LoadInv /\ TypeInv)
  <1>1. LoadInit => LoadInv /\ TypeInv
    BY InitLoadInv, LoadInitUploads, InitTypeInv
  <1>2. LoadInv /\ TypeInv /\ [LoadNext]_loadVars => (LoadInv /\ TypeInv)'
    BY NextLoadInv
  <1> QED
    BY <1>1, <1>2, PTL DEF LoadSpec

\* The loader keeps to its types, and to the counts of the file.
THEOREM LoaderTypes == LoadSpec => []LoadTypeOK
  <1>1. LoadInv => LoadTypeOK
    BY DEF LoadInv
  <1> QED
    BY <1>1, LoadInductive, PTL

\* The loader uses UploadMesh and UploadTexture as Uploads allows: every theorem about
\* Uploads is one about the loader.
THEOREM LoaderUploads == LoadSpec => Spec
  <1>1. LoadInit => Init
    BY LoadInitUploads
  <1>2. LoadInv /\ [LoadNext]_loadVars => [Next]_vars
    BY LoadStepUploads DEF LoadInv
  <1> QED
    BY <1>1, <1>2, LoadInductive, PTL DEF LoadSpec, Spec

\* Handles that were handed over, in the words of SceneLoad.
LEMMA HandedTexture ==
  ASSUME TexturesBound, ~late, NEW h, NEW r, r.kind # "MESH", Handed(h, r)
  PROVE  /\ h \in Elements \ {0}
         /\ \A f \in Sets : descriptors[f][h] \in live /\ Pixels(f, h) = r.parts[1]
  <1> DEFINE e == [handle |-> h, request |-> r]
  <1>1. e \in returned /\ e.handle = h /\ e.request = r
    BY DEF Handed
  <1> HIDE DEF e
  <1> QED
    BY <1>1 DEF TexturesBound, Pixels

LEMMA HandedMesh ==
  ASSUME MeshesArrived, ~late, NEW h, NEW parts \in Parts, Handed(h, MeshRequest(parts))
  PROVE  h \in Slots /\ meshes.array[h] # Null /\ MeshParts(h) = parts
  <1> DEFINE e == [handle |-> h, request |-> MeshRequest(parts)]
  <1>1. /\ e \in returned /\ e.handle = h
        /\ e.request.kind = "MESH" /\ e.request.parts = parts
    BY DEF Handed, MeshRequest
  <1> HIDE DEF e
  <1>2. /\ h \in Slots /\ meshes.array[h] # Null
        /\ Len(meshes.array[h].buffers) = Len(parts)
        /\ \A k \in 1 .. Len(parts) : memory[meshes.array[h].buffers[k]] = parts[k]
    BY <1>1 DEF MeshesArrived
  <1>3. parts \in Seq(Data)
    <2>1. MeshRequest(parts) \in Request /\ MeshRequest(parts).parts = parts
      BY RequestsOfLoader DEF Request, MeshRequest
    <2> QED
      BY <2>1, PartsOfRequest
  <1>4. parts = [k \in 1 .. Len(parts) |-> parts[k]]
    BY <1>3, LenProperties
  <1> QED
    BY <1>2, <1>4 DEF MeshParts

\* As long as there are slots and descriptors for all uploads, every object is drawn with
\* the images its material names, in every frame that has a set.
THEOREM TexturedSafe ==
  ASSUME EnoughSlots, EnoughDescriptors PROVE LoadSpec => []ObjectsTextured
  <1>1. LoadInv /\ TexturesBound => ObjectsTextured
    <2> SUFFICES ASSUME LoadInv, TexturesBound, ~late,
                        NEW p \in 1 .. Len(objects), NEW k \in Kinds
                 PROVE  IF ImageOf(p, k) = 0
                        THEN objects[p].textures[k] = 0
                        ELSE /\ objects[p].textures[k] \in Elements \ {0}
                             /\ \A f \in Sets :
                                  /\ descriptors[f][objects[p].textures[k]] \in live
                                  /\ Pixels(f, objects[p].textures[k])
                                       = model.images[ImageOf(p, k)]
      BY DEF ObjectsTextured
    <2> DEFINE i == ImageOf(p, k)
    <2>1. objects[p].textures[k] = TextureHandle(i)
      BY DEF LoadInv, ObjectsInv
    <2>2. i \in 0 .. Len(loadedTextures) /\ Len(loadedTextures) = Len(model.images)
      <3>1. /\ WellFormed(model) /\ Len(objects) \in Nat /\ Len(model.primitives) \in Nat
            /\ Len(objects) <= Len(model.primitives)
        BY FileCounts, LenProperties DEF LoadInv, LoadTypeOK
      <3>2. Len(objects) > 0 /\ p \in 1 .. Len(model.primitives)
        BY <3>1
      <3> QED
        BY <3>1, <3>2, ImageInFile DEF LoadInv, ObjectsInv
    <2> HIDE DEF i
    <2>3. CASE i = 0
      BY <2>1, <2>3 DEF TextureHandle, i
    <2>4. CASE i # 0
      <3>1. i \in 1 .. Len(loadedTextures) /\ i \in 1 .. Len(model.images)
        <4>1. Len(model.images) \in Nat
          BY FileCounts DEF LoadInv, LoadTypeOK
        <4> QED
          BY <2>2, <2>4, <4>1
      <3>2. /\ objects[p].textures[k] = loadedTextures[i]
            /\ ImageHanded(loadedTextures[i], model.images[i])
        BY <2>1, <2>4, <3>1 DEF TextureHandle, LoadInv, ImagesInv
      <3>3. PICK r : /\ Handed(loadedTextures[i], r) /\ r.kind # "MESH"
                     /\ r.parts[1] = model.images[i]
        <4>1. PICK loaded \in BOOLEAN :
                Handed(loadedTextures[i], ImageRequest(model.images[i], loaded))
          BY <3>2 DEF ImageHanded
        <4> QED
          BY <3>1, <4>1, FileParts, RequestsOfLoader DEF LoadInv, LoadTypeOK
      <3>4. /\ objects[p].textures[k] \in Elements \ {0}
            /\ \A f \in Sets :
                 /\ descriptors[f][objects[p].textures[k]] \in live
                 /\ Pixels(f, objects[p].textures[k]) = model.images[i]
        BY <3>2, <3>3, HandedTexture
      <3> QED
        BY <2>4, <3>4 DEF i
    <2> QED
      BY <2>3, <2>4
  <1> QED
    BY <1>1, LoadInductive, LoaderUploads, TexturesSafe, PTL

\* As long as there are slots for all uploads, every object is drawn with the vertices and
\* indices of its own primitive.
THEOREM DrawableSafe == ASSUME EnoughSlots PROVE LoadSpec => []ObjectsDrawable
  <1>1. LoadInv /\ MeshesArrived => ObjectsDrawable
    <2> SUFFICES ASSUME LoadInv, MeshesArrived, ~late, NEW p \in 1 .. Len(objects)
                 PROVE  /\ objects[p].meshHandle \in Slots
                        /\ meshes.array[objects[p].meshHandle] # Null
                        /\ MeshParts(objects[p].meshHandle) = model.primitives[p].parts
      BY DEF ObjectsDrawable
    <2>1. p \in 1 .. Len(model.primitives)
      <3>1. /\ Len(objects) \in Nat /\ Len(model.primitives) \in Nat
            /\ Len(objects) <= Len(model.primitives)
        BY FileCounts, LenProperties DEF LoadInv, LoadTypeOK
      <3> QED
        BY <3>1
    <2>2. model.primitives[p].parts \in Parts
      BY <2>1, FileParts DEF LoadInv, LoadTypeOK
    <2>3. Handed(objects[p].meshHandle, MeshRequest(model.primitives[p].parts))
      BY DEF LoadInv, ObjectsInv
    <2> QED
      BY <2>2, <2>3, HandedMesh
  <1> QED
    BY <1>1, LoadInductive, LoaderUploads, MeshesSafe, PTL

\* As long as there are slots and descriptors for all uploads, the loop starts with an
\* object for every primitive, and the sky on the cube.
THEOREM SceneSafe ==
  ASSUME EnoughSlots, EnoughDescriptors PROVE LoadSpec => []SceneComplete
  <1>1. LoadInv /\ MeshesArrived /\ TexturesBound => SceneComplete
    <2> SUFFICES ASSUME LoadInv, MeshesArrived, TexturesBound, pc = "running", ~late
                 PROVE  /\ Len(objects) = Len(model.primitives)
                        /\ MeshParts(skybox.meshHandle) = CubeParts
                        /\ \A f \in Sets : Pixels(f, skybox.textureHandle) = SkyPixels
      BY DEF SceneComplete
    <2>1. /\ Len(objects) = Len(model.primitives)
          /\ Handed(skybox.meshHandle, MeshRequest(CubeParts))
          /\ \E r \in CubemapRequests : Handed(skybox.textureHandle, r)
      BY DEF LoadInv, StepInv
    <2>2. MeshParts(skybox.meshHandle) = CubeParts
      BY <2>1, HandedMesh, SkyboxAssumption
    <2>3. PICK r \in CubemapRequests : Handed(skybox.textureHandle, r)
      BY <2>1
    <2>4. r.kind # "MESH" /\ r.parts[1] = SkyPixels
      BY RequestsOfLoader
    <2>5. \A f \in Sets : Pixels(f, skybox.textureHandle) = SkyPixels
      BY <2>3, <2>4, HandedTexture
    <2> QED
      BY <2>1, <2>2, <2>5
  <1> QED
    BY <1>1, LoadInductive, LoaderUploads, MeshesSafe, TexturesSafe, PTL
=============================================================================
