------------------------------ MODULE SceneLoad ------------------------------
(***************************************************************************)
(* What Engine::Init uploads, and what becomes of the handles: the mesh of  *)
(* the skybox (Renderer::initShaderData), the images and primitives of a   *)
(* glTF file (ModelLoader::LoadModelFromGLTF) and the cubemap (setupScene). *)
(*                                                                         *)
(* Indices of a file count from 1 here, and 0 is the -1 that stands for    *)
(* none.                                                                   *)
(***************************************************************************)
EXTENDS Uploads

CONSTANTS
  Models,     \* the glTF files, as tinygltf parses them
  CubeParts,  \* the vertices and indices of GenerateSkyboxCube
  SkyPixels   \* the six images of the skybox

VARIABLES
  step,            \* what is being loaded
  model,           \* the file
  loadedTextures,  \* the handles of its images, in the order of the file
  objects,         \* newRenderObjects, in the order of its primitives
  skybox           \* m_skybox

loaderVars == <<step, model, loadedTextures, objects, skybox>>
loadVars == <<vars, loaderVars>>

\* The textures of a material, named for the members of RenderableComponent that get
\* their handles.
Kinds == {"textureHandle", "normalHandle", "roughnessHandle", "emissionHandle"}

Primitives == [parts : Parts, material : Nat]

\* A texture is the index of its image, a material the indices of its textures.
ModelType ==
  [images : Seq(Data), textures : Seq(Nat), materials : Seq([Kinds -> Nat]),
   primitives : Seq(Primitives)]

\* Every index leads to something, or is 0 where there may be nothing.
WellFormed(m) ==
  /\ m \in ModelType
  /\ \A t \in 1 .. Len(m.textures) : m.textures[t] \in 0 .. Len(m.images)
  /\ \A n \in 1 .. Len(m.materials) :
       \A k \in Kinds : m.materials[n][k] \in 0 .. Len(m.textures)
  /\ \A p \in 1 .. Len(m.primitives) :
       m.primitives[p].material \in 1 .. Len(m.materials)

ASSUME ModelsAssumption == \A m \in Models : WellFormed(m)

ASSUME SkyboxAssumption == CubeParts \in Parts /\ SkyPixels \in Data

\* The file that cannot be parsed.
NoModel == [images |-> <<>>, textures |-> <<>>, materials |-> <<>>, primitives |-> <<>>]

RenderableComponent == [meshHandle : Nat, textures : [Kinds -> Nat]]

LoadTypeOK ==
  /\ step \in {"cube", "parse", "model", "cubemap", "done"}
  /\ WellFormed(model)
  /\ loadedTextures \in Seq(Nat) /\ Len(loadedTextures) <= Len(model.images)
  /\ objects \in Seq(RenderableComponent) /\ Len(objects) <= Len(model.primitives)
  /\ skybox \in [meshHandle : Nat, textureHandle : Nat]

LoadInit ==
  /\ Init
  /\ step = "cube"
  /\ model = NoModel
  /\ loadedTextures = <<>>
  /\ objects = <<>>
  /\ skybox = [meshHandle |-> 0, textureHandle |-> 0]

MeshRequest(parts) == [kind |-> "MESH", parts |-> parts, loaded |-> TRUE]

\* The Texture of an image of the file: type and format keep their defaults.  An image
\* whose own file is missing is one of the file all the same, with no pixels.
ImageRequest(pixels, loaded) ==
  [kind |-> "TEXTURE_2D", parts |-> <<pixels>>, loaded |-> loaded]

\* What LoadCubemapFromFile leaves: a cubemap, or neither pixels nor a certain type.
CubemapRequests ==
  {r \in Textures : r.parts = <<SkyPixels>> /\ (r.loaded => r.kind = "TEXTURE_CUBEMAP")}

BeginCube ==
  /\ step = "cube"
  /\ Begin(MeshRequest(CubeParts))
  /\ UNCHANGED loaderVars

AddCube ==
  /\ step = "cube"
  /\ AddMesh
  /\ skybox' = [meshHandle |-> NewHandle(meshes), textureHandle |-> 0]
  /\ step' = "parse"
  /\ UNCHANGED <<model, loadedTextures, objects>>

ParseModel ==
  /\ step = "parse"
  /\ pc = "idle"
  /\ model' \in Models \cup {NoModel}
  /\ step' = "model"
  /\ UNCHANGED <<vars, loadedTextures, objects, skybox>>

BeginImage ==
  /\ step = "model"
  /\ Len(loadedTextures) < Len(model.images)
  /\ \E loaded \in BOOLEAN : Begin(ImageRequest(model.images[Len(loadedTextures) + 1], loaded))
  /\ UNCHANGED loaderVars

\* Fault: the handle is pushed again after the trace message.
AddImageTwice ==
  /\ step = "model"
  /\ AddTexture
  /\ loadedTextures' = loadedTextures \o <<NewHandle(textures), NewHandle(textures)>>
  /\ UNCHANGED <<step, model, objects, skybox>>

AddImage ==
  /\ step = "model"
  /\ AddTexture
  /\ loadedTextures' = Append(loadedTextures, NewHandle(textures))
  /\ UNCHANGED <<step, model, objects, skybox>>

\* Fault: the mesh is not a new one for every primitive.
FirstPrimitive == model.primitives[1]

\* The primitive the loop has come to.
Primitive == model.primitives[Len(objects) + 1]

BeginPrimitive ==
  /\ step = "model"
  /\ Len(loadedTextures) = Len(model.images)
  /\ Len(objects) < Len(model.primitives)
  /\ Begin(MeshRequest(Primitive.parts))
  /\ UNCHANGED loaderVars

\* Fault: the index of a texture is taken for that of its image.
TextureIsImage(index) == index

\* getTextureIndex: from a texture to its image.
TextureIndex(index) == IF index = 0 THEN 0 ELSE model.textures[index]

TextureHandle(index) == IF index = 0 THEN 0 ELSE loadedTextures[index]

AddPrimitive ==
  /\ step = "model"
  /\ AddMesh
  /\ objects' = Append(objects,
       [meshHandle |-> NewHandle(meshes),
        textures   |-> [k \in Kinds |->
          TextureHandle(TextureIndex(model.materials[Primitive.material][k]))]])
  /\ UNCHANGED <<step, model, loadedTextures, skybox>>

\* Fault: the cubemap takes the place of the primitives that are left.
BeginCubemapEarly ==
  /\ step = "model"
  /\ Len(loadedTextures) = Len(model.images)
  /\ \E r \in CubemapRequests : Begin(r)
  /\ step' = "cubemap"
  /\ UNCHANGED <<model, loadedTextures, objects, skybox>>

BeginCubemap ==
  /\ step = "model"
  /\ Len(loadedTextures) = Len(model.images)
  /\ Len(objects) = Len(model.primitives)
  /\ \E r \in CubemapRequests : Begin(r)
  /\ step' = "cubemap"
  /\ UNCHANGED <<model, loadedTextures, objects, skybox>>

\* SetSkybox, with the handle that was returned.
AddCubemap ==
  /\ step = "cubemap"
  /\ AddTexture
  /\ skybox' = [skybox EXCEPT !.textureHandle = NewHandle(textures)]
  /\ step' = "done"
  /\ UNCHANGED <<model, loadedTextures, objects>>

\* The inside of UploadMesh and UploadTexture, and the queue.
Upload ==
  /\ \/ Stage
     \/ Submit
     \/ WaitUpload
     \/ WaitTimeout
     \/ ResetUpload
     \/ ReleaseStaging
     \/ ExecuteCopy
     \/ Ended
  /\ UNCHANGED loaderVars

StartLoop == step = "done" /\ Run /\ UNCHANGED loaderVars

LoadNext ==
  \/ BeginCube
  \/ AddCube
  \/ ParseModel
  \/ BeginImage
  \/ AddImage
  \/ BeginPrimitive
  \/ AddPrimitive
  \/ BeginCubemap
  \/ AddCubemap
  \/ Upload
  \/ StartLoop

LoadSpec == LoadInit /\ [][LoadNext]_loadVars

-----------------------------------------------------------------------------
(* Correctness, as long as no wait has ended before its copy *)

\* What handles stand for on the GPU: the contents of the buffers of a mesh, and of
\* the image in the descriptor set of frame f, which has one.
MeshParts(h) ==
  [k \in 1 .. Len(meshes.array[h].buffers) |-> memory[meshes.array[h].buffers[k]]]

Pixels(f, h) == memory[descriptors[f][h]]

\* The image the file gives a primitive for a kind of texture, 0 for none.
ImageOf(p, k) ==
  LET texture == model.materials[model.primitives[p].material][k]
  IN  IF texture = 0 THEN 0 ELSE model.textures[texture]

\* Whatever the order of images, textures and materials in the file, every object is
\* drawn, in every frame that has a set, with the images its own material names, and
\* with texture 0 exactly where it names none.
ObjectsTextured ==
  late \/
  \A p \in 1 .. Len(objects), k \in Kinds :
    LET handle == objects[p].textures[k]
    IN  IF ImageOf(p, k) = 0
        THEN handle = 0
        ELSE /\ handle \in Elements \ {0}
             /\ \A f \in Sets :
                  /\ descriptors[f][handle] \in live
                  /\ Pixels(f, handle) = model.images[ImageOf(p, k)]

\* The n-th object is drawn with the vertices and indices of the n-th primitive.
ObjectsDrawable ==
  late \/
  \A p \in 1 .. Len(objects) :
    /\ objects[p].meshHandle \in Slots
    /\ meshes.array[objects[p].meshHandle] # Null
    /\ MeshParts(objects[p].meshHandle) = model.primitives[p].parts

\* When the loop starts, there is an object for every primitive, and the skybox is the
\* cube with the sky on it, whatever was uploaded between the two.
SceneComplete ==
  pc = "running" /\ ~late =>
    /\ Len(objects) = Len(model.primitives)
    /\ MeshParts(skybox.meshHandle) = CubeParts
    /\ \A f \in Sets : Pixels(f, skybox.textureHandle) = SkyPixels
=============================================================================
