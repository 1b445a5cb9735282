------------------------------- MODULE DrawList -------------------------------
(***************************************************************************)
(* From the scene to the GPU: Engine::setupScene and what Engine::run      *)
(* changes of the scene, Renderer::GiveRenderables, and drawObjects, which *)
(* writes the mapped buffers of a frame and records the commands whose     *)
(* shaders follow the indices in those buffers, later and beside the       *)
(* thread.  Which frame is written and which are read is FramesInFlight's. *)
(***************************************************************************)
EXTENDS Naturals, Sequences, FiniteSets

CONSTANTS
  FRAME_OVERLAP,     \* frames in flight: 2 in the code
  MAX_POINT_LIGHTS,  \* 4 in the code, in the scene and in default.frag
  MaxObjects,        \* bound: primitives of the model; MAX_OBJECTS is 1024
  Materials,         \* what the model loader puts into the textures of an object
  Sky,               \* the texture of the skybox, a material of its own
  Views,             \* where the camera may be
  Rotations,         \* bound: the angles of the object that turns, modulo this
  Undefined          \* what memory holds before it is written

ASSUME FrameOverlapAssumption == FRAME_OVERLAP \in Nat \ {0}
ASSUME CountsAssumption ==
  MAX_POINT_LIGHTS \in Nat /\ MaxObjects \in Nat /\ Rotations \in Nat \ {0}
ASSUME ValuesAssumption ==
  /\ Sky \notin Materials
  /\ Undefined \notin Materials \cup {Sky} \cup Views \cup Nat
  /\ Undefined \notin {"defaultMaterial", "skyboxMaterial"}

VARIABLES
  pc,
  i,            \* the loop variable of GiveRenderables and drawObjects
  entities,     \* m_scene.m_entities with their components
  m_obj,        \* Engine::m_obj, an index of entities, or 0
  camera,
  skybox,       \* m_skybox.textureHandle
  renderables,  \* Renderer::m_entities: indices of entities
  lights,       \* m_entities_with_lights
  buffers,      \* the mapped buffers of each frame
  commands,     \* the draws in the command buffer of each frame
  last,         \* lastMaterialType and lastMesh
  bound,        \* the state of the command buffer being recorded
  turn, filling, reading  \* see FramesInFlight

sceneVars == <<entities, m_obj, camera, skybox>>
listVars == <<renderables, lights>>
drawVars == <<buffers, commands, last, bound>>
frameVars == <<turn, filling, reading>>
vars == <<pc, i, sceneVars, listVars, drawVars, frameVars>>

Frames == INSTANCE FramesInFlight WITH N <- FRAME_OVERLAP

-----------------------------------------------------------------------------
Copies == 0 .. FRAME_OVERLAP - 1
LightTypes == {"DIRECTIONAL", "POINT"}
COUNT == Len(renderables)

\* An entity has the components of an object or that of a light.  Each object
\* has a mesh of its own, numbered as the object; 0 is the skybox's.
Object == [kind : {"OBJECT"}, mesh : 1 .. MaxObjects, material : Materials,
           rotation : 0 .. Rotations - 1]
\* Light 0 is the sun, the point lights are numbered.
Light == [kind : LightTypes, light : 0 .. MAX_POINT_LIGHTS]

\* What is written if there is no directional light.
Dark == MAX_POINT_LIGHTS + 1

\* The positions drawObjects may write to; transform 0 is that of no object.
Positions == 0 .. MaxObjects + 1

Buffers ==
  [drawData : [Positions -> [transformIndex : Positions, materialIndex : Positions]],
   transform : [Positions -> 0 .. Rotations - 1 \cup {Undefined}],
   material : [Positions -> Materials \cup {Sky, Undefined}],
   camera : Views \cup {Undefined},
   dirLight : 0 .. MAX_POINT_LIGHTS \cup {Dark, Undefined},
   pointLight : [1 .. MAX_POINT_LIGHTS -> 0 .. MAX_POINT_LIGHTS \cup {Undefined}]]

Pipelines == {"defaultMaterial", "skyboxMaterial"}
Meshes == 0 .. MaxObjects

\* What is bound when a draw is recorded, its push constant, and the frame whose
\* descriptor sets, and through them whose buffers, its shaders see.
DrawCommand == [set : Copies, pipeline : Pipelines, vertex : Meshes, index : Meshes,
                drawDataIndex : Positions]

TypeOK ==
  /\ pc \in {"load", "give", "poll", "draw", "objects", "record", "submit", "aborted"}
  /\ i \in 0 .. MaxObjects + MAX_POINT_LIGHTS + 2
  /\ entities \in Seq(Object \cup Light)
  /\ m_obj \in 0 .. MaxObjects
  /\ camera \in Views
  /\ skybox \in {Sky, Undefined}
  /\ renderables \in Seq(1 .. MaxObjects)
  /\ lights \in [LightTypes -> Seq(1 .. Len(entities))]
  /\ buffers \in [Copies -> Buffers]
  /\ commands \in [Copies -> Seq(DrawCommand)]
  /\ \A c \in Copies : Len(commands[c]) <= COUNT + 1
  /\ last \in [pipeline : Pipelines \cup {Undefined}, mesh : Meshes \cup {Undefined}]
  /\ bound \in [set : Copies \cup {Undefined}, pipeline : Pipelines \cup {Undefined},
                vertex : Meshes \cup {Undefined}, index : Meshes \cup {Undefined}]
  /\ turn \in Copies
  /\ filling \in BOOLEAN
  /\ reading \in Seq(Copies)

-----------------------------------------------------------------------------
(* Engine::setupScene *)

\* The renderer is initialised; frames have buffers nobody has written.
Init ==
  /\ pc = "load"
  /\ i = 0
  /\ entities = <<>>
  /\ m_obj = 0
  /\ camera \in Views
  /\ skybox = Undefined
  /\ renderables = <<>>
  /\ lights = [type \in LightTypes |-> <<>>]
  /\ buffers = [c \in Copies |->
       [drawData |-> [p \in Positions |-> [transformIndex |-> 0, materialIndex |-> 0]],
        transform |-> [p \in Positions |-> Undefined],
        material |-> [p \in Positions |-> Undefined],
        camera |-> Undefined,
        dirLight |-> Undefined,
        pointLight |-> [p \in 1 .. MAX_POINT_LIGHTS |-> Undefined]]]
  /\ commands = [c \in Copies |-> <<>>]
  /\ last = [pipeline |-> Undefined, mesh |-> Undefined]
  /\ bound = [set |-> Undefined, pipeline |-> Undefined, vertex |-> Undefined,
              index |-> Undefined]
  /\ Frames!Init

Created(created) == entities \o created

\* One primitive of the model becomes an entity.
CreateObject ==
  /\ pc = "load"
  /\ Len(entities) < MaxObjects
  /\ \E m \in Materials :
       entities' = Created(<<[kind |-> "OBJECT", mesh |-> Len(entities) + 1,
                              material |-> m, rotation |-> 0]>>)
  /\ m_obj' = Len(entities) + 1
  /\ UNCHANGED <<pc, i, camera, skybox, listVars, drawVars, frameVars>>

\* The model had no more primitives, or could not be loaded: the skybox, the sun
\* and the point lights.
CreateLights ==
  /\ pc = "load"
  /\ skybox' = Sky
  /\ entities' = Created(<<[kind |-> "DIRECTIONAL", light |-> 0]>>
                         \o [l \in 1 .. MAX_POINT_LIGHTS |-> [kind |-> "POINT", light |-> l]])
  /\ pc' = "give"
  /\ i' = 1
  /\ UNCHANGED <<m_obj, camera, listVars, drawVars, frameVars>>

\* One iteration of Renderer::GiveRenderables.
GiveRenderable ==
  /\ pc = "give"
  /\ IF entities[i].kind = "OBJECT"
     THEN renderables' = Append(renderables, i) /\ UNCHANGED lights
     ELSE /\ lights' = [lights EXCEPT ![entities[i].kind] = Append(@, i)]
          /\ UNCHANGED renderables
  /\ i' = i + 1
  /\ pc' = IF i = Len(entities) THEN "poll" ELSE pc
  /\ UNCHANGED <<sceneVars, drawVars, frameVars>>

-----------------------------------------------------------------------------
(* Engine::run *)

\* The keys that were pressed move the camera; the last object turns a little.
Animate ==
  /\ pc = "poll"
  /\ camera' \in Views
  /\ entities' = IF m_obj = 0 THEN entities
                 ELSE [entities EXCEPT ![m_obj].rotation = (@ + 1) % Rotations]
  /\ pc' = "draw"
  /\ UNCHANGED <<i, m_obj, skybox, listVars, drawVars, frameVars>>

\* BeginFrame returns false: there is no frame this time.
GiveUpFrame ==
  /\ pc = "draw"
  /\ pc' = "poll"
  /\ UNCHANGED <<i, sceneVars, listVars, drawVars, frameVars>>

-----------------------------------------------------------------------------
(* Renderer::Draw and drawObjects *)

\* With no object renderObjects[0] does not exist: the thread may end there.
AfterFirst == IF COUNT = 0 THEN {"objects", "aborted"} ELSE {"objects"}

\* Fault: the command buffer still has the draws of the frame before.
BeginFrameWithoutReset ==
  /\ pc = "draw"
  /\ Frames!Begin
  /\ last' = [pipeline |-> Undefined, mesh |-> Undefined]
  /\ bound' = [set |-> Undefined, pipeline |-> Undefined, vertex |-> Undefined,
               index |-> Undefined]
  /\ i' = 0
  /\ pc' \in AfterFirst
  /\ UNCHANGED <<sceneVars, listVars, buffers, commands>>

\* The fence of the frame was waited for; its command buffer is reset and begun.
BeginFrame ==
  /\ pc = "draw"
  /\ Frames!Begin
  /\ commands' = [commands EXCEPT ![turn] = <<>>]
  /\ last' = [pipeline |-> Undefined, mesh |-> Undefined]
  /\ bound' = [set |-> Undefined, pipeline |-> Undefined, vertex |-> Undefined,
               index |-> Undefined]
  /\ i' = 0
  /\ pc' \in AfterFirst
  /\ UNCHANGED <<sceneVars, listVars, buffers>>

\* Fault: objects start at position 0, which stands for no transform.
WriteObjectAtZero ==
  LET object == entities[renderables[i + 1]]
  IN  /\ pc = "objects"
      /\ i < COUNT
      /\ buffers' = [buffers EXCEPT
           ![turn].transform[i] = object.rotation,
           ![turn].drawData[i] = [transformIndex |-> i, materialIndex |-> i],
           ![turn].material[i] = object.material]
      /\ i' = i + 1
      /\ UNCHANGED <<pc, sceneVars, listVars, commands, last, bound, frameVars>>

\* Every object has a transform: setupScene adds the two components together.
WriteObject ==
  LET object == entities[renderables[i + 1]]
      bufferPos == i + 1
  IN  /\ pc = "objects"
      /\ i < COUNT
      /\ buffers' = [buffers EXCEPT
           ![turn].transform[bufferPos] = object.rotation,
           ![turn].drawData[i] = [transformIndex |-> bufferPos, materialIndex |-> bufferPos],
           ![turn].material[bufferPos] = object.material]
      /\ i' = i + 1
      /\ UNCHANGED <<pc, sceneVars, listVars, commands, last, bound, frameVars>>

\* The skybox comes after the objects and has a transform index but no transform.
WriteScene ==
  LET skyboxCount == COUNT + 1
      Lit(type) == Len(lights[type])
      LightAt(type, l) == entities[lights[type][l]].light
  IN  /\ pc = "objects"
      /\ i = COUNT
      /\ buffers' = [buffers EXCEPT
           ![turn].drawData[COUNT] = [transformIndex |-> skyboxCount,
                                      materialIndex |-> skyboxCount],
           ![turn].material[skyboxCount] = skybox,
           ![turn].camera = camera,
           ![turn].dirLight = IF Lit("DIRECTIONAL") > 0 THEN LightAt("DIRECTIONAL", 1)
                              ELSE Dark,
           ![turn].pointLight = [l \in DOMAIN @ |->
              IF l <= Lit("POINT") THEN LightAt("POINT", l) ELSE @[l]]]
      /\ i' = 0
      /\ pc' = "record"
      /\ UNCHANGED <<sceneVars, listVars, commands, last, bound, frameVars>>

\* What is bound already is not bound again.  Every mesh has indices.
RecordDraw ==
  LET pipeline == IF i # COUNT THEN "defaultMaterial" ELSE "skyboxMaterial"
      mesh == IF i # COUNT THEN entities[renderables[i + 1]].mesh ELSE 0
      newPipeline == pipeline # last.pipeline
      newMesh == mesh # last.mesh
  IN  /\ pc = "record"
      /\ bound' = [set |-> IF newPipeline THEN turn ELSE bound.set,
                   pipeline |-> IF newPipeline THEN pipeline ELSE bound.pipeline,
                   vertex |-> IF newMesh THEN mesh ELSE bound.vertex,
                   index |-> IF newMesh THEN mesh ELSE bound.index]
      /\ last' = [pipeline |-> pipeline, mesh |-> mesh]
      /\ commands' = [commands EXCEPT ![turn] = Append(@,
           [set |-> bound'.set, pipeline |-> bound'.pipeline, vertex |-> bound'.vertex,
            index |-> bound'.index, drawDataIndex |-> i])]
      /\ i' = i + 1
      /\ pc' = IF i = COUNT THEN "submit" ELSE pc
      /\ UNCHANGED <<sceneVars, listVars, buffers, frameVars>>

\* The end of Draw: the submission, EndFrame and Present, which counts the frame.
Submit ==
  /\ pc = "submit"
  /\ Frames!HandOver
  /\ pc' = "poll"
  /\ UNCHANGED <<i, sceneVars, listVars, drawVars>>

\* The GPU has executed the commands of the oldest frame.
Complete ==
  /\ Frames!GiveBack
  /\ UNCHANGED <<pc, i, sceneVars, listVars, drawVars>>

Next ==
  \/ CreateObject \/ CreateLights \/ GiveRenderable
  \/ Animate \/ GiveUpFrame
  \/ BeginFrame \/ WriteObject \/ WriteScene \/ RecordDraw \/ Submit
  \/ Complete

Spec == Init /\ [][Next]_vars

-----------------------------------------------------------------------------
(* What is on a frame *)

\* A descriptor set leads to the buffers of its frame.
BuffersOf(set) == buffers[set]
MeshOf(draw) == [vertex |-> draw.vertex, index |-> draw.index]

\* The shaders of an object follow the indices of the draw to its transform and
\* its material.  Light l of the buffer is added whether or not there is one.
ShadedObject(draw) ==
  LET data == BuffersOf(draw.set)
      indices == data.drawData[draw.drawDataIndex]
  IN  [mesh |-> MeshOf(draw),
       rotation |-> IF indices.transformIndex = 0 THEN Undefined
                    ELSE data.transform[indices.transformIndex],
       material |-> data.material[indices.materialIndex],
       camera |-> data.camera, sun |-> <<data.dirLight>>, points |-> data.pointLight]

\* Those of the skybox use a material alone.
ShadedSky(draw) ==
  LET data == BuffersOf(draw.set)
  IN  [mesh |-> MeshOf(draw), camera |-> data.camera,
       material |-> data.material[data.drawData[draw.drawDataIndex].materialIndex]]

Shaded(draw) ==
  IF draw.pipeline = "skyboxMaterial" THEN ShadedSky(draw) ELSE ShadedObject(draw)

\* What a frame shows if the GPU executes its commands now.
Shown(c) == [k \in 1 .. Len(commands[c]) |-> Shaded(commands[c][k])]

\* The entities of a kind, the n-th of them the one with n - 1 of its kind before it.
PlacesOf(kind) == {p \in 1 .. Len(entities) : entities[p].kind = kind}
NthOf(kind, n) == CHOOSE p \in PlacesOf(kind) : Cardinality(PlacesOf(kind) \cap 1 .. p) = n
EntitiesOf(kind) == [n \in 1 .. Cardinality(PlacesOf(kind)) |-> entities[NthOf(kind, n)]]

\* What there is to see, of the entities alone: the objects, lit by every light,
\* before the sky.
OwnMesh(mesh) == [vertex |-> mesh, index |-> mesh]
LightsOf(kind) == [k \in DOMAIN EntitiesOf(kind) |-> EntitiesOf(kind)[k].light]
Seen(object) ==
  [mesh |-> OwnMesh(object.mesh), material |-> object.material, camera |-> camera,
   rotation |-> object.rotation, sun |-> LightsOf("DIRECTIONAL"),
   points |-> LightsOf("POINT")]
Visible ==
  Append([k \in DOMAIN EntitiesOf("OBJECT") |-> Seen(EntitiesOf("OBJECT")[k])],
         [mesh |-> OwnMesh(0), material |-> skybox, camera |-> camera])

\* Each frame under way shows, whenever the GPU comes to it, the scene as it was
\* when the frame was drawn, although the scene moves on and the next frame is
\* written meanwhile; what is recorded follows every index to its own object.
Picture == INSTANCE Pictures
  WITH N <- FRAME_OVERLAP, scene <- Visible,
       pictures <- [k \in 1 .. Len(reading) |-> Shown(reading[k])]
ImplementsPictures == Picture!Spec

=============================================================================
