------------------------------- MODULE Lifetime -------------------------------
(***************************************************************************)
(* The Vulkan objects of the engine: made by Device::Init and              *)
(* Renderer::Init, replaced with the swapchain by recreateSwapchain and    *)
(* by imgui when its buffers are too small, used by the commands of frames *)
(* that the GPU executes later, and destroyed, some of them, at the end.   *)
(* Which frame is recorded and which are executed is FramesInFlight's.     *)
(*                                                                         *)
(* An object that is replaced by one of its kind is told from it by `age'. *)
(***************************************************************************)
EXTENDS Naturals, Sequences

CONSTANTS
  FRAME_OVERLAP,   \* frames in flight: 2 in the code
  ImageCounts,     \* how many images a swapchain may have
  MaxRecreations,  \* bound: swapchains that are replaced
  MaxGrowths       \* bound: buffers imgui makes for an element of its ring

ASSUME LifetimeAssumption ==
  /\ FRAME_OVERLAP \in Nat \ {0}
  /\ ImageCounts \subseteq Nat \ {0} /\ ImageCounts # {}
  /\ MaxRecreations \in Nat
  /\ MaxGrowths \in Nat

VARIABLES
  pc,
  alive,         \* the objects that exist
  swapchain,     \* m_swapchain: swapchain, images and imageViews
  framebuffers,  \* m_imguiPass and m_swapchain.framebuffers
  depthImage,    \* the image of m_depthTarget: 0 before there is one
  missing,       \* the descriptor sets of frames that their pool did not give
  image,         \* m_currentSwapchainImage
  ring,          \* imgui's FrameRenderBuffers: Index, and the age of each pair
  uses,          \* per frame: the objects its commands refer to
  turn, filling, reading  \* see FramesInFlight

memberVars == <<swapchain, framebuffers, depthImage, missing>>
recordVars == <<image, ring, uses>>
frameVars == <<turn, filling, reading>>
vars == <<pc, alive, memberVars, recordVars, frameVars>>

Frames == INSTANCE FramesInFlight WITH N <- FRAME_OVERLAP

Copies == 0 .. FRAME_OVERLAP - 1

\* The frames the GPU may still execute.
Executed == {c \in Copies : Frames!IsRead(c)}

\* Fault: one pair of buffers for all frames.
ImguiImageCountOne == 1

\* ImageCount of ImGui_ImplVulkan_InitInfo: the size of imgui's ring.
ImguiImageCount == 3

Elements == 0 .. ImguiImageCount - 1

-----------------------------------------------------------------------------
(* Objects *)

Obj(name, index, age) == [name |-> name, index |-> index, age |-> age]
All(names) == {Obj(n, 0, 0) : n \in names}
Each(names, indices, age) == {Obj(n, k, age) : n \in names, k \in indices}

VulkanObjects == All({"instance", "surface", "device", "allocator"})

\* The graphics pools are two, whatever FRAME_OVERLAP is.
CommandObjects == Each({"commandPool"}, 0 .. 1, 0) \cup All({"uploadPool", "computePool"})

SyncObjects == Each({"renderFen", "presentSem", "renderSem"}, Copies, 0) \cup All({"uploadFence"})

\* imgui's pool with the set of its fonts, and its pipeline.
ImguiObjects == All({"imguiPool", "imguiPipeline"})

\* A globalSet asks for MAX_TEXTURES combined image samplers, which is all that
\* globalPool has, and each pool is made for two sets, whatever FRAME_OVERLAP is.
\* Beyond that an allocation may fail, and its result is not looked at.
DescriptorSets == Each({"globalSet", "sceneSet"}, Copies, 0)
SureSets == All({"globalSet"}) \cup Each({"sceneSet"}, 0 .. 1, 0)

DescriptorObjects ==
  All({"globalPool", "scenePool", "globalSetLayout", "sceneSetLayout"})
    \cup (DescriptorSets \ missing)

PipelineObjects == All({"pipelineLayout", "defaultPipeline", "skyboxPipeline"})

\* The six buffers of a frame count as one.
BufferObjects == Each({"buffers"}, Copies, 0)

\* What is made once.
LastingObjects ==
  VulkanObjects \cup CommandObjects \cup SyncObjects \cup All({"sampler"}) \cup ImguiObjects
    \cup BufferObjects \cup PipelineObjects \cup All({"scene"})

\* The images are the swapchain's, the views are not.
SwapchainObjects(s) == {Obj("swapchain", 0, s.age)} \cup Each({"view"}, 1 .. s.images, s.age)
PassObjects(b) == {Obj("pass", 0, b.age)} \cup Each({"framebuffer"}, 1 .. b.images, b.age)
DepthObjects(age) == {Obj("depth", 0, age)}

\* A vertex and an index buffer.
RingBuffers(k, age) == Obj("imguiBuffers", k, age)
RingObjects == {RingBuffers(k, ring.age[k]) : k \in {j \in Elements : ring.age[j] > 0}}

\* What the members of the engine and of imgui name and replace.
ReplacedObjects ==
  SwapchainObjects(swapchain) \cup PassObjects(framebuffers) \cup DepthObjects(depthImage)
    \cup RingObjects

\* What Vulkan asks to exist when an object is made.
MadeFrom(o) ==
  CASE o.name = "instance" -> {}
    [] o.name \in {"surface", "device"} -> All({"instance"})
    [] o.name = "swapchain" -> All({"device", "surface"})
    [] o.name = "view" -> {Obj("swapchain", 0, o.age)}
    [] o.name = "framebuffer" -> {Obj("view", o.index, o.age), Obj("pass", 0, o.age)}
    [] o.name = "imguiPipeline" -> {Obj("pass", 0, 1)} \cup All({"uploadPool", "uploadFence"})
    [] o.name \in {"buffers", "depth"} -> All({"allocator"})
    [] o.name \in {"globalSet", "sceneSet"} ->
         All({"globalPool", "scenePool", "globalSetLayout", "sceneSetLayout"})
           \cup {Obj("buffers", o.index, 0)}
    [] o.name = "pipelineLayout" -> All({"globalSetLayout", "sceneSetLayout"})
    [] o.name \in {"defaultPipeline", "skyboxPipeline"} -> All({"pipelineLayout"})
    [] o.name = "scene" ->
         All({"allocator", "uploadPool", "uploadFence", "sampler"})
           \cup Each({"globalSet"}, Copies, 0)
    [] OTHER -> All({"device"})

Sized == [age : Nat, images : Nat]

TypeOK ==
  /\ pc \in {"vulkan", "swapchain", "objects", "pass", "imgui", "target", "shaders", "scene",
             "poll", "record", "imgui draw", "submit", "idle", "destroy", "targets",
             "ended", "aborted"}
  /\ swapchain \in Sized /\ framebuffers \in Sized
  /\ depthImage \in Nat
  /\ missing \subseteq DescriptorSets \ SureSets
  /\ image \in Nat
  /\ ring \in [index : Elements, age : [Elements -> Nat]]
  /\ DOMAIN uses = Copies
  /\ turn \in Copies
  /\ filling \in BOOLEAN
  /\ reading \in Seq(Copies)
  /\ pc \in {"record", "imgui draw", "submit"} => image \in 1 .. swapchain.images

Init ==
  /\ pc = "vulkan"
  /\ alive = {}
  /\ swapchain = [age |-> 0, images |-> 0]
  /\ framebuffers = [age |-> 0, images |-> 0]
  /\ depthImage = 0
  /\ missing = {}
  /\ image = 0
  /\ ring = [index |-> 0, age |-> [k \in Elements |-> 0]]
  /\ uses = [c \in Copies |-> {}]
  /\ Frames!Init

-----------------------------------------------------------------------------
(* Device::Init, Renderer::Init and setupScene *)

\* A step of the start: objects are added, and it goes on at `next'.
Start(here, objects, next) ==
  /\ pc = here
  /\ alive' = alive \cup objects
  /\ pc' = next
  /\ UNCHANGED <<recordVars, frameVars>>

InitVulkan == Start("vulkan", VulkanObjects, "swapchain") /\ UNCHANGED memberVars

\* Device::Init is over: the functions below are called by recreateSwapchain.
Started == depthImage > 0

CreateSwapchain ==
  /\ \E n \in ImageCounts : swapchain' = [age |-> swapchain.age + 1, images |-> n]
  /\ Start("swapchain", SwapchainObjects(swapchain'), IF Started THEN "targets" ELSE "objects")
  /\ UNCHANGED <<framebuffers, depthImage, missing>>

\* initGraphicsCommands, initComputeCommands, initSyncStructures and the sampler.
InitObjects ==
  /\ Start("objects", CommandObjects \cup SyncObjects \cup All({"sampler"}), "pass")
  /\ UNCHANGED memberVars

\* Fault: as many framebuffers as there were.
InitImguiRenderpassKeepsCount ==
  /\ framebuffers' = [age |-> swapchain.age,
                      images |-> IF Started THEN framebuffers.images ELSE swapchain.images]
  /\ Start("pass", PassObjects(framebuffers'), IF Started THEN "poll" ELSE "imgui")
  /\ UNCHANGED <<swapchain, depthImage, missing>>

\* Made as often as the swapchain: its age is the swapchain's.
InitImguiRenderpass ==
  /\ framebuffers' = swapchain
  /\ Start("pass", PassObjects(framebuffers'), IF Started THEN "poll" ELSE "imgui")
  /\ UNCHANGED <<swapchain, depthImage, missing>>

InitImgui == Start("imgui", ImguiObjects, "target") /\ UNCHANGED memberVars

CreateRenderTarget ==
  /\ Start("target", DepthObjects(1), "shaders")
  /\ depthImage' = 1
  /\ UNCHANGED <<swapchain, framebuffers, missing>>

InitShaders ==
  /\ missing' \in SUBSET (DescriptorSets \ SureSets)
  /\ Start("shaders", DescriptorObjects' \cup BufferObjects \cup PipelineObjects, "scene")
  /\ UNCHANGED <<swapchain, framebuffers, depthImage>>

\* initShaderData and setupScene: meshes and textures, by the upload context.
LoadScene == Start("scene", All({"scene"}), "poll") /\ UNCHANGED memberVars

\* A VK_CHECK failed, or the value() of a result without one: no instance, device or
\* swapchain could be made, or a shader was not found.  What becomes of the textures
\* written to a set that is missing, and of a frame that binds one, is undefined.
Abort ==
  /\ \/ pc \in {"vulkan", "swapchain", "pass", "imgui", "shaders"}
     \/ pc \in {"scene", "record"} /\ missing # {}
  /\ pc' = "aborted"
  /\ UNCHANGED <<alive, memberVars, recordVars, frameVars>>

-----------------------------------------------------------------------------
(* Engine::run *)

\* Fault: a frame is begun although no image was acquired.
BeginFrameOutOfDate ==
  /\ pc = "poll"
  /\ Frames!Begin
  /\ pc' = "record"
  /\ UNCHANGED <<alive, memberVars, recordVars>>

BeginFrame ==
  /\ pc = "poll"
  /\ Frames!Begin
  /\ image' \in 1 .. swapchain.images
  /\ pc' = "record"
  /\ UNCHANGED <<alive, memberVars, ring, uses>>

\* What the commands of a frame name: its own objects, what is drawn with and
\* what is drawn into.
FrameUses ==
  Each({"commandPool", "renderFen", "presentSem", "renderSem", "buffers", "globalSet",
        "sceneSet"}, {turn}, 0)
    \cup PipelineObjects \cup All({"sampler", "scene"})
    \cup {Obj("swapchain", 0, swapchain.age), Obj("view", image, swapchain.age)}
    \cup DepthObjects(depthImage)

\* What AddImGuiToCommandBuffer names.
PassUses == {Obj("pass", 0, framebuffers.age), Obj("framebuffer", image, framebuffers.age)}

\* vkResetCommandBuffer, and Draw up to vkCmdEndRendering.
Record ==
  /\ pc = "record"
  /\ uses' = [uses EXCEPT ![turn] = FrameUses]
  /\ pc' = "imgui draw"
  /\ UNCHANGED <<alive, memberVars, image, ring, frameVars>>

NextElement == (ring.index + 1) % ImguiImageCount

\* The next buffers of the ring are written, and made anew at once when there
\* are none or they are too small.
DrawLists(k) ==
  \E age \in {ring.age[k], ring.age[k] + 1} \cap 1 .. MaxGrowths :
    /\ ring' = [index |-> k, age |-> [ring.age EXCEPT ![k] = age]]
    /\ alive' = (alive \ {RingBuffers(k, ring.age[k])}) \cup {RingBuffers(k, age)}
    /\ uses' = [uses EXCEPT ![turn] =
                  @ \cup PassUses \cup ImguiObjects \cup {RingBuffers(k, age)}]

\* AddImGuiToCommandBuffer.  imgui draws nothing into a window without a size,
\* and needs no buffers when there is nothing to draw.
AddImGui ==
  /\ pc = "imgui draw"
  /\ \/ DrawLists(NextElement)
     \/ \E k \in {ring.index, NextElement} :
          /\ ring' = [index |-> k, age |-> ring.age]
          /\ uses' = [uses EXCEPT ![turn] =
                        @ \cup PassUses \cup (IF k = ring.index THEN {} ELSE ImguiObjects)]
          /\ UNCHANGED alive
  /\ pc' = "submit"
  /\ UNCHANGED <<memberVars, image, frameVars>>

\* vkQueueSubmit and Present, with m_frameNumber++.
Submit ==
  /\ pc = "submit"
  /\ Frames!HandOver
  /\ pc' = "poll"
  /\ UNCHANGED <<alive, memberVars, recordVars>>

\* A submission is executed.
Complete ==
  /\ Frames!GiveBack
  /\ UNCHANGED <<pc, alive, memberVars, recordVars>>

\* BeginFrame gives the frame up, with an image or without: the fence has been
\* waited for.
GiveUpFrame ==
  /\ pc = "poll"
  /\ swapchain.age <= MaxRecreations
  /\ ~Frames!IsRead(turn)
  /\ image' \in {image} \cup 1 .. swapchain.images
  /\ pc' = "idle"
  /\ UNCHANGED <<alive, memberVars, ring, uses, frameVars>>

\* Fault: recreateSwapchain does not wait for the device.
WaitIdleSkipped ==
  /\ pc = "idle"
  /\ pc' = "destroy"
  /\ UNCHANGED <<alive, memberVars, recordVars, frameVars>>

\* vkDeviceWaitIdle.
WaitIdle ==
  /\ pc = "idle"
  /\ reading = <<>>
  /\ pc' = "destroy"
  /\ UNCHANGED <<alive, memberVars, recordVars, frameVars>>

\* Fault: the render pass is left.
DestroySwapchainKeepsPass ==
  /\ pc = "destroy"
  /\ alive' = alive \ (Each({"framebuffer"}, 1 .. swapchain.images, framebuffers.age)
                         \cup SwapchainObjects(swapchain))
  /\ pc' = "swapchain"
  /\ UNCHANGED <<memberVars, recordVars, frameVars>>

\* Framebuffers are destroyed as many as there are views.
DestroySwapchain ==
  /\ pc = "destroy"
  /\ alive' = alive \ (Each({"framebuffer"}, 1 .. swapchain.images, framebuffers.age)
                         \cup {Obj("pass", 0, framebuffers.age)}
                         \cup SwapchainObjects(swapchain))
  /\ pc' = "swapchain"
  /\ UNCHANGED <<memberVars, recordVars, frameVars>>

\* recreateRenderTargetImages, on the one render target there is.
RecreateTargets ==
  /\ pc = "targets"
  /\ alive' = (alive \ DepthObjects(depthImage)) \cup DepthObjects(depthImage + 1)
  /\ depthImage' = depthImage + 1
  /\ pc' = "pass"
  /\ UNCHANGED <<swapchain, framebuffers, missing, recordVars, frameVars>>

\* Renderer::Deinit.  What it leaves lives as long as the process: nothing
\* calls Device::Deinit, and the destructors of the engine destroy no object.
Deinit ==
  /\ pc = "poll"
  /\ reading = <<>>
  /\ alive' = alive \ DescriptorObjects
  /\ pc' = "ended"
  /\ UNCHANGED <<memberVars, recordVars, frameVars>>

Ended == pc \in {"ended", "aborted"} /\ UNCHANGED vars

Next ==
  \/ InitVulkan \/ CreateSwapchain \/ InitObjects \/ InitImguiRenderpass \/ InitImgui
  \/ CreateRenderTarget \/ InitShaders \/ LoadScene \/ Abort
  \/ BeginFrame \/ Record \/ AddImGui \/ Submit \/ Complete
  \/ GiveUpFrame \/ WaitIdle \/ DestroySwapchain \/ RecreateTargets
  \/ Deinit \/ Ended

Spec == Init /\ [][Next]_vars

-----------------------------------------------------------------------------
(* Correctness *)

\* The objects the commands of a frame name exist from their recording on until
\* the GPU has executed them: recreateSwapchain, imgui's new buffers and
\* Renderer::Deinit destroy nothing of a frame that was submitted, and no frame
\* is recorded with what recreateSwapchain has destroyed.  Only a descriptor set
\* that its pool never gave may be named without there being one.
InUseAlive ==
  \A c \in Executed \cup {d \in {turn} : pc \in {"imgui draw", "submit"}} :
    uses[c] \ missing \subseteq alive

\* imgui writes the vertices of a frame to buffers that no frame the GPU may
\* still execute reads: its ring is a literal that nothing ties to FRAME_OVERLAP,
\* and it is advanced by frames that draw something only.
RingExclusive ==
  pc = "submit" =>
    \A c \in Executed : \A o \in uses[c], p \in uses[turn] :
      o.name = "imguiBuffers" /\ p.name = "imguiBuffers" => o.index # p.index

\* Between frames the objects that exist are those the members of the engine and
\* of imgui name: recreateSwapchain leaves nothing of the old swapchain behind and
\* forgets nothing of the new one, and Renderer::Deinit leaves all but descriptors.
NothingLeft ==
  /\ pc \in {"poll", "record", "imgui draw", "submit", "idle", "destroy"} =>
       alive = LastingObjects \cup DescriptorObjects \cup ReplacedObjects
  /\ pc = "ended" => alive = LastingObjects \cup ReplacedObjects

\* An object is made when everything it is made from exists: the order of
\* Device::Init, Renderer::Init and recreateSwapchain, whatever number of images
\* each swapchain has.  Only the textures of the scene are written to descriptor
\* sets that may be missing.
MadeFromLive ==
  [][\A o \in alive' \ alive :
       MadeFrom(o) \subseteq alive' \cup {p \in missing' : o.name = "scene"}]_vars
=============================================================================
