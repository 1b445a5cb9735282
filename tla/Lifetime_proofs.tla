--------------------------- MODULE Lifetime_proofs ----------------------------
(***************************************************************************)
(* Proofs about Lifetime.  The central invariant says at every point of    *)
(* the program exactly which objects exist (AliveInv), and where in        *)
(* imgui's ring the buffers of each frame are (RingInv).                   *)
(***************************************************************************)
EXTENDS Lifetime, SequenceTheorems, TLAPS

\* Where frames may be executed by the GPU: elsewhere the device is idle.
Busy == {"poll", "record", "imgui draw", "submit", "idle"}

FramesInv ==
  /\ pc # "aborted" => (filling <=> pc \in {"record", "imgui draw", "submit"})
  /\ filling => turn \notin Executed
  /\ pc \notin Busy \cup {"aborted"} => reading = <<>>

\* How far the start has come, and which swapchain the framebuffers are for.
MemberInv ==
  /\ pc \in {"shaders", "scene", "targets", "destroy", "ended"} \cup Busy => Started
  /\ pc \in {"vulkan", "objects", "imgui", "target"} => ~Started
  /\ pc \in {"imgui", "target", "shaders", "scene", "destroy", "ended"} \cup Busy =>
       framebuffers = swapchain
  /\ ~Started \/ pc \in {"shaders", "scene"} => \A k \in Elements : ring.age[k] = 0

\* What exists once the start has come to each of its steps.
BeforePass == VulkanObjects \cup CommandObjects \cup SyncObjects \cup All({"sampler"})
BeforeScene == BeforePass \cup ImguiObjects \cup DescriptorObjects \cup BufferObjects \cup PipelineObjects

\* What recreateSwapchain does not touch before the render targets.
Untouched == LastingObjects \cup DescriptorObjects \cup DepthObjects(depthImage) \cup RingObjects

AliveInv ==
  /\ pc = "vulkan" => alive = {}
  /\ pc = "swapchain" /\ ~Started => alive = VulkanObjects
  /\ pc = "objects" => alive = VulkanObjects \cup SwapchainObjects(swapchain)
  /\ pc = "pass" /\ ~Started => alive = BeforePass \cup SwapchainObjects(swapchain)
  /\ pc = "imgui" =>
       alive = BeforePass \cup SwapchainObjects(swapchain) \cup PassObjects(framebuffers)
  /\ pc = "target" =>
       alive = BeforePass \cup SwapchainObjects(swapchain) \cup PassObjects(framebuffers)
                 \cup ImguiObjects
  /\ pc = "shaders" =>
       alive = BeforePass \cup SwapchainObjects(swapchain) \cup PassObjects(framebuffers)
                 \cup ImguiObjects \cup DepthObjects(depthImage)
  /\ pc = "scene" =>
       alive = BeforeScene \cup SwapchainObjects(swapchain) \cup PassObjects(framebuffers)
                 \cup DepthObjects(depthImage)
  /\ pc \in Busy \cup {"destroy"} =>
       alive = LastingObjects \cup DescriptorObjects \cup ReplacedObjects
  /\ pc = "swapchain" /\ Started => alive = Untouched
  /\ pc = "targets" => alive = Untouched \cup SwapchainObjects(swapchain)
  /\ pc = "pass" /\ Started => alive = Untouched \cup SwapchainObjects(swapchain)
  /\ pc = "ended" => alive = LastingObjects \cup ReplacedObjects

\* The pairs of imgui's buffers the commands of a frame name.
InRing(o) == o.name = "imguiBuffers"

\* Only the frame before the one to come has the buffers imgui wrote last.
RingInv ==
  /\ pc # "submit" => \A c \in Copies \ {turn} : \A o \in uses[c] : InRing(o) => o.index = ring.index
  /\ pc = "imgui draw" => \A o \in uses[turn] : ~InRing(o)
  /\ pc = "submit" =>
       /\ \A o \in uses[turn] : InRing(o) => o.index = ring.index
       /\ \A c \in Copies \ {turn} : \A o \in uses[c], p \in uses[turn] :
            InRing(o) /\ InRing(p) => o.index # p.index

LifetimeInv == TypeOK /\ FramesInv /\ MemberInv /\ AliveInv /\ RingInv /\ InUseAlive

-----------------------------------------------------------------------------
(* Frames *)

\* A submission adds its frame to those that are executed.
LEMMA HandOverExecutes ==
  ASSUME reading \in Seq(Copies), turn \in Copies, reading' = Append(reading, turn)
  PROVE  Executed' \subseteq Executed \cup {turn}
  <1>1. /\ Len(reading') = Len(reading) + 1
        /\ Len(reading) \in Nat
        /\ \A k \in 1 .. Len(reading) : reading'[k] = reading[k]
        /\ reading'[Len(reading) + 1] = turn
    BY AppendProperties, LenProperties
  <1> SUFFICES ASSUME NEW c \in Executed' PROVE c \in Executed \cup {turn}
    OBVIOUS
  <1>2. PICK k \in 1 .. Len(reading') : c \in Copies /\ reading'[k] = c
    BY DEF Executed, Frames!IsRead
  <1>3. CASE k = Len(reading) + 1
    BY <1>1, <1>2, <1>3
  <1>4. CASE k # Len(reading) + 1
    <2>1. k \in 1 .. Len(reading)
      BY <1>1, <1>2, <1>4, SMT
    <2> QED
      BY <1>1, <1>2, <2>1 DEF Executed, Frames!IsRead
  <1> QED
    BY <1>3, <1>4

\* A frame that was executed is executed no more, the others still are.
LEMMA GiveBackExecutes ==
  ASSUME reading \in Seq(Copies), reading # <<>>, reading' = Tail(reading)
  PROVE  Executed' \subseteq Executed
  <1>1. /\ Len(reading') = Len(reading) - 1
        /\ Len(reading) \in Nat \ {0}
        /\ \A k \in 1 .. Len(reading') : reading'[k] = reading[k + 1]
    BY HeadTailProperties, EmptySeq, LenProperties
  <1> SUFFICES ASSUME NEW c \in Executed' PROVE c \in Executed
    OBVIOUS
  <1>2. PICK k \in 1 .. Len(reading') : c \in Copies /\ reading'[k] = c
    BY DEF Executed, Frames!IsRead
  <1>3. k + 1 \in 1 .. Len(reading) /\ reading[k + 1] = c
    BY <1>1, <1>2, SMT
  <1> QED
    BY <1>2, <1>3 DEF Executed, Frames!IsRead

\* What is executed depends on `reading' alone.
LEMMA SameExecuted == ASSUME reading' = reading PROVE Executed' = Executed
  BY DEF Executed, Frames!IsRead

-----------------------------------------------------------------------------
(* Types *)

LEMMA TypeInit == Init => TypeOK
  <1> SUFFICES ASSUME Init PROVE TypeOK
    OBVIOUS
  <1>1. reading \in Seq(Copies)
    BY EmptySeq DEF Init, Frames!Init
  <1>2. ring \in [index : Elements, age : [Elements -> Nat]]
    BY DEF Init, Elements, ImguiImageCount
  <1>3. turn = 0 /\ filling = FALSE
    BY DEF Init, Frames!Init
  <1>4. 0 \in Copies
    BY LifetimeAssumption, SMT DEF Copies
  <1> QED
    BY <1>1, <1>2, <1>3, <1>4 DEF Init, TypeOK, Sized

\* The copy to be filled next, and the queue with the frame handed over.
LEMMA HandOverTypes ==
  ASSUME TypeOK, turn' = (turn + 1) % FRAME_OVERLAP, reading' = Append(reading, turn)
  PROVE  turn' \in Copies /\ reading' \in Seq(Copies)
  <1>1. reading \in Seq(Copies) /\ turn \in Copies
    BY DEF TypeOK
  <1>2. reading' \in Seq(Copies)
    BY <1>1, AppendProperties
  <1>3. turn' \in Copies
    BY <1>1, LifetimeAssumption, SMT DEF Copies
  <1> QED
    BY <1>2, <1>3

LEMMA NextElementProperties ==
  ASSUME ring.index \in Elements
  PROVE  NextElement \in Elements /\ NextElement # ring.index
  <1>1. ring.index \in 0 .. 2 /\ NextElement = (ring.index + 1) % 3
    BY DEF NextElement, Elements, ImguiImageCount
  <1> QED
    BY <1>1, SMT DEF Elements, ImguiImageCount

\* What CreateSwapchain puts into m_swapchain.
LEMMA SwapchainTypes ==
  ASSUME swapchain \in Sized, CreateSwapchain PROVE swapchain' \in Sized
  <1>1. PICK n \in ImageCounts : swapchain' = [age |-> swapchain.age + 1, images |-> n]
    BY DEF CreateSwapchain
  <1>2. n \in Nat /\ swapchain.age + 1 \in Nat
    BY LifetimeAssumption DEF Sized
  <1> QED
    BY <1>1, <1>2 DEF Sized

\* imgui's ring after a frame.
LEMMA RingTypes ==
  ASSUME ring \in [index : Elements, age : [Elements -> Nat]], AddImGui
  PROVE  ring' \in [index : Elements, age : [Elements -> Nat]]
  <1>1. ring.index \in Elements /\ ring.age \in [Elements -> Nat]
    OBVIOUS
  <1>2. NextElement \in Elements
    BY <1>1, NextElementProperties
  <1>3. CASE DrawLists(NextElement)
    <2>1. PICK age \in {ring.age[NextElement], ring.age[NextElement] + 1} \cap 1 .. MaxGrowths :
            ring' = [index |-> NextElement, age |-> [ring.age EXCEPT ![NextElement] = age]]
      BY <1>3 DEF DrawLists
    <2>2. age \in Nat
      BY <2>1, <1>1, <1>2
    <2> QED
      BY <2>1, <2>2, <1>1, <1>2
  <1>4. CASE \E k \in {ring.index, NextElement} : ring' = [index |-> k, age |-> ring.age]
    BY <1>4, <1>1, <1>2
  <1> QED
    BY <1>3, <1>4 DEF AddImGui

LEMMA TypeNext == TypeOK /\ [Next]_vars => TypeOK'
  <1> SUFFICES ASSUME TypeOK, [Next]_vars PROVE TypeOK'
    OBVIOUS
  <1> USE DEF TypeOK, vars, memberVars, recordVars, frameVars
  <1>1. CASE UNCHANGED vars
    BY <1>1 DEF Copies, Elements, ImguiImageCount, Sized
  <1>2. CASE InitVulkan
    BY <1>2 DEF InitVulkan, Start
  <1>3. CASE CreateSwapchain
    <2>1. swapchain' \in Sized
      BY <1>3, SwapchainTypes
    <2> QED
      BY <1>3, <2>1 DEF CreateSwapchain, Start
  <1>4. CASE InitObjects
    BY <1>4 DEF InitObjects, Start
  <1>5. CASE InitImguiRenderpass
    BY <1>5 DEF InitImguiRenderpass, Start
  <1>6. CASE InitImgui
    BY <1>6 DEF InitImgui, Start
  <1>7. CASE CreateRenderTarget
    BY <1>7 DEF CreateRenderTarget, Start
  <1>8. CASE InitShaders
    BY <1>8 DEF InitShaders, Start
  <1>9. CASE LoadScene
    BY <1>9 DEF LoadScene, Start
  <1>10. CASE Abort
    BY <1>10 DEF Abort
  <1>11. CASE BeginFrame
    BY <1>11 DEF BeginFrame, Frames!Begin, Sized
  <1>12. CASE Record
    BY <1>12 DEF Record
  <1>13. CASE AddImGui
    <2>1. /\ pc' = "submit" /\ pc = "imgui draw"
          /\ UNCHANGED <<memberVars, image, frameVars>>
      BY <1>13 DEF AddImGui
    <2>2. DOMAIN uses' = Copies
      BY <1>13 DEF AddImGui, DrawLists
    <2>4. ring' \in [index : Elements, age : [Elements -> Nat]]
      BY <1>13, RingTypes
    <2> QED
      BY <2>1, <2>2, <2>4
  <1>14. CASE Submit
    <2>1. turn' \in Copies /\ reading' \in Seq(Copies)
      BY <1>14, HandOverTypes DEF Submit, Frames!HandOver
    <2> QED
      BY <1>14, <2>1 DEF Submit, Frames!HandOver
  <1>15. CASE Complete
    <2>1. reading' \in Seq(Copies)
      BY <1>15, HeadTailProperties DEF Complete, Frames!GiveBack
    <2> QED
      BY <1>15, <2>1 DEF Complete, Frames!GiveBack
  <1>16. CASE GiveUpFrame
    BY <1>16 DEF GiveUpFrame, Sized
  <1>17. CASE WaitIdle
    BY <1>17 DEF WaitIdle
  <1>18. CASE DestroySwapchain
    BY <1>18 DEF DestroySwapchain
  <1>19. CASE RecreateTargets
    BY <1>19 DEF RecreateTargets
  <1>20. CASE Deinit
    BY <1>20 DEF Deinit
  <1>21. CASE Ended
    BY <1>1, <1>21 DEF Ended
  <1> QED
    BY <1>1, <1>2, <1>3, <1>4, <1>5, <1>6, <1>7, <1>8, <1>9, <1>10, <1>11, <1>12, <1>13, <1>14,
       <1>15, <1>16, <1>17, <1>18, <1>19, <1>20, <1>21 DEF Next

-----------------------------------------------------------------------------
(* Frames and the program *)

LEMMA FramesInit == Init => FramesInv
  BY DEF Init, Frames!Init, FramesInv

\* A step that leaves the frames alone, and does not leave Busy.
LEMMA FramesKept ==
  ASSUME FramesInv, UNCHANGED frameVars, pc' \notin Busy \cup {"aborted"} => reading = <<>>,
         pc # "aborted" \/ pc' = "aborted",
         \/ pc' = "aborted"
         \/ pc' \in {"record", "imgui draw", "submit"} <=> pc \in {"record", "imgui draw", "submit"}
  PROVE  FramesInv'
  <1>1. Executed' = Executed
    BY SameExecuted DEF frameVars
  <1> QED
    BY <1>1 DEF FramesInv, frameVars

LEMMA FramesNext == TypeOK /\ FramesInv /\ [Next]_vars => FramesInv'
  <1> SUFFICES ASSUME TypeOK, FramesInv, [Next]_vars PROVE FramesInv'
    OBVIOUS
  <1>1. CASE InitVulkan
    BY <1>1, FramesKept DEF InitVulkan, Start, FramesInv, Busy
  <1>2. CASE CreateSwapchain
    BY <1>2, FramesKept DEF CreateSwapchain, Start, FramesInv, Busy
  <1>3. CASE InitObjects
    BY <1>3, FramesKept DEF InitObjects, Start, FramesInv, Busy
  <1>4. CASE InitImguiRenderpass
    BY <1>4, FramesKept DEF InitImguiRenderpass, Start, FramesInv, Busy
  <1>5. CASE InitImgui
    BY <1>5, FramesKept DEF InitImgui, Start, FramesInv, Busy
  <1>6. CASE CreateRenderTarget
    BY <1>6, FramesKept DEF CreateRenderTarget, Start, FramesInv, Busy
  <1>7. CASE InitShaders
    BY <1>7, FramesKept DEF InitShaders, Start, FramesInv, Busy
  <1>8. CASE LoadScene
    BY <1>8, FramesKept DEF LoadScene, Start, FramesInv, Busy
  <1>9. CASE Abort
    BY <1>9, FramesKept DEF Abort, FramesInv, Busy
  <1>10. CASE Record
    BY <1>10, FramesKept DEF Record, FramesInv, Busy
  <1>11. CASE AddImGui
    BY <1>11, FramesKept DEF AddImGui, FramesInv, Busy
  <1>12. CASE GiveUpFrame
    BY <1>12, FramesKept DEF GiveUpFrame, FramesInv, Busy
  <1>13. CASE WaitIdle
    BY <1>13, FramesKept DEF WaitIdle, FramesInv, Busy
  <1>14. CASE DestroySwapchain
    BY <1>14, FramesKept DEF DestroySwapchain, FramesInv, Busy
  <1>15. CASE RecreateTargets
    BY <1>15, FramesKept DEF RecreateTargets, FramesInv, Busy
  <1>16. CASE Deinit
    BY <1>16, FramesKept DEF Deinit, FramesInv, Busy
  <1>20. CASE BeginFrame
    <2>1. Executed' = Executed /\ turn \notin Executed
      BY <1>20, SameExecuted DEF BeginFrame, Frames!Begin, Executed
    <2> QED
      BY <1>20, <2>1 DEF BeginFrame, Frames!Begin, FramesInv, Busy
  <1>21. CASE Submit
    BY <1>21 DEF Submit, Frames!HandOver, FramesInv, Busy
  <1>22. CASE Complete
    <2>1. reading \in Seq(Copies)
      BY DEF TypeOK
    <2>2. Executed' \subseteq Executed
      BY <1>22, <2>1, GiveBackExecutes DEF Complete, Frames!GiveBack
    <2>3. UNCHANGED <<turn, filling, pc>> /\ reading # <<>>
      BY <1>22 DEF Complete, Frames!GiveBack
    <2> QED
      BY <2>2, <2>3 DEF FramesInv, Busy
  <1>23. CASE UNCHANGED vars
    BY <1>23, FramesKept DEF FramesInv, vars
  <1>24. CASE Ended
    BY <1>24, <1>23 DEF Ended
  <1> QED
    BY <1>1, <1>2, <1>3, <1>4, <1>5, <1>6, <1>7, <1>8, <1>9, <1>10, <1>11, <1>12, <1>13, <1>14, <1>15, <1>16, <1>20, <1>21, <1>22, <1>23, <1>24 DEF Next

LEMMA MemberInit == Init => MemberInv
  <1> SUFFICES ASSUME Init PROVE MemberInv
    OBVIOUS
  <1>1. depthImage = 0 /\ pc = "vulkan" /\ \A k \in Elements : ring.age[k] = 0
    BY DEF Init
  <1>2. ~Started
    BY <1>1, SMT DEF Started
  <1> QED
    BY <1>1, <1>2 DEF MemberInv, Busy

LEMMA StartedAfterFirst == ASSUME depthImage' = 1 PROVE Started'
  BY SMT DEF Started

LEMMA StartedAfterNext == ASSUME depthImage \in Nat, depthImage' = depthImage + 1 PROVE Started'
  BY SMT DEF Started

LEMMA MemberKept ==
  ASSUME MemberInv, pc' = pc, depthImage' = depthImage, swapchain' = swapchain,
         framebuffers' = framebuffers, ring' = ring
  PROVE  MemberInv'
  BY DEF MemberInv, Started

LEMMA MemberNext == TypeOK /\ MemberInv /\ [Next]_vars => MemberInv'
  <1> SUFFICES ASSUME TypeOK, MemberInv, [Next]_vars PROVE MemberInv'
    OBVIOUS
  <1> USE DEF MemberInv, Busy, memberVars, recordVars
  <1>0. depthImage' = depthImage => Started' = Started
    BY DEF Started
  <1>1. CASE InitVulkan
    BY <1>1, <1>0 DEF InitVulkan, Start
  <1>2. CASE CreateSwapchain
    BY <1>2, <1>0 DEF CreateSwapchain, Start
  <1>3. CASE InitObjects
    BY <1>3, <1>0 DEF InitObjects, Start
  <1>4. CASE InitImguiRenderpass
    BY <1>4, <1>0 DEF InitImguiRenderpass, Start
  <1>5. CASE InitImgui
    BY <1>5, <1>0 DEF InitImgui, Start
  <1>6. CASE CreateRenderTarget
    <2>1. Started'
      BY <1>6, StartedAfterFirst DEF CreateRenderTarget
    <2> QED
      BY <1>6, <2>1 DEF CreateRenderTarget, Start
  <1>7. CASE InitShaders
    BY <1>7, <1>0 DEF InitShaders, Start
  <1>8. CASE LoadScene
    BY <1>8, <1>0 DEF LoadScene, Start
  <1>9. CASE Abort
    BY <1>9, <1>0 DEF Abort
  <1>10. CASE BeginFrame
    BY <1>10, <1>0 DEF BeginFrame
  <1>11. CASE Record
    BY <1>11, <1>0 DEF Record
  <1>12. CASE AddImGui
    <2>1. pc = "imgui draw" /\ pc' = "submit" /\ UNCHANGED memberVars
      BY <1>12 DEF AddImGui
    <2> QED
      BY <1>0, <2>1
  <1>13. CASE Submit
    BY <1>13, <1>0 DEF Submit
  <1>14. CASE Complete
    BY <1>14, MemberKept DEF Complete
  <1>15. CASE GiveUpFrame
    BY <1>15, <1>0 DEF GiveUpFrame
  <1>16. CASE WaitIdle
    BY <1>16, <1>0 DEF WaitIdle
  <1>17. CASE DestroySwapchain
    BY <1>17, <1>0 DEF DestroySwapchain
  <1>18. CASE RecreateTargets
    <2>1. depthImage \in Nat /\ depthImage' = depthImage + 1
      BY <1>18 DEF RecreateTargets, TypeOK
    <2>2. Started'
      BY <2>1, StartedAfterNext
    <2> QED
      BY <1>18, <2>2 DEF RecreateTargets
  <1>19. CASE Deinit
    BY <1>19, <1>0 DEF Deinit
  <1>20. CASE UNCHANGED vars
    BY <1>20, MemberKept DEF vars
  <1>21. CASE Ended
    BY <1>21, <1>20 DEF Ended
  <1> QED
    BY <1>1, <1>2, <1>3, <1>4, <1>5, <1>6, <1>7, <1>8, <1>9, <1>10, <1>11, <1>12, <1>13, <1>14, <1>15, <1>16, <1>17, <1>18, <1>19, <1>20, <1>21 DEF Next

-----------------------------------------------------------------------------
(* Objects *)

LEMMA LastingNames ==
  \A o \in LastingObjects \cup DescriptorObjects :
    o.name \notin {"swapchain", "view", "pass", "framebuffer", "depth", "imguiBuffers"}
  <1>1. \A o \in VulkanObjects \cup ImguiObjects \cup PipelineObjects \cup All({"sampler"})
                   \cup All({"scene"}) :
          o.name \in {"instance", "surface", "device", "allocator", "imguiPool", "imguiPipeline",
                      "pipelineLayout", "defaultPipeline", "skyboxPipeline", "sampler", "scene"}
    BY DEF VulkanObjects, ImguiObjects, PipelineObjects, All, Obj
  <1>2. \A o \in CommandObjects \cup SyncObjects \cup BufferObjects :
          o.name \in {"commandPool", "uploadPool", "computePool", "renderFen", "presentSem",
                      "renderSem", "uploadFence", "buffers"}
    BY DEF CommandObjects, SyncObjects, BufferObjects, All, Each, Obj
  <1>3. \A o \in DescriptorObjects :
          o.name \in {"globalPool", "scenePool", "globalSetLayout", "sceneSetLayout",
                      "globalSet", "sceneSet"}
    BY DEF DescriptorObjects, DescriptorSets, All, Each, Obj
  <1> QED
    BY <1>1, <1>2, <1>3 DEF LastingObjects

\* Renderer::Deinit destroys descriptors and nothing else that was made once.
LEMMA LastingDescriptors == \A o \in DescriptorObjects : o \notin LastingObjects
  <1>1. \A o \in VulkanObjects \cup ImguiObjects \cup PipelineObjects \cup All({"sampler"})
                   \cup All({"scene"}) \cup CommandObjects \cup SyncObjects \cup BufferObjects :
          o.name \notin {"globalPool", "scenePool", "globalSetLayout", "sceneSetLayout",
                         "globalSet", "sceneSet"}
    BY DEF VulkanObjects, ImguiObjects, PipelineObjects, CommandObjects, SyncObjects,
           BufferObjects, All, Each, Obj
  <1>2. \A o \in DescriptorObjects :
          o.name \in {"globalPool", "scenePool", "globalSetLayout", "sceneSetLayout",
                      "globalSet", "sceneSet"}
    BY DEF DescriptorObjects, DescriptorSets, All, Each, Obj
  <1> QED
    BY <1>1, <1>2 DEF LastingObjects

LEMMA SwapchainNames == \A s : \A o \in SwapchainObjects(s) : o.name \in {"swapchain", "view"}
  BY DEF SwapchainObjects, Each, Obj

LEMMA PassNames == \A b : \A o \in PassObjects(b) : o.name \in {"pass", "framebuffer"}
  BY DEF PassObjects, Each, Obj

LEMMA DepthNames == \A age : \A o \in DepthObjects(age) : o.name = "depth"
  BY DEF DepthObjects, Obj

LEMMA RingNames == \A o \in RingObjects : o.name = "imguiBuffers"
  BY DEF RingObjects, RingBuffers, Obj

\* Which descriptors there are depends on `missing' alone.
LEMMA SameDescriptors == ASSUME missing' = missing PROVE DescriptorObjects' = DescriptorObjects
  BY DEF DescriptorObjects

LEMMA SameRing == ASSUME ring' = ring PROVE RingObjects' = RingObjects
  BY DEF RingObjects

\* imgui has no buffers before the first frame.
LEMMA EmptyRing == ASSUME \A k \in Elements : ring.age[k] = 0 PROVE RingObjects = {}
  BY SMT DEF RingObjects

\* What DrawLists replaces in the ring.
LEMMA RingReplaced ==
  ASSUME TypeOK, NEW k \in Elements, NEW age \in Nat \ {0},
         ring' = [index |-> k, age |-> [ring.age EXCEPT ![k] = age]]
  PROVE  RingObjects' = (RingObjects \ {RingBuffers(k, ring.age[k])}) \cup {RingBuffers(k, age)}
  <1>1. ring.age \in [Elements -> Nat]
    BY DEF TypeOK
  <1>2. /\ ring'.age[k] = age
        /\ \A j \in Elements \ {k} : ring'.age[j] = ring.age[j]
    BY <1>1
  <1>3. ASSUME NEW j \in Elements \ {k}, NEW a, NEW b PROVE RingBuffers(j, a) # RingBuffers(k, b)
    BY <1>3 DEF RingBuffers, Obj
  <1>4. age > 0
    BY SMT
  <1>5. RingObjects' \subseteq (RingObjects \ {RingBuffers(k, ring.age[k])}) \cup {RingBuffers(k, age)}
    <2> SUFFICES ASSUME NEW o \in RingObjects', o # RingBuffers(k, age)
                 PROVE  o \in RingObjects /\ o # RingBuffers(k, ring.age[k])
      OBVIOUS
    <2>1. PICK j \in Elements : o = RingBuffers(j, ring'.age[j]) /\ ring'.age[j] > 0
      BY DEF RingObjects
    <2>2. j # k
      BY <2>1, <1>2
    <2> QED
      BY <2>1, <2>2, <1>2, <1>3 DEF RingObjects
  <1>6. RingObjects \ {RingBuffers(k, ring.age[k])} \subseteq RingObjects'
    BY <1>2 DEF RingObjects
  <1>7. RingBuffers(k, age) \in RingObjects'
    BY <1>2, <1>4 DEF RingObjects
  <1> QED
    BY <1>5, <1>6, <1>7

\* What destroySwapchain destroys: nothing else, and nothing of it is left.
LEMMA SwapchainDestroyed ==
  ASSUME framebuffers = swapchain, DestroySwapchain,
         alive = LastingObjects \cup DescriptorObjects \cup ReplacedObjects
  PROVE  alive' = Untouched
  <1> DEFINE P == PassObjects(framebuffers)
             S == SwapchainObjects(swapchain)
             D == DepthObjects(depthImage)
             L == LastingObjects \cup DescriptorObjects
  <1>1. alive' = alive \ (P \cup S)
    BY DEF DestroySwapchain, PassObjects
  <1>2. alive = L \cup S \cup P \cup D \cup RingObjects
    BY DEF ReplacedObjects
  <1>3. Untouched = L \cup D \cup RingObjects
    BY DEF Untouched
  <1>4. /\ \A o \in L : o.name \notin {"swapchain", "view", "pass", "framebuffer"}
        /\ \A o \in S : o.name \in {"swapchain", "view"}
        /\ \A o \in P : o.name \in {"pass", "framebuffer"}
        /\ \A o \in D : o.name = "depth"
        /\ \A o \in RingObjects : o.name = "imguiBuffers"
    BY LastingNames, SwapchainNames, PassNames, DepthNames, RingNames
  <1> HIDE DEF P, S, D, L
  <1> QED
    BY <1>1, <1>2, <1>3, <1>4

LEMMA DrawnAge == \A age \in 1 .. MaxGrowths : age \in Nat \ {0}
  BY LifetimeAssumption

LEMMA AliveInit == Init => AliveInv
  <1> SUFFICES ASSUME Init PROVE AliveInv
    OBVIOUS
  <1>1. alive = {} /\ pc = "vulkan"
    BY DEF Init
  <1> QED
    BY <1>1 DEF AliveInv, Busy

\* What exists between frames; the steps of a frame that make and destroy nothing.
LEMMA AliveKept ==
  ASSUME AliveInv, UNCHANGED <<alive, memberVars, ring>>,
         pc \in Busy \cup {"destroy"}, pc' \in Busy \cup {"destroy"}
  PROVE  AliveInv'
  <1>1. /\ RingObjects' = RingObjects /\ ReplacedObjects' = ReplacedObjects
        /\ DescriptorObjects' = DescriptorObjects
    BY SameRing, SameDescriptors DEF ReplacedObjects, memberVars
  <1>2. (alive = LastingObjects \cup DescriptorObjects \cup ReplacedObjects)'
    BY <1>1 DEF AliveInv
  <1> QED
    BY <1>2 DEF AliveInv, Busy

LEMMA AliveNext == TypeOK /\ MemberInv /\ AliveInv /\ [Next]_vars => AliveInv'
  <1> SUFFICES ASSUME TypeOK, MemberInv, AliveInv, [Next]_vars PROVE AliveInv'
    OBVIOUS
  <1>0. ring' = ring => RingObjects' = RingObjects
    BY SameRing
  <1>a. depthImage' = depthImage => Started' = Started
    BY DEF Started
  <1>b. missing' = missing => DescriptorObjects' = DescriptorObjects
    BY SameDescriptors
  <1>1. CASE InitVulkan
    <2>1. pc' = "swapchain" /\ alive' = VulkanObjects /\ ~Started'
      BY <1>1, <1>a DEF InitVulkan, Start, AliveInv, MemberInv, memberVars
    <2> QED
      BY <2>1 DEF AliveInv, Busy
  <1>2. CASE CreateSwapchain
    <2>1. /\ pc = "swapchain" /\ pc' = IF Started THEN "targets" ELSE "objects"
          /\ alive' = alive \cup SwapchainObjects(swapchain')
          /\ UNCHANGED <<depthImage, missing, ring>>
      BY <1>2 DEF CreateSwapchain, Start, recordVars
    <2>2. CASE Started
      <3>1. alive' = Untouched' \cup SwapchainObjects(swapchain')
        BY <2>1, <2>2, <1>0, <1>b DEF AliveInv, Untouched
      <3> QED
        BY <2>1, <2>2, <3>1 DEF AliveInv, Busy
    <2>3. CASE ~Started
      <3>1. alive' = VulkanObjects \cup SwapchainObjects(swapchain')
        BY <2>1, <2>3 DEF AliveInv
      <3> QED
        BY <2>1, <2>3, <3>1 DEF AliveInv, Busy
    <2> QED
      BY <2>2, <2>3
  <1>3. CASE InitObjects
    <2>1. /\ pc = "objects" /\ pc' = "pass" /\ ~Started' /\ swapchain' = swapchain
          /\ alive' = alive \cup (CommandObjects \cup SyncObjects \cup All({"sampler"}))
      BY <1>3, <1>a DEF InitObjects, Start, memberVars, MemberInv
    <2>2. alive' = BeforePass \cup SwapchainObjects(swapchain')
      BY <2>1 DEF AliveInv, BeforePass
    <2> QED
      BY <2>1, <2>2 DEF AliveInv, Busy
  <1>4. CASE InitImguiRenderpass
    <2>1. /\ pc = "pass" /\ pc' = IF Started THEN "poll" ELSE "imgui"
          /\ alive' = alive \cup PassObjects(framebuffers')
          /\ UNCHANGED <<swapchain, depthImage, missing, ring>>
      BY <1>4 DEF InitImguiRenderpass, Start, recordVars
    <2>2. CASE Started
      <3>1. (alive = LastingObjects \cup DescriptorObjects \cup ReplacedObjects)'
        BY <2>1, <2>2, <1>0, <1>b DEF AliveInv, Untouched, ReplacedObjects
      <3> QED
        BY <2>1, <2>2, <3>1 DEF AliveInv, Busy
    <2>3. CASE ~Started
      <3>1. (alive = BeforePass \cup SwapchainObjects(swapchain) \cup PassObjects(framebuffers))'
        BY <2>1, <2>3 DEF AliveInv
      <3> QED
        BY <2>1, <2>3, <3>1 DEF AliveInv, Busy
    <2> QED
      BY <2>2, <2>3
  <1>5. CASE InitImgui
    <2>1. /\ pc = "imgui" /\ pc' = "target" /\ UNCHANGED memberVars
          /\ alive' = alive \cup ImguiObjects
      BY <1>5 DEF InitImgui, Start
    <2> QED
      BY <2>1 DEF AliveInv, Busy, memberVars
  <1>6. CASE CreateRenderTarget
    <2>1. /\ pc = "target" /\ pc' = "shaders" /\ UNCHANGED <<swapchain, framebuffers>>
          /\ depthImage' = 1 /\ alive' = alive \cup DepthObjects(1)
      BY <1>6 DEF CreateRenderTarget, Start
    <2>2. (alive = BeforePass \cup SwapchainObjects(swapchain) \cup PassObjects(framebuffers)
                     \cup ImguiObjects \cup DepthObjects(depthImage))'
      BY <2>1 DEF AliveInv
    <2> QED
      BY <2>1, <2>2 DEF AliveInv, Busy
  <1>7. CASE InitShaders
    <2>1. /\ pc = "shaders" /\ pc' = "scene" /\ UNCHANGED <<swapchain, framebuffers, depthImage>>
          /\ alive' = alive \cup (DescriptorObjects' \cup BufferObjects \cup PipelineObjects)
      BY <1>7 DEF InitShaders, Start, memberVars
    <2>2. (alive = BeforeScene \cup SwapchainObjects(swapchain) \cup PassObjects(framebuffers)
                     \cup DepthObjects(depthImage))'
      BY <2>1 DEF AliveInv, BeforeScene
    <2> QED
      BY <2>1, <2>2 DEF AliveInv, Busy
  <1>8. CASE LoadScene
    <2>1. /\ pc = "scene" /\ pc' = "poll"
          /\ UNCHANGED <<swapchain, framebuffers, depthImage, missing, ring>>
          /\ alive' = alive \cup All({"scene"})
      BY <1>8 DEF LoadScene, Start, memberVars, recordVars
    <2>2. RingObjects = {} /\ RingObjects' = {}
      BY <2>1, <1>0, EmptyRing DEF MemberInv
    <2>3. LastingObjects = BeforePass \cup ImguiObjects \cup BufferObjects \cup PipelineObjects
                             \cup All({"scene"})
      BY DEF LastingObjects, BeforePass
    <2>4. (alive = LastingObjects \cup DescriptorObjects \cup ReplacedObjects)'
      BY <2>1, <2>2, <2>3, <1>b DEF AliveInv, BeforeScene, ReplacedObjects
    <2> QED
      BY <2>1, <2>4 DEF AliveInv, Busy
  <1>9. CASE Abort
    BY <1>9 DEF Abort, AliveInv, Busy
  <1>10. CASE BeginFrame
    BY <1>10, AliveKept DEF BeginFrame, Busy
  <1>11. CASE Record
    BY <1>11, AliveKept DEF Record, Busy
  <1>12. CASE AddImGui
    <2>1. pc = "imgui draw" /\ pc' = "submit" /\ UNCHANGED memberVars
      BY <1>12 DEF AddImGui
    <2>2. CASE DrawLists(NextElement)
      <3>1. PICK age \in {ring.age[NextElement], ring.age[NextElement] + 1} \cap 1 .. MaxGrowths :
              /\ ring' = [index |-> NextElement, age |-> [ring.age EXCEPT ![NextElement] = age]]
              /\ alive' = (alive \ {RingBuffers(NextElement, ring.age[NextElement])})
                            \cup {RingBuffers(NextElement, age)}
        BY <2>2 DEF DrawLists
      <3>2. NextElement \in Elements /\ age \in Nat \ {0}
        <4>1. ring.index \in Elements
          BY DEF TypeOK
        <4> QED
          BY <4>1, NextElementProperties, DrawnAge
      <3>3. RingObjects' = (RingObjects \ {RingBuffers(NextElement, ring.age[NextElement])})
                             \cup {RingBuffers(NextElement, age)}
        BY <3>1, <3>2, RingReplaced
      <3> DEFINE Others == LastingObjects \cup DescriptorObjects \cup SwapchainObjects(swapchain)
                             \cup PassObjects(framebuffers) \cup DepthObjects(depthImage)
                 Old == RingBuffers(NextElement, ring.age[NextElement])
      <3>4. Old.name = "imguiBuffers" /\ \A o \in Others : o.name # "imguiBuffers"
        BY LastingNames, SwapchainNames, PassNames, DepthNames DEF RingBuffers, Obj
      <3>5. alive = Others \cup RingObjects
        BY <2>1 DEF AliveInv, Busy, ReplacedObjects
      <3>6. alive' = Others \cup RingObjects'
        <4> HIDE DEF Others, Old
        <4>1. Old \notin Others
          BY <3>4
        <4> QED
          BY <4>1, <3>1, <3>3, <3>5 DEF Old
      <3>7. (alive = LastingObjects \cup DescriptorObjects \cup ReplacedObjects)'
        BY <2>1, <3>6, <1>b DEF memberVars, ReplacedObjects
      <3> QED
        BY <2>1, <3>7 DEF AliveInv, Busy
    <2>3. CASE (\E k \in {ring.index, NextElement} : ring' = [index |-> k, age |-> ring.age])
               /\ UNCHANGED alive
      <3>1. ring'.age = ring.age
        BY <2>3
      <3>2. RingObjects' = RingObjects
        BY <3>1 DEF RingObjects
      <3>3. (alive = LastingObjects \cup DescriptorObjects \cup ReplacedObjects)'
        BY <2>1, <2>3, <3>2, <1>b DEF AliveInv, Busy, memberVars, ReplacedObjects
      <3> QED
        BY <2>1, <3>3 DEF AliveInv, Busy
    <2> QED
      BY <1>12, <2>2, <2>3 DEF AddImGui
  <1>13. CASE Submit
    BY <1>13, AliveKept DEF Submit, Busy, recordVars
  <1>14. CASE UNCHANGED <<pc, alive, memberVars, recordVars>>
    <2>1. /\ Started' = Started /\ RingObjects' = RingObjects /\ ReplacedObjects' = ReplacedObjects
          /\ Untouched' = Untouched /\ DescriptorObjects' = DescriptorObjects
          /\ BeforeScene' = BeforeScene
          /\ UNCHANGED <<pc, alive, swapchain, framebuffers, depthImage>>
      BY <1>14, <1>0, <1>a, <1>b DEF BeforeScene, memberVars, recordVars, ReplacedObjects, Untouched
    <2> QED
      BY <2>1 DEF AliveInv
  <1>15. CASE Complete
    BY <1>15, <1>14 DEF Complete
  <1>16. CASE GiveUpFrame
    BY <1>16, AliveKept DEF GiveUpFrame, Busy
  <1>17. CASE WaitIdle
    BY <1>17, AliveKept DEF WaitIdle, Busy, recordVars
  <1>18. CASE DestroySwapchain
    <2>1. pc = "destroy" /\ pc' = "swapchain" /\ UNCHANGED <<depthImage, missing, ring>>
      BY <1>18 DEF DestroySwapchain, memberVars, recordVars
    <2>2. alive' = Untouched
      BY <1>18, <2>1, SwapchainDestroyed DEF AliveInv, MemberInv, Busy
    <2>3. Untouched' = Untouched /\ Started'
      BY <2>1, <1>0, <1>a, <1>b DEF Untouched, MemberInv
    <2> QED
      BY <2>1, <2>2, <2>3 DEF AliveInv, Busy
  <1>19. CASE RecreateTargets
    <2>1. /\ pc = "targets" /\ pc' = "pass" /\ UNCHANGED <<swapchain, missing, ring>>
          /\ depthImage \in Nat /\ depthImage' = depthImage + 1
          /\ alive' = (alive \ DepthObjects(depthImage)) \cup DepthObjects(depthImage')
      BY <1>19 DEF RecreateTargets, TypeOK, recordVars
    <2> DEFINE L == LastingObjects \cup DescriptorObjects
               S == SwapchainObjects(swapchain)
               D == DepthObjects(depthImage)
               E == DepthObjects(depthImage')
    <2>2. alive = L \cup D \cup RingObjects \cup S
      BY <2>1 DEF AliveInv, Untouched
    <2>3. /\ \A o \in L : o.name # "depth"
          /\ \A o \in S : o.name # "depth"
          /\ \A o \in RingObjects : o.name # "depth"
          /\ \A o \in D : o.name = "depth"
      BY LastingNames, SwapchainNames, DepthNames, RingNames
    <2>4. alive' = L \cup E \cup RingObjects \cup S
      <3> HIDE DEF L, S, D, E
      <3>1. alive' = (alive \ D) \cup E
        BY <2>1 DEF D, E
      <3> QED
        BY <3>1, <2>2, <2>3
    <2>5. alive' = Untouched' \cup SwapchainObjects(swapchain')
      BY <2>1, <2>4, <1>0, <1>b DEF Untouched
    <2>6. Started'
      BY <2>1, StartedAfterNext
    <2> QED
      BY <2>1, <2>5, <2>6 DEF AliveInv, Busy
  <1>20. CASE Deinit
    <2>1. /\ pc = "poll" /\ pc' = "ended" /\ UNCHANGED <<swapchain, framebuffers, depthImage, ring>>
          /\ alive' = alive \ DescriptorObjects
      BY <1>20 DEF Deinit, memberVars, recordVars
    <2>2. alive = LastingObjects \cup DescriptorObjects \cup ReplacedObjects
      BY <2>1 DEF AliveInv, Busy
    <2>3. /\ \A o \in DescriptorObjects : o \notin LastingObjects
          /\ \A o \in DescriptorObjects : o \notin ReplacedObjects
      <3>1. \A o \in DescriptorObjects : o \notin LastingObjects
        BY LastingDescriptors
      <3>2. \A o \in ReplacedObjects :
              o.name \in {"swapchain", "view", "pass", "framebuffer", "depth", "imguiBuffers"}
        BY SwapchainNames, PassNames, DepthNames, RingNames DEF ReplacedObjects
      <3> QED
        BY <3>1, <3>2, LastingNames
    <2>4. alive' = LastingObjects \cup ReplacedObjects
      BY <2>1, <2>2, <2>3
    <2>5. ReplacedObjects' = ReplacedObjects
      BY <2>1, <1>0 DEF ReplacedObjects
    <2> QED
      BY <2>1, <2>4, <2>5 DEF AliveInv, Busy
  <1>21. CASE Ended
    BY <1>21, <1>14 DEF Ended, vars
  <1>22. CASE UNCHANGED vars
    BY <1>22, <1>14 DEF vars
  <1> QED
    BY <1>1, <1>2, <1>3, <1>4, <1>5, <1>6, <1>7, <1>8, <1>9, <1>10, <1>11, <1>12, <1>13, <1>15,
       <1>16, <1>17, <1>18, <1>19, <1>20, <1>21, <1>22 DEF Next

-----------------------------------------------------------------------------
(* The ring *)

LEMMA RingInit == Init => RingInv
  BY DEF Init, RingInv

\* A step that records nothing and does not submit.
LEMMA RingKept ==
  ASSUME RingInv, UNCHANGED <<ring, uses, turn>>, pc # "submit", pc' \notin {"submit", "imgui draw"}
  PROVE  RingInv'
  BY DEF RingInv

LEMMA FrameUsesNoRing == \A o \in FrameUses : ~InRing(o)
  BY DEF FrameUses, PipelineObjects, DepthObjects, All, Each, Obj, InRing

LEMMA PassUsesNoRing == \A o \in PassUses \cup ImguiObjects : ~InRing(o)
  BY DEF PassUses, ImguiObjects, All, Obj, InRing

\* imgui writes to another element than the frame before did.
LEMMA AddImGuiRing == ASSUME TypeOK, RingInv, AddImGui PROVE RingInv'
  <1>1. pc = "imgui draw" /\ pc' = "submit" /\ turn' = turn /\ turn \in Copies
    BY DEF AddImGui, frameVars, TypeOK
  <1>2. NextElement # ring.index
    BY NextElementProperties DEF TypeOK
  <1>3. \A c \in Copies \ {turn} : uses'[c] = uses[c]
    BY DEF AddImGui, DrawLists, TypeOK
  <1>4. \A o \in uses'[turn] : InRing(o) => o.index = NextElement /\ ring'.index = NextElement
    <2>1. CASE DrawLists(NextElement)
      <3>1. PICK age \in 1 .. MaxGrowths :
              /\ ring' = [index |-> NextElement, age |-> [ring.age EXCEPT ![NextElement] = age]]
              /\ uses' = [uses EXCEPT ![turn] =
                            @ \cup PassUses \cup ImguiObjects \cup {RingBuffers(NextElement, age)}]
        BY <2>1 DEF DrawLists
      <3>2. uses'[turn] = uses[turn] \cup (PassUses \cup ImguiObjects)
                            \cup {RingBuffers(NextElement, age)}
        BY <3>1, <1>1 DEF TypeOK
      <3>3. \A o \in uses'[turn] : InRing(o) => o = RingBuffers(NextElement, age)
        BY <3>2, <1>1, PassUsesNoRing DEF RingInv
      <3> QED
        BY <3>1, <3>3 DEF RingBuffers, Obj
    <2>2. CASE \E S \in SUBSET ImguiObjects : uses' = [uses EXCEPT ![turn] = @ \cup PassUses \cup S]
      <3>1. uses'[turn] \subseteq uses[turn] \cup (PassUses \cup ImguiObjects)
        BY <2>2, <1>1 DEF TypeOK
      <3> QED
        BY <3>1, <1>1, PassUsesNoRing DEF RingInv
    <2> QED
      BY <2>1, <2>2 DEF AddImGui
  <1>5. \A c \in Copies \ {turn} : \A o \in uses'[c], p \in uses'[turn] :
          InRing(o) /\ InRing(p) => o.index # p.index
    BY <1>1, <1>2, <1>3, <1>4 DEF RingInv
  <1>6. \A o \in uses'[turn] : InRing(o) => o.index = ring'.index
    BY <1>4
  <1> QED
    BY <1>1, <1>5, <1>6 DEF RingInv

\* With two frames the other one is the one just submitted.
LEMMA SubmitRing == ASSUME FRAME_OVERLAP <= 2, TypeOK, RingInv, Submit PROVE RingInv'
  <1>1. /\ pc = "submit" /\ pc' = "poll" /\ UNCHANGED <<ring, uses>>
        /\ turn' = (turn + 1) % FRAME_OVERLAP
    BY DEF Submit, Frames!HandOver, recordVars
  <1>2. turn \in 0 .. FRAME_OVERLAP - 1
    BY DEF TypeOK, Copies
  <1>3. FRAME_OVERLAP \in {1, 2}
    BY LifetimeAssumption, SMT
  <1>4. \A c \in Copies \ {turn'} : c = turn
    BY <1>1, <1>2, <1>3, SMT DEF Copies
  <1> QED
    BY <1>1, <1>4 DEF RingInv

LEMMA RingNext ==
  ASSUME FRAME_OVERLAP <= 2 PROVE TypeOK /\ RingInv /\ [Next]_vars => RingInv'
  <1> SUFFICES ASSUME TypeOK, RingInv, [Next]_vars PROVE RingInv'
    OBVIOUS
  <1> USE DEF recordVars, frameVars
  <1>1. CASE InitVulkan \/ CreateSwapchain \/ InitObjects \/ InitImguiRenderpass \/ InitImgui
             \/ CreateRenderTarget \/ InitShaders \/ LoadScene
    <2>1. /\ UNCHANGED <<ring, uses, turn>>
          /\ pc \notin {"submit", "record"} /\ pc' \notin {"submit", "imgui draw"}
      BY <1>1 DEF InitVulkan, CreateSwapchain, InitObjects, InitImguiRenderpass, InitImgui,
                  CreateRenderTarget, InitShaders, LoadScene, Start
    <2> QED
      BY <2>1, RingKept
  <1>2. CASE Abort
    BY <1>2, RingKept DEF Abort
  <1>3. CASE BeginFrame
    BY <1>3, RingKept DEF BeginFrame, Frames!Begin
  <1>4. CASE Record
    <2>1. /\ pc = "record" /\ pc' = "imgui draw" /\ UNCHANGED <<ring, turn>> /\ turn \in Copies
          /\ uses' = [uses EXCEPT ![turn] = FrameUses]
      BY <1>4 DEF Record, TypeOK
    <2>2. uses'[turn] = FrameUses /\ \A c \in Copies \ {turn} : uses'[c] = uses[c]
      BY <2>1 DEF TypeOK
    <2> QED
      BY <2>1, <2>2, FrameUsesNoRing DEF RingInv
  <1>5. CASE AddImGui
    BY <1>5, AddImGuiRing
  <1>6. CASE Submit
    BY <1>6, SubmitRing
  <1>7. CASE UNCHANGED <<pc, recordVars, turn>>
    BY <1>7 DEF RingInv
  <1>8. CASE Complete
    BY <1>8, <1>7 DEF Complete, Frames!GiveBack
  <1>9. CASE GiveUpFrame
    BY <1>9, RingKept DEF GiveUpFrame
  <1>10. CASE WaitIdle
    BY <1>10, RingKept DEF WaitIdle
  <1>11. CASE DestroySwapchain
    BY <1>11, RingKept DEF DestroySwapchain
  <1>12. CASE RecreateTargets
    BY <1>12, RingKept DEF RecreateTargets
  <1>13. CASE Deinit
    BY <1>13, RingKept DEF Deinit
  <1>14. CASE Ended \/ UNCHANGED vars
    BY <1>14, <1>7 DEF Ended, vars
  <1> QED
    BY <1>1, <1>2, <1>3, <1>4, <1>5, <1>6, <1>8, <1>9, <1>10, <1>11, <1>12, <1>13, <1>14 DEF Next

-----------------------------------------------------------------------------
(* Use *)

\* The frames whose commands must find their objects.
Recorded == Executed \cup {d \in {turn} : pc \in {"imgui draw", "submit"}}

\* The literal numbers of pools and sets are enough for two frames.
LEMMA FrameUsesAlive ==
  ASSUME FRAME_OVERLAP <= 2, TypeOK, AliveInv, pc = "record" PROVE FrameUses \ missing \subseteq alive
  <1>1. alive = LastingObjects \cup DescriptorObjects \cup ReplacedObjects
    BY DEF AliveInv, Busy
  <1>2. turn \in Copies /\ turn \in 0 .. 1
    <2>1. turn \in 0 .. FRAME_OVERLAP - 1
      BY DEF TypeOK, Copies
    <2> QED
      BY <2>1, LifetimeAssumption, SMT DEF Copies
  <1>3. image \in 1 .. swapchain.images
    BY DEF TypeOK
  <1>4. /\ Obj("commandPool", turn, 0) \in CommandObjects
        /\ \A n \in {"renderFen", "presentSem", "renderSem"} : Obj(n, turn, 0) \in SyncObjects
        /\ Obj("buffers", turn, 0) \in BufferObjects
        /\ \A n \in {"globalSet", "sceneSet"} : Obj(n, turn, 0) \in DescriptorObjects \cup missing
    BY <1>2 DEF CommandObjects, SyncObjects, BufferObjects, DescriptorObjects, DescriptorSets, Each
  <1>5. Each({"commandPool", "renderFen", "presentSem", "renderSem", "buffers", "globalSet",
              "sceneSet"}, {turn}, 0) \ missing \subseteq alive
    <2> SUFFICES ASSUME NEW n \in {"commandPool", "renderFen", "presentSem", "renderSem",
                                   "buffers", "globalSet", "sceneSet"}
                 PROVE  Obj(n, turn, 0) \in alive \cup missing
      BY DEF Each
    <2> QED
      BY <1>1, <1>4 DEF LastingObjects
  <1>6. PipelineObjects \cup All({"sampler", "scene"}) \subseteq alive
    <2>1. All({"sampler", "scene"}) = All({"sampler"}) \cup All({"scene"})
      BY DEF All
    <2> QED
      BY <1>1, <2>1 DEF LastingObjects
  <1>7. {Obj("swapchain", 0, swapchain.age), Obj("view", image, swapchain.age)} \subseteq alive
    <2>1. {Obj("swapchain", 0, swapchain.age), Obj("view", image, swapchain.age)}
            \subseteq SwapchainObjects(swapchain)
      BY <1>3 DEF SwapchainObjects, Each
    <2> QED
      BY <1>1, <2>1 DEF ReplacedObjects
  <1>8. DepthObjects(depthImage) \subseteq alive
    BY <1>1 DEF ReplacedObjects
  <1> QED
    BY <1>5, <1>6, <1>7, <1>8 DEF FrameUses

LEMMA EachHas == \A n, ks, age : \A k \in ks : Obj(n, k, age) \in Each({n}, ks, age)
  BY DEF Each

LEMMA PassUsesAlive ==
  ASSUME TypeOK, MemberInv, AliveInv, pc = "imgui draw"
  PROVE  PassUses \cup ImguiObjects \subseteq alive \ {o \in alive : InRing(o)}
  <1>1. alive = LastingObjects \cup DescriptorObjects \cup ReplacedObjects
    BY DEF AliveInv, Busy
  <1>2. image \in 1 .. framebuffers.images
    BY DEF TypeOK, MemberInv, Busy
  <1>3. PassUses \subseteq PassObjects(framebuffers)
    <2>1. Obj("framebuffer", image, framebuffers.age)
            \in Each({"framebuffer"}, 1 .. framebuffers.images, framebuffers.age)
      BY <1>2, EachHas
    <2> QED
      BY <2>1 DEF PassUses, PassObjects
  <1>4. PassUses \cup ImguiObjects \subseteq alive
    BY <1>1, <1>3 DEF LastingObjects, ReplacedObjects
  <1> QED
    BY <1>4, PassUsesNoRing

\* A step that records and destroys nothing, and after which no more frames are
\* executed or recorded than before.
LEMMA UseKept ==
  ASSUME InUseAlive, uses' = uses, missing' = missing, alive \subseteq alive',
         Recorded' \subseteq Recorded
  PROVE  InUseAlive'
  <1>1. \A c \in Recorded : uses[c] \ missing \subseteq alive
    BY DEF InUseAlive, Recorded
  <1>2. \A c \in Recorded' : uses'[c] \ missing' \subseteq alive'
    BY <1>1
  <1> QED
    BY <1>2 DEF InUseAlive, Recorded

LEMMA NoPlaces == \A n : n = 0 => \A k : k \notin 1 .. n
  BY SMT

\* The same of a step after which nothing is executed or recorded.
LEMMA UseNothing ==
  ASSUME reading' = <<>>, pc' \notin {"imgui draw", "submit"} PROVE InUseAlive'
  <1>1. Executed' = {}
    <2>1. Len(reading') = 0
      BY EmptySeq
    <2> QED
      BY <2>1, NoPlaces DEF Executed, Frames!IsRead
  <1> QED
    BY <1>1 DEF InUseAlive

\* imgui's new buffers replace none that a frame uses.
LEMMA AddImGuiUse ==
  ASSUME TypeOK, FramesInv, MemberInv, AliveInv, RingInv, InUseAlive, AddImGui
  PROVE  InUseAlive'
  <1>1. /\ pc = "imgui draw" /\ pc' = "submit" /\ turn' = turn /\ turn \in Copies
        /\ Executed' = Executed /\ turn \notin Executed /\ missing' = missing
    BY SameExecuted DEF AddImGui, memberVars, frameVars, TypeOK, FramesInv
  <1>2. /\ uses[turn] \ missing \subseteq alive
        /\ \A c \in Executed : uses[c] \ missing \subseteq alive
    BY <1>1 DEF InUseAlive
  <1>3. PassUses \cup ImguiObjects \subseteq alive \ {o \in alive : InRing(o)}
    BY <1>1, PassUsesAlive
  <1>4. \A c \in Executed : uses'[c] = uses[c]
    BY <1>1 DEF AddImGui, DrawLists, TypeOK, Executed
  <1>5. /\ uses'[turn] \ missing \subseteq alive'
        /\ \A c \in Executed : uses'[c] \ missing \subseteq alive'
    <2>1. CASE DrawLists(NextElement)
      <3> DEFINE Old == RingBuffers(NextElement, ring.age[NextElement])
      <3>1. PICK age \in 1 .. MaxGrowths :
              /\ alive' = (alive \ {Old}) \cup {RingBuffers(NextElement, age)}
              /\ uses' = [uses EXCEPT ![turn] =
                            @ \cup PassUses \cup ImguiObjects \cup {RingBuffers(NextElement, age)}]
        BY <2>1 DEF DrawLists
      <3>2. uses'[turn] = uses[turn] \cup (PassUses \cup ImguiObjects)
                            \cup {RingBuffers(NextElement, age)}
        BY <3>1, <1>1 DEF TypeOK
      <3>3. InRing(Old) /\ Old.index = NextElement
        BY DEF RingBuffers, Obj, InRing
      <3>4. NextElement # ring.index
        BY NextElementProperties DEF TypeOK
      <3>5. Old \notin uses[turn] /\ \A c \in Executed : Old \notin uses[c]
        <4> HIDE DEF Old
        <4>1. Old \notin uses[turn]
          BY <1>1, <3>3 DEF RingInv
        <4>2. \A c \in Executed : c \in Copies \ {turn}
          BY <1>1 DEF Executed
        <4> QED
          BY <1>1, <3>3, <3>4, <4>1, <4>2 DEF RingInv
      <3> HIDE DEF Old
      <3>6. uses'[turn] \ missing \subseteq alive'
        BY <3>1, <3>2, <3>3, <3>5, <1>2, <1>3
      <3>7. \A c \in Executed : uses'[c] \ missing \subseteq alive'
        BY <3>1, <3>5, <1>2, <1>4
      <3> QED
        BY <3>6, <3>7
    <2>2. CASE /\ \E S \in SUBSET ImguiObjects :
                    uses' = [uses EXCEPT ![turn] = @ \cup PassUses \cup S]
               /\ UNCHANGED alive
      <3>1. uses'[turn] \subseteq uses[turn] \cup (PassUses \cup ImguiObjects)
        BY <2>2, <1>1 DEF TypeOK
      <3> QED
        BY <3>1, <2>2, <1>2, <1>3, <1>4
    <2> QED
      BY <2>1, <2>2 DEF AddImGui
  <1> QED
    BY <1>1, <1>5 DEF InUseAlive

LEMMA UseNext ==
  ASSUME FRAME_OVERLAP <= 2
  PROVE  TypeOK /\ FramesInv /\ MemberInv /\ AliveInv /\ RingInv /\ InUseAlive /\ [Next]_vars
           => InUseAlive'
  <1> SUFFICES ASSUME TypeOK, FramesInv, MemberInv, AliveInv, RingInv, InUseAlive, [Next]_vars
               PROVE  InUseAlive'
    OBVIOUS
  <1> USE DEF memberVars, recordVars, frameVars
  <1>0. reading' = reading => Executed' = Executed
    BY SameExecuted
  <1>1. CASE InitVulkan \/ CreateSwapchain \/ InitObjects \/ InitImguiRenderpass \/ InitImgui
             \/ CreateRenderTarget \/ InitShaders \/ LoadScene
    <2>1. /\ pc \notin Busy \cup {"aborted"} /\ pc' \notin {"imgui draw", "submit"}
          /\ reading' = reading
      BY <1>1 DEF InitVulkan, CreateSwapchain, InitObjects, InitImguiRenderpass, InitImgui,
                  CreateRenderTarget, InitShaders, LoadScene, Start, Busy
    <2> QED
      BY <2>1, UseNothing DEF FramesInv
  <1>2. CASE Abort
    <2>1. UNCHANGED <<uses, alive, missing, turn, reading>> /\ pc' = "aborted"
      BY <1>2 DEF Abort
    <2>2. Recorded' \subseteq Recorded
      BY <2>1, <1>0 DEF Recorded
    <2> QED
      BY <2>1, <2>2, UseKept
  <1>3. CASE BeginFrame
    <2>1. /\ UNCHANGED <<uses, alive, missing, turn, reading>> /\ pc' = "record"
      BY <1>3 DEF BeginFrame, Frames!Begin
    <2>2. Recorded' \subseteq Recorded
      BY <2>1, <1>0 DEF Recorded
    <2> QED
      BY <2>1, <2>2, UseKept
  <1>4. CASE Record
    <2>1. /\ pc = "record" /\ pc' = "imgui draw" /\ UNCHANGED <<alive, missing, turn, reading>>
          /\ uses' = [uses EXCEPT ![turn] = FrameUses] /\ turn \in Copies
      BY <1>4 DEF Record, TypeOK
    <2>2. turn \notin Executed
      BY <2>1 DEF FramesInv
    <2>3. uses'[turn] = FrameUses /\ \A c \in Executed : uses'[c] = uses[c]
      BY <2>1, <2>2 DEF TypeOK, Executed
    <2>4. FrameUses \ missing \subseteq alive
      BY <2>1, FrameUsesAlive
    <2>5. \A c \in Executed : uses[c] \ missing \subseteq alive
      BY DEF InUseAlive
    <2>6. Recorded' = Executed \cup {turn}
      BY <2>1, <1>0 DEF Recorded
    <2>7. \A c \in Recorded' : uses'[c] \ missing' \subseteq alive'
      BY <2>1, <2>3, <2>4, <2>5, <2>6
    <2> QED
      BY <2>7 DEF InUseAlive, Recorded
  <1>5. CASE AddImGui
    BY <1>5, AddImGuiUse
  <1>6. CASE Submit
    <2>1. /\ UNCHANGED <<uses, alive, missing>> /\ pc = "submit" /\ pc' = "poll"
          /\ reading' = Append(reading, turn)
      BY <1>6 DEF Submit, Frames!HandOver
    <2>2. Executed' \subseteq Executed \cup {turn}
      BY <2>1, HandOverExecutes DEF TypeOK
    <2>3. Recorded' \subseteq Recorded
      BY <2>1, <2>2 DEF Recorded
    <2> QED
      BY <2>1, <2>3, UseKept
  <1>7. CASE Complete
    <2>1. /\ UNCHANGED <<pc, uses, alive, missing, turn>> /\ reading # <<>> /\ reading' = Tail(reading)
      BY <1>7 DEF Complete, Frames!GiveBack
    <2>2. Executed' \subseteq Executed
      BY <2>1, GiveBackExecutes DEF TypeOK
    <2>3. Recorded' \subseteq Recorded
      BY <2>1, <2>2 DEF Recorded
    <2> QED
      BY <2>1, <2>3, UseKept
  <1>8. CASE GiveUpFrame
    <2>1. /\ UNCHANGED <<uses, alive, missing, turn, reading>> /\ pc' = "idle"
      BY <1>8 DEF GiveUpFrame
    <2>2. Recorded' \subseteq Recorded
      BY <2>1, <1>0 DEF Recorded
    <2> QED
      BY <2>1, <2>2, UseKept
  <1>9. CASE WaitIdle \/ DestroySwapchain \/ RecreateTargets \/ Deinit
    <2>1. reading' = reading /\ pc' \notin {"imgui draw", "submit"}
          /\ (reading = <<>> \/ pc \notin Busy \cup {"aborted"})
      BY <1>9 DEF WaitIdle, DestroySwapchain, RecreateTargets, Deinit, Busy
    <2> QED
      BY <2>1, UseNothing DEF FramesInv
  <1>10. CASE Ended \/ UNCHANGED vars
    <2>1. UNCHANGED <<pc, uses, alive, missing, turn, reading>>
      BY <1>10 DEF Ended, vars
    <2>2. Recorded' \subseteq Recorded
      BY <2>1, <1>0 DEF Recorded
    <2> QED
      BY <2>1, <2>2, UseKept
  <1> QED
    BY <1>1, <1>2, <1>3, <1>4, <1>5, <1>6, <1>7, <1>8, <1>9, <1>10 DEF Next

-----------------------------------------------------------------------------
(* The order in which objects are made *)

\* imgui's pipeline is made with the render pass of the first swapchain.
AgeInv ==
  /\ pc = "vulkan" \/ (pc = "swapchain" /\ ~Started) => swapchain.age = 0
  /\ pc = "objects" \/ (pc = "pass" /\ ~Started) \/ pc = "imgui" => swapchain.age = 1

LEMMA AgeNext == TypeOK /\ MemberInv /\ AgeInv /\ [Next]_vars => AgeInv'
  <1> SUFFICES ASSUME TypeOK, MemberInv, AgeInv, [Next]_vars PROVE AgeInv'
    OBVIOUS
  <1> USE DEF memberVars, recordVars
  <1>0. depthImage' = depthImage => Started' = Started
    BY DEF Started
  <1>1. CASE InitVulkan
    BY <1>1, <1>0 DEF InitVulkan, Start, AgeInv
  <1>2. CASE CreateSwapchain
    <2>1. /\ pc = "swapchain" /\ pc' = IF Started THEN "targets" ELSE "objects"
          /\ depthImage' = depthImage /\ swapchain'.age = swapchain.age + 1
      BY <1>2 DEF CreateSwapchain, Start
    <2> QED
      BY <2>1, <1>0 DEF AgeInv
  <1>3. CASE InitObjects \/ InitImguiRenderpass
    <2>1. /\ UNCHANGED <<swapchain, depthImage>> /\ pc \in {"objects", "pass"}
          /\ pc = "objects" => pc' = "pass"
          /\ pc = "pass" => pc' = IF Started THEN "poll" ELSE "imgui"
      BY <1>3 DEF InitObjects, InitImguiRenderpass, Start
    <2> QED
      BY <2>1, <1>0 DEF AgeInv
  <1>4. CASE InitImgui \/ CreateRenderTarget \/ InitShaders \/ LoadScene \/ Abort
    <2>1. pc' \in {"target", "shaders", "scene", "poll", "aborted"}
      BY <1>4 DEF InitImgui, CreateRenderTarget, InitShaders, LoadScene, Abort, Start
    <2> QED
      BY <2>1 DEF AgeInv
  <1>5. CASE BeginFrame \/ Record \/ AddImGui \/ Submit \/ GiveUpFrame \/ WaitIdle \/ Deinit
    <2>1. pc' \in {"record", "imgui draw", "submit", "poll", "idle", "destroy", "ended"}
      BY <1>5 DEF BeginFrame, Record, AddImGui, Submit, GiveUpFrame, WaitIdle, Deinit
    <2> QED
      BY <2>1 DEF AgeInv
  <1>6. CASE DestroySwapchain
    <2>1. pc = "destroy" /\ pc' = "swapchain" /\ depthImage' = depthImage
      BY <1>6 DEF DestroySwapchain
    <2> QED
      BY <2>1, <1>0 DEF AgeInv, MemberInv
  <1>7. CASE RecreateTargets
    <2>1. pc' = "pass" /\ Started'
      BY <1>7, StartedAfterNext DEF RecreateTargets, TypeOK
    <2> QED
      BY <2>1 DEF AgeInv
  <1>8. CASE Complete \/ Ended \/ UNCHANGED vars
    <2>1. UNCHANGED <<pc, swapchain, depthImage>>
      BY <1>8 DEF Complete, Ended, vars
    <2> QED
      BY <2>1, <1>0 DEF AgeInv
  <1> QED
    BY <1>1, <1>2, <1>3, <1>4, <1>5, <1>6, <1>7, <1>8 DEF Next

\* MadeFrom, a name at a time.
LEMMA MadeFromNames ==
  ASSUME NEW o
  PROVE  /\ o.name = "instance" => MadeFrom(o) = {}
         /\ o.name \in {"surface", "device"} => MadeFrom(o) = All({"instance"})
         /\ o.name = "swapchain" => MadeFrom(o) = All({"device", "surface"})
         /\ o.name = "view" => MadeFrom(o) = {Obj("swapchain", 0, o.age)}
         /\ o.name = "framebuffer" =>
              MadeFrom(o) = {Obj("view", o.index, o.age), Obj("pass", 0, o.age)}
         /\ o.name = "imguiPipeline" =>
              MadeFrom(o) = {Obj("pass", 0, 1)} \cup All({"uploadPool", "uploadFence"})
         /\ o.name \in {"buffers", "depth"} => MadeFrom(o) = All({"allocator"})
         /\ o.name \in {"globalSet", "sceneSet"} =>
              MadeFrom(o) = All({"globalPool", "scenePool", "globalSetLayout", "sceneSetLayout"})
                              \cup {Obj("buffers", o.index, 0)}
         /\ o.name = "pipelineLayout" => MadeFrom(o) = All({"globalSetLayout", "sceneSetLayout"})
         /\ o.name \in {"defaultPipeline", "skyboxPipeline"} =>
              MadeFrom(o) = All({"pipelineLayout"})
         /\ o.name = "scene" =>
              MadeFrom(o) = All({"allocator", "uploadPool", "uploadFence", "sampler"})
                              \cup Each({"globalSet"}, Copies, 0)
         /\ o.name \in {"allocator", "commandPool", "uploadPool", "computePool", "renderFen",
                        "presentSem", "renderSem", "uploadFence", "sampler", "imguiPool",
                        "globalPool", "scenePool", "globalSetLayout", "sceneSetLayout",
                        "pass", "imguiBuffers"} => MadeFrom(o) = All({"device"})
  BY DEF MadeFrom

\* What the objects in S are made from exists among the objects in A.
Made(S, A) == \A o \in S : MadeFrom(o) \subseteq A

DeviceNames ==
  {"allocator", "commandPool", "uploadPool", "computePool", "renderFen", "presentSem",
   "renderSem", "uploadFence", "sampler", "imguiPool", "globalPool", "scenePool",
   "globalSetLayout", "sceneSetLayout", "pass", "imguiBuffers"}

LEMMA DeviceMade ==
  ASSUME NEW S, NEW A, Obj("device", 0, 0) \in A, \A o \in S : o.name \in DeviceNames
  PROVE  Made(S, A)
  <1> SUFFICES ASSUME NEW o \in S PROVE MadeFrom(o) \subseteq A
    BY DEF Made
  <1>1. MadeFrom(o) = All({"device"})
    BY MadeFromNames DEF DeviceNames
  <1> QED
    BY <1>1 DEF All

LEMMA VulkanMade == ASSUME NEW A, VulkanObjects \subseteq A PROVE Made(VulkanObjects, A)
  <1> SUFFICES ASSUME NEW o \in VulkanObjects PROVE MadeFrom(o) \subseteq A
    BY DEF Made
  <1>1. Obj("instance", 0, 0) \in A /\ Obj("device", 0, 0) \in A
    BY DEF VulkanObjects, All
  <1>2. o.name \in {"instance", "surface", "device", "allocator"}
    BY DEF VulkanObjects, All, Obj
  <1>3. MadeFrom(o) \in {{}, All({"instance"}), All({"device"})}
    BY <1>2, MadeFromNames
  <1> QED
    BY <1>1, <1>3 DEF All

LEMMA SwapchainMade ==
  ASSUME NEW s, NEW A, VulkanObjects \cup SwapchainObjects(s) \subseteq A
  PROVE  Made(SwapchainObjects(s), A)
  <1>1. Obj("surface", 0, 0) \in A /\ Obj("device", 0, 0) \in A /\ Obj("swapchain", 0, s.age) \in A
    BY DEF VulkanObjects, All, SwapchainObjects
  <1>2. MadeFrom(Obj("swapchain", 0, s.age)) \subseteq A
    <2>1. MadeFrom(Obj("swapchain", 0, s.age)) = All({"device", "surface"})
      BY MadeFromNames DEF Obj
    <2> QED
      BY <1>1, <2>1 DEF All
  <1>3. ASSUME NEW k PROVE MadeFrom(Obj("view", k, s.age)) \subseteq A
    <2>1. MadeFrom(Obj("view", k, s.age)) = {Obj("swapchain", 0, Obj("view", k, s.age).age)}
      BY MadeFromNames DEF Obj
    <2>2. Obj("view", k, s.age).age = s.age
      BY DEF Obj
    <2> QED
      BY <1>1, <2>1, <2>2
  <1> QED
    BY <1>2, <1>3 DEF Made, SwapchainObjects, Each

LEMMA PassMade ==
  ASSUME NEW s, NEW A, VulkanObjects \cup SwapchainObjects(s) \cup PassObjects(s) \subseteq A
  PROVE  Made(PassObjects(s), A)
  <1>1. /\ Obj("device", 0, 0) \in A /\ Obj("pass", 0, s.age) \in A
        /\ \A k \in 1 .. s.images : Obj("view", k, s.age) \in A
    BY DEF VulkanObjects, All, SwapchainObjects, PassObjects, Each
  <1>2. MadeFrom(Obj("pass", 0, s.age)) \subseteq A
    <2>1. MadeFrom(Obj("pass", 0, s.age)) = All({"device"})
      BY MadeFromNames DEF Obj
    <2> QED
      BY <1>1, <2>1 DEF All
  <1>3. ASSUME NEW k \in 1 .. s.images PROVE MadeFrom(Obj("framebuffer", k, s.age)) \subseteq A
    <2> DEFINE o == Obj("framebuffer", k, s.age)
    <2>1. o.name = "framebuffer" /\ o.index = k /\ o.age = s.age
      BY DEF Obj
    <2> HIDE DEF o
    <2>2. MadeFrom(o) = {Obj("view", k, s.age), Obj("pass", 0, s.age)}
      BY <2>1, MadeFromNames
    <2> QED
      BY <1>1, <2>2 DEF o
  <1> QED
    BY <1>2, <1>3 DEF Made, PassObjects, Each

LEMMA DepthMade ==
  ASSUME NEW age, NEW A, VulkanObjects \subseteq A PROVE Made(DepthObjects(age), A)
  <1> SUFFICES ASSUME NEW o \in DepthObjects(age) PROVE MadeFrom(o) \subseteq A
    BY DEF Made
  <1>1. MadeFrom(o) = All({"allocator"})
    BY DepthNames, MadeFromNames
  <1> QED
    BY <1>1 DEF VulkanObjects, All

\* imgui's pipeline is made with the pass that is there, the first.
LEMMA ImguiMade ==
  ASSUME NEW A, BeforePass \subseteq A, Obj("pass", 0, 1) \in A
  PROVE  Made(ImguiObjects, A)
  <1>1. /\ Obj("device", 0, 0) \in A /\ Obj("uploadPool", 0, 0) \in A
        /\ Obj("uploadFence", 0, 0) \in A
    BY DEF BeforePass, VulkanObjects, CommandObjects, SyncObjects, All
  <1> SUFFICES ASSUME NEW o \in ImguiObjects PROVE MadeFrom(o) \subseteq A
    BY DEF Made
  <1>2. o.name \in {"imguiPool", "imguiPipeline"}
    BY DEF ImguiObjects, All, Obj
  <1>3. \/ MadeFrom(o) = All({"device"})
        \/ MadeFrom(o) = {Obj("pass", 0, 1)} \cup All({"uploadPool", "uploadFence"})
    BY <1>2, MadeFromNames
  <1> QED
    BY <1>1, <1>3 DEF All

PoolObjects == All({"globalPool", "scenePool", "globalSetLayout", "sceneSetLayout"})

\* A set is made with the buffers of its frame, the pipelines with the layout.
LEMMA ShadersMade ==
  ASSUME NEW A,
         VulkanObjects \cup PoolObjects \cup BufferObjects \cup PipelineObjects \subseteq A
  PROVE  Made(PoolObjects \cup DescriptorSets \cup BufferObjects \cup PipelineObjects, A)
  <1>1. /\ Obj("device", 0, 0) \in A /\ Obj("allocator", 0, 0) \in A
        /\ Obj("pipelineLayout", 0, 0) \in A
        /\ \A k \in Copies : Obj("buffers", k, 0) \in A
    BY DEF VulkanObjects, BufferObjects, PipelineObjects, All, Each
  <1>2. ASSUME NEW o \in PoolObjects PROVE MadeFrom(o) \subseteq A
    <2>1. o.name \in {"globalPool", "scenePool", "globalSetLayout", "sceneSetLayout"}
      BY DEF PoolObjects, All, Obj
    <2>2. MadeFrom(o) = All({"device"})
      BY <2>1, MadeFromNames
    <2> QED
      BY <1>1, <2>2 DEF All
  <1>3. ASSUME NEW n \in {"globalSet", "sceneSet"}, NEW k \in Copies
        PROVE  MadeFrom(Obj(n, k, 0)) \subseteq A
    <2> DEFINE o == Obj(n, k, 0)
    <2>1. o.name \in {"globalSet", "sceneSet"} /\ o.index = k
      BY DEF Obj
    <2> HIDE DEF o
    <2>2. MadeFrom(o) = PoolObjects \cup {Obj("buffers", k, 0)}
      BY <2>1, MadeFromNames DEF PoolObjects
    <2> QED
      BY <1>1, <2>2 DEF o
  <1>4. ASSUME NEW o \in BufferObjects PROVE MadeFrom(o) \subseteq A
    <2>1. o.name = "buffers"
      BY DEF BufferObjects, Each, Obj
    <2>2. MadeFrom(o) = All({"allocator"})
      BY <2>1, MadeFromNames
    <2> QED
      BY <1>1, <2>2 DEF All
  <1>5. ASSUME NEW o \in PipelineObjects PROVE MadeFrom(o) \subseteq A
    <2>1. o.name \in {"pipelineLayout", "defaultPipeline", "skyboxPipeline"}
      BY DEF PipelineObjects, All, Obj
    <2>2. \/ MadeFrom(o) = All({"globalSetLayout", "sceneSetLayout"})
          \/ MadeFrom(o) = All({"pipelineLayout"})
      BY <2>1, MadeFromNames
    <2>3. All({"globalSetLayout", "sceneSetLayout"}) \subseteq A
      BY DEF PoolObjects, All
    <2> QED
      BY <1>1, <2>2, <2>3 DEF All
  <1>6. \A o \in PoolObjects \cup DescriptorSets : MadeFrom(o) \subseteq A
    BY <1>2, <1>3 DEF DescriptorSets, Each
  <1> QED
    BY <1>4, <1>5, <1>6 DEF Made

\* The textures of the scene are put into a set of every frame that has one.
LEMMA SceneMade ==
  ASSUME NEW A, BeforePass \cup DescriptorObjects \subseteq A
  PROVE  \A o \in All({"scene"}) : MadeFrom(o) \subseteq A \cup missing
  <1>1. Each({"globalSet"}, Copies, 0) \subseteq A \cup missing
    BY DEF DescriptorObjects, DescriptorSets, Each
  <1>2. All({"allocator", "uploadPool", "uploadFence", "sampler"}) \subseteq A
    BY DEF BeforePass, VulkanObjects, CommandObjects, SyncObjects, All
  <1> SUFFICES ASSUME NEW o \in All({"scene"}) PROVE MadeFrom(o) \subseteq A \cup missing
    OBVIOUS
  <1>3. o.name = "scene"
    BY DEF All, Obj
  <1>4. MadeFrom(o) = All({"allocator", "uploadPool", "uploadFence", "sampler"})
                        \cup Each({"globalSet"}, Copies, 0)
    BY <1>3, MadeFromNames
  <1> QED
    BY <1>1, <1>2, <1>4

\* What exists from the start to the end.
LEMMA VulkanAlive ==
  ASSUME AliveInv, pc \notin {"vulkan", "aborted"}, TypeOK PROVE VulkanObjects \subseteq alive
  <1>1. VulkanObjects \subseteq BeforePass /\ VulkanObjects \subseteq LastingObjects
    BY DEF BeforePass, LastingObjects
  <1>2. VulkanObjects \subseteq BeforeScene /\ VulkanObjects \subseteq Untouched
    BY <1>1 DEF BeforeScene, Untouched
  <1> QED
    BY <1>1, <1>2 DEF AliveInv, TypeOK, Busy

\* What MadeFromLive says of a step.
OrderKept ==
  \A o \in alive' \ alive :
    MadeFrom(o) \subseteq alive' \cup {p \in missing' : o.name = "scene"}

LEMMA MadeOnlyNew ==
  ASSUME NEW S, alive' \subseteq alive \cup S, Made(S, alive')
  PROVE  OrderKept
  BY DEF Made, OrderKept

LEMMA MadeNext ==
  ASSUME TypeOK, MemberInv, AliveInv, AgeInv, [Next]_vars
  PROVE  OrderKept
  <1> USE DEF memberVars, recordVars
  <1>1. CASE InitVulkan
    <2>1. alive' = VulkanObjects
      BY <1>1 DEF InitVulkan, Start, AliveInv
    <2> QED
      BY <2>1, VulkanMade, MadeOnlyNew
  <1>2. CASE CreateSwapchain
    <2>1. pc = "swapchain" /\ alive' = alive \cup SwapchainObjects(swapchain')
      BY <1>2 DEF CreateSwapchain, Start
    <2>2. VulkanObjects \subseteq alive'
      BY <2>1, VulkanAlive
    <2>3. Made(SwapchainObjects(swapchain'), alive')
      BY <2>1, <2>2, SwapchainMade
    <2> QED
      BY <2>1, <2>3, MadeOnlyNew
  <1>3. CASE InitObjects
    <2> DEFINE S == CommandObjects \cup SyncObjects \cup All({"sampler"})
    <2>1. pc = "objects" /\ alive' = alive \cup S
      BY <1>3 DEF InitObjects, Start
    <2>2. Obj("device", 0, 0) \in alive'
      BY <2>1, VulkanAlive DEF VulkanObjects, All
    <2>3. \A o \in S : o.name \in DeviceNames
      BY DEF CommandObjects, SyncObjects, All, Each, Obj, DeviceNames
    <2> HIDE DEF S
    <2>4. Made(S, alive')
      BY <2>2, <2>3, DeviceMade
    <2> QED
      BY <2>1, <2>4, MadeOnlyNew
  <1>4. CASE InitImguiRenderpass
    <2>1. pc = "pass" /\ alive' = alive \cup PassObjects(swapchain)
      BY <1>4 DEF InitImguiRenderpass, Start
    <2>2. SwapchainObjects(swapchain) \subseteq alive
      BY <2>1 DEF AliveInv
    <2>3. VulkanObjects \subseteq alive
      BY <2>1, VulkanAlive
    <2>4. Made(PassObjects(swapchain), alive')
      BY <2>1, <2>2, <2>3, PassMade
    <2> QED
      BY <2>1, <2>4, MadeOnlyNew
  <1>5. CASE InitImgui
    <2>1. pc = "imgui" /\ alive' = alive \cup ImguiObjects
      BY <1>5 DEF InitImgui, Start
    <2>2. BeforePass \subseteq alive /\ PassObjects(framebuffers) \subseteq alive
      BY <2>1 DEF AliveInv
    <2>3. framebuffers.age = 1
      BY <2>1 DEF MemberInv, AgeInv
    <2>4. Obj("pass", 0, 1) \in alive
      BY <2>2, <2>3 DEF PassObjects
    <2>5. Made(ImguiObjects, alive')
      BY <2>1, <2>2, <2>4, ImguiMade
    <2> QED
      BY <2>1, <2>5, MadeOnlyNew
  <1>6. CASE CreateRenderTarget
    <2>1. pc = "target" /\ alive' = alive \cup DepthObjects(1)
      BY <1>6 DEF CreateRenderTarget, Start
    <2>2. Made(DepthObjects(1), alive')
      BY <2>1, VulkanAlive, DepthMade
    <2> QED
      BY <2>1, <2>2, MadeOnlyNew
  <1>7. CASE InitShaders
    <2> DEFINE S == DescriptorObjects' \cup BufferObjects \cup PipelineObjects
    <2>1. pc = "shaders" /\ alive' = alive \cup S
      BY <1>7 DEF InitShaders, Start
    <2>2. Made(S, alive')
      <3>1. VulkanObjects \subseteq alive
        BY <2>1, VulkanAlive
      <3>2. PoolObjects \subseteq S /\ S \subseteq PoolObjects \cup DescriptorSets \cup BufferObjects
                                                    \cup PipelineObjects
        BY DEF PoolObjects, DescriptorObjects
      <3>3. BufferObjects \cup PipelineObjects \subseteq S
        OBVIOUS
      <3> HIDE DEF S
      <3>4. Made(PoolObjects \cup DescriptorSets \cup BufferObjects \cup PipelineObjects, alive')
        BY <2>1, <3>1, <3>2, <3>3, ShadersMade
      <3> QED
        BY <3>2, <3>4 DEF Made
    <2> QED
      BY <2>1, <2>2, MadeOnlyNew
  <1>8. CASE LoadScene
    <2>1. pc = "scene" /\ alive' = alive \cup All({"scene"}) /\ missing' = missing
      BY <1>8 DEF LoadScene, Start
    <2>2. BeforePass \cup DescriptorObjects \subseteq alive
      BY <2>1 DEF AliveInv, BeforeScene
    <2>3. \A o \in All({"scene"}) : MadeFrom(o) \subseteq alive \cup missing
      BY <2>2, SceneMade
    <2>4. \A o \in All({"scene"}) : o.name = "scene"
      BY DEF All, Obj
    <2> QED
      BY <2>1, <2>3, <2>4 DEF OrderKept
  <1>9. CASE AddImGui
    <2>1. CASE DrawLists(NextElement)
      <3>1. pc = "imgui draw" /\ VulkanObjects \subseteq alive
        BY <1>9, VulkanAlive DEF AddImGui
      <3>2. PICK age : alive' = (alive \ {RingBuffers(NextElement, ring.age[NextElement])})
                                  \cup {RingBuffers(NextElement, age)}
        BY <2>1 DEF DrawLists
      <3>3. Obj("device", 0, 0) \in alive'
        BY <3>1, <3>2 DEF VulkanObjects, All, RingBuffers, Obj
      <3>4. Made({RingBuffers(NextElement, age)}, alive')
        <4>1. \A o \in {RingBuffers(NextElement, age)} : o.name \in DeviceNames
          BY DEF RingBuffers, Obj, DeviceNames
        <4> QED
          BY <3>3, <4>1, DeviceMade
      <3> QED
        BY <3>2, <3>4, MadeOnlyNew
    <2>2. CASE alive' = alive
      BY <2>2 DEF OrderKept
    <2> QED
      BY <1>9, <2>1, <2>2 DEF AddImGui
  <1>10. CASE RecreateTargets
    <2>1. pc = "targets" /\ VulkanObjects \subseteq alive
      BY <1>10, VulkanAlive DEF RecreateTargets
    <2>2. alive' = (alive \ DepthObjects(depthImage)) \cup DepthObjects(depthImage + 1)
      BY <1>10 DEF RecreateTargets
    <2>3. \A o \in VulkanObjects : o.name # "depth"
      BY DEF VulkanObjects, All, Obj
    <2>4. VulkanObjects \subseteq alive'
      BY <2>1, <2>2, <2>3, DepthNames
    <2>5. Made(DepthObjects(depthImage + 1), alive')
      BY <2>4, DepthMade
    <2> QED
      BY <2>2, <2>5, MadeOnlyNew
  <1>11. CASE \/ Abort \/ BeginFrame \/ Record \/ Submit \/ Complete \/ GiveUpFrame \/ WaitIdle
              \/ DestroySwapchain \/ Deinit \/ Ended \/ UNCHANGED vars
    <2>1. alive' \subseteq alive
      BY <1>11 DEF Abort, BeginFrame, Record, Submit, Complete, GiveUpFrame, WaitIdle,
                   DestroySwapchain, Deinit, Ended, vars
    <2> QED
      BY <2>1 DEF OrderKept
  <1> QED
    BY <1>1, <1>2, <1>3, <1>4, <1>5, <1>6, <1>7, <1>8, <1>9, <1>10, <1>11 DEF Next

-----------------------------------------------------------------------------
(* Theorems *)

\* The type invariant, for any number of frames in flight and of images.
THEOREM LifetimeTypes == Spec => []TypeOK
  <1>1. TypeOK /\ [Next]_vars => TypeOK'
    BY TypeNext
  <1> QED
    BY TypeInit, <1>1, PTL DEF Spec

\* Between frames exactly the objects exist that the engine and imgui name, for
\* any number of frames in flight, whatever number of images the swapchains of
\* any number of recreations have: nothing is left over and nothing is missing.
THEOREM ObjectsAccounted == Spec => []NothingLeft
  <1> DEFINE Inv == TypeOK /\ MemberInv /\ AliveInv
  <1>1. Init => Inv
    BY TypeInit, MemberInit, AliveInit
  <1>2. Inv /\ [Next]_vars => Inv'
    BY TypeNext, MemberNext, AliveNext
  <1>3. Inv => NothingLeft
    BY DEF AliveInv, NothingLeft, Busy
  <1> QED
    BY <1>1, <1>2, <1>3, PTL DEF Spec

LEMMA LifetimeInvariant == ASSUME FRAME_OVERLAP <= 2 PROVE Spec => []LifetimeInv
  <1>1. Init => InUseAlive
    <2>1. Init => pc = "vulkan" /\ \A c \in Copies : uses[c] = {}
      BY DEF Init
    <2> QED
      BY <2>1 DEF InUseAlive, Executed
  <1>2. Init => LifetimeInv
    BY <1>1, TypeInit, FramesInit, MemberInit, AliveInit, RingInit DEF LifetimeInv
  <1>3. LifetimeInv /\ [Next]_vars => LifetimeInv'
    BY TypeNext, FramesNext, MemberNext, AliveNext, RingNext, UseNext DEF LifetimeInv
  <1> QED
    BY <1>2, <1>3, PTL DEF Spec

\* With at most two frames in flight, which is what the literal number of command
\* pools is for, whatever a frame names exists until the GPU has executed it, but
\* for the descriptor sets that their pools never gave.
THEOREM UseSafe == ASSUME FRAME_OVERLAP <= 2 PROVE Spec => []InUseAlive
  <1>1. LifetimeInv => InUseAlive
    BY DEF LifetimeInv
  <1> QED
    BY LifetimeInvariant, <1>1, PTL

\* Under the same bound imgui never writes to buffers a frame still to be executed
\* reads.
THEOREM RingSafe == ASSUME FRAME_OVERLAP <= 2 PROVE Spec => []RingExclusive
  <1>1. ASSUME LifetimeInv PROVE RingExclusive
    <2>1. pc = "submit" => \A c \in Executed : c \in Copies \ {turn}
      BY <1>1 DEF LifetimeInv, FramesInv, Executed
    <2> QED
      BY <1>1, <2>1 DEF LifetimeInv, RingInv, RingExclusive, InRing
  <1> QED
    BY LifetimeInvariant, <1>1, PTL

\* For any number of frames in flight the start and every recreation make an object
\* after all that it is made from, whatever number of images each swapchain has; only
\* the textures of the scene may meet descriptor sets that are missing.
THEOREM MadeInOrder == Spec => MadeFromLive
  <1> DEFINE Inv == TypeOK /\ MemberInv /\ AliveInv /\ AgeInv
  <1>1. Init => Inv
    <2>1. Init => AgeInv
      BY DEF Init, AgeInv
    <2> QED
      BY <2>1, TypeInit, MemberInit, AliveInit
  <1>2. Inv /\ [Next]_vars => Inv'
    BY TypeNext, MemberNext, AliveNext, AgeNext
  <1>3. Inv /\ [Next]_vars => [OrderKept]_vars
    BY MadeNext
  <1> QED
    BY <1>1, <1>2, <1>3, PTL DEF Spec, MadeFromLive, OrderKept
=============================================================================
