# RunicEngine: TLA+ models, model checking and proofs

RunicEngine is a Vulkan renderer of about 4,300 lines of C++ under
`src/Runic/src` (paths below are relative to `src/Runic/src/Runic`): one thread
polls SDL for events, records a frame, submits it to a graphics queue and
presents it. It has no tests. What is hard about it is not in any function but
between its actors: the thread, the GPU that runs behind it, the presentation
engine that owns the images, and the window that changes under all three. That
is what these modules are about.

## The system

| Component | State | Operations | Interacts with |
|---|---|---|---|
| Event loop (`Engine.cpp`) | `bQuit`, the scene, `m_obj` | `run`, `Deinit` | polls SDL, sets `m_dirtySwapchain`, calls `Window::Update` and `Renderer::Draw` |
| Window (`Window.cpp`) | `m_windowData.props` | `Update`, `GetWidth/Height` | read by everything that makes images or records a frame |
| Frame loop (`Graphics/Device.cpp`, `Renderer.cpp`) | `m_frameNumber`, `m_currentSwapchainImage`, `m_dirtySwapchain`, per frame a fence, two semaphores, a command buffer and six mapped buffers | `BeginFrame`, `Draw`, `Present`, `WaitIdle` | submits to the graphics queue, acquires from and presents to the presentation engine |
| Swapchain (`Device.cpp`) | images, views, framebuffers | `createSwapchain`, `destroySwapchain`, `recreateSwapchain` | waits for a minimised window, then for the device |
| Resource manager (`ResourceManager.cpp`, `Structures/Slotmap.h`) | two slotmaps of 4096 slots | `Create*`, `Destroy*`, `Get*`, `Deinit` | everything holds its handles |
| Render targets (`Device.cpp`) | `m_renderTargets`, a slotmap | `CreateRenderTarget`, `recreateRenderTargetImages` | image handles of the resource manager |
| Uploads (`Renderer.cpp`, `Device.cpp`) | upload fence and command buffer, `m_meshes`, `m_bindlessImages`, descriptors | `UploadMesh`, `UploadTexture`, `ImmediateSubmit` | staging buffers, the same graphics queue |
| Draw packing (`Renderer.cpp`) | `m_entities`, `m_entities_with_lights`, the mapped buffers | `GiveRenderables`, `drawObjects` | components of entities; shaders follow the indices it writes |
| Scene (`Scene/`) | entt registry, list of entities | `CreateEntity`, `AddComponent` | |
| Model loader (`Graphics/ModelLoader.cpp`) | the handles of the images and the objects of one file | `LoadModelFromGLTF` | uploads the images, then the primitives, and follows the indices of the file from a primitive to the handles of its textures |
| Device start and end (`Device.cpp`, `Renderer.cpp`) | the Vulkan objects | `Device::Init`, `Renderer::Init`, `Renderer::Deinit` | makes what everything else uses |
| imgui (`Device.cpp`, vendored backend) | render pass, framebuffers, a ring of vertex and index buffers | `initImgui`, `initImguiRenderpass`, `AddImGuiToCommandBuffer` | made anew with the swapchain; draws into the frame last |
| Pipelines (`Graphics/Internal`) | lists of layouts and pipelines | `CreatePipeline`, `RecompilePipelines`, `Deinit` | created by `Renderer::initShaders` |
| Textures, meshes, camera, logging | none that lasts | | |

`Device::Deinit`, `DeletionQueue::flush`, `PipelineManager::Deinit`,
`RecompilePipelines` and `LoadModelFromObj` have no caller. Uploads happen only
while `Engine::Init` runs.

What makes each part correct, and how each may go wrong where no test would
look, is in the "hazards" of `PROJECT.json`, each at its line.

## Modules

### `FramesInFlight`: what the frame loop promises

N copies of per-frame data are filled by the CPU and read by the GPU in turn:
`Begin` a copy nobody reads, `HandOver` it, `GiveBack` in order. Its fairness
promises that what is filled is handed over and what is handed over comes back.

### `FrameLoop`: the thread, the graphics queue and the display

Three actors share the synchronisation objects of `RenderFrame`. The thread goes
through places (`pc`) that cut its code at every call that another actor can
get in between:

| Action | Code |
|---|---|
| `PollEvents` | `Engine::run`, the polling: it may set `bQuit` and `m_dirtySwapchain` |
| `WaitFence`, `FenceTimeout` | `vkWaitForFences` in `VK_CHECK` (`Device.cpp:88`): `VK_TIMEOUT` aborts |
| `AcquireImage`, `AcquireOutOfDate`, `AcquireTimeout` | `vkAcquireNextImageKHR` with each of its results, and the tests after it (90-100) |
| `WaitIdle`, `RecreateSwapchain` | `recreateSwapchain`; `BeginFrame` returns false and `Draw` returns |
| `ResetFence`, `Record`, `Submit` | 102-103, then `Renderer::Draw` and `drawObjects`; while `pc = "record"` the CPU writes the data of the frame |
| `Present` | `vkQueuePresentKHR`, `m_frameNumber++` |
| `Deinit` | `Renderer::Deinit` |
| `BeginDrawing`, `Complete` | the graphics queue: wait for `presentSem` at the color output, signal `renderSem` and the fence in order |
| `Show`, `Release` | the presentation engine in FIFO mode: wait for `renderSem`, replace the image on display, signal `presentSem` of the frame that acquired an image |

What was decided, and why it is faithful:

* Semaphores are binary. An acquire may hand out an image that is still read
  and signal the semaphore only when it is not: `acquired[f]` is the image whose
  release will signal `presentSem[f]`. Nothing stops the code from acquiring with
  a semaphore that is signalled or about to be; the model lets it, and
  `AcquireSemaphoreFresh` says when it does not happen.
* `mishaps` is a history variable: whether `BeginFrame` has given up an image it had
  acquired, and whether a `renderSem` was signalled that was signalled still, so that two
  signals became one. Both happen (`frames_resize`, `frames_triple`), and the properties
  say what the code does until then.
* The submission's wait stage is the color output. Everything before, reading
  the mapped buffers above all, may happen as soon as it is submitted, so a frame
  counts as in flight from `Submit` on.
* The wait of a present is an operation of the queue: `vkDeviceWaitIdle` returns
  when the submissions are done and the presents have taken their signals.
* When a swapchain is destroyed, a release it owed to a semaphore may be
  delivered or not; both are tried.
* `m_frameNumber` is kept modulo `FRAME_OVERLAP`, the only way the code reads it.
* `vkQueueSubmit` and `vkQueuePresentKHR` succeed; the code ignores their
  results. The loop for a minimised window is in `EventLoop`.

### `EventLoop`: the window, its events and the sizes made from it

Window changes happen while SDL pumps the messages of the window system, which
it does when its queue is empty (`StartPump` to `EndPump`); the user's actions
(`Resize`, `Minimise`, `Restore`, `RequestQuit`, `OtherInput`) are possible only
then, and each queues its event. `SDL_PollEvent` puts a sentinel behind what it
pumped, which ends a poll cycle (`SDL_events.h:165`, SDL 2.0.22), so events left
by the `break` after a resize are found first by the next frame.

`PollEvent` is the body of the polling loop. It compares `e.window.event` without
looking at the type of the event, so a key, mouse or quit event may or may not
be taken for a resize: `MayBeResize` is a choice. `CheckFlags`, `RereadFlags` and
`WaitEvent` are the loop of `recreateSwapchain` for a minimised window, in the
order of the code (read the flags, wait, then test what was read).
`RecreateSwapchain` gives the swapchain the extent of the surface and the render
targets and framebuffers the size `Window::Update` saw last. `dropped` is a
history variable: the kinds of events that loop took and nobody looked at.
`SwapchainBuilds`, that a swapchain is never built for a minimised window, is not so
(`events_again`); `MinimiseWaitedOut` says that the one way to it is a window that is
minimised once more while the loop waits for an event.

### `Slotmap` and `Resources`: handles

`Slotmap` has the container as operators on a record of the array and
`lastHandle`. `add` past the end writes onto the member after the array; `Added`
then gives every value `lastHandle` may have got. `Resources` drives it with the
operations of `ResourceManager` and the render targets of `Device`, called in any
order; `RecreateTarget` is one iteration of `recreateRenderTargetImages`, in the
order of the slots. `heldBuffers` and `heldImages` are what callers remember:
handle and what it stood for when it was given out. Objects are numbered in order
of creation. Every allocation succeeds.

### `Uploads`: what comes before the first frame

`UploadMesh` and `UploadTexture`, one upload at a time as `Engine::Init` calls
them, and the graphics queue that executes the copies. A mesh is one part or two
(vertices, indices), a texture one; each part goes through the same steps:

| Action | Code |
|---|---|
| `UploadMesh`, `UploadTexture` (`Begin`) | the call, with a mesh or with what loading a texture may leave (`Textures`: `Texture.cpp:30-86`) |
| `Stage` | the staging buffer is created and filled, the buffer or image it goes to is created (`Renderer.cpp:564-576`, 593-605, 667-685, 776-795) |
| `Submit` | `ImmediateSubmit` up to `vkQueueSubmit` (`Device.cpp:222-234`) |
| `WaitUpload`, `WaitTimeout` | `vkWaitForFences`, whose result nothing looks at (236) |
| `ResetUpload` | `vkResetFences`, `vkResetCommandPool`, the return (237-239) |
| `ReleaseStaging` | `DestroyBuffer` of the staging buffer; on to the next part or to the handle |
| `AddMesh`, `AddTexture` | the handle, and for a texture the descriptor in the set of every frame that has one (618, 629-652) |
| `Run` | `setupScene` has returned, `Engine::run` begins |
| `ExecuteCopy` | the graphics queue: the copy, then the fence |

`memory` has the contents of every buffer and image in the order of their
creation, so that the staging buffer and its target are the last two; a copy from a
buffer that is destroyed gives `Undefined`. `returned` is a history variable: what
callers were given and for what. `late` is another: some wait ended before its
copy, after which the code promises nothing and the properties ask for nothing.
Formats, layouts, barriers and sizes are left out, and every allocation succeeds.
A load that failed leaves a `Texture` without pixels whose type is whatever was in
memory; `UploadTexture` means to refuse it and does not.

Two capacities differ and the code tests neither. A slotmap has `SIZE` slots (4096 in
the code), the array of descriptors `MAX_TEXTURES` elements (128), and the handle of
a texture is used for both: past the array what is written is undefined (`Written`:
any elements of any set, or none). `Sets` are the frames whose `globalSet` its pool
gave; frame 0 has one, any other may not (see `Lifetime`).

### `SceneLoad`: what is uploaded, and what becomes of the handles

`Uploads` takes requests in any order. `SceneLoad` extends it with the caller: the
order in which `Engine::Init` uploads, and the way from a primitive of a file over
its material, a texture and an image to the handle its object is drawn with. A file
is what tinygltf has parsed, with any indices that lead somewhere (`WellFormed`); an
index counts from 1, and 0 is the -1 of the code. `MCSceneLoad` has the files that
are checked.

| Action | Code |
|---|---|
| `BeginCube`, `AddCube` | `Renderer::initShaderData`: the mesh of the skybox |
| `ParseModel` | `LoadASCIIFromFile`: a file, or none that could be parsed |
| `BeginImage`, `AddImage` | an image of the file, with pixels or, if its own file is missing, without (`ModelLoader.cpp:165-179`) |
| `BeginPrimitive`, `AddPrimitive` | a primitive: its mesh, and the object with the four textures of its material (181-280) |
| `BeginCubemap`, `AddCubemap` | `setupScene`: the cubemap, with all its files or not, and `SetSkybox` |
| `Upload` | the steps of `Uploads` between a call and its return |
| `StartLoop` | `Engine::run` begins |

`loadedTextures` and `objects` are the vectors of the code; the properties compare
what the handles lead to on the GPU, in the descriptor set of every frame, with what
the file says.

### `Lifetime`: what exists when

The Vulkan objects of the engine, from `Device::Init` to the end, and the frames
whose commands name them. An object is a record of name, index and age: the second
swapchain is not the first. Which frame is recorded and which the GPU may still
execute is `FramesInFlight`'s, whose `Begin`, `HandOver` and `GiveBack` are conjuncts of
`BeginFrame`, `Submit` and `Complete`; that the code keeps to it is what `FrameLoop`
shows.

| Action | Code |
|---|---|
| `InitVulkan`, `CreateSwapchain`, `InitObjects`, `InitImguiRenderpass`, `InitImgui` | the steps of `Device::Init` |
| `CreateRenderTarget`, `InitShaders` | `Renderer::Init` and `initShaders` |
| `LoadScene` | `initShaderData` and `setupScene`: meshes and textures as one object |
| `Abort` | a `VK_CHECK` or a `value()` that fails |
| `BeginFrame`, `Record`, `AddImGui`, `Submit`, `Complete` | a frame; its commands name what `uses` has from `Record` on |
| `GiveUpFrame`, `WaitIdle`, `DestroySwapchain`, `CreateSwapchain`, `RecreateTargets`, `InitImguiRenderpass` | `recreateSwapchain`, step by step |
| `Deinit` | `Renderer::Deinit` |

What was decided:

* imgui's vertex and index buffers are a ring of `ImguiImageCount`, the literal of
  `initImgui`. A frame with nothing to draw does not need buffers, one drawn into a
  window without a size does not move the ring on, and a buffer that is too small is
  replaced at once.
* The literal 2 of the graphics command pools and of the sets in each descriptor pool is kept
  apart from `FRAME_OVERLAP`, as in the code. `globalPool` has `MAX_TEXTURES` combined
  image samplers in all (`Renderer.cpp:380`) and a `globalSet` takes as many (451), so the
  pool need not give the second one, and `initShaders` looks at no result (475-477).
  `missing` is what was not given: any of the sets beyond a pool's capacity. What then
  becomes of the textures written to such a set, and of a frame that binds it, is
  undefined: `Abort` may end the process there, and `InUseAlive` and `MadeFromLive` leave
  out such a set and nothing else.
* There is one render target and it is the depth target; the six buffers of a frame
  count as one object, as does everything the scene is made of.
* What is made outside `Abort`'s places succeeds: the code looks at no other result.
* `Renderer::Deinit` destroys the descriptor pools and layouts, and what it leaves
  lives as long as the process.

### `Pictures` and `DrawList`: from the scene to the GPU

`Pictures` says what a renderer promises: a frame under way shows one state of the
scene, the one it was drawn at, and frames are finished in order. `DrawList` is how the
code does it, on top of `FramesInFlight` (its `Begin`, `HandOver` and `GiveBack` are
conjuncts of `BeginFrame`, `Submit` and `Complete`), and implements it.

| Action | Code |
|---|---|
| `CreateObject`, `CreateLights` | `setupScene`: an entity for each primitive, then the skybox and the lights; no object when the model failed to load |
| `GiveRenderable` | one iteration of `GiveRenderables` |
| `Animate` | the rest of a turn of `Engine::run`: the camera may move, `m_obj`, the last object, turns |
| `GiveUpFrame`, `BeginFrame` | the results of `Device::BeginFrame`; the command buffer is reset |
| `WriteObject`, `WriteScene` | the mapped buffers (`Renderer.cpp:72-98`, 100-153) |
| `RecordDraw` | one iteration of the second loop (155-205): push constant, and only the bindings that differ from `last` |
| `Submit`, `Complete` | the submission; the GPU is done with the oldest frame |

`Shown(c)` is what the shaders make of the commands of frame `c`, following the indices
in its buffers at the moment, and `Visible` what the entities say there is to see. The
refinement maps `scene` to `Visible` and `pictures` to `Shown` of the frames being read,
so a write that reaches a frame under way is a step `Pictures` does not have, and so is a
submission that shows anything but the scene. `Visible` counts: the n-th object is the one
with n - 1 objects before it, and it owes nothing to the lists `GiveRenderables` makes. Matrices and the textures of an object
are one value each. `setupScene` gives every object a mesh of its own and a
transform, and every mesh it makes has indices; the early return of `drawObjects` for
an entity without `RenderableComponent` (line 159) is never taken, since
`GiveRenderables` lets none through. With no object `drawObjects` reads the first one
nonetheless (line 63): `BeginFrame` lets the thread end there or go on.

The modules named `*_proofs` hold the theorems.

## Runs

| Run | Checks | Bounds |
|---|---|---|
| `frames` | `TypeOK`, `EveryPresentShown`, `QuitStops`; `ImplementsFramesInFlight`: the refinement of `FramesInFlight` with its fairness | 2 frames, 2 images, every disturbance but timeouts |
| `frames_ahead` | `FrameDataExclusive`, `FenceTellsInFlight`, `ResourcesOutliveUse`, `AcquireSemaphoreFresh`, `ImageExclusiveUntilGivenUp`, `SignalsInRound`, `EveryWaitAnswered`, `QuitEnds` | 2 frames, 3 images, every disturbance |
| `resources` | `TypeOK`, `SlotsOwnObjects`, `HandlesPersist`, `TargetsOwnImages` | 5 slots, handles up to 4 |
| `events` | `TypeOK`, `DrawsFit`, `MinimiseWaitedOut`, `QuitHonoured`, `ResizeHonoured` | 2 sizes, 3 queued events, 2 minimisations |
| `uploads` (`MCSceneLoad`) | `TypeOK`, `LoadTypeOK`, `StagingOutlivesCopy`, `MeshesArrived`, `TexturesBound`, `NoStagingLeft`; `ObjectsTextured`, `ObjectsDrawable`, `SceneComplete` | 2 frames, each with its set, 3 kinds of data, 3 meshes and 3 textures, 28 slots, 4 descriptors; files of up to 2 images, 2 textures, 2 primitives, 2 materials |
| `lifetime` | `TypeOK`, `InUseAlive`, `RingExclusive`, `NothingLeft`, `MadeFromLive` | 2 frames, swapchains of 2 or 3 images, 1 recreation, 2 buffers for each element of imgui's ring |
| `draws` | `TypeOK`; `ImplementsPictures`: the refinement of `Pictures` | 2 frames, 3 objects, 2 point lights, 2 materials, 2 views, 3 angles |
| `frames_resize` | violates `ImageExclusive` | 2 frames, 2 images, resizes |
| `frames_triple` | violates `RenderSemaphoreFresh` | 2 frames, 3 images, no disturbance |
| `handles_exhausted` | violates `HandlesPersist` | 3 slots, handles up to 3 |
| `uploads_failed` | violates `PixelsLoaded` | 1 mesh, 1 texture |
| `events_again` | violates `SwapchainBuilds` | 2 sizes, 3 queued events, 2 minimisations |

Why the bounds are enough. Two frames are what the code has; the frame data is
only reached by a CPU that is a full round ahead of the GPU, which needs more
images than frames, hence `frames_ahead`, the usual configuration: with as many
images as frames the display alone holds the CPU back and a missing fence would not be
noticed. One image more than frames is enough for a frame to overtake its own present.
There is no other bound in `FrameLoop`: the queue is bounded by fences and images. Four handles allow two render targets, an
image between them, a recreation of both and buffers destroyed and visited again;
the objects themselves are never reused. Three queued events are a resize, a quit
behind it and a third that keeps the queue from emptying; two minimisations are one that
starts the loop of `recreateSwapchain` and one that comes while it waits. Three meshes and
three textures are the cube, the two images and two primitives of the largest file, and the cubemap, and
so up to nine uses of the one fence. The 28 slots and 4 descriptors are just enough for them
(`EnoughSlots`, `EnoughDescriptors`), so the last handle is the last element. With two images and two textures a texture may
have the other's number, the same image or none, and with two materials a primitive
may have the other's. Three kinds of data tell the sky from the images, one image
from the other, and the two parts of a mesh apart. In `lifetime` one recreation is enough for every object to be
replaced or kept, as no step looks at more than the present and the new age; two sizes
let the new swapchain have more images than the old, fewer, or as many. Two buffers per element
are a first and one that was too small; the frames themselves go round without a
bound. The theorems about `Lifetime` hold for any number of each. Three
objects are a first, a last and one between, with equal or different materials; three
angles and two views make the scenes of any three frames in a row different.

`draws` runs with `CHECK_DEADLOCK FALSE`, since the thread may end at the empty list.

`frames_ahead` runs with `CHECK_DEADLOCK FALSE`: with more images than frames the
lost signal that `frames_triple` shows can leave the display waiting for ever, and the
thread behind it. That is why `frames`, where every present must come to the display
and a quit to the end of the loop, has no more images than frames, and does not show what
happens with more; `EveryWaitAnswered` and `QuitEnds`, in `frames_ahead`, say that
nothing waits for ever unless a signal was lost in that way, and `SignalsInRound` that
none is lost while at most as many frames as there are semaphores wait for the display.

### Fairness

`FrameLoop` assumes that the thread is scheduled, that the device executes
what it can and that a display refreshes: weak fairness of each of the three as a
whole. It assumes nothing about which image is handed out, about a quit ever
being requested, or about timeouts. `FenceTimeout` may happen whenever the fence
is not signalled, so `QuitStops` is checked without timeouts (`frames`) and `QuitEnds`
with them (`frames_ahead`). `EventLoop` assumes the thread is scheduled, and nothing of the user: a
property that needs an input the user need not give is not stated.

## What the violations show

1. `frames_resize`: `BeginFrame` returns with an acquired image when the swapchain
   is dirty or suboptimal (`Device.cpp:91`). The semaphore of that acquire stays
   signalled, the next frame's wait is satisfied by it, and the GPU draws into an
   image on display. The comment at `Renderer.cpp:247` relies on that wait.
2. `frames_triple`: `renderSem` is per frame and presents are per image. With
   three images, which vk-bootstrap asks for, a frame signals a semaphore whose
   last signal the present has not taken (`Device.cpp:145`; compare the comment in
   the vendored `imgui_impl_vulkan.h:145`).
3. `handles_exhausted`: `Slotmap::add` has no bound (`Slotmap.h:33`) and no slot is
   used again; every replaced swapchain takes a handle (`Device.cpp:714`).
4. `uploads_failed`: `UploadTexture` compares the array `texture.ptr` with `nullptr`
   (`Renderer.cpp:623`), so a skybox with a missing file is uploaded; where
   `Renderer.cpp:766` asserts that it has pixels.
5. `events_again`: the loop for a minimised window reads the flags, waits for an event
   and only then tests what it had read (`Device.cpp:423-424`). A window that was
   restored and is minimised again during that wait has its swapchain built for a
   surface without an extent, and `value()` asserts that there is one
   (`VkBootstrap.h:132`).

Beside these, three things no document of the repository speaks about, in the loop of
`recreateSwapchain` for a minimised window: `SDL_WaitEvent` takes a quit that arrives
then, and nobody acts on it, which is why `QuitHonoured` speaks of the others; once
the window is restored it waits for one more event, so the engine may stay frozen;
and a resize dropped there leaves the framebuffers at a size other than the
swapchain's until the next resize.

## Proofs

TLAPS checks these for every value of the constants.

* `FrameLoop_proofs`, for any number of frames and images and any set of
  disturbances. `TypeCorrect` first. `FrameDataExclusive` is not inductive: that
  the frame is free after `WaitFence` follows from what fences mean, that fences
  mean it follows from no frame being twice in the queue (a fence signalled by
  one of two completions would tell nothing of the other), and that follows from
  `FrameDataExclusive`. `SafetyInv` is the conjunction: `FenceTellsInFlight`, what
  the thread has seen of the fence (`FenceSeen`), that between `ResetFence` and
  `Submit` the frame is out of the queue, that the queue is empty from the idle wait
  to the new swapchain, and that no frame is queued twice. `FrameDataSafe`,
  `FencesAnswered` and `ResourcesSafe` follow from it, and so does `Refinement`: that
  every step is one of `FramesInFlight` or a stutter needs that the frame begun is
  read by nobody.
  `AcquireSemaphoreSafe` and `ImagesSafe` say what holds until an acquired image is given
  up, the one thing `frames_resize` needs. `SemaphoreInv`: the signal of a
  frame's acquire is owed, given or taken according to where its submission is.
  `ImageInv`: a frame whose semaphore is signalled has its image off the
  display. It stays off because nobody else presents it, which is `PresentInv`: what
  is to be presented are different images, the queue is the last part of it, and what
  `Show` may show next has completed.
* The same module, for any number of images, more than frames included, and any
  disturbances: `RenderSemaphoreSafe` and `WaitsAnswered`. `OrderInv` says that what is to
  be presented was drawn by the last frames in their order, so that a frame is twice among
  them only if there are more of them than frames; a `renderSem` that is signalled is one
  of a completed frame still to be shown (`PresentInv`). A frame that completes while no
  more frames wait than there are semaphores therefore finds its last signal taken.
  `AnswerInv`: what is in the queue is owed its image; `SignalInv`: until two
  signals have become one, what has completed keeps a signal of its own until it is shown.
* `Resources_proofs`, under `MaxHandle < SIZE`. `ResourceInv` adds to the properties
  that slots beyond `lastHandle` are empty, that objects in slots are older than
  `created` (a new one is in no slot), that no object is in two slots, and
  that what callers hold and what targets own lies at handles that were given out.
  `PersistentHandles`, `NothingLeaks`, `TargetsSafe`. `TypeCorrect` holds without the
  bound, also past the last slot, where `add` overwrites `lastHandle`.
* `EventLoop_proofs`, for any sizes and bounds. `DrawsFit` needs that what the
  thread has not yet seen of the window is still announced by an event in the
  queue (`ResizeAnnounced`) and that the targets follow `props` unless the dirty
  flag is set; `EventInv` has both. `SwapchainSafe` is `MinimiseWaitedOut` for any
  number of minimisations: `MinimisedInv` follows what the thread has read of the flags
  through the loop.
* `Uploads_proofs`: `TypeCorrect` for any number of uploads, which needs how far a
  request has come (`Progress`). Two capacities are hypotheses with names, for the code
  tests neither: `EnoughSlots`, that the slotmap of buffers, which fills first, has room for
  six buffers of each frame, four of each mesh and one of each texture
  (`6 * FRAME_OVERLAP + 4 * MaxMeshes + MaxTextures < SIZE`), and `EnoughDescriptors`, that
  there are fewer textures than `MAX_TEXTURES`. `StagingSafe`, `MeshesSafe` and
  `NothingLeft` need the first, `TexturesSafe` both, and it speaks of the sets that
  exist (`Sets`). `UploadInv` says that there is at most one copy, from
  the last buffer but one to the last object, and that the fence is signalled only
  between that copy and its reset (`CopyInv`); what is before the last two objects is
  `Settled`, and no step changes it (`SettledStays`), so what a handle stands for has
  only to be right when the handle is returned. `NothingLeft` says what is alive at every
  step (`LiveInv`): what the tables hold, what the upload has made so far, and the
  staging buffer and its target. That a slot is written only once, so that a new
  mesh displaces no buffer of another, is where the bound is needed.
* `SceneLoad_proofs`, for any well-formed files. `LoaderUploads`: every step of the
  loader is one of `Uploads` in any order, so that its theorems hold of the loader.
  `LoadInv` says which request is under way at each step of the loader, that the n-th
  handle of `loadedTextures` was returned for the n-th image, and that every object has
  the handle returned for its primitive and those its material leads to; that handles
  stand for what they were returned for is `Uploads_proofs`. From both, `DrawableSafe`
  under `EnoughSlots`, and `TexturedSafe` and `SceneSafe` under `EnoughDescriptors` too.
* `Lifetime_proofs`, for any number of recreations, of images and of buffers.
  `LifetimeInv` says where frames may be executed (`FramesInv`), how far the start has
  come (`MemberInv`), exactly which objects exist at each place (`AliveInv`), and that
  the frame submitted last names the element of the ring imgui wrote last, so that the
  next element is nobody's (`RingInv`). `LifetimeTypes` and `ObjectsAccounted` need no more.
  `MadeInOrder` needs in addition that what is made has not existed before (`AgeInv`), and
  holds for any number of frames. `UseSafe` needs `FRAME_OVERLAP <= 2`, the code's value: a
  third frame would record with a command pool that was never made. `RingSafe` has the same
  hypothesis, since `RingInv` follows one submitted frame. None of them assumes that a descriptor set beyond its pool's capacity was made.
* `DrawList_proofs`, for any number of frames, objects, materials and lights.
  `DrawInv` has a part for each thing that changes at its own time: what `setupScene`
  made (`SceneInv`), how much of it `GiveRenderables` has sorted (`ListInv`), which copies
  are read and that the one being filled is not (`FramesInv`), how far its buffers agree with
  the entities (`WrittenInv`), which commands it has and that what `last` takes to be
  bound is bound (`RecordedInv`), and that commands see the buffers of their own frame
  (`SetInv`). `DrawListTypes` follows, and `PicturesShown`, the refinement of `Pictures`:
  only `Submit`, `Complete` and the steps that move the scene are steps of it; every
  write in between changes what no frame under way shows.

Only model-checked: what is temporal beyond `[]` and steps (`QuitEnds`, `QuitStops`,
`EveryPresentShown`, `QuitHonoured`, `ResizeHonoured` and the fairness of
`FramesInFlight`), which is beyond the prover. Every invariant a passing run checks is a
theorem. Where a theorem has hypotheses, they are capacities the code does not test: of
the slotmaps (4096, `Slotmap.h`), of the descriptor arrays (128, `Renderer.h:22`) and, in
`Lifetime`, of the two command pools. What the violations
above break is in the properties themselves: each says what holds until then.

## Not modelled

* Parsing of models and decoding of images, matrices, the constant meshes, lighting in
  the shaders, the camera and logging: no control worth the name, or floating point.
* Formats, of images and of swapchains, pipeline state, layouts and barriers: constants
  handed to Vulkan.
* `Device::Deinit` with its deletion queue, `PipelineManager::Deinit`,
  `RecompilePipelines` and `LoadModelFromObj`: nothing calls them, so no state of the
  program is one they were called in.
* Failed allocations and submissions: the code ignores them, and a device that lost
  one promises nothing.

## Plan

Done: `FramesInFlight`, `FrameLoop`, `EventLoop`, `Slotmap`, `Resources`, `Uploads`,
`SceneLoad`, `Lifetime`, `Pictures`, `DrawList`, and proofs of the invariants of all of
them and of the refinements. Next, most important first:

1. `EventLoop`: which of a user's inputs may be lost, as an action property.
2. `FrameLoop`: how far the display can fall behind a CPU that signals in time, the
   converse of `SignalsInRound`, for given numbers of frames and images.
