---------------------------- MODULE FramePresenter ----------------------------
(***************************************************************************)
(* How the GPU layer shows frames (vulkan_renderer.cpp): the chain of      *)
(* objects init() creates, presentFrame() on the thread that walks the     *)
(* command buffers, and the surface callbacks on the thread of the user    *)
(* interface (surface_bridge.cpp, jni_bridge.cpp).                         *)
(*                                                                         *)
(* Vulkan itself is external and modelled from how the code uses it: a     *)
(* queue that runs its submissions in order, a fence, two semaphores, and  *)
(* a presentation engine that owns every image the application has not     *)
(* acquired.  A present waits for its semaphore whenever it gets to it, in *)
(* no order with later submissions.  Creating an object, acquiring an      *)
(* image and submitting may fail; other calls are taken to succeed.  What  *)
(* nothing reads is left out: m_window, the frame rate.                    *)
(***************************************************************************)
EXTENDS Naturals, Sequences

CONSTANT NumImages        \* imageCount of the swapchain

ASSUME NumImagesAssumption == NumImages \in Nat \ {0}

Images == 0 .. NumImages - 1

(* What init() creates, in this order; each may fail.                      *)
DeviceObjects == <<"instance", "physicalDevice", "device">>
SwapchainObjects == <<"surface", "swapchain", "views">>
FrameObjects == <<"renderPass", "framebuffers", "commandPool", "syncObjects">>
Objects == DeviceObjects \o SwapchainObjects \o FrameObjects

VARIABLES
  created,        \* the members that hold an object
  creating,       \* init() is about to create Objects[creating]; 0 outside it
  initialized,    \* m_initialized
  guestMemory,    \* m_guestMemory is not null
  clearing,       \* clearSurface() waits for the device to be idle
  drain,          \* how many submissions it still waits for
  at,             \* where presentFrame() is; "none" outside it
  imgIdx,         \* its image
  fence,          \* m_inFlightFence is signaled
  imageAvail,     \* m_imageAvailSem: free, pending (acquired, not signaled
                  \* yet), signaled
  renderDone,     \* m_renderDoneSem is signaled
  queue,          \* m_graphicsQueue: images of submissions not finished
  presents,       \* images whose present waits for m_renderDoneSem
  images,         \* where each image is: free, held, presented or shown
  failed,         \* history: some acquire or submission failed
  clashed         \* history: m_renderDoneSem was signaled while it still was

uiVars == <<created, creating, initialized, guestMemory, clearing>>
frameVars == <<at, imgIdx>>
deviceVars == <<fence, imageAvail, renderDone, queue, presents, images, drain, clashed>>
presenterVars == <<uiVars, frameVars, deviceVars, failed>>

PresenterInit ==
  /\ created = {} /\ creating = 0 /\ initialized = FALSE /\ guestMemory = FALSE
  /\ clearing = FALSE /\ drain = 0
  /\ at = "none" /\ imgIdx = 0
  /\ fence = FALSE /\ imageAvail = "free" /\ renderDone = FALSE
  /\ queue = <<>> /\ presents = {}
  /\ images = [i \in Images |-> "free"]
  /\ failed = FALSE /\ clashed = FALSE

-----------------------------------------------------------------------------
(* The thread of the user interface *)

UiIdle == creating = 0 /\ ~clearing

(* onSurfaceCreated: init() unless it succeeded before.  (Otherwise        *)
(* setSurface(), which stores m_window.)  It is given guest memory, which  *)
(* may not be mapped yet.                                                  *)
SurfaceCreated ==
  /\ UiIdle /\ ~initialized
  /\ creating' = 1
  /\ guestMemory' \in BOOLEAN
  /\ UNCHANGED <<created, initialized, clearing, frameVars, deviceVars, failed>>

(* The fence is created signaled, so that the first frame does not wait.   *)
CreateSyncObjects_Unsignaled == fence' = FALSE
CreateSyncObjects == fence' = TRUE

CreateObject ==
  /\ creating \in 1 .. Len(Objects)
  /\ created' = created \cup {Objects[creating]}
  /\ creating' = creating + 1
  /\ IF Objects[creating] = "syncObjects" THEN CreateSyncObjects ELSE UNCHANGED fence
  /\ UNCHANGED <<initialized, guestMemory, clearing, frameVars,
                 imageAvail, renderDone, queue, presents, images, drain, clashed, failed>>

(* init() returns false and the objects created so far stay; the next      *)
(* onSurfaceCreated starts from the beginning.                             *)
CreateFails_Continues ==
  /\ creating \in 1 .. Len(Objects)
  /\ creating' = creating + 1
  /\ UNCHANGED <<created, initialized, guestMemory, clearing, frameVars, deviceVars, failed>>
CreateFails ==
  /\ creating \in 1 .. Len(Objects)
  /\ creating' = 0
  /\ UNCHANGED <<created, initialized, guestMemory, clearing, frameVars, deviceVars, failed>>

Initialized ==
  /\ creating = Len(Objects) + 1
  /\ initialized' = TRUE
  /\ creating' = 0
  /\ UNCHANGED <<created, guestMemory, clearing, frameVars, deviceVars, failed>>

(* onSurfaceDestroyed, x360_gpu_clear_surface, x360_engine_shutdown:       *)
(* clearSurface() waits until the device has finished what was submitted   *)
(* before; the swapchain stays.                                            *)
ClearSurface ==
  /\ UiIdle
  /\ clearing' = TRUE
  /\ drain' = Len(queue)
  /\ UNCHANGED <<created, creating, initialized, guestMemory, frameVars,
                 fence, imageAvail, renderDone, queue, presents, images, clashed, failed>>

SurfaceCleared ==
  /\ clearing /\ drain = 0
  /\ clearing' = FALSE
  /\ UNCHANGED <<created, creating, initialized, guestMemory, frameVars, deviceVars, failed>>

Ui ==
  \/ SurfaceCreated \/ CreateObject \/ CreateFails \/ Initialized
  \/ ClearSurface \/ SurfaceCleared

-----------------------------------------------------------------------------
(* presentFrame, on the thread that walks the command buffers *)

PresentFrame ==
  /\ at = "none" /\ initialized
  /\ at' = "wait"
  /\ UNCHANGED <<uiVars, imgIdx, deviceVars, failed>>

(* vkWaitForFences and vkResetFences.                                      *)
WaitForFence_Skipped ==
  /\ at = "wait"
  /\ fence' = FALSE
  /\ at' = "acquire"
  /\ UNCHANGED <<uiVars, imgIdx, imageAvail, renderDone, queue, presents, images,
                 drain, clashed, failed>>
WaitForFence ==
  /\ at = "wait" /\ fence
  /\ fence' = FALSE
  /\ at' = "acquire"
  /\ UNCHANGED <<uiVars, imgIdx, imageAvail, renderDone, queue, presents, images,
                 drain, clashed, failed>>

(* The engine will signal m_imageAvailSem when the image may be drawn to.  *)
AcquireSemaphore_Null == UNCHANGED imageAvail
AcquireSemaphore == imageAvail' = "pending"

AcquireImage ==
  /\ at = "acquire"
  /\ \E i \in Images :
       /\ images[i] = "free"
       /\ images' = [images EXCEPT ![i] = "held"]
       /\ imgIdx' = i
  /\ AcquireSemaphore
  /\ at' = "record"
  /\ UNCHANGED <<uiVars, fence, renderDone, queue, presents, drain, clashed, failed>>

(* VK_ERROR_OUT_OF_DATE_KHR: the frame is abandoned.                       *)
OutOfDate ==
  /\ at = "acquire"
  /\ at' = "none"
  /\ failed' = TRUE
  /\ UNCHANGED <<uiVars, imgIdx, deviceVars>>

(* Any other error goes unnoticed: no semaphore is going to be signaled,   *)
(* and imgIdx still is the 0 it was initialised with.                      *)
AcquireFails ==
  /\ at = "acquire"
  /\ imgIdx' = 0
  /\ at' = "record"
  /\ failed' = TRUE
  /\ UNCHANGED <<uiVars, deviceVars>>

(* Resets the command buffer of the image and records the frame in it.     *)
Record ==
  /\ at = "record"
  /\ at' = "submit"
  /\ UNCHANGED <<uiVars, imgIdx, deviceVars, failed>>

Submit ==
  /\ at = "submit"
  /\ queue' = Append(queue, imgIdx)
  /\ at' = "present"
  /\ UNCHANGED <<uiVars, imgIdx, fence, imageAvail, renderDone, presents, images,
                 drain, clashed, failed>>

(* vkQueueSubmit's result is not looked at: nothing will signal the fence  *)
(* and m_renderDoneSem, or take the signal of m_imageAvailSem.             *)
SubmitFails ==
  /\ at = "submit"
  /\ at' = "present"
  /\ failed' = TRUE
  /\ UNCHANGED <<uiVars, imgIdx, deviceVars>>

Present ==
  /\ at = "present"
  /\ presents' = presents \cup {imgIdx}
  /\ at' = "none"
  /\ UNCHANGED <<uiVars, imgIdx, fence, imageAvail, renderDone, queue, images,
                 drain, clashed, failed>>

Frame ==
  \/ WaitForFence \/ AcquireImage \/ OutOfDate \/ AcquireFails
  \/ Record \/ Submit \/ SubmitFails \/ Present

-----------------------------------------------------------------------------
(* The device: the queue and the presentation engine *)

ImageAvailable ==
  /\ imageAvail = "pending"
  /\ imageAvail' = "signaled"
  /\ UNCHANGED <<uiVars, frameVars, fence, renderDone, queue, presents, images,
                 drain, clashed, failed>>

(* A submission waits for its image, and signals the semaphore and the     *)
(* fence when it is done.  One m_renderDoneSem serves all images: the      *)
(* present of the last frame may not have taken its signal yet, and then   *)
(* one of the two is lost.                                                 *)
Draw ==
  /\ queue # <<>>
  /\ imageAvail = "signaled"
  /\ imageAvail' = "free"
  /\ renderDone' = TRUE
  /\ clashed' = (clashed \/ renderDone)
  /\ fence' = TRUE
  /\ queue' = Tail(queue)
  /\ drain' = IF drain > 0 THEN drain - 1 ELSE 0
  /\ UNCHANGED <<uiVars, frameVars, presents, images, failed>>

HandOver ==
  /\ renderDone
  /\ renderDone' = FALSE
  /\ \E i \in presents :
       /\ presents' = presents \ {i}
       /\ images' = [images EXCEPT ![i] = "presented"]
  /\ UNCHANGED <<uiVars, frameVars, fence, imageAvail, queue, drain, clashed, failed>>

(* VK_PRESENT_MODE_FIFO_KHR: at a vertical blank a presented image         *)
(* replaces the one on screen.                                             *)
Show ==
  /\ \E i \in Images :
       /\ images[i] = "presented"
       /\ images' = [j \in Images |->
                       CASE j = i -> "shown"
                         [] j # i /\ images[j] = "shown" -> "free"
                         [] OTHER -> images[j]]
  /\ UNCHANGED <<uiVars, frameVars, fence, imageAvail, renderDone, queue, presents,
                 drain, clashed, failed>>

Device == ImageAvailable \/ Draw \/ HandOver \/ Show

PresenterNext == PresentFrame \/ Frame \/ Ui \/ Device
PresenterSafety == PresenterInit /\ [][PresenterNext]_presenterVars
-----------------------------------------------------------------------------
(* Properties *)

(* Types, and: init() is in progress only before it has succeeded.         *)
PresenterTypeOK ==
  /\ created \subseteq {Objects[k] : k \in 1 .. Len(Objects)}
  /\ creating \in 0 .. Len(Objects) + 1
  /\ {initialized, guestMemory, clearing} \subseteq BOOLEAN
  /\ drain \in 0 .. Len(queue)
  /\ at \in {"none", "wait", "acquire", "record", "submit", "present"}
  /\ imgIdx \in Images
  /\ {fence, renderDone, failed, clashed} \subseteq BOOLEAN
  /\ imageAvail \in {"free", "pending", "signaled"}
  /\ queue \in Seq(Images) /\ presents \subseteq Images
  /\ images \in [Images -> {"free", "held", "presented", "shown"}]
  /\ initialized => creating = 0

(* presentFrame() works with a complete renderer although the user         *)
(* interface's thread creates it: a failed init() is never mistaken for a  *)
(* successful one, also not after several attempts.                        *)
PresentsWithEverything == at # "none" => created = {Objects[k] : k \in 1 .. Len(Objects)}

(* The command buffer that is reset and recorded (any of them, in fact) is *)
(* never one the device still executes, whichever image was acquired and   *)
(* however acquiring and submitting ended: that is what the single fence   *)
(* is for.                                                                 *)
RecordingNotInFlight == at \in {"acquire", "record", "submit"} => queue = <<>>

(* vkAcquireNextImageKHR is given a semaphore that is not in use, although *)
(* a frame may be abandoned between its acquire and its submission: the    *)
(* fence of such a frame is never signaled, so that no other one acquires. *)
AcquireSemaphoreFree == at = "acquire" => imageAvail = "free"
===============================================================================
