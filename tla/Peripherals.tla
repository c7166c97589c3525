----------------------------- MODULE Peripherals -----------------------------
(***************************************************************************)
(* The capture-and-persist core of the EKH05 demo                          *)
(* (src/Example/EKH05-Demo/peripherals.c and the two image endpoints of    *)
(* src/Example/EKH05-Demo/http.c).  Three actors share two binary          *)
(* semaphores:                                                             *)
(*   - periphs_task (ptask): the periodic camera snapshot and the button   *)
(*     handler that runs save_image or erase_image;                        *)
(*   - the DCMI VSYNC interrupt (BSP_CAMERA_VsyncEventCallback), which     *)
(*     ends a snapshot on its second edge and gives JPEG_buffer_lock;      *)
(*   - the lwIP tcpip thread (http): rest_ep_get_image,                    *)
(*     rest_ep_get_saved_image, and http_file_sent, which the transport    *)
(*     calls when a response body has been sent.                           *)
(* JPEG_buffer_lock and QSPI_flash_lock are mmosal binary semaphores       *)
(* (jpegSem, flashSem: 1 = given).  They have no owner: any context may    *)
(* give them, and a response keeps its semaphore taken until the body has *)
(* been sent.                                                              *)
(***************************************************************************)
EXTENDS Integers, FiniteSets, FiniteSetsExt

CONSTANTS
    CaptureSizes,   \* byte counts of the JPEG streams the sensor may send
    FailSteps,      \* the driver calls that may return an error in this model
    MaxGen,         \* number of snapshots after which the periodic capture stops
    MaxReboots,     \* number of resets the model lets happen
    Erased, Garbage, NoImage, Unknown, Torn

ASSUME CaptureSizes \subseteq Nat /\ CaptureSizes # {}
ASSUME MaxGen \in Nat \ {0}
ASSUME MaxReboots \in Nat

\* JPEG_buffer, and the BufferSize BSP_CAMERA_Init records for it
JPEG_BUFFER_SIZE == 32 * 1024

(* A driver call returns HAL_OK, or also an error when its step may fail. *)
Outcome(step) == IF step \in FailSteps THEN BOOLEAN ELSE {TRUE}

\* the camera BSP; a sensor I2C transaction of its probe may fail in "CamInit"
Cam == INSTANCE CameraBsp WITH BusOk <- Outcome("CamInit")

\* the BSP states periphs_start may leave behind (Init, then SetLightMode)
BootBsp == Cam!CameraBringUp(JPEG_BUFFER_SIZE)

(***************************************************************************)
(* BSP_CAMERA_Start gives HAL_DCMI_Start_DMA a frame of Cam!FrameSize      *)
(* words, on the GPDMA linked-list queue MX_DCMIQueue_Config sets to       *)
(* circular mode: a stream longer than the frame wraps to the start of the *)
(* buffer.  The VSYNC callback reads the length as CDAR - JPEG_buffer, the *)
(* offset the DMA destination has reached.                                 *)
(***************************************************************************)
DestOffset(words, bytes) == bytes % (4 * words)

\* the lengths image_data_size can take after a snapshot
CaptureLengths ==
    {DestOffset(Cam!FrameSize(b.Camera_Ctx), n) : n \in CaptureSizes, b \in BootBsp}

\* the page holding the last byte of the largest image the save can write
MaxPage == (4 + Max(CaptureLengths \cup {256}) - 1) \div 256

VARIABLES
    ptask,            \* program counter of periphs_task
    http,             \* program counter of the tcpip thread
    jpegSem,          \* JPEG_buffer_lock
    flashSem,         \* QSPI_flash_lock
    bsp,              \* the camera BSP's globals (CameraBsp)
    camera,           \* DCMI/DMA snapshot running or stopped
    got_sof,          \* first VSYNC edge of the snapshot seen
    image_data_size,  \* length of the live image, set by the ISR
    image,            \* which snapshot the JPEG buffer holds (Torn while DMA writes it)
    gen,              \* number of snapshots completed
    flash, wel, ospi, \* the flash device and controller (QspiFlash)
    inflight,         \* response bodies handed to the transport, not yet sent
    stored,           \* ghost: the image the last finished Save/Erase promised
    written,          \* save_image: data_to_write - image_data_ptr
    remaining_bytes,  \* save_image: bytes left, a uint32_t
    reboots           \* resets so far

vars == <<ptask, http, jpegSem, flashSem, bsp, camera, got_sof, image_data_size,
          image, gen, flash, wel, ospi, inflight, stored, written,
          remaining_bytes, reboots>>

Flash == INSTANCE QspiFlash

Live == [img |-> image, size |-> image_data_size]

(***************************************************************************)
(* remaining_bytes is a uint32_t.  TLC integers are 32-bit signed, so the  *)
(* variable holds the two's-complement reading of the same bits: a         *)
(* negative value stands for one of 2^31 or more, and the unsigned         *)
(* comparison the loop uses is U32AtLeast.                                  *)
(***************************************************************************)
U32AtLeast(x, n) == x < 0 \/ x >= n

-----------------------------------------------------------------------------
(***************************************************************************)
(* Boot (periphs_start): the JPEG semaphore is created taken and is first  *)
(* given by the boot snapshot BSP_CAMERA_Start(0, JPEG_buffer, ...), which *)
(* runs without taking it; the flash semaphore is given.  QSPI_Init and    *)
(* the memory mapping only print their failures, and so does               *)
(* BSP_CAMERA_Init; SetLightMode and the boot snapshot follow whatever it  *)
(* returned (BootBsp).  Frames come only while the sensor streams.         *)
(* The flash keeps what an earlier run stored: nothing, or a complete      *)
(* image (capture 0).                                                      *)
(***************************************************************************)
PreviousImage(s) ==
    [a \in Flash!Slots |->
        IF a = 0 THEN s
        ELSE IF a \in Flash!PayloadSlots(s)
             THEN [img |-> 0, len |-> Flash!PayloadLen(s, a)] ELSE Erased]

BootModes ==
    {Flash!ModeAfterInitAndMap(i, m) : i \in Outcome("Init"), m \in Outcome("MemMap")}

\* the boot snapshot's start fails under its own step name, BootCamStart
BootCamera == {IF ok THEN "running" ELSE "stopped" : ok \in Outcome("BootCamStart")}

Init ==
    /\ ptask = "idle"
    /\ http = "idle"
    /\ jpegSem = 0
    /\ flashSem = 1
    /\ bsp \in BootBsp
    /\ camera \in BootCamera
    /\ got_sof = 0
    /\ image_data_size = 0
    /\ image = Torn
    /\ gen = 0
    /\ flash \in {Flash!BlankBlock} \cup
                 {PreviousImage(s) : s \in CaptureLengths \cap 256..65532}
    /\ wel = FALSE
    /\ ospi \in BootModes
    /\ inflight = {}
    /\ stored = Flash!Decode(flash)
    /\ written = 0
    /\ remaining_bytes = 0
    /\ reboots = 0

(***************************************************************************)
(* A reset or power loss between two steps, then periphs_start again.  RAM *)
(* state starts over and open connections are gone without http_file_sent; *)
(* the flash keeps what the interrupted steps programmed, and the write     *)
(* latch is cleared.  stored keeps the last promise: the steps that change  *)
(* the flash already made it Unknown.  gen keeps counting snapshots so      *)
(* that each capture has its own name.                                     *)
(***************************************************************************)
Reboot ==
    /\ reboots < MaxReboots
    /\ reboots' = reboots + 1
    /\ ptask' = "idle"
    /\ http' = "idle"
    /\ jpegSem' = 0
    /\ flashSem' = 1
    /\ bsp' \in BootBsp
    /\ camera' \in BootCamera
    /\ got_sof' = 0
    /\ image_data_size' = 0
    /\ image' = Torn
    /\ wel' = FALSE
    /\ ospi' \in BootModes
    /\ inflight' = {}
    /\ written' = 0
    /\ remaining_bytes' = 0
    /\ UNCHANGED <<gen, flash, stored>>

-----------------------------------------------------------------------------
(* Waiting on a binary semaphore with a timeout (mmosal_semb_wait).        *)
Take(sem) == sem = 1 /\ sem' = 0
Blocked(sem) == sem = 0

(***************************************************************************)
(* BSP_CAMERA_VsyncEventCallback.  The first edge after the start only     *)
(* sets got_sof; the second stops the DCMI, computes the length from the  *)
(* DMA destination register, clears got_sof and gives the JPEG semaphore   *)
(* from the ISR.                                                           *)
(***************************************************************************)
VsyncFirstEdge ==
    /\ camera = "running" /\ bsp.streaming /\ got_sof = 0
    /\ got_sof' = 1
    /\ UNCHANGED <<bsp, reboots, ptask, http, jpegSem, flashSem, camera, image_data_size,
                   image, gen, flash, wel, ospi, inflight, stored, written,
                   remaining_bytes>>

(* Mutant: the length taken as a difference of uint32_t pointers, that is *)
(* in words, not bytes.                                                    *)
VsyncSecondEdgeWords ==
    /\ camera = "running" /\ bsp.streaming /\ got_sof = 1
    /\ camera' = "stopped"
    /\ \E b \in CaptureSizes :
          image_data_size' = DestOffset(Cam!FrameSize(bsp.Camera_Ctx), b) \div 4
    /\ gen' = gen + 1
    /\ image' = gen + 1
    /\ got_sof' = 0
    /\ jpegSem' = 1
    /\ UNCHANGED <<bsp, reboots, ptask, http, flashSem, flash, wel, ospi, inflight, stored,
                   written, remaining_bytes>>

VsyncSecondEdge ==
    /\ camera = "running" /\ bsp.streaming /\ got_sof = 1
    /\ camera' = "stopped"
    /\ \E b \in CaptureSizes : image_data_size' = DestOffset(Cam!FrameSize(bsp.Camera_Ctx), b)
    /\ gen' = gen + 1
    /\ image' = gen + 1
    /\ got_sof' = 0
    /\ jpegSem' = 1
    /\ UNCHANGED <<bsp, reboots, ptask, http, flashSem, flash, wel, ospi, inflight, stored,
                   written, remaining_bytes>>

-----------------------------------------------------------------------------
(***************************************************************************)
(* periphs_task, periodic branch (counter++ == 40): wait for the JPEG      *)
(* semaphore and, if it was obtained, start a snapshot into the buffer.    *)
(* A tick taken while a snapshot runs starts one more after it ends, so   *)
(* at most MaxGen + 1 snapshots complete.                                  *)
(* The status of BSP_CAMERA_Start is ignored.  The snapshot bound MaxGen   *)
(* stops the periodic branch.                                              *)
(***************************************************************************)
CaptureTick ==
    /\ ptask = "idle" /\ gen < MaxGen
    /\ ptask' = "cap_wait"
    /\ UNCHANGED <<bsp, reboots, http, jpegSem, flashSem, camera, got_sof, image_data_size,
                   image, gen, flash, wel, ospi, inflight, stored, written,
                   remaining_bytes>>

(* Mutant: the snapshot is started without taking JPEG_buffer_lock. *)
CaptureStartUnlocked ==
    /\ ptask = "cap_wait"
    /\ camera' = "running"
    /\ image' = Torn
    /\ ptask' = "idle"
    /\ UNCHANGED <<bsp, reboots, http, jpegSem, flashSem, got_sof, image_data_size, gen,
                   flash, wel, ospi, inflight, stored, written, remaining_bytes>>

CaptureStart ==
    /\ ptask = "cap_wait" /\ Take(jpegSem)
    /\ \E ok \in Outcome("CamStart") :
          /\ camera' = IF ok THEN "running" ELSE camera
          /\ image' = IF ok THEN Torn ELSE image
    /\ ptask' = "idle"
    /\ UNCHANGED <<bsp, reboots, http, flashSem, got_sof, image_data_size, gen, flash, wel,
                   ospi, inflight, stored, written, remaining_bytes>>

CaptureTimeout ==
    /\ ptask = "cap_wait" /\ Blocked(jpegSem)
    /\ ptask' = "idle"
    /\ UNCHANGED <<bsp, reboots, http, jpegSem, flashSem, camera, got_sof, image_data_size,
                   image, gen, flash, wel, ospi, inflight, stored, written,
                   remaining_bytes>>

(***************************************************************************)
(* The button branch: while the button is held the task blinks and counts; *)
(* a press shorter than ERASE_IMAGE_BOTTUN_WAIT_SECONDS(4) runs            *)
(* save_image, a longer one erase_image.                                   *)
(***************************************************************************)
ButtonPressed ==
    /\ ptask = "idle"
    /\ ptask' = "button"
    /\ UNCHANGED <<bsp, reboots, http, jpegSem, flashSem, camera, got_sof, image_data_size,
                   image, gen, flash, wel, ospi, inflight, stored, written,
                   remaining_bytes>>

(* save_image: the size check runs before any semaphore is taken. *)
ButtonShort ==
    /\ ptask = "button"
    /\ ptask' = IF image_data_size < 256 \/ image_data_size > 65532
                THEN "idle" ELSE "sv_jpeg"
    /\ UNCHANGED <<bsp, reboots, http, jpegSem, flashSem, camera, got_sof, image_data_size,
                   image, gen, flash, wel, ospi, inflight, stored, written,
                   remaining_bytes>>

ButtonLong ==
    /\ ptask = "button"
    /\ ptask' = "er_flash"
    /\ UNCHANGED <<bsp, reboots, http, jpegSem, flashSem, camera, got_sof, image_data_size,
                   image, gen, flash, wel, ospi, inflight, stored, written,
                   remaining_bytes>>

-----------------------------------------------------------------------------
(* save_image, lines 175-185: JPEG semaphore, then flash semaphore. *)
SaveTakeJpeg ==
    /\ ptask = "sv_jpeg" /\ Take(jpegSem)
    /\ ptask' = "sv_flash"
    /\ UNCHANGED <<bsp, reboots, http, flashSem, camera, got_sof, image_data_size, image,
                   gen, flash, wel, ospi, inflight, stored, written,
                   remaining_bytes>>

SaveJpegTimeout ==
    /\ ptask = "sv_jpeg" /\ Blocked(jpegSem)
    /\ ptask' = "idle"
    /\ UNCHANGED <<bsp, reboots, http, jpegSem, flashSem, camera, got_sof, image_data_size,
                   image, gen, flash, wel, ospi, inflight, stored, written,
                   remaining_bytes>>

SaveTakeFlash ==
    /\ ptask = "sv_flash" /\ Take(flashSem)
    /\ ptask' = "sv_abort"
    /\ UNCHANGED <<bsp, reboots, http, jpegSem, camera, got_sof, image_data_size, image,
                   gen, flash, wel, ospi, inflight, stored, written,
                   remaining_bytes>>

SaveFlashTimeout ==
    /\ ptask = "sv_flash" /\ Blocked(flashSem)
    /\ ptask' = "idle"
    /\ jpegSem' = 1
    /\ UNCHANGED <<bsp, reboots, http, flashSem, camera, got_sof, image_data_size, image,
                   gen, flash, wel, ospi, inflight, stored, written,
                   remaining_bytes>>

(***************************************************************************)
(* HAL_OSPI_Abort leaves memory-mapped mode.  save_image and erase_image   *)
(* share the step; on failure both return after giving their semaphores,  *)
(* without flash_image_cleanup.                                            *)
(***************************************************************************)
AbortMemoryMap(p, next, holdsJpeg) ==
    /\ ptask = p
    /\ \E ok \in Outcome("Abort") :
          /\ ospi' \in Flash!AbortOutcomes(ok)
          /\ IF ok
             THEN /\ ptask' = next
                  /\ UNCHANGED <<bsp, reboots, jpegSem, flashSem>>
             ELSE /\ ptask' = "idle"
                  /\ flashSem' = 1
                  /\ jpegSem' = IF holdsJpeg THEN 1 ELSE jpegSem
    /\ UNCHANGED <<bsp, reboots, http, camera, got_sof, image_data_size, image, gen, flash,
                   wel, inflight, stored, written, remaining_bytes>>

(***************************************************************************)
(* QSPI_WriteEnable then QSPI_BlockSectorErase(0), both checked: a failure *)
(* of either goes to flash_image_cleanup.  After a failed erase the block  *)
(* no longer holds what the last operation promised.  erase_image promises *)
(* an empty store once the erase succeeded.                                *)
(***************************************************************************)
EraseBlock(p, next, cleanup, promise) ==
    /\ ptask = p
    /\ \E weOk \in Outcome("EraseWE"), erOk \in Outcome("Erase") :
          IF ~weOk
          THEN /\ ptask' = cleanup
               /\ UNCHANGED <<bsp, reboots, flash, wel, stored>>
          ELSE /\ flash' \in Flash!EraseOutcomes(flash, TRUE, erOk)
               /\ wel' = FALSE
               /\ ptask' = IF erOk THEN next ELSE cleanup
               /\ stored' = IF erOk THEN promise ELSE Unknown
    /\ UNCHANGED <<bsp, reboots, http, jpegSem, flashSem, camera, got_sof, image_data_size,
                   image, gen, ospi, inflight, written, remaining_bytes>>

(***************************************************************************)
(* Write enable, then program one page.  The header ([1]) and first-page   *)
(* ([2]) writes only print their failures and carry on; the loop ([3],     *)
(* [4]) checks the program status but not the write enable.                *)
(***************************************************************************)
ProgramStep(weStep, addr, val, ppOk) ==
    \E weOk \in Outcome(weStep) :
        /\ flash' \in Flash!ProgramOutcomes(
                         flash, Flash!WelAfterWriteEnable(wel, weOk),
                         addr, val, ppOk)
        /\ wel' = FALSE

SaveErase == EraseBlock("sv_erase", "sv_header", "sv_cleanup", Unknown)

SaveHeader ==
    /\ ptask = "sv_header"
    /\ \E ok \in Outcome("HeaderProgram") :
          ProgramStep("HeaderWE", 0, image_data_size, ok)
    /\ ptask' = "sv_first"
    /\ UNCHANGED <<bsp, reboots, http, jpegSem, flashSem, camera, got_sof, image_data_size,
                   image, gen, ospi, inflight, stored, written,
                   remaining_bytes>>

(* Mutant: the first page counted as a whole 256-byte page. *)
SaveFirstPageWholePage ==
    /\ ptask = "sv_first"
    /\ \E ok \in Outcome("FirstProgram") :
          ProgramStep("FirstWE", 4, [img |-> image, len |-> 256 - 4], ok)
    /\ ptask' = "sv_loop"
    /\ written' = 256 - 4
    /\ remaining_bytes' = image_data_size - 256
    /\ UNCHANGED <<bsp, reboots, http, jpegSem, flashSem, camera, got_sof, image_data_size,
                   image, gen, ospi, inflight, stored>>

SaveFirstPage ==
    /\ ptask = "sv_first"
    /\ \E ok \in Outcome("FirstProgram") :
          ProgramStep("FirstWE", 4, [img |-> image, len |-> 256 - 4], ok)
    /\ ptask' = "sv_loop"
    /\ written' = 256 - 4
    /\ remaining_bytes' = image_data_size - (256 - 4)
    /\ UNCHANGED <<bsp, reboots, http, jpegSem, flashSem, camera, got_sof, image_data_size,
                   image, gen, ospi, inflight, stored>>

(***************************************************************************)
(* One iteration of while (remaining_bytes): a full page while at least    *)
(* 256 bytes remain, else the final short page and break.  A failed        *)
(* program goes to flash_image_cleanup.                                    *)
(***************************************************************************)
SavePage ==
    /\ ptask = "sv_loop" /\ remaining_bytes # 0
    /\ LET full == U32AtLeast(remaining_bytes, 256)
           len  == IF full THEN 256 ELSE remaining_bytes
       IN \E ok \in Outcome("PageProgram") :
             /\ ProgramStep("PageWE", 4 + written, [img |-> image, len |-> len], ok)
             /\ ptask' = IF ok /\ full THEN "sv_loop" ELSE "sv_cleanup"
             /\ stored' = IF ~ok THEN Unknown
                          ELSE IF full THEN stored ELSE Live
    /\ written' = IF U32AtLeast(remaining_bytes, 256)
                  THEN written + 256 ELSE written
    /\ remaining_bytes' = IF U32AtLeast(remaining_bytes, 256)
                          THEN remaining_bytes - 256 ELSE remaining_bytes
    /\ UNCHANGED <<bsp, reboots, http, jpegSem, flashSem, camera, got_sof, image_data_size,
                   image, gen, ospi, inflight>>

(* The loop ends with nothing left: "Finished successfully." *)
SaveDone ==
    /\ ptask = "sv_loop" /\ remaining_bytes = 0
    /\ stored' = Live
    /\ ptask' = "sv_cleanup"
    /\ UNCHANGED <<bsp, reboots, http, jpegSem, flashSem, camera, got_sof, image_data_size,
                   image, gen, flash, wel, ospi, inflight, written,
                   remaining_bytes>>

(***************************************************************************)
(* flash_image_cleanup(lock_jpeg_buff): QSPI_Init and, if it succeeded,    *)
(* QSPI_EnableMemoryMappedMode (the chip reset clears the write latch);    *)
(* then the JPEG semaphore if the caller holds it, then the flash one.     *)
(***************************************************************************)
(* Mutant: the cleanup re-initialises the chip but never maps it again. *)
CleanupWithoutMap(p, lock_jpeg_buff) ==
    /\ ptask = p
    /\ \E initOk \in Outcome("Init") :
          ospi' = Flash!ModeAfterInitAndMap(initOk, FALSE)
    /\ wel' = FALSE
    /\ jpegSem' = IF lock_jpeg_buff THEN 1 ELSE jpegSem
    /\ flashSem' = 1
    /\ ptask' = "idle"
    /\ written' = 0
    /\ remaining_bytes' = 0
    /\ UNCHANGED <<bsp, reboots, http, camera, got_sof, image_data_size, image, gen, flash,
                   inflight, stored>>

FlashImageCleanup(p, lock_jpeg_buff) ==
    /\ ptask = p
    /\ \E initOk \in Outcome("Init"), mapOk \in Outcome("MemMap") :
          ospi' = Flash!ModeAfterInitAndMap(initOk, mapOk)
    /\ wel' = FALSE
    /\ jpegSem' = IF lock_jpeg_buff THEN 1 ELSE jpegSem
    /\ flashSem' = 1
    /\ ptask' = "idle"
    /\ written' = 0
    /\ remaining_bytes' = 0
    /\ UNCHANGED <<bsp, reboots, http, camera, got_sof, image_data_size, image, gen, flash,
                   inflight, stored>>

(* Mutant: save_image's cleanup called with lock_jpeg_buff = false. *)
SaveCleanupKeepsJpeg == FlashImageCleanup("sv_cleanup", FALSE)

SaveCleanup == FlashImageCleanup("sv_cleanup", TRUE)

-----------------------------------------------------------------------------
(* erase_image: flash semaphore only. *)
(* Mutant: erase_image proceeds without QSPI_flash_lock. *)
EraseTakeFlashUnlocked ==
    /\ ptask = "er_flash"
    /\ ptask' = "er_abort"
    /\ UNCHANGED <<bsp, reboots, http, jpegSem, flashSem, camera, got_sof, image_data_size,
                   image, gen, flash, wel, ospi, inflight, stored, written,
                   remaining_bytes>>

EraseTakeFlash ==
    /\ ptask = "er_flash" /\ Take(flashSem)
    /\ ptask' = "er_abort"
    /\ UNCHANGED <<bsp, reboots, http, jpegSem, camera, got_sof, image_data_size, image,
                   gen, flash, wel, ospi, inflight, stored, written,
                   remaining_bytes>>

EraseFlashTimeout ==
    /\ ptask = "er_flash" /\ Blocked(flashSem)
    /\ ptask' = "idle"
    /\ UNCHANGED <<bsp, reboots, http, jpegSem, flashSem, camera, got_sof, image_data_size,
                   image, gen, flash, wel, ospi, inflight, stored, written,
                   remaining_bytes>>

EraseErase == EraseBlock("er_erase", "er_cleanup", "er_cleanup", NoImage)

EraseCleanup == FlashImageCleanup("er_cleanup", FALSE)


-----------------------------------------------------------------------------
(***************************************************************************)
(* The tcpip thread.  A REST handler runs to completion on it, blocking it *)
(* while it waits on a semaphore; http_file_sent runs on the same thread,  *)
(* so no body can finish sending while a handler is waiting.               *)
(***************************************************************************)
GetImageRequest ==
    /\ http = "idle"
    /\ http' = "img_wait"
    /\ UNCHANGED <<bsp, reboots, ptask, jpegSem, flashSem, camera, got_sof, image_data_size,
                   image, gen, flash, wel, ospi, inflight, stored, written,
                   remaining_bytes>>

(***************************************************************************)
(* rest_ep_get_image: with the semaphore, an empty buffer gives it back at *)
(* once; otherwise the buffer goes to the transport as a constant body and *)
(* the semaphore stays taken until http_file_sent sees its end address.    *)
(***************************************************************************)
GetImageTake ==
    /\ http = "img_wait" /\ jpegSem = 1
    /\ IF image_data_size = 0
       THEN UNCHANGED <<bsp, reboots, jpegSem, inflight>>
       ELSE /\ jpegSem' = 0
            /\ inflight' = inflight \cup
                  {[end |-> <<"SRAM", image_data_size>>, body |-> Live]}
    /\ http' = "idle"
    /\ UNCHANGED <<bsp, reboots, ptask, flashSem, camera, got_sof, image_data_size, image,
                   gen, flash, wel, ospi, stored, written, remaining_bytes>>

GetImageTimeout ==
    /\ http = "img_wait" /\ Blocked(jpegSem)
    /\ http' = "idle"
    /\ UNCHANGED <<bsp, reboots, ptask, jpegSem, flashSem, camera, got_sof, image_data_size,
                   image, gen, flash, wel, ospi, inflight, stored, written,
                   remaining_bytes>>

GetSavedImageRequest ==
    /\ http = "idle"
    /\ http' = "saved_wait"
    /\ UNCHANGED <<bsp, reboots, ptask, jpegSem, flashSem, camera, got_sof, image_data_size,
                   image, gen, flash, wel, ospi, inflight, stored, written,
                   remaining_bytes>>

(***************************************************************************)
(* rest_ep_get_saved_image: with the semaphore it reads the header through *)
(* the memory map without checking the mode; a rejected header gives the   *)
(* semaphore back, a valid one sends the mapped payload.                   *)
(***************************************************************************)
(* Mutant: the handler reads the flash without QSPI_flash_lock. *)
GetSavedImageTakeUnlocked ==
    /\ http = "saved_wait"
    /\ IF ~Flash!HeaderValid(flash)
       THEN UNCHANGED inflight
       ELSE inflight' = inflight \cup
                  {[end |-> <<"FLASH", flash[0]>>, body |-> Flash!Decode(flash)]}
    /\ http' = "idle"
    /\ UNCHANGED <<bsp, reboots, ptask, jpegSem, flashSem, camera, got_sof, image_data_size,
                   image, gen, flash, wel, ospi, stored, written,
                   remaining_bytes>>

GetSavedImageTake ==
    /\ http = "saved_wait" /\ flashSem = 1
    /\ IF ~Flash!HeaderValid(flash)
       THEN UNCHANGED <<bsp, reboots, flashSem, inflight>>
       ELSE /\ flashSem' = 0
            /\ inflight' = inflight \cup
                  {[end |-> <<"FLASH", flash[0]>>, body |-> Flash!Decode(flash)]}
    /\ http' = "idle"
    /\ UNCHANGED <<bsp, reboots, ptask, jpegSem, camera, got_sof, image_data_size, image,
                   gen, flash, wel, ospi, stored, written, remaining_bytes>>

GetSavedImageTimeout ==
    /\ http = "saved_wait" /\ Blocked(flashSem)
    /\ http' = "idle"
    /\ UNCHANGED <<bsp, reboots, ptask, jpegSem, flashSem, camera, got_sof, image_data_size,
                   image, gen, flash, wel, ospi, inflight, stored, written,
                   remaining_bytes>>

(***************************************************************************)
(* http_file_sent(end_address): the JPEG semaphore is given when the end   *)
(* is JPEG_buffer + image_data_size; otherwise, only while the controller  *)
(* is memory-mapped, the flash one when the end is                         *)
(* OCTOSPI1_BASE + 4 + the header read now.  Any other end gives nothing.  *)
(* The restfs transport is not in the repository: when "Transport" may    *)
(* fail, a connection dropped before its body went out leaves the         *)
(* transport without calling http_file_sent at all.                       *)
(***************************************************************************)
HttpFileSent(t) ==
    /\ http = "idle" /\ t \in inflight
    /\ inflight' = inflight \ {t}
    /\ \E delivered \in Outcome("Transport") :
          CASE ~delivered -> UNCHANGED <<jpegSem, flashSem>>
            [] t.end = <<"SRAM", image_data_size>> ->
                  /\ jpegSem' = 1
                  /\ UNCHANGED flashSem
            [] OTHER ->
                  /\ flashSem' = IF ospi = "MemMapped" /\ t.end = <<"FLASH", flash[0]>>
                                 THEN 1 ELSE flashSem
                  /\ UNCHANGED jpegSem
    /\ UNCHANGED <<bsp, reboots, ptask, http, camera, got_sof, image_data_size, image, gen,
                   flash, wel, ospi, stored, written, remaining_bytes>>

-----------------------------------------------------------------------------
SaveAbort == AbortMemoryMap("sv_abort", "sv_erase", TRUE)
EraseAbort == AbortMemoryMap("er_abort", "er_erase", FALSE)

(* periphs_task steps that follow on their own once started *)
TaskStep ==
    \/ CaptureStart \/ CaptureTimeout
    \/ ButtonShort \/ ButtonLong
    \/ SaveTakeJpeg \/ SaveJpegTimeout \/ SaveTakeFlash \/ SaveFlashTimeout
    \/ SaveAbort \/ SaveErase \/ SaveHeader \/ SaveFirstPage \/ SavePage
    \/ SaveDone \/ SaveCleanup
    \/ EraseTakeFlash \/ EraseFlashTimeout \/ EraseAbort \/ EraseErase
    \/ EraseCleanup

HttpStep ==
    \/ GetImageTake \/ GetImageTimeout
    \/ GetSavedImageTake \/ GetSavedImageTimeout

Next ==
    \/ CaptureTick \/ ButtonPressed
    \/ TaskStep
    \/ VsyncFirstEdge \/ VsyncSecondEdge
    \/ GetImageRequest \/ GetSavedImageRequest
    \/ HttpStep
    \/ \E t \in inflight : HttpFileSent(t)
    \/ Reboot

(***************************************************************************)
(* Fairness.  The periodic tick, the button and HTTP requests come from    *)
(* outside and are not fair.  A started task step is weakly fair: the task *)
(* is runnable and every wait ends by a take or by the timeout.  The       *)
(* sensor streams frames while the DCMI runs, so VSYNC edges keep coming.  *)
(* A sent body is strongly fair: the tcpip thread drains its mailbox in    *)
(* order and is idle again after every handler.                            *)
(***************************************************************************)
Fairness ==
    /\ WF_vars(TaskStep)
    /\ WF_vars(HttpStep)
    /\ WF_vars(VsyncFirstEdge \/ VsyncSecondEdge)
    /\ \A e \in {"SRAM", "FLASH"} :
          SF_vars(\E t \in inflight : t.end[1] = e /\ HttpFileSent(t))

Spec == Init /\ [][Next]_vars /\ Fairness

-----------------------------------------------------------------------------
(***************************************************************************)
(* Properties.                                                             *)
(***************************************************************************)
(* the periodic snapshots, plus the boot snapshot of every boot *)
MaxSnapshots == MaxGen + 1 + MaxReboots

TaskPcs == {"idle", "cap_wait", "button", "sv_jpeg", "sv_flash", "sv_abort",
            "sv_erase", "sv_header", "sv_first", "sv_loop", "sv_cleanup",
            "er_flash", "er_abort", "er_erase", "er_cleanup"}

(* the persistence operation holds the flash semaphore and drives the chip *)
PersistencePcs == {"sv_abort", "sv_erase", "sv_header", "sv_first",
                   "sv_loop", "sv_cleanup", "er_abort", "er_erase",
                   "er_cleanup"}

Images == [img : 0..MaxSnapshots \cup {Torn}, size : CaptureLengths \cup 0..65532]

TypeOK ==
    /\ ptask \in TaskPcs
    /\ http \in {"idle", "img_wait", "saved_wait"}
    /\ jpegSem \in {0, 1} /\ flashSem \in {0, 1}
    /\ Cam!TypeOK(bsp)
    /\ camera \in {"running", "stopped"}
    /\ got_sof \in {0, 1}
    /\ image_data_size \in {0} \cup CaptureLengths
    /\ image \in 0..MaxSnapshots \cup {Torn}
    /\ gen \in 0..MaxSnapshots
    /\ DOMAIN flash = Flash!Slots
    /\ wel \in BOOLEAN
    /\ ospi \in Flash!OspiModes
    /\ \A t \in inflight : t.end[1] \in {"SRAM", "FLASH"}
    /\ stored \in Images \cup {NoImage, Garbage, Unknown}
    /\ written \in Nat /\ remaining_bytes \in Int
    /\ reboots \in 0..MaxReboots

(***************************************************************************)
(* The live-image body the transport is still sending is what the JPEG     *)
(* buffer holds, and no snapshot DMA is writing the buffer meanwhile: the  *)
(* periodic capture, the ISR and rest_ep_get_image only hand the buffer    *)
(* over through JPEG_buffer_lock and http_file_sent.                       *)
(***************************************************************************)
NoTornRead ==
    \A t \in inflight :
        t.end[1] = "SRAM" => camera = "stopped" /\ t.body = Live

(***************************************************************************)
(* A saved-image body still being sent is read through a live memory map   *)
(* and the flash still holds the image it started from: save_image and     *)
(* erase_image never abort the mapping or program the chip under a         *)
(* transfer that rest_ep_get_saved_image started.                          *)
(***************************************************************************)
SavedReadSafe ==
    \A t \in inflight :
        t.end[1] = "FLASH" =>
            ospi = "MemMapped" /\ t.body = Flash!Decode(flash)

(***************************************************************************)
(* Whenever no save or erase is running the controller is memory-mapped    *)
(* (spec section 8, "mode invariant"), whatever the outcome of the last    *)
(* operation: rest_ep_get_saved_image reads the map without checking.      *)
(***************************************************************************)
MappedWhenIdle == ptask \notin PersistencePcs => ospi = "MemMapped"

(***************************************************************************)
(* Round trip (spec section 8): once a save has reported success, or an    *)
(* erase has completed, and until the next operation starts, the flash     *)
(* decodes to exactly the promised image (the capture and its size) or to  *)
(* no image.                                                               *)
(***************************************************************************)
Durability ==
    ptask \notin PersistencePcs /\ stored # Unknown =>
        Flash!Decode(flash) = stored

(***************************************************************************)
(* The flash never holds a header that passes the reader's check over a    *)
(* payload that is not one whole capture, once no operation is running.    *)
(***************************************************************************)
StoredImageComplete ==
    ptask \notin PersistencePcs => Flash!Decode(flash) # Garbage

(***************************************************************************)
(* Every page save_image's loop programs starts inside the image it saves: *)
(* the loop never reads past the live image nor writes past its stored     *)
(* extent.                                                                 *)
(***************************************************************************)
SaveBounded ==
    ptask = "sv_loop" /\ remaining_bytes # 0 => written < image_data_size

(***************************************************************************)
(* Refinement of the abstract store.  The store's value is what the flash  *)
(* decodes to; the writer is a save or erase past its take of              *)
(* QSPI_flash_lock; the readers are the saved-image bodies in flight.      *)
(***************************************************************************)
Store == INSTANCE ImageStore WITH
    Contents <- Images \cup {NoImage, Garbage},
    content <- Flash!Decode(flash),
    writer <- ptask \in PersistencePcs,
    readers <- {t.body : t \in {u \in inflight : u.end[1] = "FLASH"}}

(***************************************************************************)
(* The persistence path implements the image store: the flash content      *)
(* changes only inside save_image or erase_image, which start only when no *)
(* saved-image transfer is in flight; rest_ep_get_saved_image starts a     *)
(* transfer only outside them, of the content the flash holds; every save, *)
(* erase and transfer ends.                                                *)
(***************************************************************************)
ImplementsImageStore == Store!StoreSpec

(***************************************************************************)
(* Both semaphores are always given back: a snapshot ends, a save or erase *)
(* cleans up, and a sent body is released by http_file_sent.               *)
(***************************************************************************)
LocksEventuallyFree ==
    /\ jpegSem = 0 ~> jpegSem = 1
    /\ flashSem = 0 ~> flashSem = 1

=============================================================================
