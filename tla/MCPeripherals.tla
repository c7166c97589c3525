---------------------------- MODULE MCPeripherals ----------------------------
(***************************************************************************)
(* Model-checking instances of Peripherals.                                *)
(*                                                                         *)
(* Snapshot lengths are chosen around the page arithmetic of save_image:   *)
(* 300 ends in a short page after the first, 508 fills page 1 exactly so   *)
(* the loop ends on remaining_bytes = 0, and 560 needs a full page and a   *)
(* short one.  All are within the range save_image accepts and below      *)
(* JPEG_BUFFER_SIZE, so DestOffset leaves them as they are; a longer       *)
(* stream only adds a length the DMA wraps to, one of these or 0.          *)
(***************************************************************************)
EXTENDS Peripherals

MC_CaptureSizes == {300, 508, 560}

\* a 300-byte snapshot, and a 32868-byte one that overruns JPEG_buffer: the
\* circular DMA wraps it to 100 bytes, shorter than the first page's 252
\* payload bytes
MC_ShortCaptureSizes == {32868, 300}

MC_NoFailures == {}

\* the driver calls whose failure save_image and erase_image check
MC_CheckedFailures == {"EraseWE", "Erase", "PageProgram"}

\* the write-enable and program calls whose status save_image ignores
MC_IgnoredFailures == {"HeaderWE", "HeaderProgram", "FirstWE", "FirstProgram",
                       "PageWE"}

\* HAL_OSPI_Abort timing out
MC_AbortFailure == {"Abort"}

\* the page program of the loop failing after the header was written
MC_PageFailure == {"PageProgram"}

\* QSPI_Init or QSPI_EnableMemoryMappedMode failing in flash_image_cleanup
MC_RemapFailure == {"Init", "MemMap"}

\* BSP_CAMERA_Start failing in the periodic capture (peripherals.c:317);
\* the camera initialises and the boot snapshot starts
MC_StartFailure == {"CamStart"}

\* the transport dropping a connection before its body is sent
MC_DropFailure == {"Transport"}

=============================================================================
