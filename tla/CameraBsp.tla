------------------------------ MODULE CameraBsp ------------------------------
(***************************************************************************)
(* The camera BSP of src/BSP-EKH05/bsp/Src/ekh05_camera.c over the I2C     *)
(* bus wrappers of ekh05_bus.c, as the demo drives it.  Its state is three *)
(* static globals, held here as one record:                                *)
(*   - Camera_Drv: NULL until OV5640_Probe has read the sensor's ID;       *)
(*   - Camera_Cap: the features the driver reported, none until then;      *)
(*   - Camera_Ctx: resolution, pixel format, buffer size and light mode,   *)
(*     recorded by a BSP_CAMERA_Init whose probe succeeded.                *)
(* Two fields describe the world around them: streaming (the OV5640 sends  *)
(* frames) and the ghost nullCall (some call went through a NULL           *)
(* Camera_Drv).  Every operation is an operator from a state to the set of *)
(* its outcomes [bsp, ret]; a sensor I2C transaction succeeds, or may also *)
(* fail when FALSE \in BusOk.                                              *)
(*                                                                         *)
(* USE_HAL_DCMI_REGISTER_CALLBACKS is taken as 0 (the HAL default): the    *)
(* DCMI events reach the BSP callbacks through the HAL_DCMI_*Callback      *)
(* overrides, and BSP_CAMERA_Init registers no callbacks.                  *)
(***************************************************************************)
EXTENDS Integers

CONSTANT BusOk      \* the outcomes a sensor I2C transaction may have

ASSUME TRUE \in BusOk /\ BusOk \subseteq BOOLEAN

(* Codes of the BSP camera header: the static Camera_Ctx starts as zero,   *)
(* which is CAMERA_R160x120 and CAMERA_PF_RGB565.                          *)
Resolutions == {"R160x120", "R320x240", "R480x272", "R640x480", "R800x480"}
PixelFormats == {"RGB565", "RGB888", "YUV422", "JPEG"}
LightModes == {"NONE", "HOME"}

\* the OV5640 driver reports every feature the BSP asks about
OV5640Caps == {"Resolution", "LightMode", "ColorEffect", "Brightness", "Saturation",
               "Contrast", "HueDegree", "MirrorFlip", "Zoom", "NightMode"}

BspReset ==
    [Camera_Drv |-> "NULL", Camera_Cap |-> {},
     Camera_Ctx |-> [Resolution |-> "R160x120", PixelFormat |-> "RGB565",
                     BufferSize |-> 0, LightMode |-> "NONE"],
     streaming |-> FALSE, nullCall |-> FALSE]

Out(b, ret) == [bsp |-> b, ret |-> ret]

(* A call through Camera_Drv: with Camera_Drv = NULL it jumps to address 0. *)
ThroughDrv(b) == [b EXCEPT !.nullCall = @ \/ b.Camera_Drv = "NULL"]

(***************************************************************************)
(* BSP_I2C_ReadReg16 / BSP_I2C_WriteReg16: one HAL_I2C_Mem_* transfer with *)
(* a 16-bit register address; a failure is an acknowledge failure or a     *)
(* peripheral failure, both negative, which the driver turns into its own  *)
(* error.  BSP_USE_CMSIS_OS is not defined, so no bus semaphore is taken.  *)
(***************************************************************************)
I2cStatus(ok) == IF ok THEN "NONE" ELSE "BUS_FAILURE"

BusOutcomes == {I2cStatus(ok) : ok \in BusOk}

(***************************************************************************)
(* BSP_CAMERA_HwReset: the STANDBY and RSTI pin sequence; the sensor stops *)
(* streaming until it is configured again.  Always BSP_ERROR_NONE.         *)
(***************************************************************************)
HwReset(b) == [b EXCEPT !.streaming = FALSE]

(***************************************************************************)
(* OV5640_Probe: read the chip ID over I2C; on a match (the board carries  *)
(* an OV5640) set Camera_Drv, then                                         *)
(* the driver's Init (a register table written over I2C), GetCapabilities  *)
(* (no bus traffic) and MirrorFlipConfig.  A table write that fails part   *)
(* way leaves the sensor streaming or not.  Camera_Cap is filled only by   *)
(* GetCapabilities, after Camera_Drv is set.                               *)
(***************************************************************************)
OV5640_Probe(b) ==
    LET drv == [b EXCEPT !.Camera_Drv = "OV5640"]
        cfg == [drv EXCEPT !.streaming = TRUE, !.Camera_Cap = OV5640Caps]
    IN  {Out(cfg, "NONE")}
        \cup IF "BUS_FAILURE" \notin BusOutcomes THEN {}
             ELSE {Out(b, "COMPONENT_FAILURE"), Out(cfg, "COMPONENT_FAILURE")}
                  \cup {Out([drv EXCEPT !.streaming = st], "COMPONENT_FAILURE") :
                           st \in BOOLEAN}

(***************************************************************************)
(* BSP_CAMERA_Init(0, Resolution, PixelFormat, BufferSize): the DMA queue  *)
(* setup, HwReset, the probe; Camera_Ctx is recorded only when the probe   *)
(* succeeded, and a failed probe is BSP_ERROR_UNKNOWN_COMPONENT.           *)
(***************************************************************************)
BSP_CAMERA_Init(b, res, pf, size) ==
    {IF p.ret = "NONE"
     THEN Out([p.bsp EXCEPT !.Camera_Ctx.Resolution = res,
                            !.Camera_Ctx.PixelFormat = pf,
                            !.Camera_Ctx.BufferSize = size], "NONE")
     ELSE Out(p.bsp, "UNKNOWN_COMPONENT")
        : p \in OV5640_Probe(HwReset(b))}

(***************************************************************************)
(* BSP_CAMERA_SetLightMode: FEATURE_NOT_SUPPORTED while Camera_Cap does not *)
(* list it; otherwise the driver call (an I2C table write), and the mode   *)
(* is recorded when it succeeds.                                           *)
(***************************************************************************)
\* Camera_Drv->SetLightMode, recording the mode when it succeeds
LightModeCall(b, mode) ==
    {IF s = "NONE" THEN Out([ThroughDrv(b) EXCEPT !.Camera_Ctx.LightMode = mode], s)
     ELSE Out(ThroughDrv(b), "COMPONENT_FAILURE") : s \in BusOutcomes}

(* Mutant: the Camera_Cap check is left out. *)
SetLightModeUnchecked(b, mode) == LightModeCall(b, mode)

BSP_CAMERA_SetLightMode(b, mode) ==
    IF "LightMode" \notin b.Camera_Cap THEN {Out(b, "FEATURE_NOT_SUPPORTED")}
    ELSE LightModeCall(b, mode)

(***************************************************************************)
(* GetSize: the frame of an uncompressed format in 32-bit words, 3 bytes a *)
(* pixel for RGB888 and 2 otherwise.                                       *)
(***************************************************************************)
Pixels == [R160x120 |-> 160 * 120, R320x240 |-> 320 * 240, R480x272 |-> 480 * 272,
           R640x480 |-> 640 * 480, R800x480 |-> 800 * 480]

GetSize(res, pf) == (Pixels[res] * (IF pf = "RGB888" THEN 3 ELSE 2)) \div 4

(***************************************************************************)
(* BSP_CAMERA_Start: the DMA length is BufferSize / 4 words for JPEG and   *)
(* GetSize otherwise, both read from Camera_Ctx; then HAL_DCMI_Start_DMA.  *)
(***************************************************************************)
FrameSize(ctx) ==
    IF ctx.PixelFormat = "JPEG" THEN ctx.BufferSize \div 4
    ELSE GetSize(ctx.Resolution, ctx.PixelFormat)

(***************************************************************************)
(* periphs_start: BSP_CAMERA_Init(0, CAMERA_R320x240, CAMERA_PF_JPEG,      *)
(* JPEG_BUFFER_SIZE), then BSP_CAMERA_SetLightMode(0, CAMERA_LIGHT_HOME),  *)
(* whatever Init returned; the status of both is only printed or ignored. *)
(* BSP_CAMERA_Start follows, and its outcome is the caller's.               *)
(***************************************************************************)
CameraBringUp(size) ==
    UNION {{l.bsp : l \in BSP_CAMERA_SetLightMode(i.bsp, "HOME")} :
               i \in BSP_CAMERA_Init(BspReset, "R320x240", "JPEG", size)}

TypeOK(b) ==
    /\ b.Camera_Drv \in {"NULL", "OV5640"}
    /\ b.Camera_Cap \subseteq OV5640Caps
    /\ b.Camera_Ctx.Resolution \in Resolutions
    /\ b.Camera_Ctx.PixelFormat \in PixelFormats
    /\ b.Camera_Ctx.LightMode \in LightModes
    /\ b.streaming \in BOOLEAN /\ b.nullCall \in BOOLEAN
=============================================================================
