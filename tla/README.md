# TLA+ models of the EKH05 camera demo

This directory holds TLA+ specifications of the concurrent parts of the
EKH05 demo application (`src/Example/EKH05-Demo`) and of the W25Q16JV QSPI
flash driver it uses (`src/BSP-EKH05/components/w25q16jv`), with the TLC
configurations that check them. They also cover the sequential pieces of the
HaLow port that the example boards share: the BCF selection of
`src/HaLow_example_spi/Core/Src/main.c` and three files of the FreeRTOS shim
(`src/morselib/with_wpa_supplicant/src/shim_freertos`).

## The system and how its parts interact

* **periphs_task** (`peripherals.c:303-351`, low priority). Every 41st loop
  it takes `JPEG_buffer_lock` and starts a DCMI snapshot into `JPEG_buffer`.
  While the user button is held it counts half-seconds. A short press runs
  `save_image`; a press of 4 s or more runs `erase_image`.
* **VSYNC interrupt** (`BSP_CAMERA_VsyncEventCallback`,
  `peripherals.c:287-301`). The first edge after a start sets `got_sof`. The
  second edge stops the DCMI, computes `image_data_size` from the DMA
  destination register and gives `JPEG_buffer_lock`. `BSP_CAMERA_Start`
  runs the DMA on a circular linked-list queue (`MX_DCMIQueue_Config`,
  `ekh05_camera.c:180-248`) of `BufferSize / 4` words. So a JPEG longer than
  the 32 KiB `JPEG_buffer` wraps, and its length is read modulo 32 KiB. The
  model's `DestOffset` is that conversion, applied to the stream lengths in
  `CaptureSizes`.
* **Persistence** (`save_image` 164-285, `erase_image` 121-162,
  `flash_image_cleanup` 98-119):
  - `save_image` takes the JPEG lock, then `QSPI_flash_lock`, and aborts
    memory-mapped mode.
  - It then erases block 0, programs a 4-byte size header at address 0 and
    the first 252 image bytes at address 4, and writes the rest in 256-byte
    pages.
  - It finally re-initialises the chip, re-maps it, and gives the locks back.
  - `erase_image` does the same with the flash lock only.
* **tcpip thread** (`http.c`):
  - `rest_ep_get_image` takes the JPEG lock and hands the buffer to the
    transport as a constant body.
  - `rest_ep_get_saved_image` takes the flash lock, checks the header through
    the memory map and hands the mapped payload over.
  - In both cases the lock stays taken until the transport calls
    `http_file_sent(end_address)` on the same thread. That function gives
    the JPEG lock when the end address is the end of the live image. It
    gives the flash lock when the flash is memory-mapped and the end address
    is the end of the stored image.
* **QSPI driver** (`w25q16jv.c`): write enable plus poll for WEL, 64K block
  erase, page program plus poll for ready, chip reset plus status
  configuration (`QSPI_Init`), and memory mapping. Every call returns
  `HAL_OK` or an error.
* **Web terminal** (`shared_buffer.c`, `demo_ping.c`, `http.c`):
  - `demo_ping_task` (low priority) waits on `ping_task_start`, then runs
    `ping_routine`. Every line it prints goes through `dual_print`, which
    calls `shared_buffer_append` on `http_terminal_buffer`. The append
    checks the free space, then takes `buffer_lock_released` (a binary
    semaphore, 500 ms wait), copies the line, and gives the lock.
  - On the tcpip thread, `rest_ep_get_terminal` takes the lock, copies the
    buffer into the response, gives the lock, and calls
    `shared_buffer_reset`, which takes the lock again to empty the buffer.
  - `cgi_set_ping_start` calls `ping_start`: a reset, then a give of
    `ping_task_start`. `rest_ep_stop_operation` calls `ping_stop`, which
    sets `break_ping`; only `ping_routine` clears it.
  - The ping task is created at `MMOSAL_TASK_PRI_LOW` (`demo_ping.c:148`),
    below the tcpip thread. On one core with fixed priorities it runs only
    while the tcpip thread is idle or blocked on the lock. `Terminal`
    models this (`PingMayRun`). Nothing of the ping task runs between the
    unlock and the reset of `rest_ep_get_terminal`. The ping task also
    never finds the lock taken, so the timeout branch of its wait is not
    an action.
* **Sensors and BLE** (`demo_accelerometer.c`, `demo_temperature.c`,
  `bluenrg_app/`, `http.c`):
  - Each loop of periphs_task runs `accelerometer_process`, which stores a
    new sample into `data_raw_acceleration`. It then runs
    `MX_BlueNRG_2_Process`: the handler of every queued BlueNRG event, then
    `User_Process`. `temperature_process` runs every 41st loop.
  - The event handlers set `connected`, `paired` and `connection_handle`,
    and the subscription flags `send_env`/`send_mot`. They answer reads
    with `aci_gatt_allow_read` and the pass-key request with
    `aci_gap_pass_key_resp`.
  - `User_Process` re-advertises after a disconnection. Every 22nd call it
    updates the characteristics a client subscribed to.
  - On the app thread, once WiFi is up, `app_init` calls
    `update_ble_ip_report`, which sends one more ACI command.
  - On the tcpip thread, `rest_ep_get_sensors` copies the sensor globals.
* **Camera BSP** (`ekh05_camera.c` over the I2C wrappers of
  `ekh05_bus.c`). `periphs_start` calls `BSP_CAMERA_Init`, which runs
  `BSP_CAMERA_HwReset` and then `OV5640_Probe`. The probe reads the
  sensor ID, sets `Camera_Drv`, runs the driver's register tables, fills
  `Camera_Cap`, and sets mirror/flip, each over I2C. `Camera_Ctx` is
  recorded only if the probe succeeds. Then come `BSP_CAMERA_SetLightMode`
  (refused while `Camera_Cap` lacks the feature) and `BSP_CAMERA_Start`,
  whatever `Init` returned. `Start` sizes the DMA from `Camera_Ctx`:
  `BufferSize / 4` words for JPEG, `GetSize` otherwise.
* **Configuration store** (`mmconfig.c`): `ping_init` (run by `app_init`
  before the ping task starts) reads `ping.target` with
  `mmconfig_read_string` and `ping.count` with `mmconfig_read_uint32`. These
  readers look a key up in the NULL-terminated table (`mmconfig_read_data`,
  first match wins) and convert its text with `mmconfig_str_to_uint`/`_int`.
  The store holds no lock and is read before any task runs.
* **WLAN binaries** (`mmhal_wlan_binaries.c`, HaLow `main.c:124-145`).
  Before the scheduler starts, `main()` measures the front-end supply with
  ADC1. A reading of at least `BCF_VFEM_THRESHOLD` (9500) selects the
  4.3 V board configuration file (BCF), a lower one the 3.3 V BCF. A
  conversion that times out selects none. At `app_wlan_start` the driver
  loads the firmware and the BCF in chunks through
  `mmhal_wlan_read_fw_file` and `mmhal_wlan_read_bcf_file`. The BCF reader
  falls back to the 3.3 V file when none was selected.
* **FreeRTOS shim.** `pvPortRealloc` (`realloc.c`) resizes a heap_4 block
  by malloc, copy and free. It reads heap_4's block header, which sits just
  before the caller's pointer. `vPortSuppressTicksAndSleep` (`hooks.c`) is
  the tickless idle hook. It sleeps through the mmhal sleep interface in
  rounds and steps the FreeRTOS tick by the time a deep sleep took.
* **REST replies** (`http.c:121-165`, `peripherals.c:401-428`). The LED,
  sensor and config endpoints run on the tcpip thread, one request at a
  time. All three `sprintf` their JSON reply into the one static
  `cgi_buffer[128]` and send it from there. `rest_ep_toggle_leds` first
  calls `periphs_toggle_leds`, which steps a static counter round 1, 2, 0
  and lights one LED for each value. It then names that colour. Any other
  value would send the buffer unchanged, but the counter never leaves 0
  to 2, so that default case is dead code.
* Not modelled: the rest of board bring-up (clock, GPIO and bus setup).
  PROJECT.json gives the reason.

These sequential pieces share no state with the tasks, so each is checked
as one call on bounded inputs. In the terminal run such a call is made and
returns before the first terminal step (see `MCPingConfig`). The
conversion, WLAN, realloc, idle and REST-reply calls touch nothing the
terminal reads.
So checking them at boot is sound even where the program makes them later:
the WLAN load at `app_wlan_start`, realloc and the idle hook at run time.

The two locks are mmosal binary semaphores:

* They have no owner, so any context may give them.
* Every wait has a 500 ms timeout (`JPEG_BUFFER_TIMEOUT_MS`).
* A handler's lock is given back by a later callback, not by the handler.

Together these make the locking protocol a cross-actor hand-off, and the
models check that hand-off.

## Modules

| Module | Models | State |
|---|---|---|
| `QspiFlash` | the flash device and controller as the driver drives them | `flash` (slot → content), `wel` (write-enable latch), `ospi` (MemMapped / Command / Error) |
| `Peripherals` | periphs_task, the VSYNC ISR, the two image endpoints and `http_file_sent`, composed over `QspiFlash` | program counters `ptask` and `http`, `jpegSem`, `flashSem`, `camera`, `got_sof`, `image_data_size`, `image`, `inflight`, plus the save loop's `written` and `remaining_bytes`, and `reboots` |
| `ImageStore` | what the image store promises (spec section 8): one value, replaced only by a writer that holds it alone, read by transfers that no writer disturbs | `content`, `writer`, `readers` |
| `MCPeripherals` | the constants for TLC | – |
| `Terminal` | `demo_ping_task`/`ping_routine` with `dual_print` and `shared_buffer_append`, and the tcpip handlers for the terminal, ping start and stop | program counters `pingPc` and `http`, the append in progress (`apLen`, `apRet`, `apFold`), `shared_buffer_ok`, `running`, `reports`, `break_ping`, `ping_in_progress`, `startSem`, `bufSem`, `currentIndex`, plus ghost state |
| `CameraBsp` | the camera BSP globals through `BSP_CAMERA_Init` (with `HwReset` and `OV5640_Probe`), `SetLightMode`, and `GetSize` and the DMA length of `BSP_CAMERA_Start`; operators from a BSP state to its outcomes, with every sensor I2C transaction able to fail | a record: `Camera_Drv`, `Camera_Cap`, `Camera_Ctx`, plus `streaming` (the sensor sends frames) and the ghost `nullCall` |
| `MCTerminal` | the line lengths for TLC | – |
| `MmConfig` | `mmconfig.c`: the conversions, key validation, the table lookup and every reader, as operators; plus one boot-time call of a conversion, of key validation or of `read_string` on a bounded input | `call` (the call in progress, or `Done`) |
| `MCPingConfig` | `Terminal` composed with the boot of `app_init`. One boot call (the camera bring-up of `periphs_start`, or one `MmConfig` call as `ping_init` makes them) returns before the first terminal step. Also the table and key characters for TLC. The call can also be a WLAN read or load, a `pvPortRealloc`, or a tickless idle call. | – |
| `BleSensors` | the outcome of the sensor and BLE init in `periphs_start`, the sensor and BLE steps of periphs_task, the BLE event handlers and `User_Process`, the app thread's IP report, `rest_ep_get_sensors`, and the BlueNRG stack and phone as the environment | the BLE globals, the stack side (`link`, `handle`, event queue `evq`, `readPending`, `requests`, `owed`), periphs_task's `pc` and pending ACI commands `cmds`, `hci` (tasks inside an ACI command), the sensor globals as sample parities, `appPc`, the ghost `mixed`, and `boot` (which sensors were found, and whether the W2ST service was added) |
| `MCBleSensors` | the connection handles for TLC | – |
| `WlanBinaries` | `main()`'s BCF choice (`SelectBcf`), `mmhal_wlan_read_bcf_file` and `mmhal_wlan_read_fw_file`, as operators. It also holds the driver's reading loop (`LoadFrom`), which is outside the repository. | the statics `bcf_data`/`bcf_length` as a record; a `struct mmhal_robuf` as a record whose `buf` is a file and offset |
| `PortRealloc` | `pvPortRealloc` as an operator over a heap of two blocks: the one `pv` points into and the one `pvPortMalloc` returns (or `NoBlock`) | a block is its `BlockLink_t` (the allocated bit, `pxNextFreeBlock`, `xBlockSize`) and its payload bytes |
| `RestReplies` | `rest_ep_toggle_leds`, `rest_ep_get_sensors`, `rest_ep_get_configs` and `periphs_toggle_leds` as operators on the state they share; `Serve` runs a script of requests through them in order. A reply is its writer, its colour and its length; `DecLen` is the length of `%d`/`%ld` text. | a record: the static `counter`, the three LEDs, `cgi_buffer` and the last reply sent |
| `TicklessIdle` | `vPortSuppressTicksAndSleep` as a RECURSIVE operator, one call per loop round. A script of answers drives it: the prepared sleep state, the two `eTaskConfirmSleepModeStatus` results, and the time `mmhal_sleep` reports. | the trace of HAL and kernel calls the hook makes |

How the models correspond to the code:

* **Camera BSP in Peripherals.** `Peripherals` holds the BSP globals in
  `bsp`, which is set at boot and at every reboot from `BootBsp`: the
  states `CameraBringUp` can leave. VSYNC edges need `bsp.streaming`. The
  DMA wrap length is `Cam!FrameSize(bsp.Camera_Ctx)`. The sensor's I2C
  steps fail under the step name `CamInit`, the boot `BSP_CAMERA_Start`
  under `BootCamStart`, and the periodic one (`peripherals.c:317`) under
  `CamStart`. A camera dead from boot never gives `JPEG_buffer_lock` at
  all. That is the stalled sensor spec section 9 leaves out of scope, so
  no run enables `CamInit` or `BootCamStart`. The bring-up failures are
  checked in the terminal run instead (`DriverCallSafe`).

* **Flash content.** The flash is abstracted to the slots the save path
  writes:
  - the header at address 0;
  - the 252-byte first payload at address 4;
  - whole pages at 256·k.

  A slot holds `Erased`, `Garbage`, the header word, or
  `[img, len]`: which snapshot's bytes it holds, and how many.
  `Decode(flash)` is what `rest_ep_get_saved_image` would send.
* **Device rules.**
  - Programming a slot that is not erased gives `Garbage`.
  - A program without WEL is ignored but reports OK, because the busy poll
    matches at once.
  - A command that fails may or may not have reached the device.
* **Failures.** The constant `FailSteps` names the driver calls that may
  fail in a run. Every call that may fail has both outcomes.
* **Actions.** Every `mmosal_semb_wait` has a take action and a timeout
  action. The timeout is enabled only while the semaphore is taken, so a
  timeout is never taken spuriously.
* **Handlers.** Each REST handler is one atomic action. It runs to
  completion on the tcpip thread, and `http_file_sent` runs on that same
  thread, so it can only run while the thread is idle.
* **Lengths.** `remaining_bytes` is a `uint32_t`. It is held in two's
  complement, and `U32AtLeast` is the unsigned comparison.
* **Reboot.** `Reboot` resets every RAM variable between any two steps and
  re-runs `periphs_start` (`peripherals.c:353-399`): the camera is running
  or stopped after `BSP_CAMERA_Init` (`BootCamera`), and the controller
  ends memory-mapped, in command mode or in error after `QSPI_Init` and
  `EnableMemoryMappedMode` (`BootModes`). The flash, `stored` and the
  snapshot counter survive. `MaxReboots` bounds the resets.
* **Refinement.** `Store == INSTANCE ImageStore` maps `content` to
  `Decode(flash)`, `writer` to "periphs_task is inside `save_image` or
  `erase_image` holding the flash lock", and `readers` to the saved-image
  bodies in flight.
* **Ghost variable.** `stored` records what the last finished save or erase
  promised: the image, `NoImage`, or `Unknown` after a failure.

* **Terminal.** Every step between two waits, unlocks or shared-variable
  accesses is one action, so the ping task and the tcpip thread interleave
  at each of them:
  - the append's space check, its lock wait, and its copy-and-unlock are
    separate actions;
  - so are the terminal read's copy-and-unlock and its reset.

  `Call`/`Return` model `dual_print` as a subroutine of the ping task. A
  line is abstracted to its length. The mmping engine is outside the
  repository: each poll chooses whether it still runs and whether its
  counters changed.
* **Terminal ghost state.**
  - `unread` counts lines in the buffer that no terminal read returned.
  - `lost` records that a line the append reported as taken vanished
    unread.
  - `stopAsked`, `userBreak` and `termPrinted` record, per ping, whether a
    stop was requested, whether the loop left on `break_ping`, and whether
    "Terminated by user." was printed.

* **BLE.** `hci_user_evt_proc` handles one event per step, oldest first.
  The stack queues events in the order things happen on the air, and a
  client can only request something while connected.
  - An ACI command is two steps, `AciBegin` (sent) and `AciEnd` (response
    received, with its effect on the stack), so other tasks can run in
    between. The BlueNRG HCI layer is outside the repository. The model
    gives `hci_send_req` no lock, because the code around it takes none.
  - The app thread busy-waits inside `hci_send_req` at a priority above
    periphs_task (`MMOSAL_TASK_PRI_LOW`), so periphs_task makes no step
    while the app thread is inside a command (`PeriphsRuns`).
  - `SECURE_PAIRING` is 0, so a connection sets `pairing` and `paired` at
    once.
  - `boot` records what `periphs_start` brought up, as chosen in `Init`.
    `MX_BlueNRG_2_Init` ignores the status of `Sensor_DeviceInit`. When
    that function returned early (after `aci_gap_init`), no W2ST
    characteristic exists, so the phone has nothing to subscribe to or
    read: `StackWriteCccd` and `StackRead` need `boot.w2st`.
* **Sensors.** The driver stores a sample axis by axis. A 6-byte array and
  two 32-bit globals cannot be written in one store. A reading is the
  parity of its sample number, so a reply that mixes two samples shows up
  as unequal parities. A sensor that its init did not find
  (`sensor_initialized = 0`, `boot.acc` or `boot.th` false) never stores
  anything.

## Properties

* `TypeOK`: types and bounds. `image_data_size` is one of the lengths a
  snapshot can produce, so a length computed in the wrong unit is caught.
  Only the core run checks it.
* `NoTornRead`: a live-image body in flight is what the buffer holds, and the
  DCMI is stopped.
* `SavedReadSafe`: a saved-image body in flight is read through a live memory
  map, and the flash still decodes to it.
* `MappedWhenIdle`: whenever no save or erase runs, the controller is
  memory-mapped (spec section 8, mode invariant).
* `Durability`: after a save that reported success, or a finished erase,
  the flash decodes to exactly what was promised (spec section 8, round
  trip).
* `StoredImageComplete`: once no operation runs, the flash never holds an
  accepted header over a payload that is not one whole image.
* `SaveBounded`: every page of the save loop starts inside the image.
* `LocksEventuallyFree`: each semaphore that is taken is eventually given
  back.
* `ImplementsImageStore`: `Peripherals` implements `ImageStore` under the
  mapping above. A saved-image read starts only on a complete image and no
  writer runs while it is in flight, the flash changes only under a writer,
  and every write and read ends.

Terminal:

* `TypeOK`: types and bounds.
* `NeverOverfills`: `currentIndex` never exceeds `BUFFER_SIZE`. The space
  check runs before the lock, so this depends on no one else growing the
  buffer in between.
* `TerminatorInBounds`: `buffer[currentIndex] = '\0'` stays inside the
  array.
* `NoLostLine`: no line the append reported as stored is erased before a
  terminal read returned it. It holds because the tcpip thread's priority
  closes the window between the unlock and the reset of
  `rest_ep_get_terminal`, and because the reset is made only when the
  read's lock wait succeeded.
* `StopOnlyWhenAsked`: a ping leaves its loop on `break_ping` only if a stop
  was requested while it ran.
* `UserStopReported`: a ping the user stopped prints "Terminated by user.".
* `BufferLockFree`: the buffer lock, once taken, is always given back.

MmConfig (checked on every boot call, in the terminal run):

* `Uint32ParseCorrect`: `str_to_uint` accepts the decimal, `0x` and `0X`
  numerals of every value below 2^32 and returns that value. It rejects
  every larger value, including values that wrap the `uint64_t`
  accumulator.
* `Int32ParseCorrect`: `str_to_int` accepts exactly the `int` range.
  `INT_MIN` is accepted and 2^31 is rejected.
* `KeyValidationCorrect`: `validate_key` accepts exactly the well-formed
  keys. It reports a wildcard exactly for a well-formed key followed by one
  final `*`.
* `ReadStringFits`: a successful `read_string` copies the whole value and
  its terminator, never more than `bufsize` bytes. It succeeds whenever the
  buffer is large enough.

The 64-bit accumulator is held as four 16-bit limbs (most significant
first), because TLC integers are 32-bit. Text is a sequence of character
codes. The reference definitions build numerals from values (`Numerals`,
the RECURSIVE `DigitsOf`); they do not parse them.

BleSensors:

* `TypeOK`: types and bounds.
* `ConnectableAgain`: after every disconnection the device advertises
  again.
* `ReadAnswered`: every read the stack holds for the application is
  released by `aci_gatt_allow_read`, or ends with its link.
* `SubscribersServed`: a client that subscribed to a characteristic and
  stays connected receives an update of it.
* `DataRaceFree`: the HCI transport carries one ACI command at a time
  (`HciExclusive`), and a sensors reply is one sample of each sensor.

MCPingConfig (the camera bring-up boot call, in the terminal run):

* `DriverCallSafe`: the bring-up never calls through a NULL `Camera_Drv`.
  This holds whichever sensor I2C transaction of the probe fails: the
  `SetLightMode` that follows is refused on `Camera_Cap`, or it finds the
  driver set.
* `ChunkInBounds`: a read of the BCF or the firmware returns only bytes of
  that file, starting at the offset asked for, and at most `requested_len`
  of them. This holds at every offset, one past the end and beyond
  included. Only the sanity check on `offset` keeps `length - offset` from
  wrapping round as a `size_t`.
* `BinariesLoad`: the driver reads from offset 0, one chunk at a time,
  until it gets an empty chunk. It then holds the whole firmware, and the
  BCF for the supply `main()` measured. An ADC timeout gets the 3.3 V BCF
  through the reader's fallback.
* `ReallocPreserves`: `pvPortRealloc` never loses the caller's object. If
  it returns NULL, the old block is unchanged: neither freed nor written.
  If it moves a valid `pv`, three things hold:
  - the new block starts with the first `min(n, w)` bytes of the object;
  - the copy stays inside both payloads;
  - the old block is freed.

  A `configASSERT` that halts is the only other outcome.
* `IdleTicksAccounted`: over several rounds of the idle loop, aborted or
  not, the tick is stepped by exactly the time spent in deep sleep. It is
  stepped by no more than the expected idle time, as long as `mmhal_sleep`
  never reports more than it was asked to sleep.
* `IdleSleepClosed`: every prepared sleep is closed, by
  `mmhal_sleep_abort` or `mmhal_sleep_cleanup`, before the next prepare
  and before the hook returns. `mmhal_sleep` runs only inside a prepared
  round.
* `SensorsReplyFits`: the sensors reply and its terminator fit in
  `cgi_buffer` at the int16 and int32 edges of every value. The longest
  reply is 97 characters. Every reply of a request script fits as well.

## Runs

| Run | cfg | Expect | What it shows |
|---|---|---|---|
| core | `MCPeripherals.cfg` | pass | With no driver failures and one reboot, the locking hand-off, the mode invariant, the round trip, lock liveness and the refinement of `ImageStore` all hold. |
| checked_failures | `MCPeripheralsFailures.cfg` | pass | The failures the code checks (WE/erase of step [0], loop page programs) are handled: the same properties hold, the refinement included. |
| short_capture | `MCSaveBounded.cfg` | violation | The size check runs before the lock. A snapshot ends in between, and its 32868-byte stream wraps in the DMA to 100 bytes, under one page. Then `remaining_bytes` wraps and the loop writes past the image. |
| ignored_failures | `MCIgnoredFailures.cfg` | violation | Header, first-page and loop write-enable failures are only printed. The save reports success, but the flash does not hold the image. |
| abort_failure | `MCAbortFailure.cfg` | violation | A failed `HAL_OSPI_Abort` returns without restoring the memory map. |
| interrupted_save | `MCPageFailure.cfg` | violation | A save interrupted after its header, by a failed page program or by a reset, leaves a valid header over a truncated payload; the shortest trace is the header write followed by a reboot. |
| lock_leak | `MCLockLeak.cfg` | violation | The camera initialises and the boot snapshot completes. A periodic `BSP_CAMERA_Start` then fails after `JPEG_buffer_lock` was taken (`peripherals.c:317`). Its status is ignored, no VSYNC comes, and the lock is never given back. |
| remap_leak | `MCRemapFailure.cfg` | violation | `flash_image_cleanup` gives `QSPI_flash_lock` even when the re-map fails. A saved-image transfer then takes the lock, and `http_file_sent` gives it only while the flash is memory-mapped (`peripherals.c:88`), so it is never given back. |
| terminal | `MCTerminal.cfg` | pass | With appends, terminal reads, starts, stops and lock timeouts interleaving under the tasks' priorities, the buffer never overfills, no accepted line is erased unread, and the lock is always given back. The boot-time configuration call parses numbers at the 2^31, 2^32 and 2^64 edges correctly, validates every key of up to 4 characters, and never overruns the `read_string` buffer. The camera bring-up never calls through a NULL driver. Every WLAN binary chunk stays inside its file, and a chunked load delivers the firmware and the BCF for the measured supply. `pvPortRealloc` keeps the caller's object whether or not malloc fails. The idle hook steps the tick by exactly its deep sleep, never past the expected time, and closes every sleep it prepares. The sensors reply fits `cgi_buffer`, and so does every reply of a script of requests. |
| terminal_fill | `MCTerminalFill.cfg` | violation | A line that fills the buffer exactly passes the check at `shared_buffer.c:59`, and the terminator is written at `buffer[BUFFER_SIZE]`. |
| stop_handling | `MCStopHonoured.cfg` | violation | `StopHonoured` fails in two ways. A stop sent while no ping runs leaves `break_ping` set, and the next ping stops at its first report. `break_ping` is cleared in the loop (line 89) before the test after it (line 98), so a user stop is never reported; `MCStopReport.cfg` checks `UserStopReported` alone and shows this second trace. |
| ble | `MCBleSensors.cfg` | pass | Over the boot outcomes the model keeps (each sensor found or not, the W2ST service added or not; the gatt/gap init failures and the `while(1)` after a failed service add are left out, see "Not modelled"), with the phone connecting, disconnecting, subscribing, reading and pairing, and the app thread sending its IP report, the device always advertises again, every held read is released and every subscriber gets an update. |

`MCBleRace.cfg` checks `DataRaceFree` and TLC finds it violated. In the
shortest trace, `rest_ep_get_sensors` replies between two axis stores.
`MCHciRace.cfg` checks `HciExclusive` alone. There the app thread's
`update_ble_ip_report` (`http.c:320`) sends its command while
periphs_task waits for the response to its own. The trace overlaps the
boot-time advertising command; every later command of periphs_task (a
characteristic update, `aci_gatt_allow_read`) overlaps the same way.
Neither configuration is among the runs in PROJECT.json. PROJECT.json
lists both races as hazards.

Each property of a passing run has a mutant in PROJECT.json. A mutant is a
plausible bug in the mapped code that TLC catches with the run's own
configuration, for example:

* the snapshot started without the lock;
* the erase run without the flash lock;
* a cleanup that never re-maps;
* the first page counted as 256 bytes;
* the save's cleanup keeping the JPEG lock;
* the 4.3 V BCF selected only above the threshold, not from it;
* the BCF read without its offset check;
* `pv` freed even when malloc failed;
* each idle round sleeping for the whole expected time;
* the early abort returning without `mmhal_sleep_abort`;
* the VSYNC length computed in words, not bytes;
* the reset of `rest_ep_get_terminal` made after a timed-out lock wait;
* `cgi_buffer` of 64 bytes.

## Bounds

* **Image sizes.** `CaptureSizes = {300, 508, 560}` covers three cases of
  the loop:
  - a short page after the first page (300);
  - an image ending exactly on a page boundary, where the loop stops on
    `remaining_bytes = 0` (508);
  - a full page followed by a short page (560).

  All three are below `JPEG_BUFFER_SIZE`. With one more size that wraps,
  such as 32768 (read as 0), the `core` run does not finish within
  5 minutes. The save loop then runs on an underflowed `remaining_bytes`,
  which is exactly the `short_capture` violation. So a wrapped frame is
  checked in `short_capture`, where `CaptureSizes = {32868, 300}`.

  The short-capture run adds 100, which is under 252.
* **Snapshots.** `MaxGen = 2` periodic snapshots, so a save can race both a
  running snapshot and a later one.
* **Flash.** Only block 0 is modelled, at slot granularity. That covers
  every address the save writes for these sizes.
* **Terminal.** `BUFFER_SIZE` (512) and line lengths (up to 127) are scaled
  to `BufferSize = 6` and `LineLens = {0, 3}`. Two 3-character lines fill
  the buffer exactly, so the boundary case of the space check is reached;
  the empty line covers the early `return true`. `MaxReports = 2` counter
  changes per ping and `MaxPings = 2` starts allow a stop to fall before,
  during and after a ping. `LockTimeouts` is on for the pass run and off
  for the violation runs, whose counterexamples then need no timeout.
* **Configuration.** `MaxKeyLen = 3` scales `MMCONFIG_MAX_KEYLEN`, and keys
  range over 7 characters (letters, a digit, `_`, `.`, `*`, `-`). Every key
  of up to 4 characters, the over-long ones included, is validated: 2801
  keys. The table has 8 entries: a count, a negative number, a bool, an
  empty value, an invalid key, a duplicate key, the NULL terminator, and
  one entry after it. Numbers are the edges 0, 9, 10, 15, 16, 2^31 - 1,
  2^31, 2^32 - 1, 2^32, 2^32 + 1, 9999999999, 10^10, 2^64 and 2^64 + 5, in
  every form. `read_string` gets buffer sizes 0 to `strlen + 2`.
* **Camera bring-up.** Each I2C step of `OV5640_Probe` can fail: the ID
  read, the register tables (the sensor is then left streaming or not),
  and mirror/flip. `SetLightMode` can also fail. That gives seven BSP
  states after the bring-up. They are checked in the terminal run. No
  Peripherals run enables them, because a camera that never streams is
  out of scope (see "Camera BSP in Peripherals").
* **Reboots.** `MaxReboots = 1` in the core, checked-failure and
  interrupted-save runs: one reset is enough to fall between any two save
  steps, and a second reset only repeats the boot.
* **BLE.** Two connection handles (0x0801, 0x0802) tell a stale handle
  from the current one. The event queue holds two events, and a client
  makes one request per connection; connections repeat without bound.
  `UserLimit = 0` scales the code's 20, so the counter of `User_Process`
  comes round every second call.
* **WLAN binaries.** The files are 3 (3.3 V BCF), 4 (4.3 V BCF) and 5
  (firmware) bytes long. Offsets 0 to 6 cover every chunk position, the end
  of each file, one past it and beyond. Request lengths 1, 2 and 8 give
  loads of several chunks, loads with a short last chunk, and single-chunk
  loads. ADC readings are 0, 9499, 9500 and 16383 (both sides of the
  threshold and the 14-bit ends), plus a timeout. A firmware read gets
  robufs left over from an earlier use.
* **Realloc.** The old object is 1, 8 or 9 bytes, in a block heap_4 rounded
  up to 8 bytes, with or without 8 more unsplit bytes. Its header may be
  allocated or freed, and linked or not. The new size is 0, 1, 8, 9 or 16:
  shrinking, equal, growing, and across a rounding edge. malloc either
  fails or returns a block of either size.
* **Idle.** Expected idle times are 2 and 3 ms. Each of three rounds gets
  one answer: any sleep state, either abort result before and after the
  sleep, and a report of 0 to 2 ms. This reaches multi-round sleeps, a
  round that slept 0 ms, and rounds that report more than was left.
* **REST replies.** Request scripts are five requests long over the three
  endpoints, from every LED state: 1944 scripts. That holds up to five
  toggles, enough for the counter to come round to every value twice, with
  sensor and config replies in between. The sensor values are the int16
  edges -32768, -1, 0, 9, 10 and 32767, and the int32 edges -2^31, -10, 0
  and 2^31 - 1, with ping running or not. These give the longest and
  shortest text of every field and the length change at each digit. The
  config reply uses a fixed target and count: `struct mmping_args`, which
  holds the target, is not in the repository.
* **Previous image.** The initial flash is either blank or holds a complete
  image from an earlier run.

## Fairness

* The tick, the button and HTTP requests come from the environment and are
  not fair.
* Started periphs_task steps and tcpip handler steps are weakly fair. The
  task is runnable, and every wait ends within 500 ms, either by a take or
  by the timeout.
* VSYNC edges are weakly fair while the DCMI runs, because the sensor
  streams frames.
* `http_file_sent` is strongly fair for each region. The transport reports
  every body it accepted whenever the thread is idle, and the thread keeps
  becoming idle. This fairness is an assumption about the restfs/lwIP
  transport, which is not in the repository. With the `Transport` failure
  step enabled, a completion may report a dropped connection.
  `MCConnDrop.cfg` then shows that the semaphore is kept until a later,
  unrelated transfer happens to end at the same address. It is not a run,
  because the transport is outside the repository.

`Reboot` is not fair: a reset is an environment event that may never come.

The configuration call's return is weakly fair, because `ping_init` returns.
The WLAN, realloc and idle calls are operators evaluated in one step, so
they need no fairness. The idle hook's loop is bounded by its script of
answers. A run of answers that never abort and always report 0 ms keeps
the loop going; there the result says the script ran out.

Terminal: the ping task and the tcpip-thread handler steps are weakly fair.
The ping task's fairness applies only while it may run (`PingMayRun`). The
tcpip thread is never ready forever, since each handler ends.
Every wait in them ends by a take or by the 500 ms timeout. The exception is
`ping_task_start`, which waits forever, but its take is weakly fair only
while it is enabled. Requests from the browser are not fair.

BleSensors: periphs_task steps are weakly fair, because the task loops
every 52 ms. The app thread's steps are weakly fair, because WiFi comes up
and every ACI command gets its response. The stack, the phone and HTTP
requests are not fair.

## Not modelled, and why

* `mmconfig_str_to_uint` accepts `""` and `"0x"` as 0, and
  `mmconfig_str_to_int` accepts `"-"` as 0: none of them is a number.
  `MmConfig` reproduces this behaviour. It has no run of its own: the
  project has used its 12 runs.
* `mmconfig_write_update_node_list` returns `MMCONFIG_ERR_FULL` and does
  nothing else. `alloc_and_load` and `read_bytes` are modelled by their
  outcomes, since the allocation and the copy are I/O.
* Camera BSP functions nothing in the repository calls are not modelled:
  the other setters and getters, `DeInit`, `Suspend`/`Resume` and
  `PwrDown`. Reading them shows two defects:
  - `SetPixelFormat`, `GetCapabilities` and `DeInit` call through
    `Camera_Drv` without the `Camera_Cap` check.
  - `SetBrightness`, `SetSaturation`, `SetContrast` and `SetHueDegree`
    test `(x < MIN) && (x > MAX)`, which is never true, so they accept
    any level.
* Reading the code turned up three more defects. Each would need a
  violation run, and all 12 runs are used:
  - Eight BSP camera getters (`GetLightMode` to `GetZoom`,
    `ekh05_camera.c` around lines 762-1210) return `BSP_ERROR_NONE`
    without writing their output parameter. Only `GetPixelFormat` and
    `GetResolution` write theirs.
  - `ping_set_IP` copies with `strncpy(..., sizeof(args.ping_target))`
    (`demo_ping.c:161`). A target that long is left without a
    terminator, and `rest_ep_get_configs` then prints past it. The
    struct is outside the repository, so `RestReplies` gives the configs
    reply a fixed target length.
  - `QSPI_Configuration` (`w25q16jv.c:317-352`) ignores the result of
    `QSPI_WriteEnable`. It writes status register 2 without polling for
    ready afterwards, and passes match and mask to
    `OSPI_AutoPollWriteEnable` in swapped order.
* `rest_ep_success` and `rest_ep_failed` write constant pages and share no
  state, so they are not modelled.
* After a probe that failed at mirror/flip, the sensor streams JPEG, but
  `Camera_Ctx` is still zero. `BSP_CAMERA_Start` then gives the DMA
  `GetSize(R160x120, RGB565)` = 9600 words, which is more than
  `JPEG_buffer`. The models reproduce this, but no run checks it: that
  would need a violation run, and the project has used its 12 runs. The
  camera codes (`CAMERA_R160x120` and `CAMERA_PF_RGB565` are 0) come from
  the BSP camera header, which is not in the repository.
* The generated HAL setup has no concurrency protocol. It is pure I/O
  or initialisation. The shim's `pvPortMalloc`, `vPortFree`, the mmhal
  sleep functions and the driver's WLAN loader are outside the repository.
  Their behaviour is taken from their contracts: malloc returns NULL or a
  block of at least the size asked for; the loader reads until an empty
  chunk. `configASSERT` comes from `FreeRTOSConfig.h`, which is not in the
  repository, so a failed assertion may halt or be compiled out, and both
  are checked.
* `mmhal_wlan_read_fw_file` never writes `free_arg` or `free_cb`. At an
  offset past the end it sets `buf` to NULL and leaves `len` as it was.
  The model keeps both behaviours (the reads get stale robufs). No property
  checks what the driver does with those fields, since the driver is not
  in the repository. The same
  holds for the I2C register traffic of the sensor and BLE
  initialisation. Their outcomes are modelled (see below), except two
  BLE cases. In the first, `aci_gatt_init` or `aci_gap_init` fails, and
  the stack is left in a state the repository does not define. In the
  second, `Add_HWServW2ST_Service` fails part way, and `Sensor_DeviceInit`
  then spins in `while(1)` inside `periphs_start` on the app thread. After
  that, no sensor task, WiFi or HTTP server ever starts. Boot never
  returns, so there is no later state to check.
* The BlueNRG-2 stack and its HCI layer are not in the repository. Only
  the order of the events they deliver and the two-step shape of a command
  are modelled.
* The content of the image bytes is abstracted to which snapshot they come
  from.
* A read of the memory map while it is not mapped is modelled as a read of
  the flash. `SavedReadSafe` flags every such read.

## Plan

1. Done: the `Terminal` module.
2. Done: the abstract store `ImageStore` and its refinement.
3. Done: the `Reboot` action.
4. **Pure algorithm** `PagedWrite`: the page schedule of the save loop as a
   RECURSIVE operator, checked against a reference definition over all sizes
   up to a few pages.
