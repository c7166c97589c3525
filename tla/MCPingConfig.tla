---------------------------- MODULE MCPingConfig ----------------------------
(***************************************************************************)
(* The terminal instance of MCTerminal together with the configuration     *)
(* store the ping task reads at ping_init (mmconfig_read_string of         *)
(* "ping.target", mmconfig_read_uint32 of "ping.count").  ping_init runs   *)
(* in app_init before the ping task exists, so the configuration call      *)
(* (MmConfig's call, one per bounded input) returns before the first step  *)
(* of the terminal.                                                        *)
(*                                                                         *)
(* Keys are at most MaxKeyLen = 3 characters here, so that every key of up *)
(* to 4 characters over MC_KeyChars (letters, a digit, '_', '.', '*' and   *)
(* '-') is checked, the over-long ones included.  The table mirrors the    *)
(* kinds of entries of configs.c on keys of that length: a count, a        *)
(* negative amount, a bool, an empty value, a key that is not valid, a     *)
(* duplicate (the first one wins), and an entry after the NULL terminator. *)
(***************************************************************************)
EXTENDS MCTerminal, MmConfig

\* 'a', 'Z', '7', '_', '.', '*', '-'
MC_KeyChars == {97, 90, 55, 95, 46, 42, 45}

MC_MmConfigs ==
    << [key |-> <<112, 46, 99>>, value |-> <<49, 48>>],          \* "p.c" = "10"
       [key |-> <<105, 46, 97>>, value |-> <<45, 49, 48>>],      \* "i.a" = "-10"
       [key |-> <<105, 112, 46>>, value |-> <<116, 114, 117, 101>>], \* "ip." = "true"
       [key |-> <<119>>, value |-> <<>>],                        \* "w" = ""
       [key |-> <<95, 120>>, value |-> <<49>>],                  \* "_x" = "1"
       [key |-> <<112, 46, 99>>, value |-> <<50>>],              \* "p.c" = "2"
       [key |-> Null, value |-> Null],
       [key |-> <<122>>, value |-> <<51>>] >>                    \* "z" = "3"

(***************************************************************************)
(* app_init runs periphs_start before ping_init, and periphs_start brings  *)
(* the camera up: BSP_CAMERA_Init, then BSP_CAMERA_SetLightMode whatever   *)
(* Init returned.  Every sensor I2C transaction may fail here.  A boot     *)
(* call is that bring-up, with the BSP globals it leaves, or one call of   *)
(* the configuration store.                                                *)
(***************************************************************************)
Cam == INSTANCE CameraBsp WITH BusOk <- BOOLEAN

\* the buffer periphs_start gives BSP_CAMERA_Init (JPEG_BUFFER_SIZE)
CameraBuffer == 32 * 1024

CameraCalls == {[fn |-> "camera_bring_up", bsp |-> b] : b \in Cam!CameraBringUp(CameraBuffer)}

(***************************************************************************)
(* Before the scheduler starts, main() selects the BCF from its VFEM ADC   *)
(* reading; app_wlan_start, after ping_init, has the HaLow driver read the *)
(* BCF and the firmware through mmhal_wlan_binaries.c.  Neither touches    *)
(* the terminal's state, so a WLAN call is checked as one more boot call:  *)
(* one read at any offset, or a whole load in requested_len chunks.  The   *)
(* files are scaled to a few bytes; the ADC readings are both sides of     *)
(* BCF_VFEM_THRESHOLD and the 14-bit extremes.                             *)
(***************************************************************************)
MC_FileLen == [BCF_3V3 |-> 3, BCF_4V3 |-> 4, FW |-> 5]

MC_AdcReadings == {0, 9499, 9500, 16383}

Wlan == INSTANCE WlanBinaries WITH FileLen <- MC_FileLen, AdcReadings <- MC_AdcReadings

RequestLens == {1, 2, 8}

\* a robuf the driver did not clear: NULL fields, or left from its last use
StaleRobufs == [buf : {Wlan!NullPtr}, len : {0, 7}, free_arg : {Wlan!NULL, "old"},
                free_cb : {Wlan!NULL, "old"}]

WlanCalls ==
    [fn : {"read_bcf"}, adc : Wlan!AdcOutcomes, offset : 0..6, req : RequestLens]
    \cup [fn : {"read_fw"}, robuf : StaleRobufs, offset : 0..6, req : RequestLens]
    \cup [fn : {"load"}, file : {"BCF", "FW"}, adc : Wlan!AdcOutcomes, req : RequestLens]

Realloc == INSTANCE PortRealloc

\* heap_4 rounds a request up to portBYTE_ALIGNMENT and may hand out one
\* more unsplit 8 bytes; a payload has capacity for at least n bytes
RoundUp8(n) == ((n + 7) \div 8) * 8
Capacities(n) == {RoundUp8(n), RoundUp8(n) + 8}

\* the block pv points into: n bytes of the caller, slack after them, its
\* header as heap_4 left it or, after a caller's bug, freed or linked
OldBlocks(n) ==
    {Realloc!Block(a, nx, Realloc!xHeapStructSize + c,
                   [i \in 1..c |-> IF i <= n THEN <<"old", i>> ELSE Realloc!Slack])
        : a \in BOOLEAN, nx \in {Realloc!NULL, "free-list"}, c \in Capacities(n)}

\* what pvPortMalloc(w) returns: NULL, or a fresh block of at least w bytes
FreshBlocks(w) ==
    {Realloc!NoBlock}
    \cup {Realloc!Block(TRUE, Realloc!NULL, Realloc!xHeapStructSize + c,
                        [i \in 1..c |-> Realloc!Garbage]) : c \in Capacities(w)}

ReallocCalls ==
    UNION {[fn : {"realloc"}, n : {n}, w : {w}, pv : {"pv", Realloc!NULL},
            heap : [old : OldBlocks(n), fresh : FreshBlocks(w)],
            assertHalts : BOOLEAN] : n \in {1, 8, 9}, w \in {0, 1, 8, 9, 16}}

Idle == INSTANCE TicklessIdle

\* one round's answers: the prepared state, eAbortSleep before and after
\* sleeping, and the milliseconds mmhal_sleep reports
IdleAnswers == [state : Idle!SleepStates, abort1 : BOOLEAN, slept : 0..2, abort2 : BOOLEAN]

IdleCalls == [fn : {"idle"}, expected : {2, 3}, answers : [1..3 -> IdleAnswers]]

Rest == INSTANCE RestReplies

\* the int16_t accelerometer axes and int32_t sensor values at their edges:
\* the longest decimal texts, zero and the lengths either side of a digit
Int16Edges == {-32768, -1, 0, 9, 10, 32767}
Int32Edges == {-2147483647 - 1, -10, 0, 2147483647}

SensorsCalls == [fn : {"sensors"}, x : Int16Edges, y : Int16Edges, z : Int16Edges,
                 T : Int32Edges, H : Int32Edges, ping : BOOLEAN]

\* a reading of all zeros for the request scripts
Calm == [x |-> 0, y |-> 0, z |-> 0, T |-> 0, H |-> 0, ping |-> FALSE]

\* five requests in any order, from any LED state MX_GPIO_Init and the
\* boot may have left
RestCalls == [fn : {"rest"}, leds : [Rest!LedNames -> BOOLEAN],
              reqs : [1..5 -> {"toggle", "sensors", "configs"}]]

bootVars == <<vars, call>>

BootInit ==
    /\ Init
    /\ call \in Calls \cup CameraCalls \cup WlanCalls \cup ReallocCalls \cup IdleCalls
                \cup SensorsCalls \cup RestCalls

BootNext ==
    \/ ConfigReturn /\ UNCHANGED vars
    \/ call = Done /\ Next /\ UNCHANGED call

BootSpec ==
    /\ BootInit /\ [][BootNext]_bootVars
    /\ WF_bootVars(ConfigReturn /\ UNCHANGED vars)
    /\ WF_bootVars(call = Done /\ PingStep /\ UNCHANGED call)
    /\ WF_bootVars(call = Done /\ HttpStep /\ UNCHANGED call)

(* The camera bring-up never calls through a NULL Camera_Drv: however far  *)
(* OV5640_Probe got before an I2C transaction failed, the SetLightMode     *)
(* that periphs_start makes next is refused on Camera_Cap or finds the     *)
(* driver set.                                                             *)
DriverCallSafe ==
    call.fn = "camera_bring_up" => ~call.bsp.nullCall

\* the robuf a single WLAN read call leaves
ReadResult ==
    IF call.fn = "read_bcf"
    THEN Wlan!mmhal_wlan_read_bcf_file(Wlan!SelectBcf(call.adc), call.offset, call.req).robuf
    ELSE Wlan!mmhal_wlan_read_fw_file(call.robuf, call.offset, call.req)

(* A read of the BCF or the firmware at any offset, one past the end and  *)
(* beyond included, hands out only bytes of the file, from that offset,    *)
(* and no more than were asked for: the sanity check on offset keeps       *)
(* `length - offset` from wrapping round as a size_t.                      *)
ChunkInBounds ==
    call.fn \in {"read_bcf", "read_fw"} /\ ReadResult.buf # Wlan!NullPtr
        => /\ Wlan!InFile(ReadResult)
           /\ ReadResult.buf.at = call.offset /\ ReadResult.len <= call.req

(* The driver, reading from offset 0 in requested_len chunks until an     *)
(* empty one, receives the whole firmware, and the whole BCF for the      *)
(* supply main() measured: the 4.3 V one from BCF_VFEM_THRESHOLD up, the  *)
(* 3.3 V one below it and, through the reader's fallback, when the ADC    *)
(* conversion timed out.                                                   *)
BinariesLoad ==
    call.fn = "load"
        => LET file == IF call.file = "FW" THEN "FW" ELSE Wlan!BcfFor(call.adc)
           IN  Wlan!Received(Wlan!LoadFrom(call.file, Wlan!SelectBcf(call.adc), 0, call.req))
                   = Wlan!Bytes(file)


\* the outcome of one pvPortRealloc call
ReallocResult ==
    Realloc!pvPortRealloc(call.heap, call.pv, call.w, call.assertHalts)

(* pvPortRealloc keeps the caller's object whatever happens: when it       *)
(* returns NULL the old block is as it was (not freed, not touched), and   *)
(* when it moves a valid pv the new block starts with the first            *)
(* min(n, w) bytes of the caller's object, the copy stays inside both      *)
(* payloads, and the old block is freed.  A configASSERT that halts is     *)
(* the only other end.                                                     *)
ReallocPreserves ==
    call.fn = "realloc" /\ ~ReallocResult.halted
        => LET r == ReallocResult
               m == IF call.n < call.w THEN call.n ELSE call.w
           IN  /\ r.ret = Realloc!NULL => r.heap.old = call.heap.old
               /\ r.ret # Realloc!NULL /\ call.pv # Realloc!NULL =>
                     /\ ~r.heap.old.allocated
                     /\ r.moved <= Len(r.heap.fresh.data)
                     /\ r.moved <= Len(call.heap.old.data)
                     /\ \A i \in 1..m : r.heap.fresh.data[i] = <<"old", i>>

\* the trace one idle hook call leaves
IdleTrace == Idle!vPortSuppressTicksAndSleep(call.expected, call.answers).trace

\* the sum of field f over the entries of trace t whose op is o
TraceSum(t, o, f) ==
    SumFunctionOnSet([i \in DOMAIN t |-> IF t[i].op = o THEN t[i][f] ELSE 0],
                     {i \in DOMAIN t : t[i].op = o})

\* the milliseconds of the sleeps whose round was prepared as DEEP
DeepSlept(t) ==
    SumFunctionOnSet([i \in DOMAIN t |-> IF t[i].op = "sleep" THEN t[i].slept ELSE 0],
                     {i \in DOMAIN t : t[i].op = "sleep"
                                        /\ t[i - 1].state = Idle!MMHAL_SLEEP_DEEP})

(* Over several rounds of the tickless idle loop, aborted or not, the     *)
(* tick count is stepped by exactly the time spent in deep sleep, and, as  *)
(* long as mmhal_sleep never reports more than it was asked to sleep, by  *)
(* no more than the expected idle time FreeRTOS passed in (vTaskStepTick   *)
(* asserts that the tick does not jump past the next unblock time).        *)
SleepsWithinAsked(t) ==
    \A i \in DOMAIN t : t[i].op = "sleep" => t[i].slept <= t[i].arg

IdleTicksAccounted ==
    call.fn = "idle" /\ SleepsWithinAsked(IdleTrace)
        => /\ TraceSum(IdleTrace, "step", "ticks") = DeepSlept(IdleTrace)
           /\ TraceSum(IdleTrace, "step", "ticks") <= call.expected

(* Every sleep the hook prepares is closed, by mmhal_sleep_abort or by     *)
(* mmhal_sleep_cleanup, before the next prepare and before the hook        *)
(* returns; mmhal_sleep runs only inside a prepared round, and a DISABLED  *)
(* prepare is the hook's last call.                                        *)
IdleSleepClosed ==
    call.fn = "idle" =>
        LET t == IdleTrace
            Closes(i) == t[i].op \in {"abort", "cleanup"}
        IN  \A i \in DOMAIN t :
              /\ t[i].op = "prepare" /\ t[i].state # Idle!MMHAL_SLEEP_DISABLED
                 => \E j \in i + 1 .. Len(t) :
                       /\ Closes(j)
                       /\ \A k \in i + 1 .. j - 1 : t[k].op \in {"sleep", "step"}
              /\ t[i].op = "prepare" /\ t[i].state = Idle!MMHAL_SLEEP_DISABLED
                 => i = Len(t)
              /\ t[i].op = "sleep" => i > 1 /\ t[i - 1].op = "prepare"

RestOut == Rest!Serve(Rest!Boot(call.leds), call.reqs, Calm)

(* The unbounded sprintf of rest_ep_get_sensors never writes past         *)
(* cgi_buffer: the longest int16 axes and int32 readings, with            *)
(* "ping_running":false, and the terminator fit in its 128 bytes; so do   *)
(* the replies of a script of requests.                                   *)
SensorsReplyFits ==
    /\ call.fn = "sensors" =>
           Rest!SensorsLen(call) + 1 <= Rest!CGI_BUFFER_SIZE
    /\ call.fn = "rest" =>
           \A i \in DOMAIN call.reqs : RestOut[i].reply.len + 1 <= Rest!CGI_BUFFER_SIZE

=============================================================================
