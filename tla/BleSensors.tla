----------------------------- MODULE BleSensors -----------------------------
(***************************************************************************)
(* The sensor and BLE half of periphs_task (peripherals.c:309-319) and the *)
(* two other threads that touch the same state:                            *)
(*   - periphs_task (low priority): accelerometer_process, then            *)
(*     MX_BlueNRG_2_Process (every queued stack event through its handler, *)
(*     then User_Process), then on some loops temperature_process;         *)
(*   - the app thread: app_init, once WiFi is up, calls                    *)
(*     update_ble_ip_report, which sends one ACI command;                  *)
(*   - the tcpip thread: rest_ep_get_sensors reads the sensor globals.     *)
(* The BlueNRG-2 stack and the phone are the environment: they connect,    *)
(* disconnect, write a CCCD, read, and pair, and queue the matching HCI    *)
(* events.  An ACI command is a send and a wait for its reply; `hci`     *)
(* holds the tasks inside one.  A reading is abstracted to which sample it *)
(* comes from, modulo 2.                                                   *)
(***************************************************************************)
EXTENDS Integers, Sequences, FiniteSets

CONSTANTS
    Handles,      \* connection handles the stack hands out (never 0)
    MaxQueue,     \* capacity of the stack's event queue
    MaxRequests,  \* client requests per connection
    UserLimit     \* User_Process's counter restarts after exceeding it (20)

ASSUME /\ Handles \subseteq Nat \ {0} /\ Handles # {}
       /\ MaxQueue \in Nat \ {0}
       /\ MaxRequests \in Nat /\ UserLimit \in Nat

NotifyChars == {"env", "acc"}   \* CHAR_PROP_NOTIFY, gatt_db.c:96,108
ReadChars   == {"env", "ip"}    \* CHAR_PROP_READ, gatt_db.c:96,118
Axes        == 1..3             \* data_raw_acceleration[0..2]

Events ==
    [e : {"conn"}, h : Handles] \cup [e : {"disc"}]
    \cup [e : {"attr"}, c : NotifyChars, v : {0, 1}]
    \cup [e : {"read"}, c : ReadChars] \cup [e : {"passkey"}]
    \cup [e : {"pair"}, s : {0, 1, 2}]  \* 0 success, 1 timeout, 2 failed

Commands == {"connectable", "security", "update_env", "update_acc",
             "allow_read", "passkey"}

VARIABLES
    set_connectable, connected, pairing, paired, connection_handle,
    send_env, send_mot, counter,          \* the application's BLE state
    link, handle, evq, readPending,       \* the stack as the phone sees it
    requests, owed,
    pc, cmds, resume, hci,                \* periphs_task and the HCI link
    data_raw_acceleration, axis, accSample,  \* the two sensor demos
    temperature_milli_degC, humidity_milli_RH, thSample,
    appPc, mixed,                         \* app thread; last reply torn
    boot                                  \* what periphs_start brought up

bleVars == <<set_connectable, connected, pairing, paired, connection_handle,
             send_env, send_mot, counter>>
stackVars == <<link, handle, evq, readPending, requests, owed>>
taskVars == <<pc, cmds, resume, hci>>
sensorVars == <<data_raw_acceleration, axis, accSample, temperature_milli_degC, humidity_milli_RH,
                thSample>>
vars == <<bleVars, stackVars, taskVars, sensorVars, appPc, mixed, boot>>

(***************************************************************************)
(* periphs_start, before periphs_task exists: accelerometer_init and       *)
(* temperature_init set sensor_initialized only when the sensor answers    *)
(* (the IIS328DQ WHO_AM_I at either address, the SHT4x serial number).     *)
(* MX_BlueNRG_2_Init ignores what Sensor_DeviceInit returns: the W2ST      *)
(* service exists only if no ACI step before Add_HWServW2ST_Service        *)
(* failed.  The early returns kept are those after aci_gap_init, which     *)
(* leave GAP able to advertise; a failure of aci_gatt_init or aci_gap_init *)
(* and the while(1) after a failed Add_HWServW2ST_Service are not.         *)
(***************************************************************************)
\* IIS328DQ_detect: WHO_AM_I matched at IIS328DQ_I2C_ADD_L or at ADD_H
IIS328DQ_detect == BOOLEAN

\* sensor_initialized after accelerometer_init (set exactly when detected),
\* and after temperature_init (set when the serial number was read)
AccelerometerInit == IIS328DQ_detect
TemperatureInit == BOOLEAN

\* where Sensor_DeviceInit returned; only "ok" added the W2ST service
Sensor_DeviceInit == {"ok", "update_char_value", "set_authentication_requirement"}

\* MX_BlueNRG_2_Init: whatever Sensor_DeviceInit returned, boot goes on
BootOutcomes == [acc : AccelerometerInit, th : TemperatureInit,
                 w2st : {r = "ok" : r \in Sensor_DeviceInit}]

(* The state after periphs_start: advertising is requested, no link, both  *)
(* sensors read zero.                                                      *)
Init ==
    /\ boot \in BootOutcomes
    /\ set_connectable = TRUE /\ connected = FALSE /\ pairing = FALSE
    /\ paired = FALSE /\ connection_handle = 0
    /\ send_env = FALSE /\ send_mot = FALSE /\ counter = 0
    /\ link = "idle" /\ handle = 0 /\ evq = <<>> /\ readPending = FALSE
    /\ requests = 0 /\ owed = {}
    /\ pc = "accel" /\ cmds = <<>> /\ resume = "accel" /\ hci = {}
    /\ data_raw_acceleration = [a \in Axes |-> 0] /\ axis = 0
    /\ accSample = 0
    /\ temperature_milli_degC = 0 /\ humidity_milli_RH = 0 /\ thSample = 0
    /\ appPc = "wlan" /\ mixed = FALSE

(***************************************************************************)
(* periphs_task.  It runs at the lowest priority, so it makes no step      *)
(* while the app thread busy-waits inside an ACI command.                  *)
(***************************************************************************)
PeriphsRuns == "app" \notin hci

\* Run the ACI commands `seq` in order, then continue at `back`.
Issue(seq, back) ==
    /\ cmds' = seq /\ resume' = back
    /\ pc' = IF seq = <<>> THEN back ELSE "aci"

AccelerometerProcess ==
    /\ pc = "accel" /\ PeriphsRuns
    /\ \/ /\ pc' = "ble"                  \* no sensor, or zyxda clear
          /\ UNCHANGED <<axis, accSample>>
       \/ /\ boot.acc                      \* sensor_initialized, zyxda set
          /\ accSample' = 1 - accSample /\ axis' = 0 /\ pc' = "store"
    /\ UNCHANGED <<bleVars, stackVars, cmds, resume, hci, data_raw_acceleration,
                   temperature_milli_degC, humidity_milli_RH, thSample,
                   appPc, mixed>>

AccelStore ==
    /\ pc = "store" /\ PeriphsRuns
    /\ data_raw_acceleration' =
           [data_raw_acceleration EXCEPT ![axis + 1] = accSample]
    /\ axis' = (axis + 1) % 3
    /\ pc' = IF axis + 1 = 3 THEN "ble" ELSE "store"
    /\ UNCHANGED <<bleVars, stackVars, cmds, resume, hci, accSample,
                   temperature_milli_degC,
                   humidity_milli_RH, thSample, appPc, mixed>>

(***************************************************************************)
(* hci_user_evt_proc: the handler of the oldest queued event.              *)
(***************************************************************************)
Dispatch(kind) ==
    /\ pc = "ble" /\ PeriphsRuns
    /\ evq # <<>> /\ Head(evq).e = kind
    /\ evq' = Tail(evq)

HandlerUnchanged ==
    UNCHANGED <<link, handle, readPending, requests, owed, hci, sensorVars,
                appPc, mixed>>

\* Mutant: the connection handle is not recorded.
ConnectionCompleteNoHandle ==
    /\ Dispatch("conn")
    /\ connected' = TRUE /\ pairing' = TRUE /\ paired' = TRUE
    /\ UNCHANGED <<connection_handle, set_connectable, send_env, send_mot,
                   counter, cmds, resume, pc>>
    /\ HandlerUnchanged

ConnectionComplete ==
    /\ Dispatch("conn")
    /\ connected' = TRUE /\ pairing' = TRUE /\ paired' = TRUE  \* !SECURE_PAIRING
    /\ connection_handle' = Head(evq).h
    /\ UNCHANGED <<set_connectable, send_env, send_mot, counter, cmds, resume,
                   pc>>
    /\ HandlerUnchanged

\* Mutant: advertising is not requested again after a disconnection.
DisconnectionCompleteNoConnectable ==
    /\ Dispatch("disc")
    /\ connected' = FALSE /\ pairing' = FALSE /\ paired' = FALSE
    /\ connection_handle' = 0
    /\ UNCHANGED <<set_connectable, send_env, send_mot, counter, cmds,
                   resume, pc>>
    /\ HandlerUnchanged

DisconnectionComplete ==
    /\ Dispatch("disc")
    /\ connected' = FALSE /\ pairing' = FALSE /\ paired' = FALSE
    /\ set_connectable' = TRUE /\ connection_handle' = 0
    /\ UNCHANGED <<send_env, send_mot, counter, cmds, resume, pc>>
    /\ HandlerUnchanged

\* Read_Request_CB: refresh the value read, then let the read proceed.
ReadRequestCommands(c) ==
    (IF c = "env" THEN <<"update_env">> ELSE <<>>)
    \o (IF connection_handle # 0 THEN <<"allow_read">> ELSE <<>>)

ReadPermitRequest ==
    /\ Dispatch("read")
    /\ Issue(ReadRequestCommands(Head(evq).c), "ble")
    /\ UNCHANGED bleVars
    /\ HandlerUnchanged

\* Attribute_Modified_Request_CB on the CCCD of a characteristic.
\* Mutant: the environmental CCCD is looked for at the value's handle
\* (EnvironmentalCharHandle + 1), so a subscription to it is missed.
AttributeModifiedWrongHandle ==
    /\ Dispatch("attr")
    /\ LET ev == Head(evq) IN
       send_mot' = IF ev.c = "acc" THEN ev.v = 1 ELSE send_mot
    /\ UNCHANGED <<set_connectable, connected, pairing, paired,
                   connection_handle, send_env, counter, cmds, resume, pc>>
    /\ HandlerUnchanged

AttributeModified ==
    /\ Dispatch("attr")
    /\ LET ev == Head(evq) IN
       /\ send_env' = IF ev.c = "env" THEN ev.v = 1 ELSE send_env
       /\ send_mot' = IF ev.c = "acc" THEN ev.v = 1 ELSE send_mot
    /\ UNCHANGED <<set_connectable, connected, pairing, paired,
                   connection_handle, counter, cmds, resume, pc>>
    /\ HandlerUnchanged

PassKeyRequest ==
    /\ Dispatch("passkey")
    /\ Issue(<<"passkey">>, "ble")
    /\ UNCHANGED bleVars
    /\ HandlerUnchanged

PairingComplete ==
    /\ Dispatch("pair")
    /\ paired' = (Head(evq).s # 2 \/ paired)
    /\ UNCHANGED <<set_connectable, connected, pairing, connection_handle,
                   send_env, send_mot, counter, cmds, resume, pc>>
    /\ HandlerUnchanged

(***************************************************************************)
(* User_Process, once the queue is empty: advertise if asked, request      *)
(* security once per link, and on every (UserLimit+2)-th call send the     *)
(* values a subscribed client asked for.                                   *)
(***************************************************************************)
UserCommands ==
    (IF set_connectable THEN <<"connectable">> ELSE <<>>)
    \o (IF connected /\ ~pairing THEN <<"security">> ELSE <<>>)
    \o (IF paired /\ send_env /\ counter = 0 THEN <<"update_env">> ELSE <<>>)
    \o (IF paired /\ send_mot /\ counter = 0 THEN <<"update_acc">> ELSE <<>>)

\* Mutant: the counter never restarts.
UserProcessNoWrap ==
    /\ pc = "ble" /\ PeriphsRuns /\ evq = <<>>
    /\ Issue(UserCommands, "loop")
    /\ set_connectable' = FALSE
    /\ pairing' = (connected \/ pairing)
    /\ counter' = counter + 1
    /\ UNCHANGED <<connected, paired, connection_handle, send_env, send_mot,
                   stackVars, hci, sensorVars, appPc, mixed>>

UserProcess ==
    /\ pc = "ble" /\ PeriphsRuns /\ evq = <<>>
    /\ Issue(UserCommands, "loop")
    /\ set_connectable' = FALSE
    /\ pairing' = (connected \/ pairing)
    /\ counter' = IF counter > UserLimit THEN 0 ELSE counter + 1
    /\ UNCHANGED <<connected, paired, connection_handle, send_env, send_mot,
                   stackVars, hci, sensorVars, appPc, mixed>>

(***************************************************************************)
(* An ACI command of periphs_task: hci_send_req sends it, then polls for   *)
(* its response.  What the stack does with it when it completes:        *)
(* aci_gap_set_discoverable starts advertising, aci_gatt_allow_read        *)
(* releases the read of that link, and a characteristic update notifies   *)
(* a subscribed client.                                                    *)
(***************************************************************************)
UpdatedChar(c) == CASE c = "update_env" -> {"env"}
                    [] c = "update_acc" -> {"acc"}
                    [] OTHER -> {}

AciBegin ==
    /\ pc = "aci" /\ PeriphsRuns
    /\ hci' = hci \cup {"periphs"} /\ pc' = "wait"
    /\ UNCHANGED <<bleVars, stackVars, cmds, resume, sensorVars, appPc,
                   mixed>>

AciEnd ==
    /\ pc = "wait" /\ PeriphsRuns
    /\ LET c == Head(cmds) IN
       /\ link' = IF c = "connectable" /\ link = "idle" THEN "adv" ELSE link
       /\ readPending' = IF c = "allow_read" /\ link = "conn"
                            /\ handle = connection_handle
                         THEN FALSE ELSE readPending
       /\ owed' = owed \ UpdatedChar(c)
    /\ hci' = hci \ {"periphs"} /\ cmds' = Tail(cmds)
    /\ pc' = IF Tail(cmds) = <<>> THEN resume ELSE "aci"
    /\ UNCHANGED <<bleVars, handle, evq, requests, resume, sensorVars, appPc,
                   mixed>>

(***************************************************************************)
(* temperature_process on the loops whose counter reaches 40: the driver  *)
(* stores the temperature, then the humidity, or nothing on an error.      *)
(***************************************************************************)
LoopEnd ==
    /\ pc = "loop" /\ PeriphsRuns
    /\ pc' = "accel"
    /\ UNCHANGED <<bleVars, stackVars, cmds, resume, hci, sensorVars, appPc,
                   mixed>>

TemperatureProcess ==
    /\ pc = "loop" /\ PeriphsRuns
    /\ \/ /\ boot.th /\ thSample' = 1 - thSample
          /\ temperature_milli_degC' = thSample' /\ pc' = "humidity"
       \/ /\ pc' = "accel"                   \* error, or no sensor
          /\ UNCHANGED <<thSample, temperature_milli_degC>>
    /\ UNCHANGED <<bleVars, stackVars, cmds, resume, hci, data_raw_acceleration, axis, accSample,
                   humidity_milli_RH, appPc, mixed>>

HumidityStore ==
    /\ pc = "humidity" /\ PeriphsRuns
    /\ humidity_milli_RH' = thSample /\ pc' = "accel"
    /\ UNCHANGED <<bleVars, stackVars, cmds, resume, hci, data_raw_acceleration, axis, accSample,
                   temperature_milli_degC, thSample, appPc, mixed>>

(***************************************************************************)
(* app_init after periphs_start: app_wlan_start blocks until WiFi is up,   *)
(* then update_ble_ip_report sends the IP characteristic update.           *)
(***************************************************************************)
WlanStart ==
    /\ appPc = "wlan" /\ appPc' = "report"
    /\ UNCHANGED <<bleVars, stackVars, taskVars, sensorVars, mixed>>

IpReportBegin ==
    /\ appPc = "report" /\ appPc' = "wait" /\ hci' = hci \cup {"app"}
    /\ UNCHANGED <<bleVars, stackVars, pc, cmds, resume, sensorVars, mixed>>

IpReportEnd ==
    /\ appPc = "wait" /\ appPc' = "done" /\ hci' = hci \ {"app"}
    /\ UNCHANGED <<bleVars, stackVars, pc, cmds, resume, sensorVars, mixed>>

\* A reply whose three axes come from one sample, and T and H from one
\* measurement.
Coherent(r) ==
    /\ \A a, b \in Axes : r.acc[a] = r.acc[b]
    /\ r.t = r.h

(***************************************************************************)
(* rest_ep_get_sensors on the tcpip thread, which preempts periphs_task:   *)
(* get_accelerometer_values and get_th_values copy the globals as they     *)
(* are.                                                                    *)
(***************************************************************************)
GetSensors ==
    /\ mixed' = ~Coherent([acc |-> data_raw_acceleration,
                           t |-> temperature_milli_degC,
                           h |-> humidity_milli_RH])
    /\ UNCHANGED <<bleVars, stackVars, taskVars, sensorVars, appPc>>

(***************************************************************************)
(* The stack and the phone.  A connection starts only while advertising;  *)
(* a client makes at most MaxRequests requests per connection and has at   *)
(* most one read waiting for aci_gatt_allow_read.  `owed` holds the        *)
(* characteristics the client subscribed to and got no update for since.   *)
(***************************************************************************)
Enqueue(ev) == Len(evq) < MaxQueue /\ evq' = Append(evq, ev)

StackConnect ==
    /\ link = "adv"
    /\ \E h \in Handles :
          /\ Enqueue([e |-> "conn", h |-> h])
          /\ link' = "conn" /\ handle' = h /\ requests' = 0
    /\ UNCHANGED <<readPending, owed, bleVars, taskVars, sensorVars, appPc,
                   mixed>>

StackDisconnect ==
    /\ link = "conn"
    /\ Enqueue([e |-> "disc"])
    /\ link' = "idle" /\ handle' = 0 /\ readPending' = FALSE /\ owed' = {}
    /\ UNCHANGED <<requests, bleVars, taskVars, sensorVars, appPc, mixed>>

ClientRequest(ev) ==
    /\ link = "conn" /\ requests < MaxRequests
    /\ Enqueue(ev) /\ requests' = requests + 1
    /\ UNCHANGED <<link, handle, bleVars, taskVars, sensorVars, appPc,
                   mixed>>

StackWriteCccd ==
    \E c \in NotifyChars, v \in {0, 1} :
        /\ boot.w2st
        /\ ClientRequest([e |-> "attr", c |-> c, v |-> v])
        /\ owed' = IF v = 1 THEN owed \cup {c} ELSE owed \ {c}
        /\ UNCHANGED readPending

StackRead ==
    \E c \in ReadChars :
        /\ boot.w2st /\ ~readPending /\ ClientRequest([e |-> "read", c |-> c])
        /\ readPending' = TRUE /\ UNCHANGED owed

StackPairing ==
    /\ \/ ClientRequest([e |-> "passkey"])
       \/ \E st \in {0, 1, 2} : ClientRequest([e |-> "pair", s |-> st])
    /\ UNCHANGED <<readPending, owed>>

(***************************************************************************)
(* The specification.  periphs_task loops every 52 ms, and the app thread  *)
(* runs once its WiFi is up: both are weakly fair.  The stack, the phone   *)
(* and HTTP requests are not.                                              *)
(***************************************************************************)
PeriphsStep ==
    /\ \/ AccelerometerProcess \/ AccelStore
       \/ ConnectionComplete \/ DisconnectionComplete \/ ReadPermitRequest
       \/ AttributeModified \/ PassKeyRequest \/ PairingComplete
       \/ UserProcess \/ AciBegin \/ AciEnd
       \/ LoopEnd \/ TemperatureProcess \/ HumidityStore
    /\ UNCHANGED boot

AppStep == (WlanStart \/ IpReportBegin \/ IpReportEnd) /\ UNCHANGED boot

Environment ==
    /\ \/ GetSensors \/ StackConnect \/ StackDisconnect
       \/ StackWriteCccd \/ StackRead \/ StackPairing
    /\ UNCHANGED boot

Next == PeriphsStep \/ AppStep \/ Environment

Spec == Init /\ [][Next]_vars /\ WF_vars(PeriphsStep) /\ WF_vars(AppStep)

(***************************************************************************)
(* Properties.                                                             *)
(***************************************************************************)
(* Types and bounds of every variable, among them User_Process's counter,  *)
(* which `counter++ > 20` keeps within 0..UserLimit+1.                     *)
TypeOK ==
    /\ {set_connectable, connected, pairing, paired, send_env, send_mot,
        readPending} \subseteq BOOLEAN
    /\ connection_handle \in Handles \cup {0} /\ handle \in Handles \cup {0}
    /\ counter \in 0..(UserLimit + 1)
    /\ link \in {"idle", "adv", "conn"}
    /\ evq \in Seq(Events) /\ Len(evq) <= MaxQueue
    /\ requests \in 0..MaxRequests /\ owed \subseteq NotifyChars
    /\ pc \in {"accel", "store", "ble", "aci", "wait", "loop", "humidity"}
    /\ cmds \in Seq(Commands) /\ resume \in {"accel", "ble", "loop"}
    /\ hci \subseteq {"periphs", "app"}
    /\ data_raw_acceleration \in [Axes -> {0, 1}] /\ axis \in 0..2
    /\ {accSample, temperature_milli_degC, humidity_milli_RH, thSample}
           \subseteq {0, 1}
    /\ appPc \in {"wlan", "report", "wait", "done"}
    /\ mixed \in BOOLEAN
    /\ boot \in BootOutcomes

(* The device does not stay unreachable: after every disconnection        *)
(* (hci_disconnection_complete_event sets set_connectable) User_Process    *)
(* makes it advertise again.                                               *)
ConnectableAgain == link = "idle" ~> link = "adv"

(* Every read the stack holds for the application                         *)
(* (GATT_NOTIFY_READ_REQ_AND_WAIT_FOR_APPL_RESP) is released by            *)
(* Read_Request_CB's aci_gatt_allow_read on that link, or ends with it.    *)
ReadAnswered == readPending ~> ~readPending

(* A client that subscribes to a characteristic and stays connected gets  *)
(* an update of it: Attribute_Modified_Request_CB sets send_env/send_mot  *)
(* and User_Process sends when its counter comes round to 0.              *)
SubscribersServed == \A c \in NotifyChars : (c \in owed) ~> (c \notin owed)

(* No shared object is used by two tasks at once: the HCI transport       *)
(* carries one ACI command at a time (hci_send_req has no lock), and a    *)
(* sensors reply is one accelerometer sample and one temperature/humidity  *)
(* measurement.                                                            *)
HciExclusive == Cardinality(hci) <= 1

DataRaceFree == HciExclusive /\ ~mixed
====
