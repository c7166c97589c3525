----------------------------- MODULE RestReplies -----------------------------
(***************************************************************************)
(* The REST endpoints of src/Example/EKH05-Demo/http.c that build their    *)
(* reply in the one static cgi_buffer[128] (rest_ep_toggle_leds,           *)
(* rest_ep_get_sensors, rest_ep_get_configs), with periphs_toggle_leds of  *)
(* peripherals.c behind the first.  All of them run on the tcpip thread,   *)
(* one request after another, so cgi_buffer keeps the last reply of any    *)
(* of them until the next one overwrites it.                               *)
(*                                                                         *)
(* A reply is abstracted to what sprintf put in cgi_buffer: which          *)
(* endpoint wrote it, the colour it names (toggle_leds) and its length     *)
(* without the terminator.  The LEDs are the three GPIO outputs, TRUE when *)
(* set.                                                                    *)
(***************************************************************************)
EXTENDS Integers, FiniteSets, Sequences

(* Mutant: cgi_buffer sized for the shorter replies. *)
CgiBuffer64 == 64

\* static char cgi_buffer[128]
CGI_BUFFER_SIZE == 128

LedNames == {"RED", "BLUE", "GREEN"}

\* the colour rest_ep_toggle_leds names for each counter value, and its LED
ColorName == [c \in 0..2 |-> CASE c = 0 -> "red" [] c = 1 -> "blue" [] c = 2 -> "green"]
LedOf == [red |-> "RED", blue |-> "BLUE", green |-> "GREEN"]

\* the GPIO writes of one case of periphs_toggle_leds: that LED set, the others reset
LedsFor(c) == [l \in LedNames |-> l = LedOf[ColorName[c]]]

(* Length of the decimal text %d / %ld prints for a 32-bit value: a minus *)
(* sign and up to 10 digits.  10^9 is the largest power of ten below 2^31. *)
DecLen(n) ==
    1 + (IF n < 0 THEN 1 ELSE 0)
      + Cardinality({k \in 1..9 : n >= 10^k \/ n <= -(10^k)})

\* cgi_buffer as it is before the first reply ({0})
CgiEmpty == [kind |-> "empty", color |-> "none", len |-> 0]

(***************************************************************************)
(* periphs_toggle_leds: the static uint8_t counter goes round 1, 2, 0;     *)
(* cases 0 to 2 light one LED each, and the default case writes no pin.   *)
(***************************************************************************)
periphs_toggle_leds(st) ==
    LET c == IF (st.counter + 1) % 256 > 2 THEN 0 ELSE (st.counter + 1) % 256
    IN  [st EXCEPT !.counter = c, !.leds = IF c \in 0..2 THEN LedsFor(c) ELSE @]

(***************************************************************************)
(* rest_ep_toggle_leds: sprintf {"color":"<name>"} for a counter of 0 to   *)
(* 2; the default case leaves cgi_buffer as the last reply left it, and    *)
(* that is what is sent.                                                   *)
(***************************************************************************)
rest_ep_toggle_leds(st) ==
    LET t   == periphs_toggle_leds(st)
        cgi == IF t.counter \in 0..2
               THEN [kind |-> "color", color |-> ColorName[t.counter],
                     len |-> 12 + Len(ColorName[t.counter])]
               ELSE st.cgi
    IN  [t EXCEPT !.cgi = cgi, !.reply = cgi]

(***************************************************************************)
(* rest_ep_get_sensors: the sample read now, printed as                    *)
(* {"x":"%d","y":"%d","z":"%d","T":"%ld","H":"%ld","ping_running":%s}.    *)
(* The 6 + 4*7 + 17 + 1 characters around the values are the format's.    *)
(***************************************************************************)
SensorsLen(s) ==
    52 + DecLen(s.x) + DecLen(s.y) + DecLen(s.z) + DecLen(s.T) + DecLen(s.H)
       + (IF s.ping THEN 4 ELSE 5)

rest_ep_get_sensors(st, s) ==
    LET cgi == [kind |-> "sensors", color |-> "none", len |-> SensorsLen(s)]
    IN  [st EXCEPT !.cgi = cgi, !.reply = cgi]

(***************************************************************************)
(* rest_ep_get_configs: {"pingtarget":"%s","pingcount":"%ld"} with the     *)
(* ping target's length and the count, a uint32_t printed as a long.       *)
(***************************************************************************)
rest_ep_get_configs(st, targetLen, count) ==
    LET cgi == [kind |-> "configs", color |-> "none",
                len |-> 32 + targetLen + DecLen(count)]
    IN  [st EXCEPT !.cgi = cgi, !.reply = cgi]

\* the statics at boot: counter 0, cgi_buffer empty; the LEDs as MX_GPIO_Init left them
Boot(leds) == [counter |-> 0, leds |-> leds, cgi |-> CgiEmpty, reply |-> CgiEmpty]

(***************************************************************************)
(* The tcpip thread serving a script of requests in order; the result is   *)
(* the state after each one.                                               *)
(***************************************************************************)
RECURSIVE Serve(_, _, _)
Serve(st, reqs, s) ==
    IF reqs = <<>> THEN <<>>
    ELSE LET r    == Head(reqs)
             next == CASE r = "toggle"  -> rest_ep_toggle_leds(st)
                       [] r = "sensors" -> rest_ep_get_sensors(st, s)
                       [] r = "configs" -> rest_ep_get_configs(st, 11, 10)
         IN  <<next>> \o Serve(next, Tail(reqs), s)
=============================================================================
