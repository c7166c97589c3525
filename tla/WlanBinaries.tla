----------------------------- MODULE WlanBinaries -----------------------------
(***************************************************************************)
(* The WLAN binaries the HaLow driver loads at app_wlan_start, as          *)
(* shim_freertos/mmhal_wlan_binaries.c serves them, and the choice of      *)
(* board configuration file (BCF) that main() makes before the scheduler   *)
(* starts:                                                                 *)
(*   - main() measures the front-end supply (VFEM) with ADC1 and selects   *)
(*     the 3.3 V or the 4.3 V BCF; a conversion that times out selects     *)
(*     none;                                                               *)
(*   - mmhal_wlan_read_bcf_file and mmhal_wlan_read_fw_file hand the       *)
(*     driver the chunk of a file that starts at `offset`, at most         *)
(*     `requested_len` bytes, in a caller's struct mmhal_robuf.            *)
(* A file is its length; its content is the positions of its bytes, so a *)
(* chunk of the wrong file or at the wrong place is told apart.            *)
(***************************************************************************)
EXTENDS Integers, Sequences, SequencesExt

CONSTANTS
    FileLen,      \* length of bcf_aw_hm593, bcf_aw_hm593_4v3 and fw_mm6108
    AdcReadings   \* values HAL_ADC_GetValue may return (14-bit)

Files == {"BCF_3V3", "BCF_4V3", "FW"}

ASSUME /\ FileLen \in [Files -> Nat \ {0}]
       /\ AdcReadings \subseteq 0..16383

NULL == "NULL"

\* a pointer into a file: the file's array and an offset; NULL has neither
NullPtr == [file |-> NULL, at |-> 0]

\* main.h: the VFEM reading from which the 4.3 V BCF is used
BCF_VFEM_THRESHOLD == 9500

(* A VFEM measurement: whether HAL_ADC_PollForConversion returned HAL_OK  *)
(* within 50 ms, and the value HAL_ADC_GetValue then reads.                *)
AdcOutcomes == [ok : {TRUE}, value : AdcReadings] \cup {[ok |-> FALSE, value |-> 0]}

(* a - b in uint32_t / size_t: below zero it wraps to 2^32 - (b - a).    *)
(* TLC's integers stop at 2^31 - 1, so a wrapped difference is held as     *)
(* 2^31 - (b - a), which like it exceeds every length here.              *)
SubU32(a, b) == IF a >= b THEN a - b ELSE 2147483647 - (b - a) + 1

Smaller(a, b) == IF a < b THEN a ELSE b

\* the bytes of file f, each named by the file and its position
Bytes(f) == [i \in 1..FileLen[f] |-> <<f, i>>]

(***************************************************************************)
(* select_bcf_3v3 / select_bcf_4v3: the statics bcf_data and bcf_length,   *)
(* which are NULL and 0 until one of them runs.                            *)
(***************************************************************************)
BcfUnselected == [data |-> NULL, length |-> 0]

select_bcf(f) == [data |-> f, length |-> FileLen[f]]

(* Mutant: the 4.3 V BCF only above the threshold. *)
SelectBcfAbove(adc) ==
    IF ~adc.ok THEN BcfUnselected
    ELSE IF adc.value <= BCF_VFEM_THRESHOLD THEN select_bcf("BCF_3V3")
    ELSE select_bcf("BCF_4V3")

(***************************************************************************)
(* main(), after the peripheral inits: a failed conversion is only         *)
(* printed, and neither BCF is selected.                                   *)
(***************************************************************************)
SelectBcf(adc) ==
    IF ~adc.ok THEN BcfUnselected
    ELSE IF adc.value < BCF_VFEM_THRESHOLD THEN select_bcf("BCF_3V3")
    ELSE select_bcf("BCF_4V3")

\* robuf as mmhal_wlan_read_bcf_file initialises it
RobufCleared == [buf |-> NullPtr, len |-> 0, free_arg |-> NULL, free_cb |-> NULL]

(* Mutant: the chunk is handed out without the sanity check on offset. *)
ReadBcfUnchecked(bcf, offset, requested_len) ==
    LET sel == IF bcf.data = NULL THEN select_bcf("BCF_3V3") ELSE bcf
    IN  [bcf |-> sel,
         robuf |-> [RobufCleared EXCEPT
                       !.buf = [file |-> sel.data, at |-> offset],
                       !.len = Smaller(SubU32(sel.length, offset), requested_len)]]

(***************************************************************************)
(* mmhal_wlan_read_bcf_file: clear robuf; select the 3.3 V BCF if none is  *)
(* selected yet; refuse an offset past the end; else the chunk, clamped    *)
(* to requested_len.  The result is the statics and the caller's robuf.    *)
(***************************************************************************)
mmhal_wlan_read_bcf_file(bcf, offset, requested_len) ==
    LET sel == IF bcf.data = NULL THEN select_bcf("BCF_3V3") ELSE bcf
    IN  [bcf |-> sel,
         robuf |-> IF sel.length < offset THEN RobufCleared
                   ELSE [RobufCleared EXCEPT
                            !.buf = [file |-> sel.data, at |-> offset],
                            !.len = Smaller(SubU32(sel.length, offset), requested_len)]]

(***************************************************************************)
(* mmhal_wlan_read_fw_file: an offset past the end sets buf to NULL and    *)
(* nothing else; otherwise buf and the clamped len.  free_arg and free_cb  *)
(* are never written, so they keep what the caller's robuf held.           *)
(***************************************************************************)
mmhal_wlan_read_fw_file(robuf, offset, requested_len) ==
    IF offset > FileLen["FW"] THEN [robuf EXCEPT !.buf = NullPtr]
    ELSE [robuf EXCEPT !.buf = [file |-> "FW", at |-> offset],
                       !.len = Smaller(SubU32(FileLen["FW"], offset), requested_len)]

(***************************************************************************)
(* The reading side, which is the HaLow driver's and not in this           *)
(* repository: from offset 0, read requested_len bytes at a time, each     *)
(* read at the end of the last chunk, until a chunk is empty or NULL.  A   *)
(* chunk that would run past its file ends the load as well.               *)
(***************************************************************************)
InFile(r) == r.buf.at + r.len <= FileLen[r.buf.file]

Chunk(r) == SubSeq(Bytes(r.buf.file), r.buf.at + 1, r.buf.at + r.len)

RECURSIVE LoadFrom(_, _, _, _)
LoadFrom(file, bcf, offset, req) ==
    LET b == mmhal_wlan_read_bcf_file(bcf, offset, req)
        r == IF file = "FW" THEN mmhal_wlan_read_fw_file(RobufCleared, offset, req)
             ELSE b.robuf
    IN  IF r.buf = NullPtr \/ r.len = 0 \/ ~InFile(r) THEN <<r>>
        ELSE <<r>> \o LoadFrom(file, b.bcf, offset + r.len, req)

\* what the driver received: the bytes of every chunk, or Over for a chunk
\* past the end of its file
Over == "over-read"
Received(chunks) ==
    FlattenSeq([i \in DOMAIN chunks |->
                   LET r == chunks[i] IN
                   IF r.buf = NullPtr \/ r.len = 0 THEN <<>>
                   ELSE IF InFile(r) THEN Chunk(r) ELSE <<Over>>])

\* the BCF the board's front end needs, as main() reads it
BcfFor(adc) ==
    IF adc.ok /\ adc.value >= BCF_VFEM_THRESHOLD THEN "BCF_4V3" ELSE "BCF_3V3"
=============================================================================
