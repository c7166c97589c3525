------------------------------ MODULE QspiFlash ------------------------------
(***************************************************************************)
(* The W25Q16JV NOR flash behind the OCTOSPI1 controller, as the driver    *)
(* src/BSP-EKH05/components/w25q16jv/w25q16jv.c drives it.                 *)
(*                                                                         *)
(* Only block 0 is modelled, and only at the granularity the save path     *)
(* writes it: the 4-byte size header at address 0, the 252 payload bytes  *)
(* of page 0 at address 4, and whole pages at addresses 256*k.  A slot     *)
(* holds Erased, Garbage, the header word, or a record saying which        *)
(* capture's bytes were programmed there and how many.                     *)
(*                                                                         *)
(* The controller state ospi abstracts HAL_OSPI_GetState: "MemMapped" is   *)
(* HAL_OSPI_STATE_BUSY_MEM_MAPPED, "Command" the indirect (command) mode,  *)
(* "Error" the state a timed-out HAL call leaves behind.                   *)
(*                                                                         *)
(* The operators return the SET of outcomes a command can have; the       *)
(* composing module picks one with \E.  A command the driver reports as    *)
(* failed (a bus or auto-polling timeout) may or may not have reached the  *)
(* device, so its effect is a nondeterministic choice.                     *)
(***************************************************************************)
EXTENDS Integers

CONSTANTS
    Erased,     \* content of an erased slot (all 0xFF)
    Garbage,    \* content of a slot programmed twice or partially
    NoImage,    \* what the saved-image reader sees with no valid header
    MaxPage     \* highest page of block 0 the model lets the save reach

ASSUME MaxPage \in Nat \ {0}

VARIABLES
    flash,      \* slot address -> content
    wel,        \* the device's write-enable latch (status register bit 1)
    ospi        \* the OCTOSPI controller mode

Slots == {0, 4} \cup {256 * k : k \in 1..MaxPage}

BlankBlock == [a \in Slots |-> Erased]

OspiModes == {"MemMapped", "Command", "Error"}

(***************************************************************************)
(* Page programming on NOR flash can only clear bits: programming a slot  *)
(* that is not erased leaves neither the old nor the new value.  An        *)
(* address outside the modelled block changes nothing the model tracks.    *)
(***************************************************************************)
Burn(f, a, v) ==
    IF a \in DOMAIN f
    THEN [f EXCEPT ![a] = IF @ = Erased THEN v ELSE Garbage]
    ELSE f

(***************************************************************************)
(* QSPI_WriteEnable: WRITE_ENABLE_CMD, then auto-poll for the WEL bit.     *)
(* When it fails the command may never have reached the device, so the    *)
(* latch keeps its old value.                                              *)
(***************************************************************************)
WelAfterWriteEnable(w, ok) == w \/ ok

(***************************************************************************)
(* QSPI_ProgramPage: QUAD_IN_FAST_PROG_CMD at address a, transmit, poll    *)
(* for ready.  Without the latch the device ignores the program and the    *)
(* poll matches at once, so the driver reports success ("ok" is just the   *)
(* bus status).  A failed program may have written the page, part of it,   *)
(* or nothing.  The device clears WEL when a program completes.            *)
(***************************************************************************)
ProgramOutcomes(f, w, a, v, ok) ==
    IF ~w THEN {f}
    ELSE IF ok THEN {Burn(f, a, v)}
    ELSE {f, Burn(f, a, v), Burn(f, a, Garbage)}

(***************************************************************************)
(* QSPI_BlockSectorErase: BLOCK_64K_ERASE_CMD at address 0, poll for       *)
(* ready.  A timed-out erase may have completed, not started, or been cut  *)
(* short by the chip reset that the cleanup sends.                         *)
(***************************************************************************)
EraseOutcomes(f, w, ok) ==
    IF ~w THEN {f}
    ELSE IF ok THEN {BlankBlock}
    ELSE {f, BlankBlock, [a \in Slots |-> Garbage]}

(***************************************************************************)
(* HAL_OSPI_Abort: leaves memory-mapped mode for command mode.  When it    *)
(* times out, the HAL marks the handle HAL_OSPI_STATE_ERROR, unless the    *)
(* abort never took effect and the controller is still mapped.             *)
(***************************************************************************)
AbortOutcomes(ok) == IF ok THEN {"Command"} ELSE {"MemMapped", "Error"}

(***************************************************************************)
(* QSPI_Init (reset chip, poll ready, write enable, write the status       *)
(* register) followed, if it succeeded, by QSPI_EnableMemoryMappedMode,    *)
(* as flash_image_cleanup and periphs_start call them.                     *)
(***************************************************************************)
ModeAfterInitAndMap(initOk, mapOk) ==
    IF ~initOk THEN "Error"
    ELSE IF mapOk THEN "MemMapped"
    ELSE "Command"

(***************************************************************************)
(* The reader's view of the stored image (rest_ep_get_saved_image and the *)
(* layout save_image writes): the header word at OCTOSPI1_BASE, rejected   *)
(* when 0 or not below 64K-4 (an erased header reads 0xFFFFFFFF), then     *)
(* the payload from address 4.  Page 0 always carries 252 payload bytes;   *)
(* page k carries the next min(256, rest) bytes.                           *)
(***************************************************************************)
(* uint32_t words are held in two's complement: 0xFFFFFFFF is -1.        *)
HeaderWord(f) == IF f[0] = Erased THEN -1 ELSE f[0]

PayloadSlots(h) == {4} \cup {a \in Slots \ {0, 4} : a < 4 + h}

PayloadLen(h, a) ==
    IF a = 4 THEN 252
    ELSE IF 4 + h - a >= 256 THEN 256 ELSE 4 + h - a

HeaderValid(f) ==
    \/ f[0] = Garbage
    \/ LET h == HeaderWord(f) IN h # 0 /\ 0 <= h /\ h < 64 * 1024 - 4

(***************************************************************************)
(* Decode(f) is the image the flash holds: NoImage when the header is      *)
(* rejected, a record [img, size] when every payload slot holds bytes of   *)
(* one capture with the lengths the layout prescribes, Garbage otherwise.  *)
(***************************************************************************)
Decode(f) ==
    IF ~HeaderValid(f) THEN NoImage
    ELSE IF f[0] = Garbage \/ f[4] \in {Erased, Garbage} THEN Garbage
    ELSE LET h == f[0]
             g == f[4].img
         IN IF \A a \in PayloadSlots(h) :
                  f[a] = [img |-> g, len |-> PayloadLen(h, a)]
            THEN [img |-> g, size |-> h]
            ELSE Garbage

=============================================================================
