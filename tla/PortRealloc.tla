------------------------------ MODULE PortRealloc ------------------------------
(***************************************************************************)
(* pvPortRealloc of shim_freertos/realloc.c, over the FreeRTOS heap_4      *)
(* block layout it relies on: every block the heap hands out is preceded  *)
(* by a BlockLink_t whose xBlockSize has its top bit set while the block   *)
(* is allocated and whose pxNextFreeBlock is NULL.  pvPortMalloc and       *)
(* vPortFree are heap_4's, outside the repository: malloc hands out a      *)
(* fresh block of at least the size asked for, or NULL.                    *)
(*                                                                         *)
(* A heap is the old block `pv` points into and the block malloc returns. *)
(* A block's payload is a sequence of bytes: the caller's bytes <<"old",   *)
(* i>>, and Slack for the rest of a block heap_4 rounded up.               *)
(* configASSERT comes from FreeRTOSConfig.h, which is not in the           *)
(* repository, so a failed assertion either halts or is compiled out.      *)
(***************************************************************************)
EXTENDS Integers, Sequences

NULL == "NULL"
Slack == "slack"        \* payload bytes beyond what the caller asked for
Garbage == "garbage"    \* payload bytes malloc did not initialise

\* pvPortMalloc's NULL, where a block is expected
NoBlock == [none |-> TRUE]

(* A block: its BlockLink_t (heapBLOCK_ALLOCATED_BITMASK held as the flag  *)
(* `allocated`, xBlockSize without it) and its payload bytes.              *)
Block(allocated, next, size, data) ==
    [allocated |-> allocated, pxNextFreeBlock |-> next, xBlockSize |-> size,
     data |-> data]

(* xHeapStructSize: sizeof(BlockLink_t) (8 on this 32-bit port) rounded   *)
(* up to portBYTE_ALIGNMENT (8).                                           *)
xHeapStructSize == 8

\* memcpy(dst, src, n) into the payload of dst
Memcpy(dst, src, n) ==
    [dst EXCEPT !.data = [i \in DOMAIN dst.data |->
                             IF i <= n THEN src.data[i] ELSE dst.data[i]]]

Result(heap, ret, moved, halted) ==
    [heap |-> heap, ret |-> ret, moved |-> moved, halted |-> halted]

(* Mutant: the old block is freed whether or not malloc succeeded. *)
ReallocFreeFirst(heap, pv, xWantedSize, assertHalts) ==
    LET old == heap.old
        xSourceSize == old.xBlockSize - xHeapStructSize
        xMoveSize == IF xSourceSize < xWantedSize THEN xSourceSize ELSE xWantedSize
    IN  CASE xWantedSize = 0 -> Result(heap, NULL, 0, FALSE)
          [] pv = NULL -> Result(heap, IF heap.fresh = NoBlock THEN NULL ELSE "fresh", 0, FALSE)
          [] ~(old.allocated /\ old.pxNextFreeBlock = NULL) ->
                 Result(heap, NULL, 0, assertHalts)
          [] heap.fresh = NoBlock ->
                 Result([heap EXCEPT !.old.allocated = FALSE], NULL, 0, FALSE)
          [] OTHER ->
                 Result([heap EXCEPT !.old.allocated = FALSE,
                                     !.fresh = Memcpy(heap.fresh, old, xMoveSize)],
                        "fresh", xMoveSize, FALSE)

(***************************************************************************)
(* pvPortRealloc(pv, xWantedSize).  A zero size returns NULL and leaves pv *)
(* alone; a NULL pv is a plain malloc.  Otherwise the BlockLink_t before   *)
(* pv must be allocated with a NULL link (configASSERT, then the same two *)
(* tests); the payload size is xBlockSize without the flag and the header, *)
(* and only when malloc succeeded are min(payload, wanted) bytes copied    *)
(* and pv freed.  `heap.fresh` is what pvPortMalloc returns; `ret` names   *)
(* the block returned and `moved` the bytes memcpy copied.                 *)
(***************************************************************************)
pvPortRealloc(heap, pv, xWantedSize, assertHalts) ==
    LET old == heap.old
        xSourceSize == old.xBlockSize - xHeapStructSize
        xMoveSize == IF xSourceSize < xWantedSize THEN xSourceSize ELSE xWantedSize
    IN  CASE xWantedSize = 0 -> Result(heap, NULL, 0, FALSE)
          [] pv = NULL -> Result(heap, IF heap.fresh = NoBlock THEN NULL ELSE "fresh", 0, FALSE)
          [] ~(old.allocated /\ old.pxNextFreeBlock = NULL) ->
                 Result(heap, NULL, 0, assertHalts)
          [] heap.fresh = NoBlock -> Result(heap, NULL, 0, FALSE)
          [] OTHER ->
                 Result([heap EXCEPT !.old.allocated = FALSE,
                                     !.fresh = Memcpy(heap.fresh, old, xMoveSize)],
                        "fresh", xMoveSize, FALSE)
=============================================================================
