----------------------------- MODULE ImageStore -----------------------------
(***************************************************************************)
(* What the demo's image store promises (spec section 8), independent of   *)
(* the flash layout: a single stored value, replaced only by a writer that *)
(* holds the store alone (save_image or erase_image under QSPI_flash_lock), *)
(* and read by transfers that see the value it had when they started and  *)
(* that no writer disturbs until they end (rest_ep_get_saved_image and     *)
(* http_file_sent).  The store may pass through any value while it is      *)
(* written; a write and a read always end.                                 *)
(***************************************************************************)
CONSTANTS
    Contents,   \* the values the store can hold
    NoImage     \* the value the reader refuses to send

VARIABLES
    content,    \* the value a reader would see now
    writer,     \* a save or erase holds the store
    readers     \* the values of the transfers in progress

storeVars == <<content, writer, readers>>

StoreInit ==
    /\ content \in Contents
    /\ writer = FALSE
    /\ readers = {}

BeginWrite ==
    /\ ~writer /\ readers = {}
    /\ writer' = TRUE
    /\ UNCHANGED <<content, readers>>

Write ==
    /\ writer
    /\ content' \in Contents
    /\ UNCHANGED <<writer, readers>>

EndWrite ==
    /\ writer
    /\ writer' = FALSE
    /\ UNCHANGED <<content, readers>>

BeginRead ==
    /\ ~writer /\ content # NoImage
    /\ readers' = readers \cup {content}
    /\ UNCHANGED <<content, writer>>

EndRead ==
    /\ \E r \in readers : readers' = readers \ {r}
    /\ UNCHANGED <<content, writer>>

StoreNext == BeginWrite \/ Write \/ EndWrite \/ BeginRead \/ EndRead

StoreSpec ==
    /\ StoreInit /\ [][StoreNext]_storeVars
    /\ WF_storeVars(EndWrite) /\ WF_storeVars(EndRead)

=============================================================================
