----------------------------- MODULE MCTerminal -----------------------------
(***************************************************************************)
(* Model-checking instance of Terminal.  The buffer is scaled down from    *)
(* 512 to 6 characters and lines to 0 or 3 characters, so that two lines   *)
(* fill it exactly and a third is refused, as 512 and lines up to 127      *)
(* characters allow.                                                       *)
(***************************************************************************)
EXTENDS Terminal

MC_LineLens == {0, 3}

=============================================================================
