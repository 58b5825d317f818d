---------------------------- MODULE MCCursorFile ----------------------------
(***************************************************************************)
(* Two cursors of different length; enough files for both names and for    *)
(* every poller's open one.                                                *)
(***************************************************************************)
EXTENDS CursorFile, TLC

CONSTANTS short, long, loop, check, i1, i2, i3, i4

MCSize == (short :> 1) @@ (long :> 2)
=============================================================================
