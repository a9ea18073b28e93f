----------------------------- MODULE MCExporter -----------------------------
(***************************************************************************)
(* Model values for TLC: two tasks, so that one can be anywhere in its     *)
(* loop while the other is launched, runs or leaves; connections to be     *)
(* drained.                                                                *)
(***************************************************************************)
EXTENDS Exporter
=============================================================================
