----------------------------- MODULE MCCorePipe -----------------------------
(***************************************************************************)
(* Four messages: one larger than the kernel pipe, one that is empty and   *)
(* two that fit.                                                           *)
(***************************************************************************)
EXTENDS CorePipe

MCSizes == <<3, 0, 1, 2>>

=============================================================================
