---------------------------- MODULE MCOrderClock ----------------------------
(***************************************************************************)
(* The instance of OrderClock for TLC.                                     *)
(***************************************************************************)
EXTENDS OrderClock

(* Klines close together, so that the clock can run past the next one.     *)
CloseRows == <<10, 12, 20>>
=============================================================================
