------------------------------ MODULE MCUartNet ------------------------------
(* The contexts of the driver for TLC; the cfgs choose one CPU or several. *)
EXTENDS UartNet
=============================================================================
