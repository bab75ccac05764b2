----------------------------- MODULE MCUartLog -----------------------------
(* The bounds are in the configurations: a buffer of four bytes, lines     *)
(* that are empty, fit, and do not fit.                                    *)
EXTENDS UartLog
=============================================================================
