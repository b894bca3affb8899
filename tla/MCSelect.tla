------------------------------ MODULE MCSelect ------------------------------
(***************************************************************************)
(* Bounds for NcSelect: real milliseconds, an unsigned int of 20 bits (the *)
(* product of a poll time and 1000 fits), buffers of up to 3 bytes, and    *)
(* times on both sides of the 100 ms where the timeval goes wrong.         *)
(***************************************************************************)
EXTENDS NcSelect

MCBufLens == {0, 1, 3}
MCMillis == {0, 50, 100, 150}
=============================================================================
