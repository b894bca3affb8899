----------------------------- MODULE MCTransfer -----------------------------
(***************************************************************************)
(* Bounds for NcTransfer: an unsigned int of 3 bits, buffers of up to 3    *)
(* bytes (and the empty one), and times that make the loop run 0 to 3      *)
(* times, poll without waiting (0), poll for ever (-1) or wrap.            *)
(***************************************************************************)
EXTENDS NcTransfer

MCBufLens == {0, 1, 3}
MCMillis == {-1, 0, 1, 3}
=============================================================================
