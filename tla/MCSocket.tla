------------------------------ MODULE MCSocket ------------------------------
(***************************************************************************)
(* Bounds for NcSocket: two objects and three descriptors, one of which    *)
(* the application may have, so that numbers are reused and run out; a     *)
(* connect() that gives up after some ticks that do not divide the         *)
(* timeout, and one whose clock wraps before it gets there.                *)
(***************************************************************************)
EXTENDS NcSocket

CONSTANTS o1, o2

MCObjects == {o1, o2}
MCRetriers == {o2}
MCTimeouts == {3, 5}
MCKernels == {"linux", "bsd"}
=============================================================================
