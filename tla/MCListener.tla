----------------------------- MODULE MCListener -----------------------------
(***************************************************************************)
(* Bounds for NcListener: one mode for each way a callback is dispatched   *)
(* and one of arguments that are refused; four descriptors, all of which   *)
(* the application may take, so that a number is reused as soon as it is   *)
(* free and the table can be full when socket() or accept() is called.     *)
(***************************************************************************)
EXTENDS NcListener

CONSTANTS c1, c2

MCModes == {
    <<"SOCKTYPE_TCPIP", "NC_THREADED", {"NC_DETACHED"}>>,
    <<"SOCKTYPE_TCPIP", "NC_THREADED", {"NC_JOINED"}>>,
    <<"SOCKTYPE_TCPIP", "NC_THREADED", {"NC_JOINED", "NC_REUSEADDR"}>>,
    <<"SOCKTYPE_TCPIP", "NC_NONTHREADED", {"NC_REUSEADDR"}>>,
    <<"SOCKTYPE_UDP", "NC_NONTHREADED", {"NC_DETACHED"}>>,
    <<"SOCKTYPE_TCPIP", "NC_THREADED", {}>> }

MCClients == {c1, c2}
=============================================================================
