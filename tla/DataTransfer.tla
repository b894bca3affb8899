---------------------------- MODULE DataTransfer ----------------------------
(***************************************************************************)
(* What one call of ncSocket::readData or ncSocket::writeData promises its *)
(* caller, as ncsocket.h documents it: bytes move in zero or more steps,   *)
(* and the code the call returns agrees with the number of bytes moved.    *)
(* How the call waits, counts time and meets errors is left out; module    *)
(* NcTransfer has that and is shown to implement this specification.       *)
(***************************************************************************)
EXTENDS Integers

VARIABLES
    busy,     \* a call is in progress
    want,     \* the bufLen argument of the current or last call
    counted,  \* the caller passed a numActualBytes pointer
    done,     \* bytes moved by the current or last call
    result    \* the code the last call returned, "none" while busy

avars == <<busy, want, counted, done, result>>

RetCodes == {"NC_FAILED", "NC_OK", "NC_TIMEDOUT", "NC_MOREDATA",
             "NC_CLIENTDISCONNECT"}

(***************************************************************************)
(* The documented meaning of a return code r, for d bytes moved of w:      *)
(* NC_OK says everything moved (nothing was asked for if w <= 0);          *)
(* NC_MOREDATA says some but not all of it did, and only a caller that     *)
(* passed numActualBytes gets it; NC_TIMEDOUT says, to such a caller, that *)
(* nothing moved.                                                          *)
(***************************************************************************)
Contract(r, d, w, c) ==
    /\ r = "NC_OK" => d = IF w > 0 THEN w ELSE 0
    /\ r = "NC_MOREDATA" => c /\ 0 < d /\ d < w
    /\ r = "NC_TIMEDOUT" /\ c => d = 0

Init ==
    /\ busy = FALSE
    /\ want = 0 /\ counted = FALSE /\ done = 0
    /\ result = "NC_OK"

Begin ==
    /\ ~busy
    /\ want' \in Int /\ counted' \in BOOLEAN
    /\ done' = 0
    /\ \/ want' > 0 /\ busy' = TRUE /\ result' = "none"
       \/ want' <= 0 /\ busy' = FALSE /\ result' = "NC_OK"

Progress ==
    /\ busy
    /\ done' \in Int /\ done <= done' /\ done' <= want
    /\ \/ busy' = TRUE /\ result' = "none"
       \/ /\ busy' = FALSE
          /\ result' \in RetCodes
          /\ Contract(result', done', want, counted)
    /\ UNCHANGED <<want, counted>>

(* Between calls the caller may drop the last result. *)
Forget == ~busy /\ Init'

Next == Begin \/ Progress \/ Forget

Spec == Init /\ [][Next]_avars
=============================================================================
