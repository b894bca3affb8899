------------------------------- MODULE NcArch -------------------------------
(***************************************************************************)
(* The error classes of ncarch.h, as the GNU/Linux section defines them    *)
(* (the BSD, OS X and Cygwin sections include it).  An error is its name;  *)
(* "other" stands for the ones no macro tells apart.                       *)
(***************************************************************************)

Errors == {"none", "EALREADY", "EINPROGRESS", "EAGAIN", "EISCONN", "EPIPE",
           "ECONNREFUSED", "EBADF", "other"}

ncIsBlockingError(err) == err \in {"EALREADY", "EINPROGRESS", "EAGAIN"}

(* Only the WIN32 section looks for a connection that is already there.     *)
ncIsConnected(err) == FALSE
=============================================================================
