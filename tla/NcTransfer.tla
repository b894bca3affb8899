----------------------------- MODULE NcTransfer -----------------------------
(***************************************************************************)
(* ncSocket::readData and ncSocket::writeData, the poll() build (the one a *)
(* GNU/Linux configure selects), with checkTimeout, setTimeout and         *)
(* setPollTime.  One ncSocket object and the sequence of calls its user    *)
(* makes.  The two methods have the same loop; `op' says which one runs.   *)
(* The results of poll(), send() and recv() are the kernel's choice.       *)
(***************************************************************************)
EXTENDS Integers

CONSTANTS
    UINT,      \* 2^w, the number of values of an unsigned int
    BufLens,   \* the bufLen arguments callers pass
    Millis,    \* the arguments of setTimeout and setPollTime
    MaxStall   \* bound: how long a blocking send() is followed

ASSUME TransferAssumption ==
    /\ UINT \in Nat /\ UINT > 3
    /\ BufLens \subseteq Int
    /\ Millis \subseteq Int
    /\ MaxStall \in Nat

VARIABLES
    m_timeout, m_polltime,  \* the object's fields, unsigned int
    blocking,    \* the descriptor is in blocking mode: it came from accept()
    shut,        \* directions the object has shutdown()
    pc,          \* "idle", "poll", "xfer" (between poll and send/recv), "done"
    op,          \* "read" or "write"
    bufLen, counted,        \* the arguments: length, numActualBytes non-null
    nRemaining, timeout, timedout, ret,     \* the method's locals
    numActual,   \* *numActualBytes, 0 when the pointer is null
    moved,       \* history: bytes the kernel took or gave in this call
    waited,      \* history: milliseconds this call spent in system calls
    told         \* history: directions reported as NC_CLIENTDISCONNECT

object == <<m_timeout, m_polltime, blocking>>
args == <<op, bufLen, counted>>
frame == <<nRemaining, timeout, timedout, ret, numActual>>
vars == <<object, shut, pc, args, frame, moved, waited, told>>

Dirs == {"read", "write"}
RetCodes == {"NC_FAILED", "NC_OK", "NC_TIMEDOUT", "NC_MOREDATA",
             "NC_CLIENTDISCONNECT"}

AtRest == pc \in {"idle", "done"}

TypeOK ==
    /\ m_timeout \in 0..(UINT - 1) /\ m_polltime \in 0..(UINT - 1)
    /\ blocking \in BOOLEAN
    /\ shut \in SUBSET Dirs /\ told \in SUBSET Dirs
    /\ pc \in {"idle", "poll", "xfer", "done"}
    /\ op \in Dirs
    /\ bufLen \in Int /\ counted \in BOOLEAN
    /\ nRemaining \in Int
    /\ timeout \in 0..(UINT - 1) /\ timedout \in BOOLEAN
    /\ ret \in RetCodes
    /\ numActual \in Int
    /\ moved \in Nat /\ waited \in 0..(2 * UINT)
-----------------------------------------------------------------------------
(* The object between calls. *)

(* No call is in progress, and the caller has dropped the last result. *)
NoCall ==
    /\ pc = "idle" /\ op = "read"
    /\ bufLen = 0 /\ counted = FALSE
    /\ nRemaining = 0 /\ timeout = 0 /\ timedout = FALSE
    /\ ret = "NC_OK" /\ numActual = 0
    /\ moved = 0 /\ waited = 0

DropCall ==
    /\ pc' = "idle" /\ op' = "read"
    /\ bufLen' = 0 /\ counted' = FALSE
    /\ nRemaining' = 0 /\ timeout' = 0 /\ timedout' = FALSE
    /\ ret' = "NC_OK" /\ numActual' = 0
    /\ moved' = 0 /\ waited' = 0

(* A constructed object, or an accepted one, whose times are as its user    *)
(* has set them (the constructors set 10000 and 100).                       *)
Init ==
    /\ m_timeout \in {ms % UINT : ms \in Millis}
    /\ m_polltime \in {ms % UINT : ms \in Millis}
    /\ blocking \in BOOLEAN
    /\ shut = {} /\ told = {}
    /\ NoCall

setTimeout(ms) ==
    /\ AtRest
    /\ m_timeout' = ms % UINT
    /\ DropCall
    /\ UNCHANGED <<m_polltime, blocking, shut, told>>

setPollTime(ms) ==
    /\ AtRest
    /\ m_polltime' = ms % UINT
    /\ DropCall
    /\ UNCHANGED <<m_timeout, blocking, shut, told>>

(* Entry of readData or writeData: a length of 0 or less returns at once. *)
Call(o, n, c) ==
    /\ AtRest
    /\ pc' = IF n > 0 THEN "poll" ELSE "done"
    /\ op' = o /\ bufLen' = n /\ counted' = c
    /\ nRemaining' = n /\ timeout' = 0 /\ timedout' = FALSE
    /\ ret' = "NC_OK" /\ numActual' = 0
    /\ moved' = 0 /\ waited' = 0
    /\ UNCHANGED <<object, shut, told>>
-----------------------------------------------------------------------------
(* The loop's helpers. *)

(* haveAllData as the branches compute it from *numActualBytes = a. *)
HaveAllData(a) ==
    IF counted /\ a > 0 THEN (IF a = bufLen THEN 1 ELSE 0) ELSE -1

(* The switch of checkTimeout. *)
Verdict_Swapped(h) ==
    CASE h = -1 -> "NC_TIMEDOUT" [] h = 0 -> "NC_OK" [] h = 1 -> "NC_MOREDATA"
Verdict(h) ==
    CASE h = -1 -> "NC_TIMEDOUT" [] h = 0 -> "NC_MOREDATA" [] h = 1 -> "NC_OK"

(* *timeout += m_polltime, in unsigned arithmetic. *)
Ticked_Wide == timeout + m_polltime
Ticked_WriteFree == IF op = "write" THEN timeout ELSE (timeout + m_polltime) % UINT
Ticked == (timeout + m_polltime) % UINT

checkTimeout(h) ==
    /\ timeout' = Ticked
    /\ timedout' = IF Ticked >= m_timeout THEN TRUE ELSE timedout
    /\ ret' = IF Ticked >= m_timeout THEN Verdict(h) ELSE "NC_OK"

(* while ((nRemaining > 0) && (!timedout)) *)
LoopTest_NoTimedout(remaining, out) == IF remaining > 0 THEN "poll" ELSE "done"
LoopTest(remaining, out) == IF remaining > 0 /\ ~out THEN "poll" ELSE "done"

(* The clock of the history variable stops at WaitCap. *)
WaitCap == 2 * UINT
Waited(w) == IF waited + w < WaitCap THEN waited + w ELSE WaitCap

(* poll() takes its time as a signed int: the upper half waits for ever. *)
PollIsFinite == m_polltime < UINT \div 2
-----------------------------------------------------------------------------
(* One iteration: poll(), then send()/sendto() or recv()/recvfrom(). *)

PollTimesOut ==
    /\ pc = "poll" /\ PollIsFinite
    /\ checkTimeout(HaveAllData(numActual))
    /\ pc' = LoopTest(nRemaining, timedout')
    /\ waited' = Waited(m_polltime)
    /\ UNCHANGED <<object, shut, args, nRemaining, numActual, moved, told>>

(* poll() fails, or reports POLLERR, or reports no POLLIN/POLLOUT. *)
PollFails(w) ==
    /\ pc = "poll"
    /\ pc' = "done" /\ ret' = "NC_FAILED"
    /\ waited' = Waited(w)
    /\ UNCHANGED <<object, shut, args, nRemaining, timeout, timedout, numActual,
                   moved, told>>

PollReady(w) ==
    /\ pc = "poll"
    /\ pc' = "xfer"
    /\ waited' = Waited(w)
    /\ UNCHANGED <<object, shut, args, frame, moved, told>>

(* send() or recv() returns n >= 0.  recv() returns 0 at end of file.  A    *)
(* blocking send() may first wait for room, for a time w.                  *)
Transfer_NoCount(n, w) ==
    /\ pc = "xfer"
    /\ n \in 0..nRemaining /\ (op = "write" => n > 0 /\ op \notin shut)
    /\ w > 0 => blocking /\ op = "write"
    /\ nRemaining' = nRemaining - n
    /\ numActual' = IF counted THEN n ELSE 0
    /\ moved' = moved + n
    /\ checkTimeout(HaveAllData(numActual'))
    /\ pc' = LoopTest(nRemaining', timedout')
    /\ waited' = Waited(w)
    /\ UNCHANGED <<object, shut, args, told>>
Transfer(n, w) ==
    /\ pc = "xfer"
    /\ n \in 0..nRemaining /\ (op = "write" => n > 0 /\ op \notin shut)
    /\ w > 0 => blocking /\ op = "write"
    /\ nRemaining' = nRemaining - n
    /\ numActual' = IF counted THEN numActual + n ELSE 0
    /\ moved' = moved + n
    /\ checkTimeout(HaveAllData(numActual'))
    /\ pc' = LoopTest(nRemaining', timedout')
    /\ waited' = Waited(w)
    /\ UNCHANGED <<object, shut, args, told>>

(* -1 with EAGAIN: what poll() saw is gone.  Only on a non-blocking socket. *)
WouldBlock_Free ==
    /\ pc = "xfer" /\ ~blocking /\ op \notin shut
    /\ pc' = "poll"
    /\ UNCHANGED <<object, shut, args, frame, moved, waited, told>>
WouldBlock ==
    /\ pc = "xfer" /\ ~blocking /\ op \notin shut
    /\ checkTimeout(HaveAllData(numActual))
    /\ IF ret' = "NC_OK"
       THEN nRemaining' = nRemaining /\ pc' = LoopTest(nRemaining, timedout')
       ELSE nRemaining' = 0 /\ pc' = "done"
    /\ UNCHANGED <<object, shut, args, numActual, moved, waited, told>>

(* -1 with EPIPE or ECONNRESET. *)
Reset_NoShutdown ==
    /\ pc = "xfer"
    /\ nRemaining' = 0 /\ pc' = "done"
    /\ shut' = shut
    /\ ret' = "NC_CLIENTDISCONNECT" /\ told' = told \union {op}
    /\ UNCHANGED <<object, args, timeout, timedout, numActual, moved, waited>>
Reset ==
    /\ pc = "xfer"
    /\ nRemaining' = 0 /\ pc' = "done"
    /\ shut' = shut \union {op}
    /\ ret' = "NC_CLIENTDISCONNECT" /\ told' = told \union {op}
    /\ UNCHANGED <<object, args, timeout, timedout, numActual, moved, waited>>

(* -1 with any other error. *)
XferFails ==
    /\ pc = "xfer" /\ op \notin shut
    /\ nRemaining' = 0 /\ pc' = "done"
    /\ shut' = shut \union {op}
    /\ ret' = "NC_FAILED"
    /\ UNCHANGED <<object, args, timeout, timedout, numActual, moved, waited, told>>
-----------------------------------------------------------------------------
User ==
    \/ \E ms \in Millis : setTimeout(ms) \/ setPollTime(ms)
    \/ \E o \in Dirs, n \in BufLens, c \in BOOLEAN : Call(o, n, c)

Loop ==
    \/ PollTimesOut
    \/ \E w \in 0..m_polltime : PollFails(w) \/ PollReady(w)
    \/ \E n \in 0..nRemaining, w \in 0..MaxStall : Transfer(n, w)
    \/ WouldBlock \/ Reset \/ XferFails

Next == User \/ Loop

Spec == Init /\ [][Next]_vars

(* poll() with a finite time returns, and so do send() and recv() when they *)
(* do not block.  A blocking send() may wait for ever for its peer, and     *)
(* poll() with a negative time too: those get no fairness.                  *)
LoopReturns == Loop /\ PollIsFinite /\ ~(blocking /\ op = "write")
FairSpec == Spec /\ WF_vars(LoopReturns)
-----------------------------------------------------------------------------
(* Properties. *)

(* The times for which the loop is meant: the poll time is positive and     *)
(* finite, and the counter cannot wrap before it reaches the timeout.       *)
SaneTimes ==
    /\ 0 < m_polltime /\ PollIsFinite
    /\ m_timeout + m_polltime <= UINT

(* Whatever the kernel answers, the loop's byte accounting is exact: while  *)
(* it runs, what is left plus what has moved is bufLen, and at any time     *)
(* *numActualBytes is the number of bytes that moved, at most bufLen.       *)
CountExact ==
    /\ ~AtRest => nRemaining + moved = bufLen /\ nRemaining > 0
    /\ counted => numActual = moved
    /\ moved <= bufLen \/ moved = 0

(* A call on sane times that does not sit in a blocking send() gives up in  *)
(* time: poll() keeps it less than one poll time beyond the timeout, also   *)
(* when partial transfers, end of file and spurious wake-ups are mixed.     *)
Prompt ==
    pc # "idle" /\ SaneTimes /\ ~(blocking /\ op = "write")
        => waited <= m_polltime \/ waited < m_timeout + m_polltime

(* The call implements the documented contract of its return codes.         *)
Contract == INSTANCE DataTransfer WITH
    busy <- ~AtRest, want <- bufLen, done <- moved,
    result <- IF AtRest THEN ret ELSE "none"
TransferContract == Contract!Spec

(* A writer that has been told NC_CLIENTDISCONNECT never moves a byte again *)
(* on that object: the shutdown() in the reset branch sees to it.           *)
DisconnectIsFinal ==
    [][op = "write" /\ pc = "xfer" /\ "write" \in told => moved' = moved]_vars

(* A call on sane times returns, however the kernel answers, unless it sits *)
(* in a blocking send(): every iteration charges the poll time.             *)
CallReturns ==
    (~AtRest /\ SaneTimes /\ ~(blocking /\ op = "write")) ~> AtRest

(* What bounds a call: the time its clock has left, one poll time beyond    *)
(* the timeout included, with poll() and the transfer as two half-steps.    *)
Fuel ==
    IF AtRest THEN 0
    ELSE 2 * (m_timeout + m_polltime - timeout) + (IF pc = "poll" THEN 1 ELSE 0)

(* Why a call returns: on sane times every step of the loop uses up fuel,   *)
(* which never falls below zero.  No answer of the kernel, be it a partial  *)
(* transfer, EAGAIN, end of file or a spurious wake-up, is free, so that    *)
(* readData and writeData make a bounded number of system calls, also when  *)
(* one of those blocks.                                                     *)
CallAdvances ==
    [][SaneTimes /\ ~AtRest => Fuel' \in Nat /\ Fuel' < Fuel]_vars

(* ncsocket.h says that NC_TIMEDOUT and NC_MOREDATA come after the timeout  *)
(* period has passed.                                                       *)
TimeoutTakesTime ==
    pc = "done" /\ SaneTimes /\ ret \in {"NC_TIMEDOUT", "NC_MOREDATA"}
        => waited >= m_timeout
=============================================================================
