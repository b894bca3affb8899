------------------------------ MODULE NcSelect ------------------------------
(***************************************************************************)
(* ncSocket::readData and ncSocket::writeData, the select() build (WIN32,  *)
(* or a system without poll()).  The object, the call's frame, its entry,  *)
(* checkTimeout and the branches of an error are those of the poll() build *)
(* in NcTransfer; what differs is how long an iteration waits, the test of *)
(* the result of send() and recv(), and that it looks at errno also when   *)
(* the call has not failed, when errno is whatever an earlier call left.   *)
(* pPtr is kept: the next byte of the buffer that send() or recv() gets.   *)
(***************************************************************************)
EXTENDS NcTransfer, NcArch

CONSTANT MaxBack   \* bound: how often a call's send() says EAGAIN

ASSUME SelectAssumption == MaxBack \in Nat

ASSUME WidthAssumption == UINT > 100000

VARIABLES
    errno,   \* the thread's last error
    pPtr,    \* the method's pointer, as an index of buf
    back     \* history: how often this call's send() said EAGAIN

svars == <<vars, errno, pPtr, back>>

STypeOK ==
    /\ TypeOK
    /\ errno \in Errors /\ pPtr \in Int /\ back \in 0..MaxBack

SInit == Init /\ errno \in {"none", "EINPROGRESS"} /\ pPtr = 0 /\ back = 0

SUser == User /\ pPtr' = 0 /\ back' = 0 /\ UNCHANGED errno
-----------------------------------------------------------------------------
(* One iteration. *)

(* The timeval: the poll time in units of 100 ms is taken for seconds.      *)
USecs == (m_polltime * 1000) % UINT
SelectWait_Coarse == (USecs \div 10000) * 1000
SelectWait == (USecs \div 100000) * 1000 + (USecs % 100000) \div 1000

(* select() returns 0. *)
SelectTimesOut ==
    /\ pc = "poll"
    /\ checkTimeout(HaveAllData(numActual))
    /\ pc' = LoopTest(nRemaining, timedout')
    /\ waited' = Waited(SelectWait)
    /\ UNCHANGED <<object, shut, args, nRemaining, numActual, moved, told, errno, pPtr, back>>

SelectFails ==
    /\ PollFails(0)
    /\ errno' = "other" /\ UNCHANGED <<pPtr, back>>

SelectReady(w) ==
    /\ PollReady(w)
    /\ UNCHANGED <<errno, pPtr, back>>

(* What the branch of a transfer does with the value n, -1 included. *)
Advance_KeepsPtr(n) ==
    /\ nRemaining' = nRemaining - n /\ pPtr' = pPtr
    /\ numActual' = IF counted THEN numActual + n ELSE 0
    /\ checkTimeout(HaveAllData(numActual'))
    /\ pc' = LoopTest(nRemaining', timedout')
    /\ UNCHANGED <<object, shut, args, told, waited>>
Advance(n) ==
    /\ nRemaining' = nRemaining - n /\ pPtr' = pPtr + n
    /\ numActual' = IF counted THEN numActual + n ELSE 0
    /\ checkTimeout(HaveAllData(numActual'))
    /\ pc' = LoopTest(nRemaining', timedout')
    /\ UNCHANGED <<object, shut, args, told, waited>>

(* send() or recv() returns n > 0. *)
Moves(n) ==
    /\ pc = "xfer" /\ n \in 1..nRemaining /\ (op = "write" => op \notin shut)
    /\ Advance(n) /\ moved' = moved + n
    /\ UNCHANGED <<errno, back>>

(* send() fails with EAGAIN, which is handled as a transfer of -1 bytes. *)
SendBlocks_Free ==
    /\ pc = "xfer" /\ op = "write" /\ op \notin shut /\ ~blocking /\ back < MaxBack
    /\ pc' = "poll" /\ errno' = "EAGAIN" /\ back' = back + 1
    /\ UNCHANGED <<object, shut, args, frame, moved, waited, told, pPtr>>
SendBlocks ==
    /\ pc = "xfer" /\ op = "write" /\ op \notin shut /\ ~blocking /\ back < MaxBack
    /\ Advance(-1) /\ errno' = "EAGAIN" /\ back' = back + 1
    /\ UNCHANGED moved

(* The last branch: a failure that is no reset, or end of file. *)
GivesUp_RawError ==
    /\ nRemaining' = 0 /\ pc' = "done"
    /\ shut' = shut \union {op} /\ ret' = errno
    /\ UNCHANGED <<object, args, timeout, timedout, numActual, moved, waited, told, pPtr, back>>
GivesUp_KeepsCode ==
    /\ nRemaining' = 0 /\ pc' = "done"
    /\ shut' = shut \union {op} /\ ret' = ret
    /\ UNCHANGED <<object, args, timeout, timedout, numActual, moved, waited, told, pPtr, back>>
GivesUp ==
    /\ nRemaining' = 0 /\ pc' = "done"
    /\ shut' = shut \union {op} /\ ret' = "NC_FAILED"
    /\ UNCHANGED <<object, args, timeout, timedout, numActual, moved, waited, told, pPtr, back>>

(* recv() returns 0 at end of file, which goes on or fails by what errno    *)
(* happens to be.                                                           *)
EndOfFile_Spins ==
    /\ pc = "xfer" /\ op = "read"
    /\ IF ncIsBlockingError(errno)
       THEN pc' = "poll" /\ UNCHANGED <<object, shut, args, frame, moved, waited, told, pPtr, back>>
       ELSE GivesUp
    /\ UNCHANGED errno
EndOfFile ==
    /\ pc = "xfer" /\ op = "read"
    /\ IF ncIsBlockingError(errno) THEN Advance(0) /\ UNCHANGED <<moved, back>> ELSE GivesUp
    /\ UNCHANGED errno

(* -1, with an error that is no reset; for recv() also EAGAIN. *)
Fails(err) ==
    /\ pc = "xfer" /\ op \notin shut
    /\ err = "other" \/ (err = "EAGAIN" /\ op = "read" /\ ~blocking)
    /\ errno' = err /\ GivesUp

SReset ==
    /\ Reset
    /\ errno' = "EPIPE" /\ UNCHANGED <<pPtr, back>>
-----------------------------------------------------------------------------
SLoop ==
    \/ SelectTimesOut \/ SelectFails
    \/ \E w \in {0, SelectWait} : SelectReady(w)
    \/ \E n \in 1..nRemaining : Moves(n)
    \/ SendBlocks \/ EndOfFile \/ Fails("other") \/ Fails("EAGAIN") \/ SReset

SNext == SUser \/ SLoop

SSpec == SInit /\ [][SNext]_svars

(* select() returns, and so do send() and recv() when they do not block. *)
SLoopReturns == SLoop /\ ~(blocking /\ op = "write")
SFairSpec == SSpec /\ WF_svars(SLoopReturns)
-----------------------------------------------------------------------------
(* Properties. *)

(* Where the bytes go.  The pointer, the bytes left and *numActualBytes     *)
(* agree, and byte number k of the call's traffic is byte k - back of the   *)
(* buffer: each EAGAIN of send() moves all that follows back by one, so     *)
(* that a byte is sent twice, or one from before the buffer is sent.        *)
(* Reading never does that, and never leaves the buffer.                    *)
Displaced ==
    /\ pPtr + back = moved
    /\ ~AtRest => nRemaining + pPtr = bufLen /\ nRemaining > 0
    /\ counted => numActual = pPtr
    /\ op = "read" => back = 0
    /\ pPtr <= bufLen \/ pPtr = 0

(* The return code agrees with the position that was reached, whatever      *)
(* errno was and however the transfer was cut up: it keeps the contract for *)
(* pPtr bytes, which are the bytes that moved if send() never said EAGAIN.  *)
PositionContract ==
    pc = "done" => Contract!Contract(ret, IF pPtr > 0 THEN pPtr ELSE 0, bufLen, counted)

(* A call waits at most ten times as long as it should, and not longer than *)
(* it should if the poll time is below 100 ms.                              *)
TenfoldPrompt ==
    pc # "idle" /\ SaneTimes /\ ~(blocking /\ op = "write")
        => /\ waited <= 10 * m_polltime \/ waited < 10 * (m_timeout + m_polltime)
           /\ m_polltime < 100 => Prompt

(* A call on sane times returns: every iteration charges the poll time, at  *)
(* end of file and when send() says EAGAIN too.                             *)
SCallReturns == (~AtRest /\ SaneTimes /\ ~(blocking /\ op = "write")) ~> AtRest

(* Why it returns: every step of the loop uses up fuel, also the branches   *)
(* that errno chooses, and the one that takes EAGAIN for a transfer of -1   *)
(* bytes and so has more left to send than before.                          *)
SCallAdvances ==
    [][SaneTimes /\ ~AtRest => Fuel' \in Nat /\ Fuel' < Fuel]_svars

(* A call whose send() has not said EAGAIN, so every readData, implements   *)
(* the documented contract of its return codes step by step, like the       *)
(* poll() build: the bytes that the kernel moved are the bytes the code     *)
(* speaks of, whatever errno was left over from before.                     *)
ContractUnlessEAGAIN ==
    [][back' = 0 => Contract!Next \/ UNCHANGED Contract!avars]_svars
=============================================================================
