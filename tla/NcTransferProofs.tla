--------------------------- MODULE NcTransferProofs ---------------------------
(***************************************************************************)
(* Proofs about readData and writeData (the poll build) for every width of *)
(* unsigned int, every buffer length and every timeout and poll time: the  *)
(* byte accounting is exact, the call implements the documented contract   *)
(* of its return codes, a call with sane times gives up in time, and a     *)
(* disconnected writer never moves a byte again.                           *)
(***************************************************************************)
EXTENDS NcTransfer, TLAPS

(* A loop that runs has not timed out, and its clock runs ahead of the time *)
(* it spent: what Prompt needs to be inductive.                             *)
Timely ==
    pc # "idle" /\ SaneTimes /\ ~(blocking /\ op = "write")
        => /\ timeout = 0 \/ timeout < m_timeout \/ pc = "done"
           /\ pc = "poll" => waited <= timeout
           /\ pc = "xfer" => waited <= timeout + m_polltime
           /\ pc = "done" => waited <= m_polltime \/ waited < m_timeout + m_polltime

IInv ==
    /\ TypeOK /\ CountExact
    /\ ~AtRest => ~timedout
    /\ told \subseteq shut
    /\ Timely

(* Unsigned arithmetic stays in range.                                      *)
LEMMA ModRange == ASSUME NEW a \in Int PROVE a % UINT \in 0..(UINT - 1)
  BY TransferAssumption
(* It does not wrap below UINT.                                             *)
LEMMA ModSmall == ASSUME NEW a \in Int, 0 <= a, a < UINT PROVE a % UINT = a
  BY TransferAssumption
-------------------------------------------------------------------------------
(* checkTimeout: the counter stays an unsigned int; the call times out      *)
(* exactly when the counter reaches m_timeout; and the verdict says of the  *)
(* a bytes counted so far what the header promises.                         *)
LEMMA CheckTimeoutType ==
    ASSUME TypeOK, NEW a \in Int, ~timedout, checkTimeout(HaveAllData(a))
    PROVE  /\ timeout' \in 0..(UINT - 1)
           /\ timedout' \in BOOLEAN
           /\ timedout' <=> timeout' >= m_timeout
           /\ ~timedout' => ret' = "NC_OK"
           /\ timedout' => \/ ret' = "NC_OK" /\ counted /\ a = bufLen /\ a > 0
                           \/ ret' = "NC_MOREDATA" /\ counted /\ a > 0 /\ a # bufLen
                           \/ ret' = "NC_TIMEDOUT" /\ ~(counted /\ a > 0)
           /\ ret' \in RetCodes
<1>1. timeout + m_polltime \in Int
  BY TransferAssumption DEF TypeOK
<1>2. Ticked \in 0..(UINT - 1)
  BY <1>1, ModRange DEF Ticked
<1>3. timeout' = Ticked /\ timedout' = (IF Ticked >= m_timeout THEN TRUE ELSE timedout)
      /\ ret' = IF Ticked >= m_timeout THEN Verdict(HaveAllData(a)) ELSE "NC_OK"
  BY DEF checkTimeout
<1>4. \/ HaveAllData(a) = 1 /\ counted /\ a = bufLen /\ a > 0
      \/ HaveAllData(a) = 0 /\ counted /\ a > 0 /\ a # bufLen
      \/ HaveAllData(a) = -1 /\ ~(counted /\ a > 0)
  BY DEF HaveAllData
<1>5. Verdict(1) = "NC_OK" /\ Verdict(0) = "NC_MOREDATA" /\ Verdict(-1) = "NC_TIMEDOUT"
  BY DEF Verdict
<1>6. /\ timeout' \in 0..(UINT - 1)
      /\ timedout' \in BOOLEAN
      /\ timedout' <=> timeout' >= m_timeout
  <2>1. timeout' \in 0..(UINT - 1)
    BY <1>2, <1>3
  <2>2. timedout' \in BOOLEAN /\ (timedout' <=> timeout' >= m_timeout)
    BY <1>3 DEF TypeOK
  <2> QED
    BY <2>1, <2>2
<1>7. ~timedout' => ret' = "NC_OK"
  BY <1>3
<1>8. timedout' => ret' = Verdict(HaveAllData(a))
  BY <1>3
<1>9. timedout' => \/ ret' = "NC_OK" /\ counted /\ a = bufLen /\ a > 0
                   \/ ret' = "NC_MOREDATA" /\ counted /\ a > 0 /\ a # bufLen
                   \/ ret' = "NC_TIMEDOUT" /\ ~(counted /\ a > 0)
  BY <1>4, <1>5, <1>8
<1> QED
  BY <1>6, <1>7, <1>9 DEF RetCodes

(* On sane times the counter does not wrap.                                 *)
LEMMA NoWrap ==
    ASSUME TypeOK, SaneTimes, timeout = 0 \/ timeout < m_timeout
    PROVE  Ticked = timeout + m_polltime
<1>1. timeout + m_polltime \in Int /\ 0 <= timeout + m_polltime
      /\ timeout + m_polltime < UINT
  BY TransferAssumption DEF TypeOK, SaneTimes
<1> QED
  BY <1>1, ModSmall DEF Ticked

(* checkTimeout charges one poll time, and ends the loop at the timeout.    *)
LEMMA ClockStep ==
    ASSUME TypeOK, ~timedout, NEW a \in Int, checkTimeout(HaveAllData(a)),
           SaneTimes, timeout = 0 \/ timeout < m_timeout
    PROVE  timeout' = timeout + m_polltime /\ (timedout' <=> timeout' >= m_timeout)
<1>1. timedout' <=> timeout' >= m_timeout
  BY CheckTimeoutType
<1>2. timeout' = timeout + m_polltime
  BY NoWrap DEF checkTimeout
<1> QED
  BY <1>1, <1>2

(* The history clock stays in its range and never runs fast.                *)
LEMMA WaitedRange ==
    ASSUME TypeOK, NEW w \in Nat
    PROVE  Waited(w) \in 0..(2 * UINT) /\ Waited(w) <= waited + w
  BY TransferAssumption DEF TypeOK, Waited, WaitCap
-------------------------------------------------------------------------------
(* An object between calls, with any times.                                 *)
LEMMA InitIInv == Init => IInv
<1> SUFFICES ASSUME Init PROVE IInv
  OBVIOUS
<1>1. m_timeout \in 0..(UINT - 1) /\ m_polltime \in 0..(UINT - 1)
  BY TransferAssumption, ModRange DEF Init
<1>2. TypeOK
  <2>1. /\ bufLen \in Int /\ nRemaining \in Int /\ numActual \in Int
        /\ moved \in Nat /\ waited \in 0..(2 * UINT) /\ timeout \in 0..(UINT - 1)
    BY TransferAssumption DEF Init, NoCall
  <2>2. /\ blocking \in BOOLEAN /\ counted \in BOOLEAN /\ timedout \in BOOLEAN
        /\ shut \in SUBSET Dirs /\ told \in SUBSET Dirs
        /\ pc \in {"idle", "poll", "xfer", "done"} /\ op \in Dirs /\ ret \in RetCodes
    BY Zenon DEF Init, NoCall, Dirs, RetCodes
  <2> QED
    BY <1>1, <2>1, <2>2 DEF TypeOK
<1>3. CountExact /\ Timely /\ AtRest /\ told \subseteq shut
  BY DEF Init, NoCall, CountExact, Timely, AtRest
<1> QED
  BY <1>2, <1>3 DEF IInv

(* Between calls: the object's times change, and the last result goes.      *)
LEMMA UserIInv == IInv /\ User => IInv'
<1> SUFFICES ASSUME IInv, User PROVE IInv'
  OBVIOUS
<1> USE TransferAssumption DEF IInv, TypeOK, AtRest
<1>1. ASSUME NEW ms \in Millis, setTimeout(ms) \/ setPollTime(ms) PROVE IInv'
  <2>1. ms % UINT \in 0..(UINT - 1)
    BY ModRange
  <2>2. DropCall /\ UNCHANGED <<blocking, shut, told>>
    BY <1>1 DEF setTimeout, setPollTime
  <2>3. m_timeout' \in 0..(UINT - 1) /\ m_polltime' \in 0..(UINT - 1)
    BY <1>1, <2>1 DEF setTimeout, setPollTime
  <2>4. TypeOK'
    <3>1. /\ bufLen' \in Int /\ nRemaining' \in Int /\ numActual' \in Int
          /\ moved' \in Nat /\ waited' \in 0..(2 * UINT) /\ timeout' \in 0..(UINT - 1)
      BY <2>2 DEF DropCall
    <3>2. /\ counted' \in BOOLEAN /\ timedout' \in BOOLEAN
          /\ pc' \in {"idle", "poll", "xfer", "done"} /\ op' \in Dirs /\ ret' \in RetCodes
      BY <2>2, Zenon DEF DropCall, Dirs, RetCodes
    <3> QED
      BY <2>2, <2>3, <3>1, <3>2
  <2> QED
    BY <2>2, <2>4 DEF DropCall, CountExact, Timely
<1>2. ASSUME NEW o \in Dirs, NEW n \in BufLens, NEW c \in BOOLEAN, Call(o, n, c)
      PROVE IInv'
  <2>1. TypeOK'
    <3>1. /\ bufLen' \in Int /\ nRemaining' \in Int /\ numActual' \in Int
          /\ moved' \in Nat /\ waited' \in 0..(2 * UINT) /\ timeout' \in 0..(UINT - 1)
      BY <1>2 DEF Call
    <3>2. /\ counted' \in BOOLEAN /\ timedout' \in BOOLEAN
          /\ pc' \in {"idle", "poll", "xfer", "done"} /\ op' \in Dirs /\ ret' \in RetCodes
      BY <1>2 DEF Call, RetCodes
    <3> QED
      BY <1>2, <3>1, <3>2 DEF Call, object
  <2>2. CountExact' /\ (~AtRest => ~timedout)' /\ (told \subseteq shut)'
    BY <1>2 DEF Call, CountExact
  <2>3. Timely'
    BY <1>2 DEF Call, Timely, SaneTimes, object
  <2> QED
    BY <2>1, <2>2, <2>3
<1> QED
  BY <1>1, <1>2 DEF User

(* A step of the loop.                                                      *)
LEMMA LoopIInv == IInv /\ Loop => IInv'
<1> SUFFICES ASSUME IInv, Loop PROVE IInv'
  OBVIOUS
<1> USE TransferAssumption DEF IInv
<1>1. CASE PollTimesOut
  <2>1. ~timedout /\ numActual \in Int /\ pc = "poll" /\ m_polltime \in Nat
    BY <1>1 DEF PollTimesOut, TypeOK, AtRest
  <2>2. checkTimeout(HaveAllData(numActual))
    BY <1>1 DEF PollTimesOut
  <2>3. /\ timeout' \in 0..(UINT - 1) /\ timedout' \in BOOLEAN /\ ret' \in RetCodes
        /\ timedout' <=> timeout' >= m_timeout
    BY <2>1, <2>2, CheckTimeoutType
  <2>4. waited' \in 0..(2 * UINT) /\ waited' <= waited + m_polltime
    BY <1>1, <2>1, WaitedRange DEF PollTimesOut
  <2>5. TypeOK'
    BY <1>1, <2>3, <2>4 DEF PollTimesOut, TypeOK, LoopTest, object, args
  <2>6. CountExact' /\ (~AtRest => ~timedout)' /\ (told \subseteq shut)'
    BY <1>1, <2>1 DEF PollTimesOut, CountExact, AtRest, LoopTest, object, args, TypeOK
  <2>7. Timely'
    <3> SUFFICES ASSUME SaneTimes, ~(blocking /\ op = "write") PROVE Timely'
      BY <1>1 DEF PollTimesOut, Timely, SaneTimes, PollIsFinite, object, args
    <3>1. waited <= timeout /\ (timeout = 0 \/ timeout < m_timeout)
      BY <2>1 DEF Timely
    <3>2. timeout' = timeout + m_polltime
      BY <2>2, <3>1, NoWrap DEF checkTimeout
    <3> QED
      BY <1>1, <2>1, <2>3, <2>4, <3>1, <3>2
      DEF PollTimesOut, Timely, SaneTimes, PollIsFinite, LoopTest, object, args, TypeOK
  <2> QED
    BY <2>5, <2>6, <2>7
<1>2. ASSUME NEW w \in 0..m_polltime, PollFails(w) \/ PollReady(w) PROVE IInv'
  <2>1. waited' \in 0..(2 * UINT) /\ waited' <= waited + w /\ pc = "poll"
    BY <1>2, WaitedRange DEF PollFails, PollReady, TypeOK
  <2>2. TypeOK'
    BY <1>2, <2>1 DEF PollFails, PollReady, TypeOK, RetCodes, object, args, frame
  <2>3. CountExact' /\ (~AtRest => ~timedout)' /\ (told \subseteq shut)'
    BY <1>2, <2>1 DEF PollFails, PollReady, CountExact, AtRest, args, frame, TypeOK
  <2>4. Timely'
    BY <1>2, <2>1
    DEF PollFails, PollReady, Timely, SaneTimes, PollIsFinite, object, args, frame, TypeOK
  <2> QED
    BY <2>2, <2>3, <2>4
<1>3. ASSUME NEW n \in 0..nRemaining, NEW w \in 0..MaxStall, Transfer(n, w) PROVE IInv'
  <2>1. /\ ~timedout /\ numActual' \in Int /\ pc = "xfer" /\ n \in Nat /\ w \in Nat
        /\ m_polltime \in Nat
    BY <1>3 DEF Transfer, TypeOK, AtRest
  <2>2. checkTimeout(HaveAllData(numActual'))
    BY <1>3 DEF Transfer
  <2>3. /\ timeout' \in 0..(UINT - 1) /\ timedout' \in BOOLEAN /\ ret' \in RetCodes
        /\ timedout' <=> timeout' >= m_timeout
    BY <2>1, <2>2, CheckTimeoutType
  <2>4. waited' \in 0..(2 * UINT) /\ waited' <= waited + w
    BY <1>3, <2>1, WaitedRange DEF Transfer
  <2>5. TypeOK'
    BY <1>3, <2>1, <2>3, <2>4 DEF Transfer, TypeOK, LoopTest, object, args
  <2>6. CountExact' /\ (~AtRest => ~timedout)' /\ (told \subseteq shut)'
    BY <1>3, <2>1 DEF Transfer, CountExact, AtRest, LoopTest, args, TypeOK
  <2>7. Timely'
    <3> SUFFICES ASSUME SaneTimes, ~(blocking /\ op = "write") PROVE Timely'
      BY <1>3 DEF Transfer, Timely, SaneTimes, PollIsFinite, object, args
    <3>1. waited <= timeout + m_polltime /\ (timeout = 0 \/ timeout < m_timeout)
      BY <2>1 DEF Timely
    <3>2. timeout' = timeout + m_polltime
      BY <2>2, <3>1, NoWrap DEF checkTimeout
    <3>3. waited' <= waited
      BY <1>3, <2>1, <2>4 DEF Transfer, TypeOK
    <3> QED
      BY <1>3, <2>1, <2>3, <2>4, <3>1, <3>2, <3>3
      DEF Transfer, Timely, SaneTimes, PollIsFinite, LoopTest, object, args, TypeOK
  <2> QED
    BY <2>5, <2>6, <2>7
<1>4. CASE WouldBlock
  <2>1. ~timedout /\ numActual \in Int /\ pc = "xfer" /\ m_polltime \in Nat
    BY <1>4 DEF WouldBlock, TypeOK, AtRest
  <2>2. checkTimeout(HaveAllData(numActual))
    BY <1>4 DEF WouldBlock
  <2>3. /\ timeout' \in 0..(UINT - 1) /\ timedout' \in BOOLEAN /\ ret' \in RetCodes
        /\ timedout' <=> timeout' >= m_timeout
    BY <2>1, <2>2, CheckTimeoutType
  <2>4. TypeOK'
    BY <1>4, <2>3 DEF WouldBlock, TypeOK, LoopTest, object, args
  <2>5. CountExact' /\ (~AtRest => ~timedout)' /\ (told \subseteq shut)'
    BY <1>4, <2>1 DEF WouldBlock, CountExact, AtRest, LoopTest, args, TypeOK
  <2>6. Timely'
    <3> SUFFICES ASSUME SaneTimes, ~(blocking /\ op = "write") PROVE Timely'
      BY <1>4 DEF WouldBlock, Timely, SaneTimes, PollIsFinite, object, args
    <3>1. waited <= timeout + m_polltime /\ (timeout = 0 \/ timeout < m_timeout)
      BY <2>1 DEF Timely
    <3>2. timeout' = timeout + m_polltime
      BY <2>2, <3>1, NoWrap DEF checkTimeout
    <3> QED
      BY <1>4, <2>1, <2>3, <3>1, <3>2
      DEF WouldBlock, Timely, SaneTimes, PollIsFinite, LoopTest, object, args, TypeOK
  <2> QED
    BY <2>4, <2>5, <2>6
<1>5. CASE Reset \/ XferFails
  <2>1. TypeOK'
    <3>1. shut' \in SUBSET Dirs /\ told' \in SUBSET Dirs /\ ret' \in RetCodes
      BY <1>5 DEF Reset, XferFails, TypeOK, RetCodes
    <3> QED
      BY <1>5, <3>1 DEF Reset, XferFails, TypeOK, object, args
  <2>2. CountExact' /\ (~AtRest => ~timedout)' /\ (told \subseteq shut)'
    BY <1>5 DEF Reset, XferFails, CountExact, AtRest, args, TypeOK
  <2>3. Timely'
    BY <1>5 DEF Reset, XferFails, Timely, SaneTimes, PollIsFinite, object, args, TypeOK
  <2> QED
    BY <2>1, <2>2, <2>3
<1> QED
  BY <1>1, <1>2, <1>3, <1>4, <1>5 DEF Loop

(* Every step keeps the invariant.                                          *)
LEMMA NextIInv == IInv /\ [Next]_vars => IInv'
<1>1. IInv /\ UNCHANGED vars => IInv'
  BY DEF IInv, TypeOK, CountExact, Timely, SaneTimes, PollIsFinite, AtRest, vars, object,
         args, frame
<1> QED
  BY <1>1, UserIInv, LoopIInv DEF Next
-------------------------------------------------------------------------------
(* The loop's fields and locals keep their types: the clock of the loop     *)
(* stays an unsigned int.                                                   *)
THEOREM TransferTypes == Spec => []TypeOK
<1>1. IInv => TypeOK
  BY DEF IInv
<1> QED
  BY <1>1, InitIInv, NextIInv, PTL DEF Spec

(* The byte accounting of readData and writeData is exact at every moment,  *)
(* whatever poll(), send() and recv() return.                               *)
THEOREM TransferCountsExactly == Spec => []CountExact
<1>1. IInv => CountExact
  BY DEF IInv
<1> QED
  BY <1>1, InitIInv, NextIInv, PTL DEF Spec

(* A call with sane times that is not a blocking send() spends less than    *)
(* the timeout plus one poll time in the kernel.                            *)
THEOREM TransferIsPrompt == Spec => []Prompt
<1>1. IInv => Prompt
  BY DEF IInv, TypeOK, Timely, Prompt, SaneTimes
<1> QED
  BY <1>1, InitIInv, NextIInv, PTL DEF Spec

(* After NC_CLIENTDISCONNECT a writer never moves a byte again.             *)
THEOREM TransferDisconnectFinal == Spec => DisconnectIsFinal
<1>1. IInv /\ [Next]_vars =>
        [op = "write" /\ pc = "xfer" /\ "write" \in told => moved' = moved]_vars
  <2> SUFFICES ASSUME IInv, Next, op = "write", pc = "xfer", "write" \in told
               PROVE  moved' = moved
    OBVIOUS
  <2>1. "write" \in shut
    BY DEF IInv
  <2>2. ~User
    BY DEF User, setTimeout, setPollTime, Call, AtRest
  <2>3. Loop
    BY <2>2 DEF Next
  <2>4. ~ \E n \in 0..nRemaining, w \in 0..MaxStall : Transfer(n, w)
    BY <2>1 DEF Transfer
  <2> QED
    BY <2>3, <2>4 DEF Loop, PollTimesOut, PollFails, PollReady, WouldBlock, Reset, XferFails
<1> QED
  BY <1>1, InitIInv, NextIInv, PTL DEF Spec, DisconnectIsFinal
-------------------------------------------------------------------------------
(* The code that ends a call is one the contract allows for the bytes       *)
(* moved, once checkTimeout has spoken on a call that is over.              *)
LEMMA VerdictAllowed ==
    ASSUME IInv, ~AtRest, NEW a \in Int, NEW d \in Nat,
           checkTimeout(HaveAllData(a)),
           counted => a = d, d <= bufLen, ~timedout' => d = bufLen
    PROVE  Contract!Contract(ret', d, bufLen, counted)
<1>1. ~timedout /\ TypeOK /\ bufLen > 0
  BY DEF IInv, CountExact, TypeOK
<1>2. /\ ~timedout' => ret' = "NC_OK"
      /\ timedout' => \/ ret' = "NC_OK" /\ counted /\ a = bufLen /\ a > 0
                      \/ ret' = "NC_MOREDATA" /\ counted /\ a > 0 /\ a # bufLen
                      \/ ret' = "NC_TIMEDOUT" /\ ~(counted /\ a > 0)
  BY <1>1, CheckTimeoutType
<1> QED
  BY <1>1, <1>2 DEF Contract!Contract, TypeOK

(* Every step of the loop is a Progress step of the contract.               *)
LEMMA LoopProgresses == IInv /\ Loop => Contract!Progress
<1> SUFFICES ASSUME IInv, Loop PROVE Contract!Progress
  OBVIOUS
<1> USE TransferAssumption DEF IInv
<1>0. ~AtRest /\ nRemaining + moved = bufLen /\ nRemaining > 0 /\ nRemaining \in Int
      /\ bufLen \in Int /\ moved \in Nat /\ (counted => numActual = moved)
      /\ numActual \in Int /\ ~timedout
  <2>1. ~AtRest
    BY DEF Loop, PollTimesOut, PollFails, PollReady, Transfer, WouldBlock, Reset,
           XferFails, AtRest
  <2> QED
    BY <2>1 DEF CountExact, TypeOK
<1> DEFINE Ends == AtRest' /\ Contract!Contract(ret', moved', bufLen, counted)
<1>1. ASSUME moved' \in Int, moved <= moved', moved' <= bufLen, ret' \in RetCodes,
             UNCHANGED args, ~AtRest' \/ Ends
      PROVE  Contract!Progress
  BY <1>0, <1>1 DEF Contract!Progress, Contract!RetCodes, RetCodes, args
<1>2. CASE PollTimesOut
  <2>1. checkTimeout(HaveAllData(numActual)) /\ moved' = moved
    BY <1>2 DEF PollTimesOut
  <2>2. ret' \in RetCodes
    BY <1>0, <2>1, CheckTimeoutType
  <2>3. AtRest' => timedout'
    BY <1>0, <1>2 DEF PollTimesOut, LoopTest, AtRest
  <2>4. ~AtRest' \/ Ends
    BY <1>0, <2>1, <2>3, VerdictAllowed
  <2> QED
    BY <1>0, <1>1, <1>2, <2>1, <2>2, <2>4 DEF PollTimesOut
<1>3. ASSUME NEW w \in 0..m_polltime, PollFails(w) \/ PollReady(w)
      PROVE  Contract!Progress
  <2>1. moved' = moved /\ UNCHANGED args /\ ret' \in RetCodes
    BY <1>3 DEF PollFails, PollReady, RetCodes, frame, TypeOK
  <2>2. ~AtRest' \/ Ends
    BY <1>3 DEF PollFails, PollReady, AtRest, Contract!Contract
  <2> QED
    BY <1>0, <1>1, <2>1, <2>2
<1>4. ASSUME NEW n \in 0..nRemaining, NEW w \in 0..MaxStall, Transfer(n, w)
      PROVE  Contract!Progress
  <2>1. /\ checkTimeout(HaveAllData(numActual')) /\ UNCHANGED args
        /\ moved' = moved + n /\ nRemaining' = nRemaining - n
        /\ pc' = LoopTest(nRemaining', timedout')
    BY <1>4 DEF Transfer
  <2>2. /\ moved' \in Nat /\ moved <= moved' /\ moved' <= bufLen
        /\ numActual' \in Int /\ (counted => numActual' = moved')
    BY <1>0, <1>4, <2>1 DEF Transfer
  <2>3. ret' \in RetCodes
    BY <1>0, <2>1, <2>2, CheckTimeoutType
  <2>4. AtRest' /\ ~timedout' => moved' = bufLen
    BY <1>0, <1>4, <2>1 DEF LoopTest, AtRest
  <2>5. ~AtRest' \/ Ends
    BY <1>0, <2>1, <2>2, <2>4, VerdictAllowed
  <2> QED
    BY <1>1, <2>1, <2>2, <2>3, <2>5
<1>5. CASE WouldBlock
  <2>1. checkTimeout(HaveAllData(numActual)) /\ moved' = moved /\ UNCHANGED args
    BY <1>5 DEF WouldBlock
  <2>2. ret' \in RetCodes /\ (~timedout' => ret' = "NC_OK")
    BY <1>0, <2>1, CheckTimeoutType
  <2>3. AtRest' => timedout'
    BY <1>0, <1>5, <2>2 DEF WouldBlock, LoopTest, AtRest
  <2>4. ~AtRest' \/ Ends
    BY <1>0, <2>1, <2>3, VerdictAllowed
  <2> QED
    BY <1>0, <1>1, <2>1, <2>2, <2>4
<1>6. CASE Reset \/ XferFails
  <2>1. moved' = moved /\ UNCHANGED args /\ ret' \in RetCodes
    BY <1>6 DEF Reset, XferFails, RetCodes
  <2>2. Ends
    BY <1>6 DEF Reset, XferFails, AtRest, Contract!Contract
  <2> QED
    BY <1>0, <1>1, <2>1, <2>2
<1> QED
  BY <1>2, <1>3, <1>4, <1>5, <1>6 DEF Loop

(* Between calls, a step forgets the last result or begins the next call.   *)
LEMMA UserBegins == IInv /\ User => Contract!Begin \/ Contract!Forget
<1> SUFFICES ASSUME IInv, User PROVE Contract!Begin \/ Contract!Forget
  OBVIOUS
<1>1. ASSUME NEW ms \in Millis, setTimeout(ms) \/ setPollTime(ms) PROVE Contract!Forget
  BY <1>1 DEF setTimeout, setPollTime, DropCall, AtRest, Contract!Forget, Contract!Init
<1>2. ASSUME NEW o \in Dirs, NEW n \in BufLens, NEW c \in BOOLEAN, Call(o, n, c)
      PROVE Contract!Begin
  BY <1>2, TransferAssumption DEF Call, AtRest, Contract!Begin
<1> QED
  BY <1>1, <1>2 DEF User

(* readData and writeData implement the documented contract of their return *)
(* codes: NC_OK means everything moved, NC_MOREDATA part of it, NC_TIMEDOUT *)
(* nothing, for every buffer, timeout and sequence of kernel answers.       *)
THEOREM TransferKeepsContract == Spec => TransferContract
<1>1. Init => Contract!Init
  BY DEF Init, NoCall, AtRest, Contract!Init
<1>2. IInv /\ [Next]_vars => [Contract!Next]_(Contract!avars)
  <2>1. UNCHANGED vars => UNCHANGED Contract!avars
    BY DEF vars, args, frame, AtRest, Contract!avars
  <2> QED
    BY <2>1, UserBegins, LoopProgresses DEF Next, Contract!Next
<1> QED
  BY <1>1, <1>2, InitIInv, NextIInv, PTL DEF Spec, TransferContract, Contract!Spec
-------------------------------------------------------------------------------
(* The clock of a call that runs on sane times has not reached the timeout. *)
Clock == SaneTimes /\ ~AtRest => timeout = 0 \/ timeout < m_timeout

(* What a step of the loop does to that clock: it ends the call, it goes    *)
(* from poll() to the transfer, or it charges one poll time and goes round. *)
Charged ==
    \/ AtRest'
    \/ pc = "poll" /\ pc' = "xfer" /\ timeout' = timeout
    \/ pc' = "poll" /\ timeout' = timeout + m_polltime /\ timeout' < m_timeout

(* A branch that ends with checkTimeout and the loop's test charges.        *)
LEMMA CheckCharges ==
    ASSUME TypeOK, ~timedout, ~AtRest, Clock, SaneTimes, NEW a \in Int, NEW r \in Int,
           checkTimeout(HaveAllData(a)), pc' = LoopTest(r, timedout') \/ pc' = "done"
    PROVE  Charged
<1>1. timeout' = timeout + m_polltime /\ (timedout' <=> timeout' >= m_timeout)
  BY ClockStep DEF Clock
<1>2. pc' = "done" \/ (pc' = "poll" /\ ~timedout')
  BY DEF LoopTest
<1>3. CASE pc' = "done"
  BY <1>3 DEF Charged, AtRest
<1>4. CASE pc' = "poll" /\ ~timedout'
  BY <1>1, <1>4, TransferAssumption DEF Charged, TypeOK
<1> QED
  BY <1>2, <1>3, <1>4

(* A charged step keeps the clock below the timeout and uses up fuel.       *)
LEMMA ChargedAdvances ==
    ASSUME TypeOK, ~AtRest, Clock, SaneTimes, UNCHANGED object, Charged
    PROVE  Clock' /\ Fuel' \in Nat /\ Fuel' < Fuel
<1> USE TransferAssumption
<1>1. /\ m_timeout \in Nat /\ m_polltime \in Nat /\ timeout \in Nat
      /\ m_polltime > 0 /\ m_timeout' = m_timeout /\ m_polltime' = m_polltime
      /\ pc \in {"poll", "xfer"}
      /\ timeout = 0 \/ timeout < m_timeout
  BY DEF TypeOK, SaneTimes, Clock, object, AtRest
<1>2. Fuel = 2 * (m_timeout + m_polltime - timeout) + (IF pc = "poll" THEN 1 ELSE 0)
  BY DEF Fuel
<1>3. CASE AtRest'
  BY <1>1, <1>2, <1>3 DEF Clock, Fuel
<1>4. CASE pc = "poll" /\ pc' = "xfer" /\ timeout' = timeout
  BY <1>1, <1>2, <1>4 DEF Clock, Fuel, AtRest
<1>5. CASE pc' = "poll" /\ timeout' = timeout + m_polltime /\ timeout' < m_timeout
  BY <1>1, <1>2, <1>5 DEF Clock, Fuel, AtRest
<1> QED
  BY <1>3, <1>4, <1>5 DEF Charged

(* Every step of the loop of the poll() build is charged.                   *)
LEMMA LoopCharged ==
    ASSUME IInv, Clock, SaneTimes, Loop
    PROVE  ~AtRest /\ UNCHANGED object /\ Charged
<1>1. ~AtRest /\ UNCHANGED object
  BY DEF Loop, PollTimesOut, PollFails, PollReady, Transfer, WouldBlock, Reset, XferFails, AtRest
<1>2. TypeOK /\ ~timedout /\ nRemaining \in Int /\ numActual \in Int
  BY <1>1 DEF IInv, TypeOK
<1>3. CASE PollTimesOut
  BY <1>1, <1>2, <1>3, CheckCharges DEF PollTimesOut
<1>4. ASSUME NEW w \in 0..m_polltime, PollFails(w) \/ PollReady(w) PROVE Charged
  BY <1>4 DEF PollFails, PollReady, Charged, AtRest, frame
<1>5. ASSUME NEW n \in 0..nRemaining, NEW w \in 0..MaxStall, Transfer(n, w) PROVE Charged
  <2>1. /\ numActual' \in Int /\ nRemaining' \in Int
        /\ checkTimeout(HaveAllData(numActual')) /\ pc' = LoopTest(nRemaining', timedout')
    BY <1>2, <1>5 DEF Transfer
  <2> QED
    BY <1>1, <1>2, <2>1, CheckCharges
<1>6. CASE WouldBlock
  <2>1. /\ checkTimeout(HaveAllData(numActual))
        /\ pc' = LoopTest(nRemaining, timedout') \/ pc' = "done"
    BY <1>6 DEF WouldBlock
  <2> QED
    BY <1>1, <1>2, <2>1, CheckCharges
<1>7. CASE Reset \/ XferFails
  BY <1>7 DEF Reset, XferFails, Charged, AtRest
<1> QED
  BY <1>1, <1>3, <1>4, <1>5, <1>6, <1>7 DEF Loop

(* A step of the user begins a call with the clock at zero, or none.        *)
LEMMA UserClock == User => AtRest /\ Clock'
  BY DEF User, setTimeout, setPollTime, DropCall, Call, AtRest, Clock

(* On sane times every step of a call uses up fuel, so that readData and    *)
(* writeData make a bounded number of system calls for every timeout, poll  *)
(* time and buffer: the part of CallReturns that is not fairness.           *)
THEOREM TransferAdvances == Spec => CallAdvances
<1>1. Init => Clock
  BY DEF Init, NoCall, Clock, AtRest
<1>2. IInv /\ Clock /\ [Next]_vars => Clock'
  <2> SUFFICES ASSUME IInv, Clock, [Next]_vars PROVE Clock'
    OBVIOUS
  <2>1. CASE UNCHANGED vars
    BY <2>1 DEF vars, object, frame, Clock, SaneTimes, PollIsFinite, AtRest
  <2>2. CASE Loop
    <3>1. UNCHANGED object
      BY <2>2 DEF Loop, PollTimesOut, PollFails, PollReady, Transfer, WouldBlock, Reset, XferFails
    <3>2. CASE SaneTimes
      BY <2>2, <3>2, LoopCharged, ChargedAdvances DEF IInv
    <3>3. CASE ~SaneTimes
      BY <3>1, <3>3 DEF Clock, SaneTimes, PollIsFinite, object
    <3> QED
      BY <3>2, <3>3
  <2> QED
    BY <2>1, <2>2, UserClock DEF Next
<1>3. IInv /\ Clock /\ [Next]_vars =>
        [SaneTimes /\ ~AtRest => Fuel' \in Nat /\ Fuel' < Fuel]_vars
  <2> SUFFICES ASSUME IInv, Clock, Next, SaneTimes, ~AtRest PROVE Fuel' \in Nat /\ Fuel' < Fuel
    OBVIOUS
  <2>1. Loop
    BY UserClock DEF Next
  <2> QED
    BY <2>1, LoopCharged, ChargedAdvances DEF IInv
<1> QED
  BY <1>1, <1>2, <1>3, InitIInv, NextIInv, PTL DEF Spec, CallAdvances
===============================================================================
