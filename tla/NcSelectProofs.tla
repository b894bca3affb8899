---------------------------- MODULE NcSelectProofs ----------------------------
(***************************************************************************)
(* Proofs about readData and writeData of the select() build, for every    *)
(* width of unsigned int, every buffer, timeout and poll time and every    *)
(* answer of the kernel: where the bytes of a transfer come from and go    *)
(* to, what the return code says, and how long a call waits.               *)
(***************************************************************************)
EXTENDS NcSelect, NcTransferProofs

(* A loop that runs has not timed out, and its clock is behind the time it  *)
(* spent by no more than the factor ten of the timeval.                     *)
STimely ==
    pc # "idle" /\ SaneTimes /\ ~(blocking /\ op = "write")
        => /\ timeout = 0 \/ timeout < m_timeout \/ pc = "done"
           /\ pc = "poll" => /\ waited <= 10 * timeout
                             /\ m_polltime < 100 => waited <= timeout
           /\ pc = "xfer" => /\ waited <= 10 * (timeout + m_polltime)
                             /\ m_polltime < 100 => waited <= timeout + m_polltime
           /\ pc = "done" => /\ waited <= 10 * m_polltime \/ waited < 10 * (m_timeout + m_polltime)
                             /\ m_polltime < 100 => waited <= m_polltime \/ waited < m_timeout + m_polltime

(* The loop runs for a real buffer, and ends when checkTimeout says so.     *)
Running == ~AtRest => ~timedout /\ bufLen > 0

SInv ==
    /\ STypeOK /\ Displaced /\ Running
    /\ STimely /\ PositionContract

(* The remainder is no larger than the number.                              *)
LEMMA ModBelow == ASSUME NEW a \in Nat PROVE a % UINT \in Nat /\ a % UINT <= a
<1>1. a % UINT \in 0..(UINT - 1)
  BY ModRange
<1>2. CASE a < UINT
  BY <1>2, ModSmall
<1>3. CASE a >= UINT
  BY <1>1, <1>3, TransferAssumption
<1> QED
  BY <1>2, <1>3, TransferAssumption

(* The timeval is at most ten poll times, and exactly the poll time when    *)
(* that is below 100 ms.                                                    *)
LEMMA SelectWaitBound ==
    ASSUME TypeOK
    PROVE  /\ SelectWait \in Nat /\ SelectWait <= 10 * m_polltime
           /\ m_polltime < 100 => SelectWait = m_polltime
<1>1. m_polltime \in Nat
  BY TransferAssumption DEF TypeOK
<1>2. m_polltime * 1000 \in Nat
  BY <1>1
<1>3. USecs \in Nat /\ USecs <= m_polltime * 1000
  BY <1>2, ModBelow DEF USecs
<1>4. m_polltime < 100 => USecs = m_polltime * 1000
  BY <1>1, <1>2, ModSmall, WidthAssumption, TransferAssumption, SMT DEF USecs
<1> HIDE DEF USecs
<1>5. SelectWait \in Nat /\ SelectWait <= 10 * m_polltime
  BY <1>1, <1>3, SMT DEF SelectWait
<1>6. m_polltime < 100 => SelectWait = m_polltime
  BY <1>1, <1>3, <1>4, SMT DEF SelectWait
<1> QED
  BY <1>5, <1>6

(* A new object.                                                            *)
LEMMA SInitSInv == SInit => SInv
<1> SUFFICES ASSUME SInit PROVE SInv
  OBVIOUS
<1>1. TypeOK
  BY InitIInv DEF SInit, IInv
<1>2. STypeOK
  BY <1>1, SelectAssumption DEF SInit, STypeOK, Errors
<1> QED
  BY <1>2 DEF SInit, Init, NoCall, SInv, Displaced, Running, AtRest, STimely, PositionContract

(* Between calls.                                                           *)
LEMMA SUserSInv == SInv /\ SUser => SInv'
<1> SUFFICES ASSUME SInv, SUser PROVE SInv'
  OBVIOUS
<1> USE TransferAssumption, SelectAssumption
<1>1. ASSUME NEW ms \in Millis, setTimeout(ms) \/ setPollTime(ms) PROVE SInv'
  <2>1. ms % UINT \in 0..(UINT - 1)
    BY ModRange
  <2>2. DropCall /\ UNCHANGED <<blocking, shut, told>>
    BY <1>1 DEF setTimeout, setPollTime
  <2>3. m_timeout' \in 0..(UINT - 1) /\ m_polltime' \in 0..(UINT - 1)
    BY <1>1, <2>1 DEF setTimeout, setPollTime, SInv, STypeOK, TypeOK
  <2>4. TypeOK'
    <3>1. /\ bufLen' \in Int /\ nRemaining' \in Int /\ numActual' \in Int
          /\ moved' \in Nat /\ waited' \in 0..(2 * UINT) /\ timeout' \in 0..(UINT - 1)
      BY <2>2 DEF DropCall
    <3>2. /\ counted' \in BOOLEAN /\ timedout' \in BOOLEAN
          /\ pc' \in {"idle", "poll", "xfer", "done"} /\ op' \in Dirs /\ ret' \in RetCodes
      BY <2>2, Zenon DEF DropCall, Dirs, RetCodes
    <3> QED
      BY <2>2, <2>3, <3>1, <3>2 DEF SInv, STypeOK, TypeOK
  <2>5. STypeOK'
    BY <2>4 DEF SUser, SInv, STypeOK
  <2> QED
    BY <2>2, <2>5 DEF SUser, DropCall, SInv, Displaced, Running, AtRest, STimely, PositionContract
<1>2. ASSUME NEW o \in Dirs, NEW n \in BufLens, NEW c \in BOOLEAN, Call(o, n, c)
      PROVE  SInv'
  <2>1. TypeOK'
    <3>1. /\ bufLen' \in Int /\ nRemaining' \in Int /\ numActual' \in Int
          /\ moved' \in Nat /\ waited' \in 0..(2 * UINT) /\ timeout' \in 0..(UINT - 1)
      BY <1>2 DEF Call
    <3>2. /\ counted' \in BOOLEAN /\ timedout' \in BOOLEAN
          /\ pc' \in {"idle", "poll", "xfer", "done"} /\ op' \in Dirs /\ ret' \in RetCodes
      BY <1>2 DEF Call, RetCodes
    <3> QED
      BY <1>2, <3>1, <3>2 DEF Call, object, SInv, STypeOK, TypeOK
  <2>2. STypeOK'
    BY <2>1 DEF SUser, SInv, STypeOK
  <2>3. Displaced' /\ Running'
    BY <1>2 DEF Call, SUser, Displaced, Running, AtRest
  <2>4. STimely'
    BY <1>2 DEF Call, STimely, SaneTimes, PollIsFinite, object, SInv, STypeOK, TypeOK
  <2>5. PositionContract'
    BY <1>2 DEF Call, SUser, PositionContract, Contract!Contract
  <2> QED
    BY <2>2, <2>3, <2>4, <2>5 DEF SInv
<1> QED
  BY <1>1, <1>2 DEF SUser, User

(* What the code says of a position d, when checkTimeout has spoken on a    *)
(* call that is over.                                                       *)
LEMMA PositionAllowed ==
    ASSUME TypeOK, ~timedout, NEW a \in Int, NEW d \in Int, checkTimeout(HaveAllData(a)),
           bufLen > 0, counted => a = d, d <= bufLen, ~timedout' => d = bufLen
    PROVE  Contract!Contract(ret', IF d > 0 THEN d ELSE 0, bufLen, counted)
<1>1. /\ ~timedout' => ret' = "NC_OK"
      /\ timedout' => \/ ret' = "NC_OK" /\ counted /\ a = bufLen /\ a > 0
                      \/ ret' = "NC_MOREDATA" /\ counted /\ a > 0 /\ a # bufLen
                      \/ ret' = "NC_TIMEDOUT" /\ ~(counted /\ a > 0)
  BY CheckTimeoutType
<1> QED
  BY <1>1 DEF Contract!Contract, TypeOK

(* select() times out.                                                      *)
LEMMA TimesOutSInv == SInv /\ SelectTimesOut => SInv'
<1> SUFFICES ASSUME SInv, SelectTimesOut PROVE SInv'
  OBVIOUS
<1> USE TransferAssumption DEF SInv, STypeOK
<1>1. /\ ~timedout /\ numActual \in Int /\ pc = "poll" /\ m_polltime \in Nat /\ ~AtRest
      /\ nRemaining + pPtr = bufLen /\ nRemaining > 0 /\ bufLen > 0
  BY DEF SelectTimesOut, TypeOK, AtRest, Displaced, Running
<1>2. checkTimeout(HaveAllData(numActual)) /\ pc' = LoopTest(nRemaining, timedout')
  BY DEF SelectTimesOut
<1>3. /\ timeout' \in 0..(UINT - 1) /\ timedout' \in BOOLEAN /\ ret' \in RetCodes
  BY <1>1, <1>2, CheckTimeoutType
<1>4. SelectWait \in Nat /\ SelectWait <= 10 * m_polltime
      /\ (m_polltime < 100 => SelectWait = m_polltime)
  BY SelectWaitBound
<1>5. waited' \in 0..(2 * UINT) /\ waited' <= waited + SelectWait
  BY <1>4, WaitedRange DEF SelectTimesOut
<1>6. STypeOK'
  BY <1>3, <1>5 DEF SelectTimesOut, TypeOK, LoopTest, object, args
<1>7. Displaced' /\ Running'
  BY <1>1 DEF SelectTimesOut, Displaced, Running, AtRest, LoopTest, object, args, TypeOK
<1>8. STimely'
  <2> SUFFICES ASSUME SaneTimes, ~(blocking /\ op = "write") PROVE STimely'
    BY DEF SelectTimesOut, STimely, SaneTimes, PollIsFinite, object, args
  <2>1. /\ waited <= 10 * timeout /\ (timeout = 0 \/ timeout < m_timeout)
        /\ m_polltime < 100 => waited <= timeout
    BY <1>1 DEF STimely
  <2>2. timeout' = timeout + m_polltime /\ (timedout' <=> timeout' >= m_timeout)
    BY <1>1, <1>2, <2>1, ClockStep
  <2>3. pc' \in {"poll", "done"} /\ (pc' = "poll" => ~timedout')
        /\ m_polltime' = m_polltime /\ m_timeout' = m_timeout
    BY <1>2 DEF SelectTimesOut, LoopTest, object
  <2> QED
    BY <1>1, <1>4, <1>5, <2>1, <2>2, <2>3 DEF STimely, TypeOK
<1>9. PositionContract'
  <2>1. pc' = "done" => timedout'
    BY <1>1, <1>2 DEF LoopTest
  <2>2. (counted => numActual = pPtr) /\ pPtr <= bufLen /\ bufLen > 0 /\ pPtr \in Int
    BY <1>1 DEF Displaced, TypeOK
  <2>3. pc' = "done" => Contract!Contract(ret', IF pPtr > 0 THEN pPtr ELSE 0, bufLen, counted)
    BY <1>1, <1>2, <2>1, <2>2, PositionAllowed
  <2>4. pPtr' = pPtr /\ bufLen' = bufLen /\ counted' = counted
    BY DEF SelectTimesOut, args
  <2> QED
    BY <2>3, <2>4 DEF PositionContract
<1> QED
  BY <1>6, <1>7, <1>8, <1>9

(* select() fails, or says that the descriptor is ready.                    *)
LEMMA SelectSInv ==
    ASSUME SInv, SelectFails \/ \E w \in {0, SelectWait} : SelectReady(w)
    PROVE  SInv'
<1> USE TransferAssumption DEF SInv, STypeOK
<1>1. SelectWait \in Nat /\ SelectWait <= 10 * m_polltime
      /\ (m_polltime < 100 => SelectWait = m_polltime)
  BY SelectWaitBound
<1>2. PICK w \in {0, SelectWait} : PollFails(w) \/ PollReady(w)
  BY DEF SelectFails, SelectReady
<1>3. w \in Nat /\ w <= 10 * m_polltime /\ (m_polltime < 100 => w <= m_polltime)
  BY <1>1 DEF TypeOK
<1>4. errno' \in Errors /\ pPtr' = pPtr /\ back' = back
  BY DEF SelectFails, SelectReady, Errors
<1>5. waited' \in 0..(2 * UINT) /\ waited' <= waited + w /\ pc = "poll"
  BY <1>2, <1>3, WaitedRange DEF PollFails, PollReady
<1>6. TypeOK'
  BY <1>2, <1>5 DEF PollFails, PollReady, TypeOK, RetCodes, object, args, frame
<1>7. Displaced' /\ Running'
  BY <1>2, <1>4, <1>5 DEF PollFails, PollReady, Displaced, Running, AtRest, args, frame, TypeOK
<1>8. STimely'
  BY <1>2, <1>3, <1>5
  DEF PollFails, PollReady, STimely, SaneTimes, PollIsFinite, object, args, frame, TypeOK
<1>9. PositionContract'
  BY <1>2 DEF PollFails, PollReady, PositionContract, Contract!Contract
<1> QED
  BY <1>4, <1>6, <1>7, <1>8, <1>9

(* The branch of a transfer, for any value that send() or recv() returned.  *)
LEMMA AdvanceSInv ==
    ASSUME SInv, pc = "xfer", NEW n \in Int, n <= nRemaining, Advance(n),
           errno' \in Errors, back' \in 0..MaxBack, moved' \in Nat,
           moved' = moved + n + (back' - back), op = "read" => back' = back
    PROVE  SInv'
<1> USE TransferAssumption, SelectAssumption DEF SInv, STypeOK
<1>1. /\ ~timedout /\ ~AtRest /\ numActual \in Int /\ pPtr \in Int /\ nRemaining \in Int
      /\ m_polltime \in Nat /\ bufLen \in Int /\ back \in Int /\ moved \in Int
      /\ nRemaining + pPtr = bufLen /\ nRemaining > 0 /\ bufLen > 0 /\ pPtr + back = moved
      /\ counted => numActual = pPtr
  BY DEF TypeOK, AtRest, Displaced, Running
<1>2. /\ nRemaining' = nRemaining - n /\ pPtr' = pPtr + n
      /\ numActual' \in Int /\ (counted => numActual' = pPtr')
      /\ checkTimeout(HaveAllData(numActual')) /\ pc' = LoopTest(nRemaining', timedout')
      /\ UNCHANGED <<object, shut, args, told, waited>>
  BY <1>1 DEF Advance
<1>3. timeout' \in 0..(UINT - 1) /\ timedout' \in BOOLEAN /\ ret' \in RetCodes
  BY <1>1, <1>2, CheckTimeoutType
<1>4. STypeOK'
  <2>1. nRemaining' \in Int /\ pPtr' \in Int /\ pc' \in {"idle", "poll", "xfer", "done"}
    BY <1>1, <1>2 DEF LoopTest
  <2>2. /\ m_timeout' \in 0..(UINT - 1) /\ m_polltime' \in 0..(UINT - 1)
        /\ blocking' \in BOOLEAN /\ shut' \in SUBSET Dirs /\ told' \in SUBSET Dirs
        /\ op' \in Dirs /\ bufLen' \in Int /\ counted' \in BOOLEAN /\ waited' \in 0..(2 * UINT)
    BY <1>2 DEF TypeOK, object, args
  <2>3. TypeOK'
    BY <1>2, <1>3, <2>1, <2>2 DEF TypeOK
  <2> QED
    BY <2>1, <2>3
<1>5. Displaced' /\ Running'
  BY <1>1, <1>2 DEF Displaced, Running, AtRest, LoopTest, args
<1>6. STimely'
  <2> SUFFICES ASSUME SaneTimes, ~(blocking /\ op = "write") PROVE STimely'
    BY <1>2 DEF STimely, SaneTimes, PollIsFinite, object, args
  <2>1. /\ waited <= 10 * (timeout + m_polltime) /\ (timeout = 0 \/ timeout < m_timeout)
        /\ m_polltime < 100 => waited <= timeout + m_polltime
    BY DEF STimely
  <2>2. timeout' = timeout + m_polltime /\ (timedout' <=> timeout' >= m_timeout)
    BY <1>1, <1>2, <2>1, ClockStep
  <2>3. /\ pc' \in {"poll", "done"} /\ (pc' = "poll" => ~timedout')
        /\ m_polltime' = m_polltime /\ m_timeout' = m_timeout /\ waited' = waited
    BY <1>2 DEF LoopTest, object
  <2> QED
    BY <1>1, <2>1, <2>2, <2>3 DEF STimely, TypeOK
<1>7. PositionContract'
  <2>1. pPtr' <= bufLen /\ bufLen > 0 /\ pPtr' \in Int
    BY <1>1, <1>2 DEF Displaced
  <2>2. pc' = "done" /\ ~timedout' => pPtr' = bufLen
    BY <1>1, <1>2 DEF LoopTest
  <2>3. pc' = "done" => Contract!Contract(ret', IF pPtr' > 0 THEN pPtr' ELSE 0, bufLen, counted)
    BY <1>1, <1>2, <2>1, <2>2, PositionAllowed
  <2> QED
    BY <1>2, <2>3 DEF PositionContract, args
<1> QED
  BY <1>4, <1>5, <1>6, <1>7

(* A call that gives up, or finds the connection reset.                     *)
LEMMA EndsSInv ==
    ASSUME SInv, pc = "xfer", GivesUp \/ (Reset /\ UNCHANGED <<pPtr, back>>), errno' \in Errors
    PROVE  SInv'
<1> USE TransferAssumption DEF SInv, STypeOK
<1>1. TypeOK'
  <2>1. shut' \in SUBSET Dirs /\ told' \in SUBSET Dirs /\ ret' \in RetCodes
    BY DEF GivesUp, Reset, TypeOK, RetCodes
  <2> QED
    BY <2>1 DEF GivesUp, Reset, TypeOK, object, args
<1>2. Displaced' /\ Running'
  BY DEF GivesUp, Reset, Displaced, Running, AtRest, args, TypeOK
<1>3. STimely'
  BY DEF GivesUp, Reset, STimely, SaneTimes, PollIsFinite, object, args, TypeOK
<1>4. PositionContract'
  BY DEF GivesUp, Reset, PositionContract, Contract!Contract
<1> QED
  BY <1>1, <1>2, <1>3, <1>4 DEF GivesUp

(* Every step keeps the invariant.                                          *)
LEMMA SNextSInv == SInv /\ [SNext]_svars => SInv'
<1> SUFFICES ASSUME SInv, [SNext]_svars PROVE SInv'
  OBVIOUS
<1>1. CASE UNCHANGED svars
  BY <1>1 DEF svars, vars, object, args, frame, SInv, STypeOK, TypeOK, Displaced, Running, AtRest, STimely,
              SaneTimes, PollIsFinite, PositionContract
<1>2. /\ moved \in Nat /\ nRemaining \in Int /\ back \in Nat /\ MaxBack \in Nat
      /\ errno \in Errors /\ back \in 0..MaxBack
  BY SelectAssumption DEF SInv, STypeOK, TypeOK
<1>3. pc = "xfer" => nRemaining > 0
  BY DEF SInv, Displaced, Running, AtRest
<1>4. ASSUME NEW n \in 1..nRemaining, Moves(n) PROVE SInv'
  BY <1>2, <1>4, AdvanceSInv DEF Moves
<1>5. CASE SendBlocks
  <2>1. pc = "xfer" /\ Advance(-1) /\ back' = back + 1 /\ moved' = moved /\ op # "read"
        /\ errno' \in Errors /\ back' \in 0..MaxBack
    BY <1>2, <1>5 DEF SendBlocks, Errors
  <2>2. -1 \in Int /\ -1 <= nRemaining /\ moved' \in Nat /\ moved' = moved + (-1) + (back' - back)
    BY <1>2, <1>3, <2>1
  <2> QED
    BY <2>1, <2>2, AdvanceSInv
<1>6. CASE EndOfFile
  <2>1. CASE Advance(0)
    BY <1>2, <1>3, <1>6, <2>1, AdvanceSInv, EndsSInv DEF EndOfFile
  <2>2. CASE GivesUp
    BY <1>2, <1>6, <2>2, EndsSInv DEF EndOfFile
  <2> QED
    BY <1>6, <2>1, <2>2 DEF EndOfFile
<1>7. ASSUME NEW err \in {"other", "EAGAIN"}, Fails(err) PROVE SInv'
  BY <1>7, EndsSInv DEF Fails, Errors
<1>8. CASE SReset
  BY <1>8, EndsSInv DEF SReset, Reset, Errors
<1> QED
  BY <1>1, <1>4, <1>5, <1>6, <1>7, <1>8, SUserSInv, TimesOutSInv, SelectSInv DEF SNext, SLoop
-------------------------------------------------------------------------------
(* The fields and locals of the select() build keep their types.            *)
THEOREM SelectTypes == SSpec => []STypeOK
<1>1. SInv => STypeOK
  BY DEF SInv
<1> QED
  BY <1>1, SInitSInv, SNextSInv, PTL DEF SSpec

(* The pointer, the bytes left and *numActualBytes stay in step, and the    *)
(* bytes of a transfer are displaced by exactly the EAGAINs of send().      *)
THEOREM SelectDisplaced == SSpec => []Displaced
<1>1. SInv => Displaced
  BY DEF SInv
<1> QED
  BY <1>1, SInitSInv, SNextSInv, PTL DEF SSpec

(* The return code keeps the documented contract for the position reached.  *)
THEOREM SelectPosition == SSpec => []PositionContract
<1>1. SInv => PositionContract
  BY DEF SInv
<1> QED
  BY <1>1, SInitSInv, SNextSInv, PTL DEF SSpec

(* A call on sane times waits at most ten times too long, and in time if    *)
(* the poll time is below 100 ms.                                           *)
THEOREM SelectTenfold == SSpec => []TenfoldPrompt
<1>1. SInv => TenfoldPrompt
  BY TransferAssumption DEF SInv, STypeOK, TypeOK, STimely, TenfoldPrompt, Prompt, SaneTimes
<1> QED
  BY <1>1, SInitSInv, SNextSInv, PTL DEF SSpec
-------------------------------------------------------------------------------
(* Every step of the loop of the select() build is charged.                 *)
LEMMA SLoopCharged ==
    ASSUME SInv, Clock, SaneTimes, SLoop
    PROVE  ~AtRest /\ UNCHANGED object /\ Charged
<1>1. ~AtRest /\ UNCHANGED object
  BY DEF SLoop, SelectTimesOut, SelectFails, SelectReady, PollFails, PollReady, Moves, SendBlocks,
         EndOfFile, Fails, SReset, Reset, Advance, GivesUp, AtRest
<1>2. TypeOK /\ ~timedout /\ nRemaining \in Int /\ numActual \in Int
  BY <1>1 DEF SInv, STypeOK, Running, TypeOK
<1>3. ASSUME NEW n \in Int, Advance(n) PROVE Charged
  <2>1. /\ numActual' \in Int /\ nRemaining' \in Int
        /\ checkTimeout(HaveAllData(numActual')) /\ pc' = LoopTest(nRemaining', timedout')
    BY <1>2, <1>3 DEF Advance
  <2> QED
    BY <1>1, <1>2, <2>1, CheckCharges
<1>4. GivesUp \/ SReset => Charged
  BY DEF GivesUp, SReset, Reset, Charged, AtRest
<1>5. CASE SelectTimesOut
  BY <1>1, <1>2, <1>5, CheckCharges DEF SelectTimesOut
<1>6. CASE SelectFails \/ \E w \in {0, SelectWait} : SelectReady(w)
  BY <1>1, <1>6 DEF SelectFails, SelectReady, PollFails, PollReady, Charged, AtRest, frame
<1>7. ASSUME NEW n \in 1..nRemaining, Moves(n) PROVE Charged
  BY <1>2, <1>3, <1>7 DEF Moves
<1>8. SendBlocks => Charged
  <2>1. -1 \in Int
    OBVIOUS
  <2> QED
    BY <1>3, <2>1 DEF SendBlocks
<1>9. EndOfFile => Charged
  BY <1>3, <1>4 DEF EndOfFile
<1>10. Fails("other") \/ Fails("EAGAIN") => Charged
  BY <1>4 DEF Fails
<1> QED
  BY <1>1, <1>4, <1>5, <1>6, <1>7, <1>8, <1>9, <1>10 DEF SLoop

(* On sane times every step of a call of the select() build uses up fuel:   *)
(* the part of SCallReturns that is not fairness.                           *)
THEOREM SelectAdvances == SSpec => SCallAdvances
<1>1. SInit => Clock
  BY DEF SInit, Init, NoCall, Clock, AtRest
<1>2. SInv /\ Clock /\ [SNext]_svars => Clock'
  <2> SUFFICES ASSUME SInv, Clock, [SNext]_svars PROVE Clock'
    OBVIOUS
  <2>1. CASE UNCHANGED svars
    BY <2>1 DEF svars, vars, object, frame, Clock, SaneTimes, PollIsFinite, AtRest
  <2>2. CASE SLoop
    <3>1. UNCHANGED object
      BY <2>2 DEF SLoop, SelectTimesOut, SelectFails, SelectReady, PollFails, PollReady, Moves,
                  SendBlocks, EndOfFile, Fails, SReset, Reset, Advance, GivesUp
    <3>2. CASE SaneTimes
      BY <2>2, <3>2, SLoopCharged, ChargedAdvances DEF SInv, STypeOK
    <3>3. CASE ~SaneTimes
      BY <3>1, <3>3 DEF Clock, SaneTimes, PollIsFinite, object
    <3> QED
      BY <3>2, <3>3
  <2> QED
    BY <2>1, <2>2, UserClock DEF SNext, SUser
<1>3. SInv /\ Clock /\ [SNext]_svars =>
        [SaneTimes /\ ~AtRest => Fuel' \in Nat /\ Fuel' < Fuel]_svars
  <2> SUFFICES ASSUME SInv, Clock, SNext, SaneTimes, ~AtRest
               PROVE  Fuel' \in Nat /\ Fuel' < Fuel
    OBVIOUS
  <2>1. SLoop
    BY UserClock DEF SNext, SUser
  <2> QED
    BY <2>1, SLoopCharged, ChargedAdvances DEF SInv, STypeOK
<1> QED
  BY <1>1, <1>2, <1>3, SInitSInv, SNextSInv, PTL DEF SSpec, SCallAdvances
-------------------------------------------------------------------------------
(* Every step of the loop of a call that met no EAGAIN is a Progress step   *)
(* of the contract: the position is the number of bytes moved, and so what  *)
(* PositionContract says of the position holds for the bytes.               *)
LEMMA SLoopProgresses == SInv /\ SInv' /\ SLoop /\ back' = 0 => Contract!Progress
<1> SUFFICES ASSUME SInv, SInv', SLoop, back' = 0 PROVE Contract!Progress
  OBVIOUS
<1>1. ~AtRest /\ UNCHANGED args /\ pc' # "idle"
  BY DEF SLoop, SelectTimesOut, SelectFails, SelectReady, PollFails, PollReady, Moves, SendBlocks,
         EndOfFile, Fails, SReset, Reset, Advance, GivesUp, LoopTest, AtRest
<1>2. moved \in Nat /\ moved' \in Nat /\ moved <= moved'
  BY DEF SInv, STypeOK, TypeOK, SLoop, SelectTimesOut, SelectFails, SelectReady, PollFails,
         PollReady, Moves, SendBlocks, EndOfFile, Fails, SReset, Reset, GivesUp
<1>3. pPtr' = moved' /\ pPtr' \in Int /\ moved' <= bufLen /\ bufLen' = bufLen /\ counted' = counted
  <2>1. bufLen > 0 /\ bufLen \in Int
    BY <1>1 DEF SInv, STypeOK, TypeOK, Running
  <2>2. bufLen' = bufLen /\ counted' = counted
    BY <1>1 DEF args
  <2>3. pPtr' \in Int /\ pPtr' + back' = moved' /\ (pPtr' <= bufLen' \/ pPtr' = 0)
    BY DEF SInv, STypeOK, Displaced
  <2>4. pPtr' = moved'
    <3>1. pPtr' + 0 = moved'
      BY <2>3
    <3> QED
      BY <2>3, <3>1
  <2>5. moved' <= bufLen
    <3>1. bufLen' = bufLen
      BY <2>2
    <3> QED
      BY <2>1, <2>3, <2>4, <3>1
  <2> QED
    BY <2>2, <2>3, <2>4, <2>5
<1>4. AtRest' => Contract!Contract(ret', moved', bufLen, counted)
  <2>1. AtRest' => pc' = "done"
    BY <1>1 DEF AtRest
  <2>2. (IF pPtr' > 0 THEN pPtr' ELSE 0) = moved'
    BY <1>2, <1>3
  <2>3. pc' = "done" => Contract!Contract(ret', IF pPtr' > 0 THEN pPtr' ELSE 0, bufLen, counted)
    BY <1>3 DEF SInv, PositionContract
  <2> QED
    BY <2>1, <2>2, <2>3
<1>5. ret' \in RetCodes
  BY DEF SInv, STypeOK, TypeOK
<1> QED
  BY <1>1, <1>2, <1>3, <1>4, <1>5 DEF Contract!Progress, Contract!RetCodes, RetCodes, args

(* Between calls, a step forgets the last result or begins the next call.   *)
LEMMA SUserBegins == SUser => Contract!Begin \/ Contract!Forget
<1> SUFFICES ASSUME SUser PROVE Contract!Begin \/ Contract!Forget
  OBVIOUS
<1>1. ASSUME NEW ms \in Millis, setTimeout(ms) \/ setPollTime(ms) PROVE Contract!Forget
  BY <1>1 DEF setTimeout, setPollTime, DropCall, AtRest, Contract!Forget, Contract!Init
<1>2. ASSUME NEW o \in Dirs, NEW n \in BufLens, NEW c \in BOOLEAN, Call(o, n, c)
      PROVE Contract!Begin
  BY <1>2, TransferAssumption DEF Call, AtRest, Contract!Begin
<1> QED
  BY <1>1, <1>2 DEF SUser, User

(* readData of the select() build, and its writeData as long as send() has  *)
(* not said EAGAIN, implement the documented contract of their return codes *)
(* step by step, for every buffer, timeout and stale errno.                 *)
THEOREM SelectKeepsContract == SSpec => ContractUnlessEAGAIN
<1>1. SInv /\ SInv' /\ [SNext]_svars =>
        [back' = 0 => Contract!Next \/ UNCHANGED Contract!avars]_svars
  BY SUserBegins, SLoopProgresses DEF SNext, Contract!Next
<1> QED
  BY <1>1, SInitSInv, SNextSInv, PTL DEF SSpec, ContractUnlessEAGAIN
===============================================================================
