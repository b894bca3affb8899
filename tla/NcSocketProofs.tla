---------------------------- MODULE NcSocketProofs ----------------------------
(***************************************************************************)
(* Proofs about the life of ncSocket objects, for any number of objects    *)
(* and descriptors, any timeout and either kernel: nobody's descriptor is  *)
(* closed by somebody else, none is lost by a user who does not connect    *)
(* twice, and what connect() reports is true and in time.                  *)
(***************************************************************************)
EXTENDS NcSocket, TLAPS

(* An object that does not exist has nothing, one that has a host and has   *)
(* not connected has the number 0 or none, and the FILE of a careful user   *)
(* is on the object's own descriptor.                                       *)
Files ==
    \A o \in Objects :
        /\ pc[o] = "none" => /\ m_sockfd[o] = -1 /\ m_stdiofd[o] = -1
                             /\ o \notin undialed /\ ret[o] = "none"
        /\ o \in undialed => m_sockfd[o] \in {0, -1}
        /\ o \notin Retriers /\ m_stdiofd[o] # -1 => m_stdiofd[o] = m_sockfd[o]

Ledger == NobodyRobbed /\ Files /\ NoLeak

(* While connect() runs it has no result and its descriptor is not 0; a     *)
(* socket not dialled yet is not connected, and one that has failed never   *)
(* will be.                                                                 *)
Calls ==
    \A o \in Objects :
        /\ pc[o] \in {"resolve", "dial"} => ret[o] = "none" /\ m_sockfd[o] # 0
        /\ pc[o] = "resolve" /\ m_sockfd[o] > 0 => conn[m_sockfd[o]] \in {"new", "dgram"}
        /\ ret[o] = "NC_FAILED" /\ kernel = "linux" /\ m_sockfd[o] > 0
              => conn[m_sockfd[o]] \notin {"up", "handshake"}

Truth == Calls /\ ConnectTellsTruth

(* While connect() runs it has slept as long as its clock says.             *)
Clock ==
    /\ \A o \in Objects : pc[o] \in {"resolve", "dial"} => slept[o] = timeout[o]
    /\ ConnectOnTime

(* Descriptors are in order until a misuse, the clock always.               *)
IInv == TypeOK /\ Clock /\ (~misused => Ledger /\ Truth)

(* The clock of connect() wraps only beyond a sane timeout.                 *)
LEMMA ClockSteps ==
    ASSUME NEW t \in Nat
    PROVE  Advanced(t) \in Nat /\ (t + Tick < ULONG => Advanced(t) = t + Tick)
<1>1. ULONG \in Nat /\ Tick \in Nat /\ ULONG > 0
  BY SocketAssumption
<1> QED
  BY <1>1, SMT DEF Advanced

(* Descriptors are integers.                                                *)
LEMMA FdInt == Fds \subseteq Nat /\ 0 \in Fds /\ -1 \notin Fds
  BY SocketAssumption DEF Fds

(* What a field that holds a descriptor or -1 may be.                       *)
LEMMA FdCases ==
    ASSUME NEW n \in Fds \union {-1}
    PROVE  n \in Int /\ (n = -1 \/ n = 0 \/ n > 0) /\ (n # -1 => n \in Fds)
  BY SocketAssumption DEF Fds

(* Whose a descriptor is that an object holds: its own, if it is above 0.   *)
LEMMA Held ==
    ASSUME IInv, ~misused, NEW o \in Objects
    PROVE  /\ m_sockfd[o] \in Fds \union {-1} /\ m_stdiofd[o] \in Fds \union {-1}
           /\ m_sockfd[o] > 0 => m_sockfd[o] \in Fds /\ fd[m_sockfd[o]] = o
           /\ m_sockfd[o] # -1 /\ o \notin undialed => m_sockfd[o] \in Fds /\ fd[m_sockfd[o]] = o
           /\ m_stdiofd[o] # -1 => m_stdiofd[o] \in Fds /\ fd[m_stdiofd[o]] = o
<1>1. m_sockfd[o] \in Fds \union {-1} /\ m_stdiofd[o] \in Fds \union {-1}
  BY DEF IInv, TypeOK
<1>2. m_sockfd[o] > 0 => m_sockfd[o] # -1 /\ o \notin undialed
  BY DEF IInv, Ledger, Files
<1> QED
  BY <1>1, <1>2, FdCases DEF IInv, Ledger, NobodyRobbed

(* No object is constructed; the application may have descriptor 0.         *)
LEMMA InitIInv == Init => IInv
<1> SUFFICES ASSUME Init PROVE IInv
  OBVIOUS
<1>1. appfds \subseteq Fds
  BY FdInt DEF Init
<1>0. misused \in BOOLEAN
  BY Zenon DEF Init
<1>2. TypeOK
  BY <1>0, <1>1, SocketAssumption DEF Init, TypeOK
<1>3. Ledger
  BY <1>1, FdInt, SocketAssumption DEF Init, Ledger, NobodyRobbed, Files, NoLeak
<1>4. Truth
  BY SocketAssumption DEF Init, Truth, Calls, ConnectTellsTruth
<1>5. Clock
  BY SocketAssumption DEF Init, Clock, ConnectOnTime
<1> QED
  BY <1>2, <1>3, <1>4, <1>5 DEF IInv

(* The constructors.                                                        *)
LEMMA ConstructIInv ==
    ASSUME IInv, Followed, NEW o \in Objects, NEW n \in {-1, 0}, Construct(o, n)
    PROVE  IInv'
<1> USE SocketAssumption, FdInt DEF Construct, locals, table, IInv, Followed
<1>1. TypeOK'
  BY DEF TypeOK
<1>2. Ledger'
  BY DEF TypeOK, Ledger, NobodyRobbed, Files, NoLeak
<1>3. Truth'
  BY DEF TypeOK, Ledger, Files, Truth, Calls, ConnectTellsTruth, Holds
<1>4. Clock'
  BY DEF TypeOK, Clock, ConnectOnTime, SaneTimeout
<1> QED
  BY <1>1, <1>2, <1>3, <1>4

(* accept() gives a descriptor, and an object takes it.                     *)
LEMMA AdoptIInv ==
    ASSUME IInv, Followed, NEW o \in Objects, NEW f \in Fds, Adopt(o, f)
    PROVE  IInv'
<1> USE SocketAssumption, FdInt DEF Adopt, OpenAs, Lowest, FreeFds, locals, history, IInv, Followed
<1>1. TypeOK'
  BY DEF TypeOK
<1>2. Ledger'
  BY DEF TypeOK, Ledger, NobodyRobbed, Files, NoLeak
<1>3. Truth'
  BY DEF TypeOK, Ledger, NobodyRobbed, Files, Truth, Calls, ConnectTellsTruth, Holds
<1>4. Clock'
  BY DEF TypeOK, Clock, ConnectOnTime, SaneTimeout
<1> QED
  BY <1>1, <1>2, <1>3, <1>4

(* connect() begins: socket() succeeds or the table is full.                *)
LEMMA DialsIInv ==
    ASSUME IInv, Followed, NEW o \in Objects,
           SocketFails(o) \/ \E f \in Fds : SocketOpens(o, f, "new") \/ SocketOpens(o, f, "dgram")
    PROVE  IInv'
<1> USE SocketAssumption, FdInt DEF Dials, IInv, Followed
<1>1. CASE SocketFails(o)
  <2>1. TypeOK'
    BY <1>1 DEF SocketFails, TypeOK
  <2>2. Ledger'
    BY <1>1 DEF SocketFails, TypeOK, Ledger, NobodyRobbed, Files, NoLeak, Holds
  <2>3. Truth'
    BY <1>1 DEF SocketFails, TypeOK, Ledger, NobodyRobbed, Truth, Calls, ConnectTellsTruth,
                Holds
  <2>4. Clock'
    BY <1>1 DEF SocketFails, TypeOK, Clock, ConnectOnTime, SaneTimeout
  <2> QED
    BY <2>1, <2>2, <2>3, <2>4
<1>2. ASSUME NEW f \in Fds, NEW s \in {"new", "dgram"}, SocketOpens(o, f, s) PROVE IInv'
  <2> USE DEF SocketOpens, OpenAs, Lowest, FreeFds
  <2>1. TypeOK'
    BY <1>2 DEF TypeOK
  <2>2. Ledger'
    BY <1>2 DEF TypeOK, Ledger, NobodyRobbed, Files, NoLeak, Holds
  <2>3. Truth'
    BY <1>2 DEF TypeOK, Ledger, NobodyRobbed, Truth, Calls, ConnectTellsTruth, Holds
  <2>4. Clock'
    BY <1>2 DEF TypeOK, Clock, ConnectOnTime, SaneTimeout
  <2> QED
    BY <2>1, <2>2, <2>3, <2>4
<1> QED
  BY <1>1, <1>2

(* Name resolution.                                                         *)
LEMMA ResolveIInv ==
    ASSUME IInv, Followed, NEW o \in Objects, Resolve(o) \/ ResolveFails(o)
    PROVE  IInv'
<1> USE SocketAssumption, FdInt DEF Resolve, ResolveFails, Return, fields, locals, history, table, IInv, Followed
<1>1. TypeOK'
  BY DEF TypeOK
<1>2. Ledger'
  <2>1. NobodyRobbed'
    BY DEF Ledger, NobodyRobbed
  <2>2. Files'
    BY DEF TypeOK, Ledger, Files
  <2>3. NoLeak'
    BY DEF TypeOK, Ledger, NoLeak
  <2> QED
    BY <2>1, <2>2, <2>3 DEF Ledger
<1>3. Truth'
  BY DEF TypeOK, Truth, Calls, ConnectTellsTruth, Holds
<1>4. Clock'
  BY DEF TypeOK, Clock, ConnectOnTime, SaneTimeout
<1> QED
  BY <1>1, <1>2, <1>3, <1>4

(* What ::connect() answers, and the state it leaves.                       *)
LEMMA AnswerCases ==
    ASSUME IInv, NEW o \in Objects, NEW answer \in Answers(StateOf(m_sockfd[o]))
    PROVE  \E err \in Errors, s \in {"none", "handshake", "up", "refused"} :
              /\ answer = <<err, s>>
              /\ \/ err = "none" /\ s = "up" /\ m_sockfd[o] \in Fds
                 \/ err \in {"EINPROGRESS", "EALREADY"} /\ s = "handshake"
                 \/ err \in {"ECONNREFUSED", "EBADF"} /\ s \in {"refused", "none"}
                 \/ err = "EISCONN" /\ s = "up" /\ kernel # "linux"
<1>1. StateOf(m_sockfd[o]) \in {"none", "new", "dgram", "handshake", "up", "refused"}
  BY DEF StateOf, IInv, TypeOK
<1>2. StateOf(m_sockfd[o]) # "none" => m_sockfd[o] \in Fds
  BY DEF StateOf
<1> QED
  BY <1>1, <1>2 DEF Answers, Errors

(* An iteration of connect().                                               *)
LEMMA DialIInv ==
    ASSUME IInv, Followed, NEW o \in Objects, NEW answer \in Answers(StateOf(m_sockfd[o])),
           Dial(o, answer[1], answer[2])
    PROVE  IInv'
<1> USE SocketAssumption, FdInt DEF Dial, fields, history, IInv, Followed
<1>1. /\ pc[o] = "dial" /\ ret[o] = "none" /\ m_sockfd[o] # 0 /\ slept[o] = timeout[o]
      /\ timeout[o] \in Nat /\ slept[o] \in Nat /\ m_timeout \in Nat /\ Tick \in Nat
  BY DEF TypeOK, Truth, Calls, Clock
<1>2. PICK err \in Errors, s \in {"none", "handshake", "up", "refused"} :
        /\ answer = <<err, s>>
        /\ \/ err = "none" /\ s = "up" /\ m_sockfd[o] \in Fds
           \/ err \in {"EINPROGRESS", "EALREADY"} /\ s = "handshake"
           \/ err \in {"ECONNREFUSED", "EBADF"} /\ s \in {"refused", "none"}
           \/ err = "EISCONN" /\ s = "up" /\ kernel # "linux"
  BY AnswerCases
<1>a. Dial(o, err, s)
  BY <1>2
<1>3. \/ /\ err \in {"EINPROGRESS", "EALREADY"}
         /\ \/ GiveUp(o, "NC_TIMEDOUT") /\ Advanced(timeout[o]) > m_timeout
            \/ Sleep(o) /\ ~(Advanced(timeout[o]) > m_timeout)
      \/ /\ err \notin {"EINPROGRESS", "EALREADY"}
         /\ Return(o, IF err = "none" THEN "NC_OK" ELSE "NC_FAILED")
         /\ timeout' = [timeout EXCEPT ![o] = 0] /\ slept' = [slept EXCEPT ![o] = 0]
  BY <1>a, <1>1, <1>2 DEF ncIsBlockingError, ncIsConnected, Wait
<1>b. Advanced(timeout[o]) \in Nat /\ Advanced(slept[o]) = Advanced(timeout[o])
  BY <1>1, ClockSteps
<1>4. TypeOK'
  BY <1>a, <1>1, <1>3, <1>b DEF TypeOK, GiveUp, Sleep, Return
<1>5. Ledger'
  BY <1>a, <1>1, <1>3 DEF TypeOK, Ledger, NobodyRobbed, Files, NoLeak, GiveUp, Sleep, Return
<1>6. Clock'
  <2>1. \A p \in Objects : pc'[p] \in {"resolve", "dial"} => slept'[p] = timeout'[p]
    BY <1>1, <1>3, <1>b DEF TypeOK, Clock, GiveUp, Sleep, Return
  <2>2. SaneTimeout => Advanced(timeout[o]) = timeout[o] + Tick
    BY <1>1, ClockSteps DEF Clock, ConnectOnTime, SaneTimeout
  <2>3. ConnectOnTime'
    BY <1>a, <1>1, <1>3, <1>b, <2>2
    DEF TypeOK, Clock, ConnectOnTime, SaneTimeout, GiveUp, Sleep, Return
  <2> QED
    BY <2>1, <2>3 DEF Clock
<1>7. m_sockfd[o] \in Fds => m_sockfd[o] > 0 /\ fd[m_sockfd[o]] = o /\ conn'[m_sockfd[o]] = s
  BY <1>a, <1>1, FdCases, Held
<1>8. \A p \in Objects \ {o} :
        /\ pc'[p] = pc[p] /\ ret'[p] = ret[p]
        /\ m_sockfd[p] \in Fds /\ fd[m_sockfd[p]] = p => conn'[m_sockfd[p]] = conn[m_sockfd[p]]
  <2> TAKE p \in Objects \ {o}
  <2>1. pc'[p] = pc[p] /\ ret'[p] = ret[p]
    BY <1>3 DEF TypeOK, GiveUp, Sleep, Return
  <2>2. m_sockfd[p] \in Fds /\ fd[m_sockfd[p]] = p => m_sockfd[p] # m_sockfd[o]
    BY <1>7
  <2> QED
    BY <1>a, <2>1, <2>2
<1>9. \/ pc'[o] = "dial" /\ ret'[o] = "none"
      \/ pc'[o] = "rest" /\ ret'[o] = "NC_TIMEDOUT"
      \/ pc'[o] = "rest" /\ ret'[o] = "NC_OK" /\ s = "up" /\ m_sockfd[o] \in Fds
      \/ pc'[o] = "rest" /\ ret'[o] = "NC_FAILED" /\ (kernel # "linux" \/ s \in {"refused", "none"})
  BY <1>1, <1>2, <1>3 DEF TypeOK, GiveUp, Sleep, Return
<1>c. UNCHANGED <<kernel, m_sockfd, fd, misused>>
  BY <1>a
<1>10. Calls'
  <2>1. \A p \in Objects : m_sockfd[p] > 0 => m_sockfd[p] \in Fds /\ fd[m_sockfd[p]] = p
    BY Held
  <2> QED
    BY <1>c, <1>1, <1>7, <1>8, <1>9, <2>1 DEF Truth, Calls
<1>11. ConnectTellsTruth'
  <2>1. \A p \in Objects : m_sockfd[p] > 0 => m_sockfd[p] \in Fds /\ fd[m_sockfd[p]] = p
    BY Held
  <2> QED
    BY <1>c, <1>1, <1>7, <1>8, <1>9, <2>1 DEF Truth, ConnectTellsTruth, Holds
<1> QED
  BY <1>4, <1>5, <1>6, <1>10, <1>11 DEF Truth

(* An object closes the number n, which is its own or nobody's, and keeps   *)
(* no claim on it; a FILE of its own may stay where it is.                  *)
Gives(o, n) ==
    /\ n # -1 => fd[n] \in {o, "free"}
    /\ \A f \in Fds : /\ fd'[f] = IF f = n THEN "free" ELSE fd[f]
                      /\ conn'[f] = IF f = n THEN "none" ELSE conn[f]
    /\ kernel' = kernel /\ appfds' = appfds
    /\ m_sockfd' = [m_sockfd EXCEPT ![o] = -1]
    /\ m_stdiofd' \in [Objects -> Fds \union {-1}]
    /\ \A p \in Objects : m_stdiofd'[p] \in {m_stdiofd[p], -1}
    /\ m_stdiofd'[o] # -1 => o \in Retriers /\ m_stdiofd[o] # n /\ pc'[o] # "none"
    /\ ret' = [ret EXCEPT ![o] = "none"]
    /\ \A p \in Objects \ {o} : /\ pc'[p] = pc[p] /\ m_stdiofd'[p] = m_stdiofd[p]
                                /\ p \in undialed <=> p \in undialed'
    /\ pc'[o] \in {"rest", "none"}
    /\ pc'[o] = "none" => o \notin undialed'
    /\ o \in Retriers \/ \A f \in Fds \ {0} : fd[f] = o => f = n

(* What everybody else has is then untouched.                               *)
LEMMA OwnClosed ==
    ASSUME IInv, Followed, ~misused', NEW o \in Objects, NEW n \in Fds \union {-1}, Gives(o, n)
    PROVE  Ledger' /\ Truth'
<1> USE SocketAssumption, FdInt DEF IInv, Gives, Followed
<1>1. \A p \in Objects \ {o} :
        /\ m_sockfd'[p] = m_sockfd[p] /\ m_stdiofd'[p] = m_stdiofd[p] /\ ret'[p] = ret[p]
        /\ m_sockfd[p] \in Fds \union {-1} /\ m_stdiofd[p] \in Fds \union {-1}
  BY DEF TypeOK
<1>2. m_sockfd'[o] = -1 /\ ret'[o] = "none"
  BY DEF TypeOK
<1>3. \A f \in Fds : fd[f] \notin {o, "free"} => fd'[f] = fd[f] /\ conn'[f] = conn[f]
  OBVIOUS
<1>a. \A p \in Objects : p # "free" /\ p # "app"
  OBVIOUS
<1>b. ASSUME NEW p \in Objects, p # o, NEW f \in Fds, fd[f] = p
      PROVE  fd'[f] = p /\ conn'[f] = conn[f]
  BY <1>3, <1>a, <1>b
<1>c. \A p \in Objects :
        /\ m_sockfd[p] > 0 => m_sockfd[p] \in Fds /\ fd[m_sockfd[p]] = p
        /\ m_sockfd[p] # -1 /\ p \notin undialed => m_sockfd[p] \in Fds /\ fd[m_sockfd[p]] = p
  BY Held
<1>4. \A p \in Objects \ {o} :
        m_sockfd[p] > 0 => fd'[m_sockfd[p]] = p /\ conn'[m_sockfd[p]] = conn[m_sockfd[p]]
  <2> TAKE p \in Objects \ {o}
  <2> HAVE m_sockfd[p] > 0
  <2>1. m_sockfd[p] \in Fds /\ fd[m_sockfd[p]] = p
    BY <1>c
  <2> QED
    BY <1>b, <2>1
<1>5. NobodyRobbed'
  <2>1. \A p \in Objects : m_stdiofd'[p] # -1 => fd'[m_stdiofd'[p]] = p
    <3> TAKE p \in Objects
    <3>0. m_stdiofd[p] # -1 => m_stdiofd[p] \in Fds /\ fd[m_stdiofd[p]] = p
      BY Held
    <3>1. CASE p = o
      BY <3>0, <3>1
    <3>2. CASE p # o
      BY <1>1, <1>3, <1>a, <3>0, <3>2
    <3> QED
      BY <3>1, <3>2
  <2>2. \A f \in appfds' : fd'[f] = "app"
    BY <1>3, <1>a DEF Ledger, NobodyRobbed, TypeOK
  <2>3. \A p \in Objects : m_sockfd'[p] # -1 /\ p \notin undialed' => fd'[m_sockfd'[p]] = p
    <3> TAKE p \in Objects
    <3>1. CASE p = o
      BY <1>2, <3>1
    <3>2. CASE p # o
      <4>1. m_sockfd[p] # -1 /\ p \notin undialed => fd'[m_sockfd[p]] = p
        BY <1>b, <1>c, <3>2
      <4> QED
        BY <1>1, <3>2, <4>1
    <3> QED
      BY <3>1, <3>2
  <2> QED
    BY <2>1, <2>2, <2>3 DEF NobodyRobbed
<1>7. Files'
  BY <1>1, <1>2 DEF Ledger, Files
<1>8. NoLeak'
  <2> SUFFICES ASSUME NEW f \in Fds \ {0}, fd'[f] \in Objects \ Retriers
               PROVE  pc'[fd'[f]] # "none" /\ m_sockfd'[fd'[f]] = f
    BY DEF NoLeak
  <2>1. fd'[f] = fd[f] /\ f # n
    BY <1>a
  <2>2. fd[f] # o
    BY <2>1
  <2> QED
    BY <1>1, <2>1, <2>2 DEF Ledger, NoLeak
<1>9. Calls'
  BY <1>1, <1>2, <1>4 DEF Truth, Calls
<1>10. ConnectTellsTruth'
  <2>1. \A p \in Objects \ {o} : Holds(p) => Holds(p)' /\ conn'[m_sockfd[p]] = conn[m_sockfd[p]]
    <3> TAKE p \in Objects \ {o}
    <3> HAVE Holds(p)
    <3>1. m_sockfd[p] \in Fds /\ fd[m_sockfd[p]] = p
      BY DEF Holds
    <3>2. fd'[m_sockfd[p]] = p /\ conn'[m_sockfd[p]] = conn[m_sockfd[p]]
      BY <1>b, <3>1
    <3> QED
      BY <1>1, <3>1, <3>2 DEF Holds
  <2> QED
    BY <1>1, <1>2, <1>4, <2>1 DEF Truth, ConnectTellsTruth
<1> QED
  BY <1>5, <1>7, <1>8, <1>9, <1>10 DEF Ledger, Truth

(* close and the destructor close the object's own descriptor, if any.      *)
LEMMA CloseIInv ==
    ASSUME IInv, Followed, NEW o \in Objects, close(o) \/ Destroy(o)
    PROVE  IInv'
<1> USE SocketAssumption, FdInt DEF Close, IInv, Followed
<1>1. CASE close(o)
  <2>0. misused' \in BOOLEAN
    BY <1>1, Zenon DEF close
  <2>1. TypeOK'
    BY <1>1, <2>0 DEF close, TypeOK
  <2>c. Clock'
    BY <1>1 DEF close, TypeOK, Clock, ConnectOnTime, SaneTimeout
  <2> SUFFICES ASSUME ~misused' PROVE Ledger' /\ Truth'
    BY <2>1, <2>c
  <2> DEFINE n == m_sockfd[o]
  <2>a. ~NotItsOwn(o) /\ ~LeavesFile(o)
    BY <1>1 DEF close
  <2>2. n \in Fds \union {-1} /\ (n # -1 => fd[n] \in {o, "free"})
    BY <2>a, Held DEF NotItsOwn
  <2>3. \A f \in Fds : /\ fd'[f] = IF f = n THEN "free" ELSE fd[f]
                       /\ conn'[f] = IF f = n THEN "none" ELSE conn[f]
    BY <1>1 DEF close
  <2>4. /\ m_stdiofd' = m_stdiofd /\ m_stdiofd \in [Objects -> Fds \union {-1}]
        /\ m_stdiofd[o] # -1 => o \in Retriers /\ m_stdiofd[o] # n
    BY <1>1, <2>a DEF close, TypeOK, LeavesFile, Ledger, Files
  <2>5. o \in Retriers \/ \A f \in Fds \ {0} : fd[f] = o => f = n
    BY DEF Ledger, NoLeak
  <2>6. Gives(o, n)
    BY <1>1, <2>2, <2>3, <2>4, <2>5 DEF close, Gives, TypeOK
  <2> QED
    BY <2>2, <2>6, OwnClosed
<1>2. CASE Destroy(o)
  <2>1. TypeOK'
    BY <1>2 DEF Destroy, TypeOK
  <2>c. Clock'
    BY <1>2 DEF Destroy, TypeOK, Clock, ConnectOnTime, SaneTimeout
  <2>2. PICK n \in Fds \union {-1} :
          /\ n = IF m_stdiofd[o] # -1 THEN m_stdiofd[o]
                 ELSE IF m_sockfd[o] > 0 THEN m_sockfd[o] ELSE -1
          /\ n # -1 => fd[n] = o
    BY Held
  <2>3. \A f \in Fds : /\ fd'[f] = IF f = n THEN "free" ELSE fd[f]
                       /\ conn'[f] = IF f = n THEN "none" ELSE conn[f]
    BY <1>2, <2>2 DEF Destroy
  <2>4. /\ pc'[o] \in {"rest", "none"} /\ o \notin undialed'
        /\ \A p \in Objects \ {o} : pc'[p] = pc[p] /\ (p \in undialed <=> p \in undialed')
    BY <1>2 DEF Destroy, TypeOK
  <2>5. o \in Retriers \/ \A f \in Fds \ {0} : fd[f] = o => f = n
    BY <2>2 DEF TypeOK, Ledger, NoLeak, Files
  <2>6. /\ m_sockfd' = [m_sockfd EXCEPT ![o] = -1] /\ m_stdiofd' = [m_stdiofd EXCEPT ![o] = -1]
        /\ ret' = [ret EXCEPT ![o] = "none"] /\ UNCHANGED <<kernel, misused, appfds>>
    BY <1>2 DEF Destroy
  <2>7. /\ m_stdiofd' \in [Objects -> Fds \union {-1}] /\ m_stdiofd'[o] = -1
        /\ \A p \in Objects \ {o} : m_stdiofd'[p] = m_stdiofd[p]
    BY <2>6 DEF TypeOK
  <2>8. Gives(o, n)
    BY <2>2, <2>3, <2>4, <2>5, <2>6, <2>7 DEF Gives
  <2> QED
    BY <2>1, <2>2, <2>6, <2>8, <2>c, OwnClosed
<1> QED
  BY <1>1, <1>2

(* flush wraps a descriptor that is the object's own.                       *)
LEMMA FlushIInv ==
    ASSUME IInv, Followed, NEW o \in Objects, flush(o)
    PROVE  IInv'
<1> USE SocketAssumption, FdInt DEF flush, locals, table, IInv, Followed
<1>0. misused' \in BOOLEAN
  BY Zenon DEF flush
<1>1. TypeOK'
  BY <1>0 DEF TypeOK, Wraps
<1>c. Clock'
  BY DEF Clock, ConnectOnTime, SaneTimeout
<1> SUFFICES ASSUME ~misused' PROVE Ledger' /\ Truth'
  BY <1>1, <1>c
<1>2. Wraps(o) => m_sockfd[o] # -1 /\ fd[m_sockfd[o]] = o
  BY Held DEF Wraps, NotItsOwn
<1>3. NobodyRobbed'
  BY <1>2 DEF TypeOK, Ledger, NobodyRobbed
<1>4. NoLeak'
  BY DEF Ledger, NoLeak
<1>5. Files'
  <2>1. \A p \in Objects : m_stdiofd'[p] = m_stdiofd[p] \/ (p = o /\ m_stdiofd'[p] = m_sockfd[p])
    BY DEF TypeOK
  <2>2. pc[o] = "rest"
    OBVIOUS
  <2> QED
    BY <2>1, <2>2 DEF Ledger, Files
<1>6. Truth'
  BY DEF Truth, Calls, ConnectTellsTruth, Holds
<1> QED
  BY <1>3, <1>4, <1>5, <1>6 DEF Ledger

(* The application's files, and the peers.                                  *)
LEMMA OutsideIInv ==
    ASSUME IInv, Followed, NEW f \in Fds,
           AppOpens(f) \/ AppCloses(f) \/ PeerAnswers(f, "up") \/ PeerAnswers(f, "refused")
    PROVE  IInv'
<1> USE SocketAssumption, FdInt DEF fields, locals, history, IInv, Followed
<1>0. \A p \in Objects : m_sockfd[p] > 0 => m_sockfd[p] \in Fds /\ fd[m_sockfd[p]] = p
  BY Held
<1>1. CASE AppOpens(f)
  <2> USE DEF AppOpens, OpenAs, Lowest, FreeFds
  <2>1. TypeOK'
    BY <1>1 DEF TypeOK
  <2>2. Ledger'
    BY <1>1 DEF TypeOK, Ledger, NobodyRobbed, Files, NoLeak
  <2>3. Truth'
    BY <1>0, <1>1 DEF TypeOK, Truth, Calls, ConnectTellsTruth, Holds
  <2>4. Clock'
    BY <1>1 DEF TypeOK, Clock, ConnectOnTime, SaneTimeout
  <2> QED
    BY <2>1, <2>2, <2>3, <2>4
<1>2. CASE AppCloses(f)
  <2> USE DEF AppCloses, Close
  <2>1. TypeOK'
    BY <1>2 DEF TypeOK
  <2>2. Ledger'
    BY <1>2 DEF TypeOK, Ledger, NobodyRobbed, Files, NoLeak
  <2>3. Truth'
    <3>1. fd[f] = "app"
      BY <1>2 DEF Ledger, NobodyRobbed
    <3> QED
      BY <1>0, <1>2, <3>1 DEF TypeOK, Truth, Calls, ConnectTellsTruth, Holds
  <2>4. Clock'
    BY <1>2 DEF TypeOK, Clock, ConnectOnTime, SaneTimeout
  <2> QED
    BY <2>1, <2>2, <2>3, <2>4
<1>3. ASSUME NEW s \in {"up", "refused"}, PeerAnswers(f, s) PROVE IInv'
  <2>1. TypeOK'
    BY <1>3 DEF PeerAnswers, TypeOK
  <2>2. Ledger'
    BY <1>3 DEF PeerAnswers, Ledger, NobodyRobbed, Files, NoLeak
  <2>3. Truth'
    BY <1>3 DEF PeerAnswers, TypeOK, Truth, Calls, ConnectTellsTruth, Holds
  <2>4. Clock'
    BY <1>3 DEF PeerAnswers, TypeOK, Clock, ConnectOnTime, SaneTimeout
  <2> QED
    BY <2>1, <2>2, <2>3, <2>4
<1> QED
  BY <1>1, <1>2, <1>3

(* Every step keeps the invariant.                                          *)
LEMMA NextIInv == IInv /\ [Next]_vars => IInv'
<1> SUFFICES ASSUME IInv, [Next]_vars PROVE IInv'
  OBVIOUS
<1>1. CASE UNCHANGED vars
  BY <1>1 DEF vars, fields, locals, history, table, IInv, TypeOK, Ledger, NobodyRobbed, Files,
              NoLeak, Truth, Calls, ConnectTellsTruth, Clock, ConnectOnTime, SaneTimeout, Holds
<1>2. ASSUME Followed, NEW o \in Objects, Connecting(o) PROVE IInv'
  BY <1>2, ResolveIInv, DialIInv DEF Connecting
<1> QED
  BY <1>1, <1>2, ConstructIInv, AdoptIInv, DialsIInv, CloseIInv, FlushIInv, OutsideIInv
  DEF Next, Abandoned
-------------------------------------------------------------------------------
(* The fields of an ncSocket, and the clock of connect(), keep their types. *)
THEOREM SocketTypes == Spec => []TypeOK
<1>1. IInv => TypeOK
  BY DEF IInv
<1> QED
  BY <1>1, InitIInv, NextIInv, PTL DEF Spec

(* close, flush, the destructor and connect() never close or take over a    *)
(* descriptor that is somebody else's, for any reuse of numbers.            *)
THEOREM SocketNobodyRobbed == Spec => []NobodyRobbed
<1>1. IInv => NobodyRobbed
  BY DEF IInv, Ledger, NobodyRobbed
<1> QED
  BY <1>1, InitIInv, NextIInv, PTL DEF Spec

(* A user who does not connect() twice without close() loses no descriptor. *)
THEOREM SocketNoLeak == Spec => []NoLeak
<1>1. IInv => NoLeak
  BY DEF IInv, Ledger, NoLeak
<1> QED
  BY <1>1, InitIInv, NextIInv, PTL DEF Spec

(* The result of connect() says what the connection is, on GNU/Linux in     *)
(* both directions, while other objects and the peers go on.                *)
THEOREM SocketTellsTruth == Spec => []ConnectTellsTruth
<1>1. IInv => ConnectTellsTruth
  BY DEF IInv, Truth, ConnectTellsTruth
<1> QED
  BY <1>1, InitIInv, NextIInv, PTL DEF Spec

(* connect() never sleeps past the timeout, and gives up at most one tick    *)
(* before it.                                                               *)
THEOREM SocketOnTime == Spec => []ConnectOnTime
<1>1. IInv => ConnectOnTime
  BY DEF IInv, Clock
<1> QED
  BY <1>1, InitIInv, NextIInv, PTL DEF Spec
-------------------------------------------------------------------------------
(* A step of connect() uses up patience.                                    *)
LEMMA ConnectingAdvances ==
    ASSUME IInv, SaneTimeout, NEW o \in Objects, Connecting(o)
    PROVE  Patience(o)' \in Nat /\ Patience(o)' < Patience(o)
<1> USE SocketAssumption
<1>1. /\ m_timeout \in Nat /\ timeout[o] \in Nat /\ m_timeout' = m_timeout
      /\ pc \in [Objects -> {"none", "rest", "resolve", "dial"}] /\ timeout \in [Objects -> Nat]
      /\ pc[o] \in {"resolve", "dial"}
  BY DEF IInv, TypeOK, Connecting, Resolve, ResolveFails, Dial
<1>2. timeout[o] <= m_timeout
  BY <1>1 DEF IInv, Clock, ConnectOnTime
<1>a. Advanced(timeout[o]) = timeout[o] + Tick /\ Tick \in Nat
  BY <1>1, <1>2, ClockSteps DEF SaneTimeout
<1>3. Patience(o) \in Nat /\ Patience(o) > 0
  BY <1>1, <1>2 DEF Patience
<1>4. CASE Resolve(o)
  BY <1>1, <1>2, <1>4 DEF Resolve, locals, Patience
<1>5. ASSUME pc'[o] = "rest" PROVE Patience(o)' \in Nat /\ Patience(o)' < Patience(o)
  BY <1>3, <1>5 DEF Patience
<1>6. CASE ResolveFails(o)
  BY <1>1, <1>5, <1>6 DEF ResolveFails, Return
<1>7. ASSUME NEW err, NEW state, Dial(o, err, state)
      PROVE  Patience(o)' \in Nat /\ Patience(o)' < Patience(o)
  <2>1. CASE ~ncIsBlockingError(err) \/ Advanced(timeout[o]) > m_timeout
    BY <1>1, <1>5, <1>7, <2>1 DEF Dial, Wait, GiveUp, Return
  <2>2. CASE ncIsBlockingError(err) /\ ~(Advanced(timeout[o]) > m_timeout)
    <3>1. pc' = pc /\ timeout'[o] = Advanced(timeout[o]) /\ pc[o] = "dial"
      BY <1>1, <1>7, <2>2 DEF Dial, Wait, Sleep
    <3> QED
      BY <1>1, <1>a, <2>2, <3>1 DEF Patience
  <2> QED
    BY <2>1, <2>2
<1> QED
  BY <1>4, <1>6, <1>7 DEF Connecting

(* Any other step leaves the patience of a connect() that runs as it is.    *)
LEMMA OthersPatient ==
    ASSUME IInv, Next, NEW o \in Objects, pc[o] \in {"resolve", "dial"}, ~Connecting(o)
    PROVE  Patience(o)' = Patience(o)
<1> USE DEF IInv, TypeOK
<1> SUFFICES pc'[o] = pc[o] /\ timeout'[o] = timeout[o] /\ m_timeout' = m_timeout
  BY DEF Patience
<1>1. ASSUME NEW q \in Objects, Connecting(q)
      PROVE  pc'[o] = pc[o] /\ timeout'[o] = timeout[o] /\ m_timeout' = m_timeout
  <2>1. q # o
    BY <1>1
  <2> QED
    BY <1>1, <2>1 DEF Connecting, Resolve, ResolveFails, Return, Dial, Wait, GiveUp, Sleep, locals
<1>2. ASSUME NEW q \in Objects,
             \/ Construct(q, -1) \/ Construct(q, 0) \/ Destroy(q) \/ close(q) \/ flush(q)
             \/ \E f \in Fds : Adopt(q, f)
      PROVE  pc'[o] = pc[o] /\ timeout'[o] = timeout[o] /\ m_timeout' = m_timeout
  BY <1>2 DEF Construct, Adopt, Destroy, close, flush, locals
<1>3. ASSUME NEW q \in Objects, NEW n, Dials(q, n)
      PROVE  pc'[o] = pc[o] /\ timeout'[o] = timeout[o] /\ m_timeout' = m_timeout
  BY <1>3 DEF Dials
<1>4. ASSUME NEW f \in Fds,
             AppOpens(f) \/ AppCloses(f) \/ PeerAnswers(f, "up") \/ PeerAnswers(f, "refused")
      PROVE  pc'[o] = pc[o] /\ timeout'[o] = timeout[o] /\ m_timeout' = m_timeout
  BY <1>4 DEF AppOpens, AppCloses, PeerAnswers, locals
<1>5. CASE UNCHANGED vars
  BY <1>5 DEF vars, locals
<1> QED
  BY <1>1, <1>2, <1>3, <1>4, <1>5 DEF Next, SocketFails, SocketOpens, Abandoned

(* connect() calls ::connect() a bounded number of times, for every sane    *)
(* timeout and number of objects and whatever the kernel and the peers do:  *)
(* the part of ConnectReturns that is not fairness.                         *)
THEOREM SocketAdvances == Spec => ConnectAdvances
<1> DEFINE Step ==
      SaneTimeout => \A o \in Objects :
         pc[o] \in {"resolve", "dial"} =>
            /\ Patience(o)' \in Nat /\ Patience(o)' <= Patience(o)
            /\ Connecting(o) => Patience(o)' < Patience(o)
<1>1. IInv /\ [Next]_vars => [Step]_vars
  <2> SUFFICES ASSUME IInv, Next, SaneTimeout, NEW o \in Objects, pc[o] \in {"resolve", "dial"}
               PROVE  /\ Patience(o)' \in Nat /\ Patience(o)' <= Patience(o)
                      /\ Connecting(o) => Patience(o)' < Patience(o)
    OBVIOUS
  <2>1. Patience(o) \in Nat
    <3>1. m_timeout \in Nat /\ timeout[o] \in Nat /\ timeout[o] <= m_timeout
      BY SocketAssumption DEF IInv, TypeOK, Clock, ConnectOnTime
    <3> QED
      BY <3>1 DEF Patience
  <2>2. CASE Connecting(o)
    BY <2>1, <2>2, ConnectingAdvances
  <2>3. CASE ~Connecting(o)
    BY <2>1, <2>3, OthersPatient
  <2> QED
    BY <2>2, <2>3
<1> QED
  BY <1>1, InitIInv, NextIInv, PTL DEF Spec, ConnectAdvances
===============================================================================
