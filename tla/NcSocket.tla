------------------------------ MODULE NcSocket ------------------------------
(***************************************************************************)
(* The life of ncSocket objects over the descriptor table they share with  *)
(* the rest of the process: constructors, connect, close, flush, destructor.*)
(* Each object has a thread of its own; the kernel and the peers complete  *)
(* or refuse handshakes at any time, also after connect() has given up.    *)
(*                                                                         *)
(* The application may call close() or flush() on an object it made from a *)
(* host name before connect(), and close() an object it has flushed: the   *)
(* code does not defend itself against either, and the history variable    *)
(* misused records that one of them has hit a descriptor.                  *)
(***************************************************************************)
EXTENDS Integers, FiniteSets, NcArch

CONSTANTS
    Objects,    \* the ncSocket objects
    Retriers,   \* those whose user calls connect() again without close()
    MaxFd,      \* bound: the largest descriptor of the process
    AppFiles,   \* bound: files the application has open besides
    ULONG,      \* how many values an unsigned long has
    Tick,       \* what connect() sleeps and counts, 100 ms in the code
    Timeouts,   \* the values m_timeout may have
    Kernels     \* subset of {"linux", "bsd"}

ASSUME SocketAssumption ==
    /\ Objects \intersect {"free", "app"} = {}
    /\ Retriers \subseteq Objects
    /\ MaxFd \in Nat /\ AppFiles \in Nat
    /\ ULONG \in Nat /\ Tick \in 1..(ULONG - 1) /\ Timeouts \subseteq 0..(ULONG - 1)
    /\ Kernels \subseteq {"linux", "bsd"}

VARIABLES
    kernel,      \* the system the program runs on; Init chooses it
    m_timeout,   \* the object's field, the same for all objects
    m_sockfd,    \* object -> descriptor, -1 for none
    m_stdiofd,   \* object -> the descriptor its FILE wraps, -1 for no FILE
    pc,          \* object -> "none" (not constructed), "rest", or a step of connect
    timeout, ret,   \* object -> the local and the result of connect
    slept,       \* object -> history: milliseconds connect has slept (% ULONG)
    undialed,    \* history: objects with a host that have not called connect yet
    misused,     \* history: close or flush has been called where it does harm
    fd,          \* the descriptor table: "free", "app" or an object
    conn,        \* descriptor -> the state of its socket
    appfds       \* the descriptors the application believes it has

fields == <<m_sockfd, m_stdiofd>>
locals == <<timeout, ret, slept>>
history == <<undialed, misused>>
table == <<fd, conn, appfds>>
vars == <<kernel, m_timeout, fields, pc, locals, history, table>>

Fds == 0..MaxFd

TypeOK ==
    /\ kernel \in Kernels /\ m_timeout \in Timeouts
    /\ m_sockfd \in [Objects -> Fds \union {-1}]
    /\ m_stdiofd \in [Objects -> Fds \union {-1}]
    /\ pc \in [Objects -> {"none", "rest", "resolve", "dial"}]
    /\ timeout \in [Objects -> Nat] /\ slept \in [Objects -> Nat]
    /\ ret \in [Objects -> {"none", "NC_OK", "NC_TIMEDOUT", "NC_FAILED"}]
    /\ undialed \subseteq Objects /\ misused \in BOOLEAN
    /\ fd \in [Fds -> Objects \union {"free", "app"}]
    /\ conn \in [Fds -> {"none", "new", "dgram", "handshake", "up", "refused"}]
    /\ appfds \subseteq Fds

Init ==
    /\ kernel \in Kernels /\ m_timeout \in Timeouts
    /\ m_sockfd = [o \in Objects |-> -1] /\ m_stdiofd = [o \in Objects |-> -1]
    /\ pc = [o \in Objects |-> "none"]
    /\ timeout = [o \in Objects |-> 0] /\ slept = [o \in Objects |-> 0]
    /\ ret = [o \in Objects |-> "none"]
    /\ undialed = {} /\ misused = FALSE
    /\ appfds \in {{}, {0}}
    /\ fd = [f \in Fds |-> IF f \in appfds THEN "app" ELSE "free"]
    /\ conn = [f \in Fds |-> "none"]
-----------------------------------------------------------------------------
(* The descriptor table. *)

FreeFds == {f \in Fds : fd[f] = "free"}

(* The number that the next open, socket() or accept() gets. *)
Lowest(f) == f \in FreeFds /\ \A g \in FreeFds : f <= g

OpenAs(f, who, state) ==
    /\ fd' = [fd EXCEPT ![f] = who]
    /\ conn' = [conn EXCEPT ![f] = state]

(* ::close(n): whatever has that number goes. *)
Close(n) ==
    /\ fd' = [f \in Fds |-> IF f = n THEN "free" ELSE fd[f]]
    /\ conn' = [f \in Fds |-> IF f = n THEN "none" ELSE conn[f]]

Holds(o) == m_sockfd[o] \in Fds /\ fd[m_sockfd[o]] = o
-----------------------------------------------------------------------------
(* The constructors, and the destructor. *)

(* ncSocket() has no descriptor; ncSocket(host, port, type) has the number 0. *)
Construct(o, n) ==
    /\ pc[o] = "none" /\ n \in {-1, 0}
    /\ pc' = [pc EXCEPT ![o] = "rest"]
    /\ m_sockfd' = [m_sockfd EXCEPT ![o] = n]
    /\ undialed' = IF n = 0 THEN undialed \union {o} ELSE undialed
    /\ UNCHANGED <<kernel, m_timeout, m_stdiofd, locals, misused, table>>

(* ncSocket(sockfd), with a connection that accept() has just returned. *)
Adopt(o, f) ==
    /\ pc[o] = "none" /\ Lowest(f)
    /\ pc' = [pc EXCEPT ![o] = "rest"]
    /\ m_sockfd' = [m_sockfd EXCEPT ![o] = f]
    /\ OpenAs(f, o, "up")
    /\ UNCHANGED <<kernel, m_timeout, m_stdiofd, locals, history, appfds>>

(* fclose() closes the number that the FILE wraps, and only that one. *)
Destroy_NoClose(o) ==
    /\ pc[o] = "rest"
    /\ IF m_stdiofd[o] # -1 THEN Close(m_stdiofd[o]) ELSE UNCHANGED <<fd, conn>>
    /\ pc' = [pc EXCEPT ![o] = "none"]
    /\ m_sockfd' = [m_sockfd EXCEPT ![o] = -1]
    /\ m_stdiofd' = [m_stdiofd EXCEPT ![o] = -1]
    /\ timeout' = [timeout EXCEPT ![o] = 0] /\ slept' = [slept EXCEPT ![o] = 0]
    /\ ret' = [ret EXCEPT ![o] = "none"]
    /\ undialed' = undialed \ {o}
    /\ UNCHANGED <<kernel, m_timeout, misused, appfds>>
Destroy(o) ==
    /\ pc[o] = "rest"
    /\ IF m_stdiofd[o] # -1 THEN Close(m_stdiofd[o])
       ELSE IF m_sockfd[o] > 0 THEN Close(m_sockfd[o])
       ELSE UNCHANGED <<fd, conn>>
    /\ pc' = [pc EXCEPT ![o] = "none"]
    /\ m_sockfd' = [m_sockfd EXCEPT ![o] = -1]
    /\ m_stdiofd' = [m_stdiofd EXCEPT ![o] = -1]
    /\ timeout' = [timeout EXCEPT ![o] = 0] /\ slept' = [slept EXCEPT ![o] = 0]
    /\ ret' = [ret EXCEPT ![o] = "none"]
    /\ undialed' = undialed \ {o}
    /\ UNCHANGED <<kernel, m_timeout, misused, appfds>>
-----------------------------------------------------------------------------
(* connect.  connect(host, port, type) with a null host or the port 0       *)
(* returns NC_FAILED and changes nothing: no step of the model.             *)

Return(o, code) ==
    /\ pc' = [pc EXCEPT ![o] = "rest"]
    /\ ret' = [ret EXCEPT ![o] = code]

(* socket(): the old descriptor, if there is one, is forgotten.  Only the   *)
(* number 0 counts as a failure; -1 is carried on with.                     *)
Dials(o, n) ==
    /\ pc[o] = "rest" /\ (Holds(o) => o \in Retriers)
    /\ m_sockfd' = [m_sockfd EXCEPT ![o] = n]
    /\ timeout' = [timeout EXCEPT ![o] = 0] /\ slept' = [slept EXCEPT ![o] = 0]
    /\ ret' = [ret EXCEPT ![o] = IF n = 0 THEN "NC_FAILED" ELSE "none"]
    /\ pc' = [pc EXCEPT ![o] = IF n = 0 THEN "rest" ELSE "resolve"]
    /\ undialed' = undialed \ {o}
    /\ UNCHANGED <<kernel, m_timeout, m_stdiofd, misused, appfds>>

SocketOpens(o, f, state) ==
    /\ Lowest(f) /\ Dials(o, f)
    /\ OpenAs(f, o, state)

SocketFails(o) ==
    /\ FreeFds = {} /\ Dials(o, -1)
    /\ UNCHANGED <<fd, conn>>

(* The name resolves, and the socket becomes non-blocking. *)
Resolve(o) ==
    /\ pc[o] = "resolve"
    /\ pc' = [pc EXCEPT ![o] = "dial"]
    /\ UNCHANGED <<kernel, m_timeout, fields, locals, history, table>>

ResolveFails(o) ==
    /\ pc[o] = "resolve"
    /\ Return(o, "NC_FAILED")
    /\ UNCHANGED <<kernel, m_timeout, fields, timeout, slept, history, table>>

(* What ::connect() on a socket in that state answers ("none": it returns   *)
(* 0), and the state it leaves.  A finished handshake is a success on       *)
(* GNU/Linux and EISCONN on a BSD.                                          *)
Answers(state) ==
    CASE state = "dgram" -> {<<"none", "up">>}
      [] state = "new" -> {<<"none", "up">>, <<"EINPROGRESS", "handshake">>,
                           <<"ECONNREFUSED", "refused">>}
      [] state = "handshake" -> {<<"EALREADY", "handshake">>}
      [] state = "up" -> {<<IF kernel = "linux" THEN "none" ELSE "EISCONN", "up">>}
      [] state = "refused" -> {<<"ECONNREFUSED", "refused">>}
      [] state = "none" -> {<<"EBADF", "none">>}

StateOf(n) == IF n \in Fds THEN conn[n] ELSE "none"

(* A blocking error: timeout += 100, then either the loop ends (and its     *)
(* local is dropped) or ncSleep(100).                                       *)
GiveUp(o, code) ==
    /\ Return(o, code)
    /\ timeout' = [timeout EXCEPT ![o] = 0]
    /\ UNCHANGED slept

Advanced(t) == (t + Tick) % ULONG

Sleep_NoCount(o) ==
    /\ slept' = [slept EXCEPT ![o] = Advanced(@)]
    /\ UNCHANGED <<timeout, pc, ret>>
Sleep(o) ==
    /\ timeout' = [timeout EXCEPT ![o] = Advanced(@)]
    /\ slept' = [slept EXCEPT ![o] = Advanced(@)]
    /\ UNCHANGED <<pc, ret>>

Wait_Late(o) == IF timeout[o] > m_timeout THEN GiveUp(o, "NC_TIMEDOUT") ELSE Sleep(o)
Wait_NoCode(o) == IF Advanced(timeout[o]) > m_timeout THEN GiveUp(o, "NC_OK") ELSE Sleep(o)
Wait_MoreData(o) == IF Advanced(timeout[o]) > m_timeout THEN GiveUp(o, "NC_MOREDATA") ELSE Sleep(o)
Wait_NoCount(o) == UNCHANGED <<pc, locals>>
Wait(o) == IF Advanced(timeout[o]) > m_timeout THEN GiveUp(o, "NC_TIMEDOUT") ELSE Sleep(o)

Dial(o, err, state) ==
    /\ pc[o] = "dial"
    /\ conn' = [f \in Fds |-> IF f = m_sockfd[o] THEN state ELSE conn[f]]
    /\ IF ncIsBlockingError(err) THEN Wait(o)
       ELSE /\ Return(o, IF err = "none" \/ ncIsConnected(err) THEN "NC_OK" ELSE "NC_FAILED")
            /\ timeout' = [timeout EXCEPT ![o] = 0] /\ slept' = [slept EXCEPT ![o] = 0]
    /\ UNCHANGED <<kernel, m_timeout, fields, history, fd, appfds>>
-----------------------------------------------------------------------------
(* close and flush. *)

(* The object's number is open, and it is still the 0 of the constructor.   *)
NotItsOwn(o) == o \in undialed /\ m_sockfd[o] # -1 /\ fd[m_sockfd[o]] # "free"

(* The number goes, and the FILE that wraps it stays.                       *)
LeavesFile(o) == m_sockfd[o] # -1 /\ m_stdiofd[o] = m_sockfd[o]

close_KeepsNumber(o) ==
    /\ pc[o] = "rest"
    /\ IF m_sockfd[o] # -1 THEN Close(m_sockfd[o]) ELSE UNCHANGED <<fd, conn>>
    /\ ret' = [ret EXCEPT ![o] = "none"]
    /\ misused' = (misused \/ NotItsOwn(o) \/ LeavesFile(o))
    /\ UNCHANGED <<kernel, m_timeout, m_sockfd, m_stdiofd, pc, timeout, slept, undialed, appfds>>
close(o) ==
    /\ pc[o] = "rest"
    /\ IF m_sockfd[o] # -1 THEN Close(m_sockfd[o]) ELSE UNCHANGED <<fd, conn>>
    /\ m_sockfd' = [m_sockfd EXCEPT ![o] = -1]
    /\ ret' = [ret EXCEPT ![o] = "none"]
    /\ misused' = (misused \/ NotItsOwn(o) \/ LeavesFile(o))
    /\ UNCHANGED <<kernel, m_timeout, m_stdiofd, pc, timeout, slept, undialed, appfds>>

(* fdopen(), once, which fails on a number that is not open; the FILE never *)
(* has anything to write, so that fflush() succeeds.                        *)
Wraps(o) == m_stdiofd[o] = -1 /\ m_sockfd[o] # -1 /\ fd[m_sockfd[o]] # "free"
flush(o) ==
    /\ pc[o] = "rest"
    /\ m_stdiofd' = IF Wraps(o) THEN [m_stdiofd EXCEPT ![o] = m_sockfd[o]] ELSE m_stdiofd
    /\ misused' = (misused \/ (Wraps(o) /\ NotItsOwn(o)))
    /\ UNCHANGED <<kernel, m_timeout, m_sockfd, pc, locals, undialed, table>>
-----------------------------------------------------------------------------
(* The application's own files, and the peers. *)

AppOpens(f) ==
    /\ Lowest(f) /\ Cardinality(appfds) < AppFiles
    /\ OpenAs(f, "app", "none")
    /\ appfds' = appfds \union {f}
    /\ UNCHANGED <<kernel, m_timeout, fields, pc, locals, history>>

AppCloses(f) ==
    /\ f \in appfds
    /\ Close(f)
    /\ appfds' = appfds \ {f}
    /\ UNCHANGED <<kernel, m_timeout, fields, pc, locals, history>>

PeerAnswers(f, state) ==
    /\ conn[f] = "handshake" /\ state \in {"up", "refused"}
    /\ conn' = [conn EXCEPT ![f] = state]
    /\ UNCHANGED <<kernel, m_timeout, fields, pc, locals, history, fd, appfds>>

(* connect() once it is past socket(). *)
Connecting(o) ==
    \/ Resolve(o) \/ ResolveFails(o)
    \/ \E answer \in Answers(StateOf(m_sockfd[o])) : Dial(o, answer[1], answer[2])

(* What comes after a misuse is not followed: two owners then have one      *)
(* number, and nothing is promised.                                         *)
Followed == ~misused
Abandoned == misused /\ UNCHANGED vars

Next ==
    \/ /\ Followed
       /\ \/ \E o \in Objects :
              \/ Construct(o, -1) \/ Construct(o, 0) \/ Destroy(o)
              \/ SocketFails(o) \/ Connecting(o)
              \/ close(o) \/ flush(o)
              \/ \E f \in Fds : \/ Adopt(o, f)
                               \/ SocketOpens(o, f, "new") \/ SocketOpens(o, f, "dgram")
          \/ \E f \in Fds : \/ AppOpens(f) \/ AppCloses(f)
                           \/ PeerAnswers(f, "up") \/ PeerAnswers(f, "refused")
    \/ Abandoned

Spec == Init /\ [][Next]_vars

(* A thread in connect() is run, and name resolution comes to an end.  Of   *)
(* the peers nothing is assumed.                                            *)
FairSpec == Spec /\ \A o \in Objects : WF_vars(Followed /\ Connecting(o))
-----------------------------------------------------------------------------
(* Properties.  Those about descriptors hold until close() or flush() is    *)
(* called where it does harm: on an object with a host before it connects,  *)
(* while somebody has descriptor 0 open, or (close) over the FILE of an     *)
(* earlier flush().  Nothing else does any.                                 *)

(* Nobody loses a descriptor to somebody else: whatever number an object    *)
(* holds or its FILE wraps, and whatever the application has open, is still *)
(* its own, however closed numbers are reused, connects are retried and     *)
(* destructors run; a close() before connect() that finds no descriptor 0,  *)
(* and one after a retry has left the FILE on another number, included.     *)
NobodyRobbed ==
    ~misused =>
        /\ \A o \in Objects : m_sockfd[o] # -1 /\ o \notin undialed => fd[m_sockfd[o]] = o
        /\ \A o \in Objects : m_stdiofd[o] # -1 => fd[m_stdiofd[o]] = o
        /\ \A f \in appfds : fd[f] = "app"

(* Every descriptor above 0 of an object can still be closed through it,    *)
(* and is gone when the object is; unless its user calls connect() again    *)
(* without close(), for instance after NC_TIMEDOUT, which forgets it.       *)
NoLeak ==
    ~misused =>
        \A f \in Fds \ {0} :
            fd[f] \in Objects \ Retriers => pc[fd[f]] # "none" /\ m_sockfd[fd[f]] = f

(* connect() tells the truth: NC_OK says that the object has a descriptor   *)
(* of its own that is connected, and NC_FAILED that it is not (on a BSD,    *)
(* EISCONN makes connect() fail with the connection up).                    *)
ConnectTellsTruth ==
    ~misused =>
        \A o \in Objects :
            /\ ret[o] = "NC_OK" => Holds(o) /\ conn[m_sockfd[o]] = "up"
            /\ ret[o] = "NC_FAILED" /\ kernel = "linux" /\ m_sockfd[o] > 0
                  => conn[m_sockfd[o]] # "up"

(* A timeout that the clock of connect() passes before it wraps: every one  *)
(* where long has 64 bits, and all but the last 100 ms where it has 32.     *)
SaneTimeout == m_timeout + Tick < ULONG

(* connect() never sleeps longer than the timeout, and NC_TIMEDOUT comes no *)
(* more than one tick before it has passed.                                 *)
ConnectOnTime ==
    SaneTimeout =>
        \A o \in Objects :
            /\ slept[o] <= m_timeout
            /\ ret[o] = "NC_TIMEDOUT" => slept[o] + Tick > m_timeout

(* connect() returns although its peer may never answer, if the timeout is  *)
(* sane.                                                                    *)
ConnectReturns ==
    \A o \in Objects :
        (SaneTimeout /\ pc[o] \in {"resolve", "dial"}) ~> (pc[o] = "rest" \/ misused)

(* What bounds a connect(): the milliseconds it may still sleep.            *)
Patience(o) ==
    CASE pc[o] = "resolve" -> m_timeout + 2
      [] pc[o] = "dial" -> m_timeout - timeout[o] + 1
      [] OTHER -> 0

(* Why connect() returns: each of its own steps uses up patience, which     *)
(* never falls below zero, and no step of another thread, of the            *)
(* application or of a peer gives it any back.  So connect() calls          *)
(* ::connect() a bounded number of times, whatever that answers, also on a  *)
(* descriptor that socket() did not get.                                    *)
ConnectAdvances ==
    [][SaneTimeout =>
         \A o \in Objects :
            pc[o] \in {"resolve", "dial"} =>
               /\ Patience(o)' \in Nat /\ Patience(o)' <= Patience(o)
               /\ Connecting(o) => Patience(o)' < Patience(o)]_vars
=============================================================================
