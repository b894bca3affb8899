----------------------------- MODULE NcListener -----------------------------
(***************************************************************************)
(* class ncSocketListener: the thread that runs startListening, the thread *)
(* that calls stopListening, the callbacks (threads of their own, joined,  *)
(* detached or neither, or plain calls), the process's descriptor table,   *)
(* which gives the lowest free number, and the clients.  ncSleep() bounds  *)
(* nothing: a thread may be delayed for longer than another one sleeps.    *)
(*                                                                         *)
(* The application starts a listener again only after the last call has    *)
(* returned and stopListening or the destructor has run since, and it      *)
(* passes the same arguments.  Its callbacks delete the ncSocket they get, *)
(* as the header asks.                                                     *)
(***************************************************************************)
EXTENDS Integers, FiniteSets

CONSTANTS
    Clients,    \* connections (TCP) or datagrams (UDP) that may come
    Modes,      \* the <<socktype, option, flags>> an application uses
    MaxFd,      \* bound: the largest descriptor of the process
    AppFiles,   \* bound: files (not sockets) the application has open
    BindTries,  \* the limit of bindAttempts, 10 in the code
    MaxStarts   \* bound: calls of startListening

ASSUME ListenerAssumption ==
    /\ Clients \intersect {"free", "app", "lsock"} = {}
    /\ MaxFd \in Nat /\ AppFiles \in Nat /\ BindTries \in Nat /\ MaxStarts \in Nat

ASSUME ModeAssumption == \A m \in Modes : m[1] \in {"SOCKTYPE_TCPIP", "SOCKTYPE_UDP"}

VARIABLES
    mode,        \* the arguments, <<socktype, option, flags>>
    m_sockfd, m_listening,      \* the object's fields
    pc,          \* where startListening is, "rest" when it is not running
    client,      \* the descriptor (TCP) or datagram (UDP) being dispatched
    bindAttempts, ret,
    spc,         \* where stopListening is
    fd,          \* the descriptor table
    sk,          \* descriptor -> what the socket has been: "bound", "listening"
    woken,       \* a shutdown() has hit the recvfrom() in progress
    pending,     \* clients that wait in the kernel
    worker,      \* client -> "none", "running", "done": its callback
    reaped,      \* clients whose thread has been joined or detached
    starts       \* calls of startListening so far

object == <<m_sockfd, m_listening>>
local == <<client, bindAttempts, ret>>
kernel == <<fd, sk, woken, pending>>
threads == <<worker, reaped>>
vars == <<mode, object, pc, local, spc, kernel, threads, starts>>

Fds == 0..MaxFd
SockType == mode[1]
Option == mode[2]
Flags == mode[3]

TypeOK ==
    /\ mode \in Modes
    /\ m_sockfd \in Fds \union {-1} /\ m_listening \in {0, 1}
    /\ pc \in {"rest", "socket", "args", "opt", "bind", "listen", "loop",
               "accept", "spawn", "inline", "join", "recv", "blocked", "empty",
               "crash"}
    /\ client \in Fds \union Clients \union {-1}
    /\ bindAttempts \in 0..BindTries
    /\ ret \in {"NC_OK", "NC_FAILED", "NC_BADARGS"}
    /\ spc \in {"rest", "sleep", "zero"}
    /\ fd \in [Fds -> Clients \union {"free", "app", "lsock"}]
    /\ sk \in [Fds -> SUBSET {"bound", "listening"}]
    /\ woken \in BOOLEAN
    /\ pending \subseteq Clients
    /\ worker \in [Clients -> {"none", "running", "done"}]
    /\ reaped \subseteq Clients
    /\ starts \in 0..MaxStarts
-----------------------------------------------------------------------------
(* The descriptor table. *)

FreeFds == {f \in Fds : fd[f] = "free"}

(* The number that the next open, socket() or accept() gets. *)
Lowest(f) == f \in FreeFds /\ \A g \in FreeFds : f <= g

(* The object's descriptor is a socket it has opened. *)
Own == m_sockfd \in Fds /\ fd[m_sockfd] = "lsock"

(* ::close(m_sockfd): whatever has that number goes; a bad number does not  *)
(* matter.  Closing a listening socket turns its waiting clients away.      *)
CloseSockfd ==
    /\ fd' = [f \in Fds |-> IF f = m_sockfd THEN "free" ELSE fd[f]]
    /\ sk' = [f \in Fds |-> IF f = m_sockfd THEN {} ELSE sk[f]]
    /\ pending' = IF Own THEN {} ELSE pending

Init ==
    /\ mode \in Modes
    /\ m_sockfd = 0 /\ m_listening = 0
    /\ pc = "rest" /\ client = -1 /\ bindAttempts = 0 /\ ret = "NC_OK"
    /\ spc = "rest"
    /\ \E stdin \in {"app", "free"} :
        fd = [f \in Fds |-> IF f = 0 THEN stdin ELSE "free"]
    /\ sk = [f \in Fds |-> {}] /\ woken = FALSE /\ pending = {}
    /\ worker = [c \in Clients |-> "none"] /\ reaped = {}
    /\ starts = 0
-----------------------------------------------------------------------------
(* startListening up to its loop. *)

Goto(to) == pc' = to /\ UNCHANGED ret
Return(code) == pc' = "rest" /\ ret' = code

Start ==
    /\ pc = "rest" /\ spc = "rest" /\ m_sockfd = 0 /\ starts < MaxStarts
    /\ starts' = starts + 1
    /\ pc' = "socket" /\ ret' = "NC_OK" /\ bindAttempts' = 0 /\ client' = -1
    /\ UNCHANGED <<mode, object, spc, kernel, threads>>

(* Only the descriptor 0 counts as a failure; -1 is carried on with. *)
SocketOpens(f) ==
    /\ pc = "socket" /\ Lowest(f)
    /\ m_sockfd' = f
    /\ fd' = [fd EXCEPT ![f] = "lsock"]
    /\ IF f = 0 THEN Return("NC_FAILED") ELSE Goto("args")
    /\ UNCHANGED <<mode, m_listening, client, bindAttempts, spc, sk, woken, pending,
                   threads, starts>>

SocketFails ==
    /\ pc = "socket" /\ FreeFds = {}
    /\ m_sockfd' = -1
    /\ Goto("args")
    /\ UNCHANGED <<mode, m_listening, client, bindAttempts, spc, kernel, threads, starts>>

ArgsMakeSense ==
    /\ Option \in {"NC_THREADED", "NC_NONTHREADED"}
    /\ Flags \intersect {"NC_DETACHED", "NC_JOINED", "NC_REUSEADDR"} # {}

(* The arguments are tested, and m_listening = 1. *)
Arm ==
    /\ pc = "args"
    /\ IF ArgsMakeSense
       THEN m_listening' = 1 /\ Goto(IF "NC_REUSEADDR" \in Flags THEN "opt" ELSE "bind")
       ELSE Return("NC_BADARGS") /\ UNCHANGED m_listening
    /\ UNCHANGED <<mode, m_sockfd, client, bindAttempts, spc, kernel, threads, starts>>

SetReuse ==
    /\ pc = "opt"
    /\ \/ Own /\ Goto("bind")
       \/ Return("NC_FAILED")
    /\ UNCHANGED <<mode, object, client, bindAttempts, spc, kernel, threads, starts>>

AfterBind == IF SockType = "SOCKTYPE_TCPIP" THEN "listen" ELSE "loop"

BindSucceeds ==
    /\ pc = "bind" /\ Own
    /\ sk' = [sk EXCEPT ![m_sockfd] = @ \union {"bound"}]
    /\ Goto(AfterBind)
    /\ UNCHANGED <<mode, object, client, bindAttempts, spc, fd, woken, pending, threads,
                   starts>>

BindFails_NoLimit(inUse) ==
    /\ pc = "bind" /\ (inUse => Own)
    /\ IF m_listening = 1 /\ ~inUse
       THEN bindAttempts' = bindAttempts + 1 /\ UNCHANGED <<pc, ret>>
       ELSE Goto(AfterBind) /\ UNCHANGED bindAttempts
    /\ UNCHANGED <<mode, object, client, spc, kernel, threads, starts>>
BindFails_IgnoresStop(inUse) ==
    /\ pc = "bind" /\ (inUse => Own)
    /\ IF bindAttempts = BindTries
       THEN Return("NC_FAILED") /\ UNCHANGED bindAttempts
       ELSE IF ~inUse
       THEN bindAttempts' = bindAttempts + 1 /\ UNCHANGED <<pc, ret>>
       ELSE Goto(AfterBind) /\ UNCHANGED bindAttempts
    /\ UNCHANGED <<mode, object, client, spc, kernel, threads, starts>>
BindFails(inUse) ==
    /\ pc = "bind" /\ (inUse => Own)
    /\ IF m_listening = 1 /\ bindAttempts = BindTries
       THEN Return("NC_FAILED") /\ UNCHANGED bindAttempts
       ELSE IF m_listening = 1 /\ ~inUse
       THEN bindAttempts' = bindAttempts + 1 /\ UNCHANGED <<pc, ret>>
       ELSE Goto(AfterBind) /\ UNCHANGED bindAttempts
    /\ UNCHANGED <<mode, object, client, spc, kernel, threads, starts>>

(* listen(), which gives an unbound socket some port, and O_NONBLOCK; or it *)
(* fails, as it may on any descriptor.                                      *)
Listen ==
    /\ pc = "listen"
    /\ \/ Own /\ Goto("loop") /\ sk' = [sk EXCEPT ![m_sockfd] = @ \union {"listening"}]
       \/ Return("NC_FAILED") /\ UNCHANGED sk
    /\ UNCHANGED <<mode, object, client, bindAttempts, spc, fd, woken, pending, threads,
                   starts>>
-----------------------------------------------------------------------------
(* The loop. *)

LoopTest ==
    /\ pc = "loop"
    /\ IF m_listening = 0 THEN Return("NC_OK")
       ELSE Goto(IF SockType = "SOCKTYPE_TCPIP" THEN "accept" ELSE "recv")
    /\ UNCHANGED <<mode, object, client, bindAttempts, spc, kernel, threads, starts>>

(* accept() returns a connection: a new ncSocket takes its descriptor. *)
Accept(c, f) ==
    /\ pc = "accept" /\ c \in pending
    /\ Own /\ "listening" \in sk[m_sockfd] /\ Lowest(f)
    /\ pending' = pending \ {c}
    /\ client' = f /\ fd' = [fd EXCEPT ![f] = c]
    /\ IF Option = "NC_THREADED"
       THEN Goto("spawn") /\ UNCHANGED worker
       ELSE Goto("inline") /\ worker' = [worker EXCEPT ![c] = "running"]
    /\ UNCHANGED <<mode, object, bindAttempts, spc, sk, woken, reaped, starts>>

(* accept() returns -1: nobody waits, or an error; ncSleep(100). *)
AcceptFails ==
    /\ pc = "accept"
    /\ Goto("loop")
    /\ UNCHANGED <<mode, object, client, bindAttempts, spc, kernel, threads, starts>>

(* The thread starts, and is detached, or joined, or neither. *)
Spawn_NeverJoins ==
    /\ pc = "spawn"
    /\ worker' = [worker EXCEPT ![fd[client]] = "running"]
    /\ reaped' = IF Flags = {"NC_DETACHED"} THEN reaped \union {fd[client]} ELSE reaped
    /\ Goto("loop")
    /\ UNCHANGED <<mode, object, client, bindAttempts, spc, kernel, starts>>
Spawn ==
    /\ pc = "spawn"
    /\ worker' = [worker EXCEPT ![fd[client]] = "running"]
    /\ reaped' = IF Flags = {"NC_DETACHED"} THEN reaped \union {fd[client]} ELSE reaped
    /\ Goto(IF Flags = {"NC_JOINED"} THEN "join" ELSE "loop")
    /\ UNCHANGED <<mode, object, client, bindAttempts, spc, kernel, starts>>

(* The thread does not start: delete newSock closes the connection. *)
SpawnFails_NoDelete ==
    /\ pc = "spawn"
    /\ Return("NC_FAILED")
    /\ UNCHANGED <<mode, object, client, bindAttempts, spc, kernel, threads, starts>>
SpawnFails ==
    /\ pc = "spawn"
    /\ fd' = IF client > 0 THEN [fd EXCEPT ![client] = "free"] ELSE fd
    /\ Return("NC_FAILED")
    /\ UNCHANGED <<mode, object, client, bindAttempts, spc, sk, woken, pending, threads,
                   starts>>

(* recvfrom() blocks.  On a descriptor that is gone it returns -1 at once,  *)
(* and the constructor of udpData copies that many bytes as a size_t: the   *)
(* process does not survive it.                                             *)
Recv ==
    /\ pc = "recv"
    /\ Goto(IF Own THEN "blocked" ELSE "crash")
    /\ woken' = FALSE
    /\ UNCHANGED <<mode, object, client, bindAttempts, spc, fd, sk, pending, threads,
                   starts>>

RecvReturns(c) ==
    /\ pc = "blocked" /\ c \in pending
    /\ pending' = pending \ {c}
    /\ client' = c /\ worker' = [worker EXCEPT ![c] = "running"]
    /\ Goto("inline")
    /\ UNCHANGED <<mode, object, bindAttempts, spc, fd, sk, woken, reaped, starts>>

(* It returns -1 on the open socket as well: a signal has interrupted it,   *)
(* or (WIN32) the datagram is larger than the buffer.                       *)
RecvFails ==
    /\ pc = "blocked"
    /\ Goto("crash")
    /\ UNCHANGED <<mode, object, client, bindAttempts, spc, kernel, threads, starts>>

(* recvfrom() returns 0 after a shutdown(). *)
RecvWoken ==
    /\ pc = "blocked" /\ woken
    /\ Goto("empty")
    /\ UNCHANGED <<mode, object, client, bindAttempts, spc, kernel, threads, starts>>

(* The callback is called also when recvfrom() gave no datagram; udpData    *)
(* has the length 0.                                                        *)
EmptyCallback ==
    /\ pc = "empty"
    /\ Goto("loop")
    /\ UNCHANGED <<mode, object, client, bindAttempts, spc, kernel, threads, starts>>
-----------------------------------------------------------------------------
(* The callbacks.  A TCP callback deletes its ncSocket, whose destructor    *)
(* closes the descriptor if it is greater than 0.                           *)

FdOf(c) == {f \in Fds : fd[f] = c}

CallbackEnds(c) ==
    /\ worker[c] = "running"
    /\ worker' = [worker EXCEPT ![c] = "done"]
    /\ fd' = [f \in Fds |-> IF f \in FdOf(c) /\ f > 0 THEN "free" ELSE fd[f]]
    /\ UNCHANGED <<mode, object, pc, local, spc, sk, woken, pending, reaped, starts>>

InlineReturns ==
    /\ pc = "inline"
    /\ \A c \in Clients : worker[c] # "running"
    /\ Goto("loop")
    /\ UNCHANGED <<mode, object, client, bindAttempts, spc, kernel, threads, starts>>

Join ==
    /\ pc = "join"
    /\ \A c \in Clients : worker[c] # "running"
    /\ reaped' = {c \in Clients : worker[c] = "done"}
    /\ Goto("loop")
    /\ UNCHANGED <<mode, object, client, bindAttempts, spc, kernel, worker, starts>>
-----------------------------------------------------------------------------
(* stopListening, and the destructor followed by a new object. *)

Stop ==
    /\ spc = "rest"
    /\ m_listening' = 0 /\ spc' = "sleep"
    /\ UNCHANGED <<mode, m_sockfd, pc, local, kernel, threads, starts>>

StopCloses_NoShutdown ==
    /\ spc = "sleep"
    /\ IF m_sockfd # 0
       THEN spc' = "zero" /\ CloseSockfd
       ELSE spc' = "rest" /\ UNCHANGED <<fd, sk, pending>>
    /\ UNCHANGED <<mode, object, pc, local, woken, threads, starts>>
StopCloses ==
    /\ spc = "sleep"
    /\ IF m_sockfd # 0
       THEN /\ spc' = "zero"
            /\ woken' = (woken \/ (pc = "blocked" /\ Own))
            /\ CloseSockfd
       ELSE spc' = "rest" /\ UNCHANGED kernel
    /\ UNCHANGED <<mode, object, pc, local, threads, starts>>

StopZeroes_Skipped ==
    /\ spc = "zero"
    /\ spc' = "rest"
    /\ UNCHANGED <<mode, object, pc, local, kernel, threads, starts>>
StopZeroes ==
    /\ spc = "zero"
    /\ m_sockfd' = 0 /\ spc' = "rest"
    /\ UNCHANGED <<mode, m_listening, pc, local, kernel, threads, starts>>

Recreate ==
    /\ pc = "rest" /\ spc = "rest"
    /\ IF m_sockfd # 0 THEN CloseSockfd ELSE UNCHANGED <<fd, sk, pending>>
    /\ m_sockfd' = 0 /\ m_listening' = 0
    /\ UNCHANGED <<mode, pc, local, spc, woken, threads, starts>>
-----------------------------------------------------------------------------
(* The rest of the process and the network. *)

AppOpens(f) ==
    /\ Lowest(f) /\ Cardinality({g \in Fds : fd[g] = "app"}) < AppFiles
    /\ fd' = [fd EXCEPT ![f] = "app"]
    /\ UNCHANGED <<mode, object, pc, local, spc, sk, woken, pending, threads, starts>>

(* A client reaches a socket that is ready for it. *)
Reaches(c) ==
    /\ worker[c] = "none" /\ FdOf(c) = {} /\ c \notin pending
    /\ \E f \in Fds :
        IF SockType = "SOCKTYPE_TCPIP" THEN "listening" \in sk[f] ELSE "bound" \in sk[f]
    /\ pending' = pending \union {c}
    /\ UNCHANGED <<mode, object, pc, local, spc, fd, sk, woken, threads, starts>>

Listener ==
    \/ SocketFails \/ Arm \/ SetReuse \/ BindSucceeds \/ BindFails(TRUE) \/ BindFails(FALSE)
    \/ Listen \/ LoopTest \/ AcceptFails \/ Spawn \/ SpawnFails
    \/ Recv \/ RecvWoken \/ EmptyCallback \/ InlineReturns \/ Join
    \/ \E f \in Fds : SocketOpens(f) \/ \E c \in Clients : Accept(c, f)
    \/ \E c \in Clients : RecvReturns(c)

Stopper == StopCloses \/ StopZeroes

Alive == pc # "crash"

Next ==
    /\ Alive
    /\ \/ Start \/ Listener \/ RecvFails
       \/ Stop \/ Stopper \/ Recreate
       \/ \E f \in Fds : AppOpens(f)
       \/ \E c \in Clients : Reaches(c) \/ CallbackEnds(c)

Spec == Init /\ [][Next]_vars

(* Every thread that can run is run: the listener, the caller of            *)
(* stopListening once it is in it, and the callbacks, which return.  Only   *)
(* an error of recvfrom() on its open socket need never come.               *)
FairSpec ==
    /\ Spec
    /\ WF_vars(Listener) /\ WF_vars(Alive /\ Stopper)
    /\ \A c \in Clients : WF_vars(Alive /\ CallbackEnds(c))
-----------------------------------------------------------------------------
(* Properties. *)

(* No descriptor is lost: a listening socket that is open is the one in     *)
(* m_sockfd (or number 0, which startListening takes for a failed socket()  *)
(* and forgets), and an open connection is in the hands of its callback or  *)
(* of the listener that has just accepted it.  A failed thread start, a     *)
(* stop in the middle of a dispatch and restarts keep it so.                *)
DescriptorsOwned ==
    \A f \in Fds \ {0} :
        /\ fd[f] = "lsock" => f = m_sockfd
        /\ fd[f] \in Clients => \/ worker[fd[f]] = "running"
                                \/ pc = "spawn" /\ client = f

(* Callbacks never overlap, and none outlives startListening, when they are *)
(* plain calls or when the flags are exactly NC_JOINED.                     *)
Serial == SockType = "SOCKTYPE_UDP" \/ Option # "NC_THREADED" \/ Flags = {"NC_JOINED"}
CallbacksSerial ==
    Serial => LET running == {c \in Clients : worker[c] = "running"}
              IN  running # {} => pc \in {"inline", "join"} /\ \E c \in Clients : running = {c}

(* Nobody but a callback closes its connection, and nobody closes a         *)
(* descriptor of the application's: stopListening and the destructor, run   *)
(* any number of times, close the listener's own socket or nothing.         *)
OthersIntact ==
    [][\A f \in Fds : /\ fd[f] = "app" => fd'[f] = "app"
                      /\ fd[f] \in Clients /\ worker[fd[f]] = "running"
                            => fd'[f] = fd[f] \/ worker'[fd[f]] = "done"]_vars

(* No wake-up is lost: a UDP listener that has been told to stop and is     *)
(* blocked in recvfrom() has been shut down, or the stopListening that told *)
(* it so is still to do it; unless it blocks on a socket with the number 0  *)
(* that an earlier startListening has forgotten.                            *)
StopWakes ==
    pc = "blocked" /\ m_listening = 0 /\ fd[0] # "lsock" => woken \/ spc = "sleep"

(* A stopListening that comes once the listener is armed ends it, whether   *)
(* it is binding, accepting, blocked in recvfrom() or in a callback; unless *)
(* an earlier startListening has forgotten a socket with the number 0: a    *)
(* late recvfrom(m_sockfd), zero by then, would block on that one.  A UDP   *)
(* listener may take the process with it.                                   *)
Ended == pc \in {"rest", "crash"}
Armed == pc \notin {"rest", "socket", "args"}
StopEndsListener ==
    (Armed /\ m_listening = 0 /\ m_sockfd # 0 /\ fd[0] # "lsock") ~> Ended

(* The steps that a listener which has been told to stop may still take.    *)
StepsLeft ==
    CASE pc \in {"opt", "accept", "recv"} -> 4
      [] pc \in {"bind", "spawn", "blocked"} -> 3
      [] pc \in {"listen", "inline", "join", "empty"} -> 2
      [] pc = "loop" -> 1
      [] OTHER -> 0

(* Why it ends: nothing arms the listener again, and each further step of   *)
(* startListening brings it nearer to its return.  So it takes at most four *)
(* steps after the stop: it gives up binding at the first failure, and it   *)
(* dispatches at most the one client it was about to accept or receive.     *)
StopAdvances ==
    [][Armed /\ m_listening = 0 =>
         /\ m_listening' = 0 /\ StepsLeft' <= StepsLeft
         /\ Listener => StepsLeft' < StepsLeft]_vars

(* ncsocklist.h: stopListening "stops the listener after next               *)
(* (non-blocking) accept call".                                             *)
StopAlwaysEnds == (spc = "sleep" /\ pc # "rest") ~> Ended

(* ncsocklist.h: "if flags is NC_DETACHED, the thread is detached,          *)
(* otherwise it's joined".                                                  *)
EveryThreadReaped ==
    Option = "NC_THREADED" /\ pc = "accept"
        => \A c \in Clients : worker[c] # "none" => c \in reaped

(* ncsocklist.cpp, "bind socket to port": what is served is the port asked  *)
(* for.                                                                     *)
ServesItsPort == \A f \in Fds : "listening" \in sk[f] => "bound" \in sk[f]
=============================================================================
