--------------------------- MODULE NcListenerProofs ---------------------------
(***************************************************************************)
(* Proofs about ncSocketListener for any set of clients, any arguments, a  *)
(* descriptor table of any size and any number of restarts: no descriptor  *)
(* is lost, none that belongs to somebody else is closed, and callbacks    *)
(* that the caller asked to run one by one never overlap.                  *)
(***************************************************************************)
EXTENDS NcListener, TLAPS

(* Whose each descriptor is.  Before stopListening has closed m_sockfd it   *)
(* is the listener's own socket; between the close and the zeroing it is    *)
(* not, whoever has the number by then.  A client that waits has neither a  *)
(* descriptor nor a callback, one in dispatch has no callback yet.          *)
Ledger ==
    /\ DescriptorsOwned
    /\ pc = "socket" => m_sockfd = 0 /\ spc # "zero"
    /\ spc = "zero" => m_sockfd # 0
    /\ m_sockfd \in Fds \ {0} => (fd[m_sockfd] = "lsock" <=> spc # "zero")
    /\ pc = "spawn" => /\ client \in Fds /\ fd[client] \in Clients
                       /\ worker[fd[client]] = "none"
    /\ \A c \in pending : worker[c] = "none" /\ \A f \in Fds : fd[f] # c

(* Which dispatch the arguments lead to.                                    *)
Dispatch ==
    /\ pc \in {"listen", "accept", "spawn"} => SockType = "SOCKTYPE_TCPIP"
    /\ pc = "spawn" => Option = "NC_THREADED"
    /\ CallbacksSerial

IInv == TypeOK /\ Ledger /\ Dispatch

(* A new object, with descriptor 0 open or not.                             *)
LEMMA InitIInv == Init => IInv
<1> SUFFICES ASSUME Init PROVE IInv
  OBVIOUS
<1>1. PICK stdin \in {"app", "free"} :
        fd = [f \in Fds |-> IF f = 0 THEN stdin ELSE "free"]
  BY DEF Init
<1>2. 0 \in Fds
  BY ListenerAssumption DEF Fds
<1>3. fd \in [Fds -> Clients \union {"free", "app", "lsock"}]
  BY <1>1
<1>4. TypeOK
  <2>1. /\ m_sockfd \in Fds \union {-1} /\ m_listening \in {0, 1}
        /\ client \in Fds \union Clients \union {-1}
        /\ bindAttempts \in 0..BindTries /\ starts \in 0..MaxStarts
    BY <1>2, ListenerAssumption DEF Init
  <2>2. /\ mode \in Modes /\ woken \in BOOLEAN
        /\ pending \subseteq Clients /\ reaped \subseteq Clients
        /\ sk \in [Fds -> SUBSET {"bound", "listening"}]
        /\ worker \in [Clients -> {"none", "running", "done"}]
    BY DEF Init
  <2>3. /\ pc = "rest" /\ ret = "NC_OK" /\ spc = "rest"
    BY DEF Init
  <2> QED
    BY <1>3, <2>1, <2>2, <2>3 DEF TypeOK
<1>5. Ledger
  BY <1>1, <1>2, ListenerAssumption DEF Init, Ledger, DescriptorsOwned
<1>6. Dispatch
  BY DEF Init, Dispatch, CallbacksSerial
<1> QED
  BY <1>4, <1>5, <1>6 DEF IInv

(* Steps of startListening that touch neither descriptors nor callbacks.    *)
LEMMA QuietStep ==
    ASSUME IInv, UNCHANGED <<mode, m_sockfd, fd, worker, pending, spc>>,
           TypeOK', pc' \notin {"socket", "spawn"},
           pc \notin {"socket", "spawn"},
           pc \in {"inline", "join"} /\ pc' # pc => \A c \in Clients : worker[c] # "running",
           pc' \in {"listen", "accept"} => SockType = "SOCKTYPE_TCPIP"
    PROVE  IInv'
<1>1. Ledger'
  BY DEF IInv, Ledger, DescriptorsOwned, Fds
<1>2. CallbacksSerial'
  BY DEF IInv, Dispatch, CallbacksSerial, Serial, SockType, Option, Flags
<1> QED
  BY <1>1, <1>2 DEF IInv, Dispatch, SockType

(* startListening up to its loop.                                           *)
LEMMA SetupIInv ==
    ASSUME IInv,
           Arm \/ SetReuse \/ BindSucceeds \/ BindFails(TRUE) \/ BindFails(FALSE) \/ Listen
    PROVE  IInv'
<1> USE ListenerAssumption DEF Goto, Return, object, kernel, threads
<1>1. CASE Arm
  <2>1. TypeOK'
    BY <1>1 DEF Arm, IInv, TypeOK
  <2> QED
    BY <1>1, <2>1, QuietStep DEF Arm
<1>2. CASE SetReuse
  <2>1. TypeOK'
    BY <1>2 DEF SetReuse, IInv, TypeOK
  <2> QED
    BY <1>2, <2>1, QuietStep DEF SetReuse
<1>3. CASE BindSucceeds
  <2>1. TypeOK'
    BY <1>3 DEF BindSucceeds, AfterBind, Own, IInv, TypeOK
  <2> QED
    BY <1>3, <2>1, QuietStep DEF BindSucceeds, AfterBind
<1>4. ASSUME NEW inUse \in BOOLEAN, BindFails(inUse) PROVE IInv'
  <2>1. TypeOK'
    BY <1>4 DEF BindFails, AfterBind, IInv, TypeOK
  <2> QED
    BY <1>4, <2>1, QuietStep DEF BindFails, AfterBind
<1>5. CASE Listen
  <2>1. TypeOK'
    BY <1>5 DEF Listen, Own, IInv, TypeOK
  <2> QED
    BY <1>5, <2>1, QuietStep DEF Listen
<1> QED
  BY <1>1, <1>2, <1>3, <1>4, <1>5

(* The steps of the loop that dispatch nobody.                              *)
LEMMA LoopIInv ==
    ASSUME IInv,
           LoopTest \/ AcceptFails \/ Recv \/ RecvFails \/ RecvWoken \/ EmptyCallback
             \/ InlineReturns \/ Join
    PROVE  IInv'
<1> USE ListenerAssumption DEF Goto, Return, object, kernel, threads
<1>1. CASE LoopTest
  <2>1. TypeOK'
    BY <1>1 DEF LoopTest, IInv, TypeOK
  <2> QED
    BY <1>1, <2>1, QuietStep DEF LoopTest
<1>2. CASE AcceptFails \/ RecvFails \/ RecvWoken \/ EmptyCallback \/ InlineReturns
  <2>1. TypeOK'
    BY <1>2 DEF AcceptFails, RecvFails, RecvWoken, EmptyCallback, InlineReturns, IInv, TypeOK
  <2> QED
    BY <1>2, <2>1, QuietStep DEF AcceptFails, RecvFails, RecvWoken, EmptyCallback, InlineReturns
<1>3. CASE Recv
  <2>1. TypeOK'
    BY <1>3 DEF Recv, IInv, TypeOK
  <2> QED
    BY <1>3, <2>1, QuietStep DEF Recv
<1>4. CASE Join
  <2>1. TypeOK'
    BY <1>4 DEF Join, IInv, TypeOK
  <2> QED
    BY <1>4, <2>1, QuietStep DEF Join
<1> QED
  BY <1>1, <1>2, <1>3, <1>4

(* A descriptor is opened: by startListening, for a connection, or by the   *)
(* application.                                                             *)
LEMMA OpenIInv ==
    ASSUME IInv, NEW f \in Fds,
           SocketOpens(f) \/ AppOpens(f) \/ \E c \in Clients : Accept(c, f)
    PROVE  IInv'
<1> USE ListenerAssumption DEF Goto, Return, object, local, kernel, threads, FreeFds, Lowest
<1>1. CASE SocketOpens(f)
  <2>1. TypeOK'
    BY <1>1 DEF SocketOpens, IInv, TypeOK
  <2>2. Ledger'
    BY <1>1 DEF SocketOpens, IInv, TypeOK, Ledger, DescriptorsOwned
  <2>3. Dispatch'
    BY <1>1 DEF SocketOpens, IInv, Dispatch, CallbacksSerial, Serial, SockType, Option, Flags
  <2> QED
    BY <2>1, <2>2, <2>3 DEF IInv
<1>2. CASE AppOpens(f)
  <2>1. TypeOK'
    BY <1>2 DEF AppOpens, IInv, TypeOK
  <2>2. Ledger'
    BY <1>2 DEF AppOpens, IInv, TypeOK, Ledger, DescriptorsOwned
  <2>3. Dispatch'
    BY <1>2 DEF AppOpens, IInv, Dispatch, CallbacksSerial, Serial, SockType, Option, Flags
  <2> QED
    BY <2>1, <2>2, <2>3 DEF IInv
<1>3. ASSUME NEW c \in Clients, Accept(c, f) PROVE IInv'
  <2>1. TypeOK'
    BY <1>3 DEF Accept, IInv, TypeOK
  <2>2. worker[c] = "none" /\ \A g \in Fds : fd[g] # c
    BY <1>3 DEF Accept, IInv, Ledger
  <2>3. Ledger'
    BY <1>3, <2>2 DEF Accept, IInv, TypeOK, Ledger, DescriptorsOwned
  <2>4. Dispatch'
    BY <1>3 DEF Accept, IInv, TypeOK, Dispatch, CallbacksSerial, Serial, SockType, Option,
                Flags
  <2> QED
    BY <2>1, <2>3, <2>4 DEF IInv
<1> QED
  BY <1>1, <1>2, <1>3

(* A callback begins or ends, or its thread does not start.                 *)
LEMMA CallbackIInv ==
    ASSUME IInv,
           Spawn \/ SpawnFails \/ \E c \in Clients : RecvReturns(c) \/ CallbackEnds(c)
    PROVE  IInv'
<1> USE ListenerAssumption DEF Goto, Return, object, local, kernel, threads
<1>1. CASE Spawn
  <2>1. fd[client] \in Clients
    BY <1>1 DEF Spawn, IInv, Ledger
  <2>2. TypeOK'
    BY <1>1, <2>1 DEF Spawn, IInv, TypeOK
  <2>3. Ledger'
    BY <1>1, <2>1 DEF Spawn, IInv, TypeOK, Ledger, DescriptorsOwned
  <2>4. Dispatch'
    BY <1>1, <2>1 DEF Spawn, IInv, TypeOK, Dispatch, CallbacksSerial, Serial, SockType,
                      Option, Flags
  <2> QED
    BY <2>2, <2>3, <2>4 DEF IInv
<1>2. CASE SpawnFails
  <2>1. TypeOK'
    BY <1>2 DEF SpawnFails, IInv, TypeOK
  <2>2. Ledger'
    BY <1>2 DEF SpawnFails, IInv, TypeOK, Ledger, DescriptorsOwned, Fds
  <2>3. Dispatch'
    BY <1>2 DEF SpawnFails, IInv, Dispatch, CallbacksSerial, Serial, SockType, Option, Flags
  <2> QED
    BY <2>1, <2>2, <2>3 DEF IInv
<1>3. ASSUME NEW c \in Clients, RecvReturns(c) PROVE IInv'
  <2>1. TypeOK'
    BY <1>3 DEF RecvReturns, IInv, TypeOK
  <2>2. Ledger'
    BY <1>3 DEF RecvReturns, IInv, TypeOK, Ledger, DescriptorsOwned
  <2>3. Dispatch'
    BY <1>3 DEF RecvReturns, IInv, TypeOK, Dispatch, CallbacksSerial, Serial, SockType,
                Option, Flags
  <2> QED
    BY <2>1, <2>2, <2>3 DEF IInv
<1>4. ASSUME NEW c \in Clients, CallbackEnds(c) PROVE IInv'
  <2>1. TypeOK'
    BY <1>4 DEF CallbackEnds, FdOf, IInv, TypeOK
  <2>2. Ledger'
    BY <1>4 DEF CallbackEnds, FdOf, IInv, TypeOK, Ledger, DescriptorsOwned, Fds
  <2>3. Dispatch'
    BY <1>4 DEF CallbackEnds, IInv, TypeOK, Dispatch, CallbacksSerial, Serial, SockType,
                Option, Flags
  <2> QED
    BY <2>1, <2>2, <2>3 DEF IInv
<1> QED
  BY <1>1, <1>2, <1>3, <1>4

(* A start, a socket() that fails, and a client that arrives.               *)
LEMMA ArrivalIInv ==
    ASSUME IInv, Start \/ SocketFails \/ \E c \in Clients : Reaches(c)
    PROVE  IInv'
<1> USE ListenerAssumption DEF Goto, object, local, kernel, threads
<1>1. CASE Start
  <2>1. TypeOK'
    BY <1>1 DEF Start, IInv, TypeOK
  <2>2. Ledger'
    BY <1>1 DEF Start, IInv, Ledger, DescriptorsOwned, Fds
  <2>3. Dispatch'
    BY <1>1 DEF Start, IInv, Dispatch, CallbacksSerial, Serial, SockType, Option, Flags
  <2> QED
    BY <2>1, <2>2, <2>3 DEF IInv
<1>2. CASE SocketFails
  <2>1. TypeOK'
    BY <1>2 DEF SocketFails, IInv, TypeOK
  <2>2. Ledger'
    BY <1>2 DEF SocketFails, IInv, TypeOK, Ledger, DescriptorsOwned, Fds
  <2>3. Dispatch'
    BY <1>2 DEF SocketFails, IInv, Dispatch, CallbacksSerial, Serial, SockType, Option, Flags
  <2> QED
    BY <2>1, <2>2, <2>3 DEF IInv
<1>3. ASSUME NEW c \in Clients, Reaches(c) PROVE IInv'
  <2>1. TypeOK'
    BY <1>3 DEF Reaches, IInv, TypeOK
  <2>2. Ledger'
    BY <1>3 DEF Reaches, FdOf, IInv, Ledger, DescriptorsOwned
  <2>3. Dispatch'
    BY <1>3 DEF Reaches, IInv, Dispatch, CallbacksSerial, Serial, SockType, Option, Flags
  <2> QED
    BY <2>1, <2>2, <2>3 DEF IInv
<1> QED
  BY <1>1, <1>2, <1>3

(* stopListening and the destructor: what they close is the listener's own  *)
(* socket.                                                                  *)
LEMMA StopIInv ==
    ASSUME IInv, Stop \/ StopCloses \/ StopZeroes \/ Recreate
    PROVE  IInv'
<1> USE ListenerAssumption DEF object, local, kernel, threads
<1>1. CASE Stop
  <2>1. TypeOK'
    BY <1>1 DEF Stop, IInv, TypeOK
  <2>2. Ledger'
    BY <1>1 DEF Stop, IInv, Ledger, DescriptorsOwned, Fds
  <2>3. Dispatch'
    BY <1>1 DEF Stop, IInv, Dispatch, CallbacksSerial, Serial, SockType, Option, Flags
  <2> QED
    BY <2>1, <2>2, <2>3 DEF IInv
<1>2. CASE StopCloses
  <2>1. TypeOK'
    BY <1>2 DEF StopCloses, CloseSockfd, Own, IInv, TypeOK
  <2>2. Ledger'
    BY <1>2 DEF StopCloses, CloseSockfd, Own, IInv, TypeOK, Ledger, DescriptorsOwned, Fds
  <2>3. Dispatch'
    BY <1>2 DEF StopCloses, IInv, Dispatch, CallbacksSerial, Serial, SockType, Option, Flags
  <2> QED
    BY <2>1, <2>2, <2>3 DEF IInv
<1>3. CASE StopZeroes
  <2>1. TypeOK'
    BY <1>3 DEF StopZeroes, IInv, TypeOK, Fds
  <2>2. Ledger'
    BY <1>3 DEF StopZeroes, IInv, TypeOK, Ledger, DescriptorsOwned, Fds
  <2>3. Dispatch'
    BY <1>3 DEF StopZeroes, IInv, Dispatch, CallbacksSerial, Serial, SockType, Option, Flags
  <2> QED
    BY <2>1, <2>2, <2>3 DEF IInv
<1>4. CASE Recreate
  <2>1. TypeOK'
    BY <1>4 DEF Recreate, CloseSockfd, Own, IInv, TypeOK, Fds
  <2>2. Ledger'
    BY <1>4 DEF Recreate, CloseSockfd, Own, IInv, TypeOK, Ledger, DescriptorsOwned, Fds
  <2>3. Dispatch'
    BY <1>4 DEF Recreate, IInv, Dispatch, CallbacksSerial, Serial, SockType, Option, Flags
  <2> QED
    BY <2>1, <2>2, <2>3 DEF IInv
<1> QED
  BY <1>1, <1>2, <1>3, <1>4

(* Every step keeps the invariant.                                          *)
LEMMA NextIInv == IInv /\ [Next]_vars => IInv'
<1> SUFFICES ASSUME IInv, [Next]_vars PROVE IInv'
  OBVIOUS
<1>1. CASE UNCHANGED vars
  BY <1>1 DEF vars, object, local, kernel, threads, IInv, TypeOK, Ledger, Dispatch,
              DescriptorsOwned, CallbacksSerial, Serial, SockType, Option, Flags, Fds
<1>2. CASE Listener
  BY <1>2, SetupIInv, LoopIInv, OpenIInv, CallbackIInv, ArrivalIInv DEF Listener
<1>3. CASE Next /\ ~Listener
  BY <1>3, LoopIInv, OpenIInv, CallbackIInv, ArrivalIInv, StopIInv DEF Next, Stopper
<1> QED
  BY <1>1, <1>2, <1>3

-------------------------------------------------------------------------------
(* Every variable of the listener keeps its type: in particular the bind    *)
(* loop makes no more than its attempts, and the fields stay descriptors.   *)
THEOREM ListenerTypes == Spec => []TypeOK
<1>1. IInv => TypeOK
  BY DEF IInv
<1> QED
  BY <1>1, InitIInv, NextIInv, PTL DEF Spec

(* No descriptor is lost by startListening, stopListening, the destructor   *)
(* or a thread that does not start.                                         *)
THEOREM ListenerOwnsDescriptors == Spec => []DescriptorsOwned
<1>1. IInv => DescriptorsOwned
  BY DEF IInv, Ledger
<1> QED
  BY <1>1, InitIInv, NextIInv, PTL DEF Spec

(* Callbacks that are plain calls, or run with exactly NC_JOINED, never     *)
(* overlap and never outlive startListening.                                *)
THEOREM ListenerCallbacksSerial == Spec => []CallbacksSerial
<1>1. IInv => CallbacksSerial
  BY DEF IInv, Dispatch
<1> QED
  BY <1>1, InitIInv, NextIInv, PTL DEF Spec

(* stopListening and the destructor, however often they run, close no       *)
(* descriptor of a running callback or of the application.                  *)
THEOREM ListenerLeavesOthers == Spec => OthersIntact
<1> DEFINE Intact(f) == /\ fd[f] = "app" => fd'[f] = "app"
                        /\ fd[f] \in Clients /\ worker[fd[f]] = "running"
                              => fd'[f] = fd[f] \/ worker'[fd[f]] = "done"
<1>1. ASSUME IInv, Next, NEW f \in Fds PROVE Intact(f)
  <2> USE ListenerAssumption DEF IInv, TypeOK, Fds
  <2>1. ASSUME fd' = fd PROVE Intact(f)
    BY <2>1
  <2>2. ASSUME StopCloses \/ Recreate PROVE Intact(f)
    BY <1>1, <2>2 DEF StopCloses, Recreate, CloseSockfd, kernel, Ledger
  <2>3. ASSUME NEW g \in Fds, SocketOpens(g) \/ AppOpens(g) \/ \E c \in Clients : Accept(c, g)
        PROVE  Intact(f)
    BY <1>1, <2>3 DEF SocketOpens, AppOpens, Accept, Lowest, FreeFds
  <2>4. ASSUME SpawnFails PROVE Intact(f)
    BY <1>1, <2>4 DEF SpawnFails, Ledger
  <2>5. ASSUME NEW c \in Clients, CallbackEnds(c) PROVE Intact(f)
    BY <1>1, <2>5 DEF CallbackEnds, FdOf
  <2> QED
    BY <1>1, <2>1, <2>2, <2>3, <2>4, <2>5
    DEF Next, Listener, Stopper, Start, SocketFails, Arm, SetReuse, BindSucceeds, BindFails,
        Listen, LoopTest, AcceptFails, Spawn, Recv, RecvReturns, RecvFails, RecvWoken, EmptyCallback,
        InlineReturns, Join, Stop, StopZeroes, Reaches, kernel
<1>2. IInv /\ [Next]_vars => [\A f \in Fds : Intact(f)]_vars
  BY <1>1
<1> QED
  BY <1>2, InitIInv, NextIInv, PTL DEF Spec, OthersIntact
-------------------------------------------------------------------------------
(* A step of startListening after a stop brings it nearer to its end.       *)
LEMMA ListenerNearsEnd ==
    ASSUME IInv, Listener, Armed, m_listening = 0
    PROVE  m_listening' = 0 /\ StepsLeft' \in Nat /\ StepsLeft' < StepsLeft
<1> USE DEF Armed, StepsLeft, Goto, Return, object
<1>1. CASE SetReuse \/ Listen
  BY <1>1 DEF SetReuse, Listen
<1>2. CASE BindSucceeds \/ BindFails(TRUE) \/ BindFails(FALSE)
  BY <1>2 DEF BindSucceeds, BindFails, AfterBind
<1>3. CASE LoopTest
  BY <1>3 DEF LoopTest
<1>4. CASE AcceptFails \/ \E c \in Clients, f \in Fds : Accept(c, f)
  BY <1>4 DEF AcceptFails, Accept
<1>5. CASE Spawn \/ SpawnFails \/ InlineReturns \/ Join
  BY <1>5 DEF Spawn, SpawnFails, InlineReturns, Join
<1>6. CASE Recv \/ RecvWoken \/ EmptyCallback \/ \E c \in Clients : RecvReturns(c)
  BY <1>6 DEF Recv, RecvWoken, EmptyCallback, RecvReturns
<1>7. ~(SocketFails \/ Arm \/ \E f \in Fds : SocketOpens(f))
  BY DEF SocketFails, Arm, SocketOpens
<1> QED
  BY <1>1, <1>2, <1>3, <1>4, <1>5, <1>6, <1>7 DEF Listener

(* After a stop that finds the listener armed, nothing arms it again and    *)
(* startListening takes at most four more steps, for any number of clients, *)
(* bind attempts and restarts: the part of StopEndsListener that is neither *)
(* fairness nor the wake-up of recvfrom().                                  *)
THEOREM ListenerStopAdvances == Spec => StopAdvances
<1>1. IInv /\ [Next]_vars =>
        [Armed /\ m_listening = 0 =>
           /\ m_listening' = 0 /\ StepsLeft' <= StepsLeft
           /\ Listener => StepsLeft' < StepsLeft]_vars
  <2> SUFFICES ASSUME IInv, Next, Armed, m_listening = 0
               PROVE  /\ m_listening' = 0 /\ StepsLeft' <= StepsLeft
                      /\ Listener => StepsLeft' < StepsLeft
    OBVIOUS
  <2>1. StepsLeft \in Nat
    BY DEF StepsLeft
  <2>2. CASE Listener
    BY <2>1, <2>2, ListenerNearsEnd
  <2>3. CASE RecvFails
    <3>1. m_listening' = 0 /\ pc' = "crash"
      BY <2>3 DEF RecvFails, Goto, object
    <3>2. StepsLeft' = 0 /\ StepsLeft = 3
      BY <2>3, <3>1 DEF RecvFails, StepsLeft
    <3> QED
      BY <3>1, <3>2
  <2>4. CASE ~Listener /\ ~RecvFails
    <3>1. m_listening' = 0 /\ pc' = pc
      BY <2>4 DEF Next, Armed, Start, Stop, Stopper, StopCloses, StopZeroes, Recreate, AppOpens,
                  Reaches, CallbackEnds, object
    <3>2. StepsLeft' = StepsLeft
      BY <3>1 DEF StepsLeft
    <3> QED
      BY <2>1, <2>4, <3>1, <3>2
  <2> QED
    BY <2>2, <2>3, <2>4
<1> QED
  BY <1>1, InitIInv, NextIInv, PTL DEF Spec, StopAdvances
-------------------------------------------------------------------------------
(* A stop is in progress until it has zeroed m_sockfd, and a recvfrom()     *)
(* that nobody has woken is on a socket that nobody has closed.             *)
Waking ==
    /\ Armed /\ Alive /\ m_listening = 0 /\ m_sockfd # 0 => spc # "rest"
    /\ pc = "blocked" => woken \/ Own

(* Every step keeps it so.                                                  *)
LEMMA NextWaking == IInv /\ Waking /\ [Next]_vars => Waking'
<1> SUFFICES ASSUME IInv, Waking, [Next]_vars PROVE Waking'
  OBVIOUS
<1> USE ListenerAssumption DEF Waking, Own, Armed, Alive, Goto, Return, object, local, kernel, threads
<1>1. CASE UNCHANGED vars
  BY <1>1 DEF vars
<1>2. CASE Alive /\ Listener
  <2>1. CASE Recv
    BY <2>1 DEF Recv
  <2>2. CASE SocketFails \/ Arm \/ SetReuse \/ Listen \/ \E f \in Fds : SocketOpens(f)
    BY <2>2 DEF SocketFails, Arm, SetReuse, Listen, SocketOpens
  <2>3. CASE BindSucceeds \/ BindFails(TRUE) \/ BindFails(FALSE)
    BY <2>3 DEF BindSucceeds, BindFails, AfterBind
  <2>4. CASE LoopTest \/ AcceptFails \/ RecvWoken \/ EmptyCallback \/ InlineReturns \/ Join
    BY <2>4 DEF LoopTest, AcceptFails, RecvWoken, EmptyCallback, InlineReturns, Join
  <2>5. CASE Spawn \/ SpawnFails
    BY <2>5 DEF Spawn, SpawnFails
  <2>6. ASSUME NEW c \in Clients, RecvReturns(c) \/ \E f \in Fds : Accept(c, f) PROVE Waking'
    BY <2>6 DEF RecvReturns, Accept
  <2> QED
    BY <1>2, <2>1, <2>2, <2>3, <2>4, <2>5, <2>6 DEF Listener
<1>3. CASE Start \/ Stop \/ Recreate \/ RecvFails
  BY <1>3 DEF Start, Stop, Recreate, RecvFails
<1>4. CASE StopCloses
  BY <1>4 DEF StopCloses, CloseSockfd
<1>5. CASE StopZeroes
  <2>1. ~Own
    BY <1>5 DEF StopZeroes, IInv, Ledger
  <2> QED
    BY <1>5, <2>1 DEF StopZeroes
<1>6. ASSUME NEW f \in Fds, AppOpens(f) PROVE Waking'
  BY <1>6 DEF AppOpens, Lowest, FreeFds, IInv, TypeOK
<1>7. ASSUME NEW c \in Clients, Reaches(c) \/ CallbackEnds(c) PROVE Waking'
  BY <1>7 DEF Reaches, CallbackEnds, FdOf, IInv, TypeOK
<1> QED
  BY <1>1, <1>2, <1>3, <1>4, <1>5, <1>6, <1>7 DEF Next, Stopper

(* stopListening never leaves a UDP listener asleep in recvfrom(): what     *)
(* StopEndsListener rests on besides StopAdvances and fairness.             *)
THEOREM ListenerStopWakes == Spec => []StopWakes
<1>1. Init => Waking
  BY DEF Init, Waking, Armed
<1>2. IInv /\ Waking => StopWakes
  BY ListenerAssumption DEF IInv, TypeOK, Ledger, Waking, StopWakes, Own, Armed, Alive
<1> QED
  BY <1>1, <1>2, InitIInv, NextIInv, NextWaking, PTL DEF Spec
===============================================================================
