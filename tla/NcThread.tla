------------------------------ MODULE NcThread ------------------------------
(***************************************************************************)
(* class ncThread, the pthread and the WIN32 build: objects that start,    *)
(* join, detach and stop threads, the kernel's threads, whose identifiers  *)
(* are used again once a thread is over and reaped, and an ncMutex that    *)
(* the threads share (as LockSpec promises it; NcMutex implements that).   *)
(*                                                                         *)
(* The user of an object joins, detaches or stops its thread before the    *)
(* object starts another or is destroyed; the users of the objects in      *)
(* Sloppy forget to.  Everybody may call a method once too often, or on an *)
(* object that has no thread: it goes to whatever the handle then names.   *)
(* A thread may also end, or be cancelled, while it holds the mutex.       *)
(***************************************************************************)
CONSTANTS
    Objects,   \* the ncThread objects
    NoObject,  \* who started a thread that has not been started
    Sloppy,    \* those whose user may leave a thread unjoined
    Tids,      \* thread identifiers
    NoTid,     \* what an ncThread has before it starts a thread
    Builds     \* subset of {"pthread", "win32"}

ASSUME ThreadAssumption ==
    /\ Sloppy \subseteq Objects
    /\ NoTid \notin Tids /\ NoObject \notin Objects
    /\ Builds \subseteq {"pthread", "win32"}

VARIABLES
    build,       \* the build that runs; Init chooses it
    ncthread, m_retVal,   \* object -> its fields
    pc,          \* object -> "none" (not constructed), "rest", "join" or "stop"
    mine,        \* the objects whose ncthread is a thread that is not reaped
    reused,      \* history: objects whose m_retVal an earlier thread has set
    stray,       \* history: a method has hit a thread that is not its object's
    th,          \* identifier -> "free", "running" or "ended"
    by,          \* identifier -> the object that started the thread
    val,         \* identifier -> what the thread ended with
    detached, cancelled,  \* identifiers
    wpc,         \* identifier -> "out", "want" or "in" the critical section
    inside       \* the mutex: the set of its holders

object == <<ncthread, m_retVal, pc, mine, reused, stray>>
kernel == <<th, by, val, detached, cancelled>>
mutex == <<wpc, inside>>
vars == <<build, object, kernel, mutex>>

(* PTHREAD_CANCELED, and the rest: NULL and what a thread returns. *)
Values == {"plain", "CANCELED"}

Lock == INSTANCE LockSpec WITH Threads <- Tids

TypeOK ==
    /\ build \in Builds
    /\ ncthread \in [Objects -> Tids \union {NoTid}]
    /\ m_retVal \in [Objects -> Values]
    /\ pc \in [Objects -> {"none", "rest", "join", "stop"}]
    /\ mine \subseteq Objects /\ reused \subseteq Objects /\ stray \in BOOLEAN
    /\ th \in [Tids -> {"free", "running", "ended"}]
    /\ by \in [Tids -> Objects \union {NoObject}] /\ val \in [Tids -> Values]
    /\ detached \subseteq Tids /\ cancelled \subseteq Tids
    /\ wpc \in [Tids -> {"out", "want", "in"}]
    /\ inside \subseteq Tids

Init ==
    /\ build \in Builds
    /\ ncthread = [o \in Objects |-> NoTid] /\ stray = FALSE
    /\ m_retVal = [o \in Objects |-> "plain"]
    /\ pc = [o \in Objects |-> "none"]
    /\ mine = {} /\ reused = {}
    /\ th = [k \in Tids |-> "free"]
    /\ by = [k \in Tids |-> NoObject]
    /\ val = [k \in Tids |-> "plain"]
    /\ detached = {} /\ cancelled = {}
    /\ wpc = [k \in Tids |-> "out"] /\ Lock!Init
-----------------------------------------------------------------------------
(* The kernel's threads. *)

(* A thread that is over and that nobody can join any more is gone. *)
Recycle(k) ==
    /\ th' = [th EXCEPT ![k] = "free"]
    /\ by' = [by EXCEPT ![k] = NoObject]
    /\ val' = [val EXCEPT ![k] = "plain"]
    /\ detached' = detached \ {k} /\ cancelled' = cancelled \ {k}

(* Nobody will join the thread: pthread_detach(), or its last handle closes. *)
LetGo(k) ==
    IF th[k] = "ended" THEN Recycle(k)
    ELSE detached' = detached \union {k} /\ UNCHANGED <<th, by, val, cancelled>>

Ends(k, v) ==
    /\ IF k \in detached THEN Recycle(k)
       ELSE /\ th' = [th EXCEPT ![k] = "ended"]
            /\ val' = [val EXCEPT ![k] = v]
            /\ UNCHANGED <<by, detached, cancelled>>
    /\ wpc' = [wpc EXCEPT ![k] = "out"]
    /\ UNCHANGED <<build, ncthread, m_retVal, pc, mine, reused, inside>>

AtRest(o) == pc[o] = "rest"

(* The object may be used for something else. *)
Reaped(o) == o \in mine => o \in Sloppy

(* The handle names a thread; one that may be joined, or (WIN32) a handle   *)
(* that is open.                                                            *)
Names(o) == ncthread[o] \in Tids /\ th[ncthread[o]] # "free"
Joins(o) == Names(o) /\ ncthread[o] \notin detached

(* ... and it is neither the thread the object has to reap nor the one it   *)
(* has detached: a handle never set, or one used after its thread was over. *)
Strays(o) ==
    /\ Names(o) /\ o \notin mine
    /\ ~(by[ncthread[o]] = o /\ ncthread[o] \in detached)
-----------------------------------------------------------------------------
(* The methods. *)

(* The constructor, which leaves ncthread as it finds the memory.  It also  *)
(* sets how its own thread is cancelled, to what every thread starts with:  *)
(* only at a point of cancellation.                                         *)
Uninitialised(o) == ncthread' \in {[ncthread EXCEPT ![o] = k] : k \in Tids \union {NoTid}}
Construct_Garbage(o) ==
    /\ pc[o] = "none"
    /\ pc' = [pc EXCEPT ![o] = "rest"]
    /\ m_retVal' = [m_retVal EXCEPT ![o] = "garbage"]
    /\ Uninitialised(o)
    /\ UNCHANGED <<build, mine, reused, stray, kernel, mutex>>
Construct_Uninitialised(o) ==
    /\ pc[o] = "none"
    /\ pc' = [pc EXCEPT ![o] = "rest"]
    /\ m_retVal' \in {[m_retVal EXCEPT ![o] = v] : v \in Values}
    /\ Uninitialised(o)
    /\ UNCHANGED <<build, mine, reused, stray, kernel, mutex>>
Construct(o) ==
    /\ pc[o] = "none"
    /\ pc' = [pc EXCEPT ![o] = "rest"]
    /\ m_retVal' = [m_retVal EXCEPT ![o] = "plain"]
    /\ Uninitialised(o)
    /\ UNCHANGED <<build, mine, reused, stray, kernel, mutex>>

(* The destructor: CloseHandle() on WIN32, of whatever ncthread names, else *)
(* nothing.                                                                 *)
Destroy(o) ==
    /\ AtRest(o) /\ (build = "pthread" => Reaped(o))
    /\ pc' = [pc EXCEPT ![o] = "none"]
    /\ mine' = mine \ {o}
    /\ reused' = reused \ {o}
    /\ ncthread' = [ncthread EXCEPT ![o] = NoTid]
    /\ m_retVal' = [m_retVal EXCEPT ![o] = "plain"]
    /\ stray' = (stray \/ (build = "win32" /\ Strays(o)))
    /\ IF build = "win32" /\ Joins(o) THEN LetGo(ncthread[o]) ELSE UNCHANGED kernel
    /\ UNCHANGED <<build, mutex>>

start_NoHandle(o, k) ==
    /\ AtRest(o) /\ Reaped(o) /\ th[k] = "free"
    /\ mine' = mine \union {o}
    /\ th' = [th EXCEPT ![k] = "running"]
    /\ by' = [by EXCEPT ![k] = o]
    /\ UNCHANGED <<build, ncthread, m_retVal, pc, reused, stray, val, detached, cancelled, mutex>>
start(o, k) ==
    /\ AtRest(o) /\ Reaped(o) /\ th[k] = "free"
    /\ ncthread' = [ncthread EXCEPT ![o] = k]
    /\ mine' = mine \union {o}
    /\ th' = [th EXCEPT ![k] = "running"]
    /\ by' = [by EXCEPT ![k] = o]
    /\ UNCHANGED <<build, m_retVal, pc, reused, stray, val, detached, cancelled, mutex>>

(* pthread_create() leaves something in the handle, CreateThread() null. *)
StartFails(o, left) ==
    /\ AtRest(o) /\ Reaped(o)
    /\ build = "win32" => left = NoTid
    /\ ncthread' = [ncthread EXCEPT ![o] = left]
    /\ mine' = mine \ {o}
    /\ UNCHANGED <<build, m_retVal, pc, reused, stray, kernel, mutex>>

(* pthread_join() or WaitForSingleObject() waits, or refuses a handle that  *)
(* is no good ...                                                           *)
join(o) ==
    /\ AtRest(o)
    /\ pc' = [pc EXCEPT ![o] = IF Joins(o) THEN "join" ELSE @]
    /\ stray' = (stray \/ Strays(o))
    /\ UNCHANGED <<build, ncthread, m_retVal, mine, reused, kernel, mutex>>

(* ... and returns: WIN32 keeps the handle, and knows no value.  It fails   *)
(* if somebody else has taken the thread meanwhile.                         *)
JoinReturns(o) ==
    /\ pc[o] \in {"join", "stop"}
    /\ Joins(o) => th[ncthread[o]] = "ended"
    /\ pc' = [pc EXCEPT ![o] = "rest"]
    /\ IF build = "pthread" /\ Joins(o)
       THEN /\ Recycle(ncthread[o])
            /\ m_retVal' = [m_retVal EXCEPT ![o] = val[ncthread[o]]]
            /\ mine' = mine \ {o} /\ reused' = reused \union {o}
       ELSE UNCHANGED <<kernel, m_retVal, mine, reused>>
    /\ UNCHANGED <<build, ncthread, stray, mutex>>

(* pthread_detach(); on WIN32 detach does nothing. *)
detach(o) ==
    /\ AtRest(o) /\ build = "pthread"
    /\ IF Joins(o) THEN LetGo(ncthread[o]) ELSE UNCHANGED kernel
    /\ mine' = mine \ {o}
    /\ stray' = (stray \/ Strays(o))
    /\ UNCHANGED <<build, ncthread, m_retVal, pc, reused, mutex>>

(* pthread_cancel() of the thread named, after which stop is in             *)
(* pthread_join(), if that one can be joined.                               *)
stop_NoCancel(o) ==
    /\ AtRest(o) /\ build = "pthread"
    /\ pc' = [pc EXCEPT ![o] = IF Joins(o) THEN "stop" ELSE @]
    /\ stray' = (stray \/ Strays(o))
    /\ UNCHANGED <<build, ncthread, m_retVal, mine, reused, kernel, mutex>>
stop_NoJoin(o) ==
    /\ AtRest(o) /\ build = "pthread"
    /\ cancelled' = IF Names(o) THEN cancelled \union {ncthread[o]} ELSE cancelled
    /\ mine' = mine \ {o}
    /\ stray' = (stray \/ Strays(o))
    /\ UNCHANGED <<build, ncthread, m_retVal, pc, reused, th, by, val, detached, mutex>>
stop(o) ==
    /\ AtRest(o) /\ build = "pthread"
    /\ cancelled' = IF Names(o) THEN cancelled \union {ncthread[o]} ELSE cancelled
    /\ pc' = [pc EXCEPT ![o] = IF Joins(o) THEN "stop" ELSE @]
    /\ stray' = (stray \/ Strays(o))
    /\ UNCHANGED <<build, ncthread, m_retVal, mine, reused, th, by, val, detached, mutex>>

(* TerminateThread(): the thread is over, wherever it was. *)
Terminate(o) ==
    /\ AtRest(o) /\ build = "win32" /\ Joins(o) /\ th[ncthread[o]] = "running"
    /\ Ends(ncthread[o], "plain")
    /\ stray' = (stray \/ Strays(o))
-----------------------------------------------------------------------------
(* What the threads do. *)

Running(k) == th[k] = "running"

Wants(k) ==
    /\ Running(k) /\ wpc[k] = "out"
    /\ wpc' = [wpc EXCEPT ![k] = "want"]
    /\ UNCHANGED <<build, object, kernel, inside>>

Enters(k) ==
    /\ Running(k) /\ wpc[k] = "want"
    /\ Lock!Enter(k)
    /\ wpc' = [wpc EXCEPT ![k] = "in"]
    /\ UNCHANGED <<build, object, kernel>>

Leaves(k) ==
    /\ Running(k) /\ wpc[k] = "in"
    /\ Lock!Leave(k)
    /\ wpc' = [wpc EXCEPT ![k] = "out"]
    /\ UNCHANGED <<build, object, kernel>>

(* Where a thread returns, exits or comes to a point of cancellation: also  *)
(* in its critical section, but never while it waits for the mutex, since   *)
(* pthread_mutex_lock() is not such a point.                                *)
MayEnd(k) == Running(k) /\ wpc[k] # "want"

Returns(k) == MayEnd(k) /\ Ends(k, "plain") /\ UNCHANGED stray

(* pthread_testcancel(), which matters only when a cancel is pending. *)
testCancel(k) ==
    /\ MayEnd(k) /\ build = "pthread" /\ k \in cancelled
    /\ Ends(k, "CANCELED") /\ UNCHANGED stray

(* The thread calls exit() of its object: pthread_exit(m_retVal). *)
exit(k) ==
    /\ MayEnd(k) /\ build = "pthread" /\ pc[by[k]] # "none"
    /\ Ends(k, m_retVal[by[k]]) /\ UNCHANGED stray
-----------------------------------------------------------------------------
(* What comes after a method has hit a foreign thread is not followed: the  *)
(* handles of two objects then name one thread, and nothing is promised.    *)
Followed == ~stray

Next ==
    /\ Followed
    /\ \/ \E o \in Objects :
           \/ Construct(o) \/ Destroy(o)
           \/ join(o) \/ JoinReturns(o) \/ detach(o) \/ stop(o) \/ Terminate(o)
           \/ \E k \in Tids : start(o, k)
           \/ \E k \in Tids \union {NoTid} : StartFails(o, k)
       \/ \E k \in Tids :
           Wants(k) \/ Enters(k) \/ Leaves(k) \/ Returns(k) \/ testCancel(k) \/ exit(k)

Spec == Init /\ [][Next]_vars

(* Threads run; the mutex is given to a thread that goes on waiting for it; *)
(* a thread leaves its critical section, and a cancelled one does not       *)
(* avoid testCancel() for ever.                                             *)
FairSpec ==
    /\ Spec
    /\ \A o \in Objects : WF_vars(Followed /\ JoinReturns(o))
    /\ \A k \in Tids : /\ WF_vars(Followed /\ Leaves(k))
                        /\ SF_vars(Followed /\ Enters(k))
                        /\ SF_vars(Followed /\ testCancel(k))
-----------------------------------------------------------------------------
(* Properties.  They hold until a method hits a thread that is not its      *)
(* object's: calls too many that find no thread, or the object's own one    *)
(* that it has detached, do no harm.                                        *)

(* An object whose thread is still to be reaped names the thread that it    *)
(* started and no other, although identifiers are used again as soon as a   *)
(* detached thread ends: join, detach and stop hit nobody else's thread.    *)
OwnThread ==
    ~stray => \A o \in mine : /\ ncthread[o] \in Tids /\ by[ncthread[o]] = o
                              /\ th[ncthread[o]] # "free" /\ ncthread[o] \notin detached

(* A pthread that has ended and is still there is one its object can join,  *)
(* unless a sloppy user has started over it: stop() leaves nothing behind.  *)
NoZombie ==
    build = "pthread" /\ ~stray =>
        \A k \in Tids : th[k] = "ended" /\ by[k] \in Objects \ Sloppy
                            => by[k] \in mine /\ ncthread[by[k]] = k

(* A thread that ends as cancelled has been cancelled, unless its object    *)
(* had a thread before: exit() hands on the m_retVal that one left.         *)
CancelVerdict ==
    ~stray => \A o \in mine :
                 th[ncthread[o]] = "ended" /\ val[ncthread[o]] = "CANCELED"
                     => ncthread[o] \in cancelled \/ o \in reused

(* A cancel that is pending belongs to a stop() of the object that started  *)
(* the thread, which still names that thread and waits to join it, or to a  *)
(* thread that has been detached: no cancel outlives its thread and hits    *)
(* the next one under that identifier, also when its user is sloppy, stops  *)
(* twice or the thread ends on its own first.                               *)
CancelIsOwn ==
    ~stray => \A k \in cancelled :
                 \/ k \in detached
                 \/ by[k] \in mine /\ ncthread[by[k]] = k /\ pc[by[k]] = "stop"

(* stop() returns, also when its thread waits for the mutex, has been       *)
(* detached or has ended before it is cancelled; unless a thread has ended  *)
(* with the mutex in its hands, for which the others then wait for ever.    *)
Orphaned == \E k \in inside : ~(Running(k) /\ wpc[k] = "in")
StopReturns ==
    \A o \in Objects : pc[o] = "stop" ~> (pc[o] # "stop" \/ stray \/ Orphaned)
=============================================================================
