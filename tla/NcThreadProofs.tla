---------------------------- MODULE NcThreadProofs ----------------------------
(***************************************************************************)
(* Proofs about ncThread for any number of objects and threads and both    *)
(* builds: an object only ever joins, detaches or stops the thread that it *)
(* started, nothing is left behind by a user who reaps his threads, and    *)
(* no cancel outlives its stop(); until a method hits a foreign thread.    *)
(***************************************************************************)
EXTENDS NcThread, TLAPS

(* What the handles need: a thread that may not be joined any more is still *)
(* running, every thread has been started by an object, and an object that  *)
(* joins has a thread to join.                                              *)
Handles ==
    /\ OwnThread
    /\ \A k \in detached : th[k] = "running"
    /\ \A k \in Tids : th[k] # "free" => by[k] \in Objects
    /\ \A o \in Objects : /\ pc[o] \in {"join", "stop"} => o \in mine
                          /\ pc[o] = "none" => o \notin mine

(* Every pthread of a careful user, running or ended, is one its object     *)
(* can still join, unless it has been detached.                             *)
Joinable ==
    build = "pthread" =>
        \A k \in Tids : /\ th[k] # "free" /\ k \notin detached
                        /\ by[k] \in Objects \ Sloppy
                        => by[k] \in mine /\ ncthread[by[k]] = k

(* PTHREAD_CANCELED is in m_retVal only when a thread has been joined.      *)
Verdicts ==
    /\ \A o \in Objects : m_retVal[o] = "CANCELED" => o \in reused
    /\ CancelVerdict

(* Until a method hits a foreign thread.                                    *)
IInv == TypeOK /\ (~stray => Handles /\ Joinable /\ Verdicts)

(* What an object that has not strayed may join is its own.                 *)
LEMMA JoinsOwn ==
    ASSUME NEW o \in Objects, Joins(o), ~Strays(o)
    PROVE  o \in mine
  BY DEF Joins, Strays

(* No object is constructed and no thread runs.                             *)
LEMMA InitIInv == Init => IInv
<1> SUFFICES ASSUME Init PROVE IInv
  OBVIOUS
<1>1. stray \in BOOLEAN
  BY Zenon DEF Init
<1>2. TypeOK
  BY <1>1, ThreadAssumption DEF Init, Lock!Init, TypeOK, Values
<1>3. Handles /\ Joinable /\ Verdicts
  BY ThreadAssumption DEF Init, Handles, Joinable, Verdicts, OwnThread, CancelVerdict
<1> QED
  BY <1>2, <1>3 DEF IInv

(* The constructor, a start that fails, and the calls that only wait.       *)
LEMMA QuietIInv ==
    ASSUME IInv, Followed, NEW o \in Objects, NEW k \in Tids \union {NoTid},
           Construct(o) \/ join(o) \/ stop(o) \/ StartFails(o, k)
    PROVE  IInv'
<1> USE ThreadAssumption DEF kernel, mutex, AtRest, Reaped, IInv, Followed
<1>0. stray' \in BOOLEAN
  BY Zenon DEF Construct, join, stop, StartFails, TypeOK
<1>1. TypeOK'
  BY <1>0 DEF Construct, Uninitialised, join, stop, Names, StartFails, TypeOK, Values
<1> SUFFICES ASSUME ~stray' PROVE Handles' /\ Joinable' /\ Verdicts'
  BY <1>1
<1>2. join(o) \/ stop(o) => (Joins(o) => o \in mine)
  BY JoinsOwn DEF join, stop
<1>3. Handles'
  BY <1>2 DEF Construct, Uninitialised, join, stop, StartFails, TypeOK, Handles, OwnThread
<1>4. Joinable'
  BY DEF Construct, Uninitialised, join, stop, StartFails, TypeOK, Handles, Joinable
<1>5. Verdicts'
  BY DEF Construct, Uninitialised, join, stop, StartFails, TypeOK, Verdicts, CancelVerdict,
         Handles, OwnThread
<1> QED
  BY <1>3, <1>4, <1>5

(* A thread starts, under an identifier that no object has to reap.         *)
LEMMA StartIInv ==
    ASSUME IInv, Followed, NEW o \in Objects, NEW k \in Tids, start(o, k)
    PROVE  IInv'
<1> USE ThreadAssumption DEF kernel, mutex, AtRest, Reaped, IInv, start, Followed
<1>1. TypeOK'
  BY DEF TypeOK
<1>2. \A p \in mine : ncthread[p] # k
  BY DEF Handles, OwnThread
<1>3. k \notin detached
  BY DEF Handles
<1>4. Handles'
  BY <1>2, <1>3 DEF TypeOK, Handles, OwnThread
<1>5. Joinable'
  BY <1>2, <1>3 DEF TypeOK, Joinable
<1>6. Verdicts'
  BY <1>2 DEF TypeOK, Verdicts, CancelVerdict
<1> QED
  BY <1>1, <1>4, <1>5, <1>6

(* An object lets its thread go: join, detach and the destructor.           *)
LEMMA ReapIInv ==
    ASSUME IInv, Followed, NEW o \in Objects, Destroy(o) \/ JoinReturns(o) \/ detach(o)
    PROVE  IInv'
<1> USE ThreadAssumption DEF kernel, mutex, AtRest, Reaped, IInv, Recycle, LetGo, Followed
<1>s. stray' \in BOOLEAN
  BY Zenon DEF Destroy, JoinReturns, detach, TypeOK
<1>1. TypeOK'
  BY <1>s DEF Destroy, JoinReturns, detach, Joins, Names, TypeOK, Values
<1> SUFFICES ASSUME ~stray' PROVE Handles' /\ Joinable' /\ Verdicts'
  BY <1>1
<1>0. OwnThread /\ (pc[o] \in {"join", "stop"} => o \in mine)
  BY DEF Handles
<1>a. o \in mine => /\ ncthread[o] \in Tids /\ by[ncthread[o]] = o
                    /\ ncthread[o] \notin detached /\ Joins(o)
  BY <1>0 DEF OwnThread, Joins, Names
<1>b. /\ Destroy(o) /\ build = "win32" => (Joins(o) => o \in mine)
      /\ detach(o) => (Joins(o) => o \in mine)
  BY JoinsOwn DEF Destroy, detach
<1>2. Handles'
  <2>1. CASE Destroy(o)
    BY <1>b, <2>1 DEF Destroy, TypeOK, Handles, OwnThread
  <2>2. CASE JoinReturns(o)
    <3>1. CASE build = "pthread"
      <4>1. o \in mine
        BY <1>0, <2>2 DEF JoinReturns
      <4>2. \A p \in mine \ {o} : ncthread[p] # ncthread[o]
        BY <1>0, <1>a, <4>1 DEF OwnThread
      <4>3. OwnThread'
        BY <1>0, <1>a, <2>2, <3>1, <4>1, <4>2 DEF JoinReturns, TypeOK, OwnThread
      <4> QED
        BY <1>a, <2>2, <3>1, <4>1, <4>3 DEF JoinReturns, TypeOK, Handles
    <3>2. CASE build # "pthread"
      BY <2>2, <3>2 DEF JoinReturns, TypeOK, Handles, OwnThread
    <3> QED
      BY <3>1, <3>2
  <2>3. CASE detach(o)
    BY <1>b, <2>3 DEF detach, TypeOK, Handles, OwnThread
  <2> QED
    BY <2>1, <2>2, <2>3
<1>3. Joinable'
  <2>1. CASE Destroy(o)
    BY <1>a, <1>b, <2>1 DEF Destroy, TypeOK, Handles, OwnThread, Joinable
  <2>2. CASE JoinReturns(o)
    BY <1>0, <1>a, <2>2 DEF JoinReturns, TypeOK, Handles, OwnThread, Joinable
  <2>3. CASE detach(o)
    BY <1>a, <1>b, <2>3 DEF detach, TypeOK, Handles, OwnThread, Joinable
  <2> QED
    BY <2>1, <2>2, <2>3
<1>4. Verdicts'
  <2>1. CASE Destroy(o)
    BY <1>a, <1>b, <2>1 DEF Destroy, TypeOK, Handles, OwnThread, Verdicts, CancelVerdict
  <2>2. CASE JoinReturns(o)
    BY <1>0, <1>a, <2>2 DEF JoinReturns, TypeOK, Handles, OwnThread, Verdicts, CancelVerdict
  <2>3. CASE detach(o)
    BY <1>a, <1>b, <2>3 DEF detach, TypeOK, Handles, OwnThread, Verdicts, CancelVerdict
  <2> QED
    BY <2>1, <2>2, <2>3
<1> QED
  BY <1>2, <1>3, <1>4

(* A thread ends, with a value it was given.                                *)
LEMMA EndsIInv ==
    ASSUME IInv, Followed, NEW k \in Tids, NEW v \in Values, th[k] = "running", Ends(k, v),
           stray' \in BOOLEAN,
           v = "CANCELED" => k \in cancelled \/ by[k] \in reused
    PROVE  IInv'
<1> USE ThreadAssumption DEF IInv, Recycle, Ends, Followed
<1>1. TypeOK'
  BY DEF TypeOK, Values
<1>2. Handles'
  BY DEF TypeOK, Handles, OwnThread
<1>3. Joinable'
  BY DEF TypeOK, Joinable
<1>4. Verdicts'
  BY DEF TypeOK, Handles, OwnThread, Verdicts, CancelVerdict
<1> QED
  BY <1>1, <1>2, <1>3, <1>4

(* A thread and the mutex.                                                  *)
LEMMA MutexIInv ==
    ASSUME IInv, Followed, NEW k \in Tids, Wants(k) \/ Enters(k) \/ Leaves(k)
    PROVE  IInv'
<1> USE ThreadAssumption DEF object, kernel, IInv, Running, Lock!Enter, Lock!Leave, Followed
<1>1. TypeOK'
  BY DEF Wants, Enters, Leaves, TypeOK
<1>2. Handles' /\ Joinable' /\ Verdicts'
  BY DEF Wants, Enters, Leaves, Handles, OwnThread, Joinable, Verdicts, CancelVerdict
<1> QED
  BY <1>1, <1>2

(* Every step keeps the invariant.                                          *)
LEMMA NextIInv == IInv /\ [Next]_vars => IInv'
<1> SUFFICES ASSUME IInv, [Next]_vars PROVE IInv'
  OBVIOUS
<1>1. CASE UNCHANGED vars
  BY <1>1 DEF vars, object, kernel, mutex, IInv, TypeOK, Handles, OwnThread, Joinable,
              Verdicts, CancelVerdict
<1>2. ASSUME Followed, NEW o \in Objects, Terminate(o) PROVE IInv'
  <2>1. ncthread[o] \in Tids /\ "plain" \in Values /\ "plain" # "CANCELED" /\ stray' \in BOOLEAN
    BY <1>2 DEF Terminate, Joins, Names, Values
  <2> QED
    BY <1>2, <2>1, EndsIInv DEF Terminate
<1>3. ASSUME Followed, NEW k \in Tids, Returns(k) \/ testCancel(k) \/ exit(k) PROVE IInv'
  <2>1. /\ "plain" \in Values /\ "CANCELED" \in Values /\ "plain" # "CANCELED"
        /\ stray' \in BOOLEAN
    BY <1>3 DEF Values, Returns, testCancel, exit, IInv, TypeOK
  <2>2. CASE Returns(k) \/ testCancel(k)
    BY <1>3, <2>1, <2>2, EndsIInv DEF Returns, testCancel, MayEnd, Running
  <2>3. CASE exit(k)
    BY <1>3, <2>1, <2>3, EndsIInv
    DEF exit, MayEnd, Running, IInv, TypeOK, Handles, Verdicts, Followed
  <2> QED
    BY <1>3, <2>2, <2>3
<1> QED
  BY <1>1, <1>2, <1>3, QuietIInv, StartIInv, ReapIInv, MutexIInv DEF Next
-------------------------------------------------------------------------------
(* The fields of an ncThread keep their types.                              *)
THEOREM ThreadTypes == Spec => []TypeOK
<1>1. IInv => TypeOK
  BY DEF IInv
<1> QED
  BY <1>1, InitIInv, NextIInv, PTL DEF Spec

(* join, detach and stop act on the thread that the object started, for any *)
(* reuse of thread identifiers.                                             *)
THEOREM ThreadIsOwn == Spec => []OwnThread
<1>1. IInv => OwnThread
  BY DEF IInv, Handles, OwnThread
<1> QED
  BY <1>1, InitIInv, NextIInv, PTL DEF Spec

(* A pthread that has ended can still be joined through its object, unless  *)
(* its user has started over it.                                            *)
THEOREM ThreadNoZombie == Spec => []NoZombie
<1>1. IInv => NoZombie
  BY DEF IInv, Handles, Joinable, NoZombie
<1> QED
  BY <1>1, InitIInv, NextIInv, PTL DEF Spec

(* PTHREAD_CANCELED means a cancel, on an object's first thread.            *)
THEOREM ThreadCancelVerdict == Spec => []CancelVerdict
<1>1. IInv => CancelVerdict
  BY DEF IInv, Verdicts, CancelVerdict
<1> QED
  BY <1>1, InitIInv, NextIInv, PTL DEF Spec
-------------------------------------------------------------------------------
(* A pending cancel stays with its stop(): only JoinReturns ends that stop, *)
(* and it recycles the thread, the cancel included.  On WIN32 a wait ends   *)
(* without that, and there are no cancels.                                  *)
Cancels ==
    ~stray =>
        /\ CancelIsOwn
        /\ cancelled # {} => build = "pthread"
        /\ \A o \in Objects : pc[o] = "stop" => ncthread[o] \in cancelled
        /\ \A k \in cancelled : th[k] # "free"

(* Every step keeps it so.                                                  *)
LEMMA NextCancels == IInv /\ Cancels /\ [Next]_vars => Cancels'
<1> SUFFICES ASSUME IInv, Cancels, [Next]_vars, ~stray' PROVE Cancels'
  BY DEF Cancels
<1> USE ThreadAssumption DEF IInv, Cancels, CancelIsOwn, Followed
<1>1. CASE UNCHANGED vars
  BY <1>1 DEF vars, object, kernel
<1> SUFFICES ASSUME Next PROVE Cancels'
  BY <1>1
<1>f. ~stray
  BY DEF Next
<1>0. \A p \in Objects : pc[p] = "stop" => /\ p \in mine /\ ncthread[p] \in Tids
                                          /\ by[ncthread[p]] = p /\ ncthread[p] \notin detached
  BY <1>f DEF Handles, OwnThread
<1>2. ASSUME NEW o \in Objects, NEW k \in Tids \union {NoTid},
             Construct(o) \/ join(o) \/ StartFails(o, k)
      PROVE  Cancels'
  BY <1>f, <1>2 DEF Construct, Uninitialised, join, StartFails, AtRest, kernel, TypeOK
<1>3. ASSUME NEW o \in Objects, stop(o) PROVE Cancels'
  <2>1. Joins(o) => o \in mine
    BY <1>3, JoinsOwn DEF stop
  <2>2. o \in mine => by[ncthread[o]] = o
    BY <1>f DEF Handles, OwnThread
  <2>3. Names(o) /\ ~Joins(o) => ncthread[o] \in detached
    BY DEF Joins
  <2>4. Names(o) => th[ncthread[o]] # "free"
    BY DEF Names
  <2>5. Joins(o) => Names(o)
    BY DEF Joins
  <2> QED
    BY <1>f, <1>3, <2>1, <2>2, <2>3, <2>4, <2>5 DEF stop, AtRest, TypeOK
<1>4. ASSUME NEW o \in Objects, NEW k \in Tids, start(o, k) PROVE Cancels'
  <2>1. k \notin cancelled
    BY <1>f, <1>4 DEF start
  <2> QED
    BY <1>f, <1>4, <2>1 DEF start, AtRest, TypeOK
<1>5. ASSUME NEW o \in Objects, Destroy(o) \/ detach(o) PROVE Cancels'
  <2>0. /\ o \in mine => by[ncthread[o]] = o
        /\ (detach(o) \/ build = "win32") => (Joins(o) => o \in mine)
    BY <1>f, <1>5, JoinsOwn DEF Handles, OwnThread, Destroy, detach
  <2>1. /\ AtRest(o) /\ cancelled' \subseteq cancelled /\ build' = build
        /\ pc' \in [Objects -> {"none", "rest", "join", "stop"}]
        /\ \A k \in cancelled' : /\ by'[k] = by[k] /\ th'[k] = th[k]
                                 /\ k \in detached => k \in detached'
    BY <1>f, <1>5 DEF Destroy, detach, LetGo, Recycle, kernel, TypeOK
  <2>2. \A p \in Objects \ {o} : pc[p] = "stop" => ncthread[p] \in cancelled'
    BY <1>0, <1>f, <1>5, <2>0 DEF Destroy, detach, LetGo, Recycle, kernel, TypeOK
  <2> QED
    BY <1>f, <1>5, <2>1, <2>2 DEF Destroy, detach, AtRest, TypeOK
<1>6. ASSUME NEW o \in Objects, JoinReturns(o) PROVE Cancels'
  <2>1. o \in mine /\ ncthread[o] \in Tids /\ by[ncthread[o]] = o /\ Joins(o)
    BY <1>f, <1>6 DEF JoinReturns, Handles, OwnThread, Joins, Names
  <2>2. CASE build = "pthread"
    BY <1>0, <1>f, <1>6, <2>1, <2>2 DEF JoinReturns, Recycle, TypeOK
  <2>3. CASE build # "pthread"
    BY <1>f, <1>6, <2>1, <2>3 DEF JoinReturns, kernel, TypeOK
  <2> QED
    BY <2>2, <2>3
<1>7. ASSUME NEW k \in Tids, NEW v, Ends(k, v) PROVE Cancels'
  BY <1>0, <1>f, <1>7 DEF Ends, Recycle, TypeOK
<1>8. ASSUME NEW k \in Tids, Wants(k) \/ Enters(k) \/ Leaves(k) PROVE Cancels'
  BY <1>f, <1>8 DEF Wants, Enters, Leaves, object, kernel
<1>9. ASSUME NEW o \in Objects, Terminate(o) PROVE Cancels'
  BY <1>7, <1>9 DEF Terminate, Joins, Names
<1> QED
  BY <1>2, <1>3, <1>4, <1>5, <1>6, <1>7, <1>8, <1>9 DEF Next, Returns, testCancel, exit

(* A cancel never outlives the stop() it belongs to, nor its thread, for    *)
(* any reuse of thread identifiers and any user.                            *)
THEOREM ThreadCancelIsOwn == Spec => []CancelIsOwn
<1>1. Init => Cancels
  BY DEF Init, Cancels, CancelIsOwn
<1>2. Cancels => CancelIsOwn
  BY DEF Cancels, CancelIsOwn
<1> QED
  BY <1>1, <1>2, NextCancels, InitIInv, NextIInv, PTL DEF Spec

(* A stop() that waits to join its pthread has cancelled it, and that       *)
(* cancel stays pending as long as it waits: what StopReturns rests on      *)
(* besides the fairness of the thread.                                      *)
THEOREM ThreadStopCancels ==
    Spec => [](~stray => \A o \in Objects :
                 pc[o] = "stop" => build = "pthread" /\ ncthread[o] \in cancelled)
<1>1. Init => Cancels
  BY DEF Init, Cancels, CancelIsOwn
<1>2. Cancels => (~stray => \A o \in Objects :
                    pc[o] = "stop" => build = "pthread" /\ ncthread[o] \in cancelled)
  BY DEF Cancels
<1> QED
  BY <1>1, <1>2, NextCancels, InitIInv, NextIInv, PTL DEF Spec
===============================================================================
