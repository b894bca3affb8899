---------------------------- MODULE NcMutexProofs ----------------------------
(***************************************************************************)
(* Proofs about ncMutex for any number of threads, both builds and any     *)
(* depth of WIN32 re-entry: the fields keep their types, m_locked is 0     *)
(* when the mutex is free and no method runs, and the users' view          *)
(* implements the abstract lock.                                           *)
(***************************************************************************)
EXTENDS NcMutex, TLAPS

IInv == TypeOK /\ Consistent

(* The constructor establishes the invariant.                               *)
LEMMA InitIInv == Init => IInv
  BY MutexAssumption DEF Init, IInv, TypeOK, Consistent

(* Every method step keeps it.                                              *)
LEMMA NextIInv == IInv /\ [Next]_vars => IInv'
<1> SUFFICES ASSUME IInv, [Next]_vars PROVE IInv'
  OBVIOUS
<1> USE MutexAssumption DEF IInv, TypeOK, Consistent
<1>1. CASE Construct
  BY <1>1 DEF Construct
<1>2. ASSUME NEW t \in Threads, lock(t) PROVE IInv'
  BY <1>2 DEF lock, Goto
<1>3. ASSUME NEW t \in Threads, LockEnters(t) PROVE IInv'
  BY <1>3 DEF LockEnters, CanEnter, Enter, Goto
<1>4. ASSUME NEW t \in Threads, Mark(t) PROVE IInv'
  BY <1>4 DEF Mark, Goto
<1>5. ASSUME NEW t \in Threads, TryEnters(t) PROVE IInv'
  BY <1>5 DEF TryEnters, CanEnter, Enter, Goto
<1>6. ASSUME NEW t \in Threads, TryFails(t) PROVE IInv'
  BY <1>6 DEF TryFails, Taken, Goto
<1>7. ASSUME NEW t \in Threads, TryFailClears(t) PROVE IInv'
  BY <1>7 DEF TryFailClears, Goto
<1>8. ASSUME NEW t \in Threads, unlock(t) PROVE IInv'
  BY <1>8 DEF unlock, Leave, Goto
<1>9. ASSUME NEW t \in Threads, Clear(t) PROVE IInv'
  BY <1>9 DEF Clear, Goto
<1>10. ASSUME NEW t \in Threads, Destroy(t) PROVE IInv'
  <2>1. owner = NoThread => m_locked = 0
    BY <1>10 DEF Destroy
  <2>2. alive' = FALSE /\ pc' = pc /\ held' = held /\ build' = build
    BY <1>10 DEF Destroy
  <2>3. /\ owner' \in Threads \union {NoThread} /\ depth' \in 0..MaxDepth
        /\ owner' = NoThread <=> depth' = 0
        /\ m_locked' \in {0, 1}
    BY <1>10, <2>1 DEF Destroy, Leave
  <2>4. \A u \in Threads : pc'[u] = "rest"
    BY <1>10 DEF Destroy
  <2>5. TypeOK'
    BY <2>2, <2>3
  <2> QED
    BY <2>2, <2>3, <2>4, <2>5
<1>11. CASE UNCHANGED vars
  BY <1>11 DEF vars
<1> QED
  BY <1>1, <1>2, <1>3, <1>4, <1>5, <1>6, <1>7, <1>8, <1>9, <1>10, <1>11 DEF Next

(* Type correctness, and the invariant itself, of every behaviour of        *)
(* ncMutex.                                                                 *)
THEOREM MutexInvariant == Spec => [](TypeOK /\ Consistent)
<1>1. Spec => []IInv
  BY InitIInv, NextIInv, PTL DEF Spec
<1> QED
  BY <1>1, PTL DEF IInv

(* The fields keep their types; WIN32 re-entry never passes its bound.      *)
THEOREM MutexTypes == Spec => []TypeOK
<1>1. IInv => TypeOK
  BY DEF IInv
<1> QED
  BY <1>1, InitIInv, NextIInv, PTL DEF Spec

(* ~ncMutex never unlocks a free mutex: between methods, with the mutex     *)
(* free, m_locked is 0 whatever unlock() and lock() raced on it before.     *)
THEOREM MutexFlagClear == Spec => []FlagClearWhenFree
<1>1. IInv => FlagClearWhenFree
  BY DEF IInv, TypeOK, Consistent, FlagClearWhenFree
<1> QED
  BY <1>1, InitIInv, NextIInv, PTL DEF Spec

(* At most one thread has been given the mutex.                             *)
LEMMA InsideOwner == IInv => \A t \in Inside : Inside = {t} /\ owner = t
  BY DEF IInv, TypeOK, Consistent, Inside

(* Every step of a method is a step of the abstract lock, or none.          *)
LEMMA StepRefines == IInv /\ [Next]_vars => [Lock!Next]_Inside
<1> SUFFICES ASSUME IInv, [Next]_vars PROVE [Lock!Next]_Inside
  OBVIOUS
<1> USE MutexAssumption DEF IInv, TypeOK
<1>1. CASE Construct
  BY <1>1 DEF Construct, Inside
<1>2. ASSUME NEW t \in Threads, Mark(t) PROVE [Lock!Next]_Inside
  <2>1. owner = t /\ alive
    BY <1>2 DEF Mark, Goto, Consistent
  <2>2. Inside = {} \/ Inside = {t}
    BY <2>1, InsideOwner
  <2>3. Inside' = Inside \union {t}
    BY <1>2, <2>1 DEF Mark, Inside
  <2> QED
    BY <2>2, <2>3 DEF Lock!Next, Lock!Enter
<1>3. ASSUME NEW t \in Threads, unlock(t) PROVE [Lock!Next]_Inside
  <2>1. Inside = {t}
    BY <1>3, InsideOwner DEF unlock, Inside
  <2>2. Inside' = {} \/ Inside' = {t}
    BY <1>3, <2>1 DEF unlock, Inside
  <2> QED
    BY <2>1, <2>2 DEF Lock!Next, Lock!Leave
<1>4. ASSUME NEW t \in Threads, Destroy(t) PROVE [Lock!Next]_Inside
  <2>1. Inside = {} \/ Inside = {t}
    BY <1>4 DEF Destroy, Inside
  <2>2. Inside' = {}
    BY <1>4 DEF Destroy, Inside
  <2> QED
    BY <2>1, <2>2 DEF Lock!Next, Lock!Leave
<1>5. ASSUME UNCHANGED <<alive, held>> PROVE [Lock!Next]_Inside
  BY <1>5 DEF Inside
<1> QED
  BY <1>1, <1>2, <1>3, <1>4, <1>5
  DEF Next, vars, lock, LockEnters, TryEnters, TryFails, TryFailClears, Clear

(* The users' view of ncMutex, in both builds, implements the abstract      *)
(* lock: lock() and a successful trylock() exclude every other thread until *)
(* unlock().                                                                *)
THEOREM MutexRefinesLock == Spec => LockRefined
<1>1. Init => Lock!Init
  BY DEF Init, Lock!Init, Inside
<1> QED
  BY <1>1, InitIInv, NextIInv, StepRefines, PTL DEF Spec, LockRefined, Lock!Spec
==============================================================================
