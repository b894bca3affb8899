------------------------------ MODULE NcMutex -------------------------------
(***************************************************************************)
(* class ncMutex, both builds: the pthread one and the WIN32 one, whose    *)
(* CRITICAL_SECTION may be entered again by its owner.  m_locked is a      *)
(* plain int that every method writes outside or inside the kernel mutex   *)
(* exactly as the code orders it, so the interleavings of the two are      *)
(* explored.  Users are well-behaved: only an owner unlocks, a pthread     *)
(* owner does not lock again, and the destructor runs when no other thread *)
(* is in a method or holds the mutex.                                      *)
(***************************************************************************)
EXTENDS Integers

CONSTANTS
    Threads,   \* the threads that share the object
    NoThread,  \* the owner of a free mutex
    Builds,    \* subset of {"pthread", "win32"}
    MaxDepth   \* bound: how often a WIN32 owner enters again

ASSUME MutexAssumption ==
    /\ NoThread \notin Threads
    /\ Builds \subseteq {"pthread", "win32"}
    /\ MaxDepth \in Nat \ {0}

VARIABLES
    build,     \* the build that runs; Init chooses it
    alive,     \* the object is constructed
    m_locked,  \* the field, 0 or 1
    owner, depth,  \* the kernel's mutex
    held,      \* thread -> how often the user was given the mutex
    pc         \* thread -> the next step of its method, "rest" between methods

vars == <<build, alive, m_locked, owner, depth, held, pc>>

TypeOK ==
    /\ build \in Builds
    /\ alive \in BOOLEAN
    /\ m_locked \in {0, 1}
    /\ owner \in Threads \union {NoThread}
    /\ depth \in 0..MaxDepth
    /\ held \in [Threads -> 0..MaxDepth]
    /\ pc \in [Threads -> {"rest", "lock", "mark", "busy", "clear"}]

Goto(t, from, to) == pc[t] = from /\ pc' = [pc EXCEPT ![t] = to]
-----------------------------------------------------------------------------
(* The kernel's mutex. *)

CanEnter(t) == owner = NoThread \/ (build = "win32" /\ owner = t /\ depth < MaxDepth)

Enter(t) == owner' = t /\ depth' = depth + 1

Leave ==
    /\ depth' = depth - 1
    /\ owner' = IF depth = 1 THEN NoThread ELSE owner
-----------------------------------------------------------------------------
(* The constructor leaves m_locked = 0 and a free mutex. *)
Init ==
    /\ build \in Builds
    /\ alive = TRUE
    /\ m_locked = 0 /\ owner = NoThread /\ depth = 0
    /\ held = [t \in Threads |-> 0]
    /\ pc = [t \in Threads |-> "rest"]

Construct ==
    /\ ~alive
    /\ alive' = TRUE /\ m_locked' = 0
    /\ owner' = NoThread /\ depth' = 0
    /\ held' = [t \in Threads |-> 0]
    /\ UNCHANGED <<build, pc>>

lock(t) ==
    /\ alive /\ (build = "pthread" => owner # t)
    /\ (owner = t => depth < MaxDepth)
    /\ Goto(t, "rest", "lock")
    /\ UNCHANGED <<build, alive, m_locked, owner, depth, held>>

(* pthread_mutex_lock or EnterCriticalSection returns. *)
LockEnters(t) ==
    /\ CanEnter(t) /\ Enter(t)
    /\ Goto(t, "lock", "mark")
    /\ UNCHANGED <<build, alive, m_locked, held>>

(* m_locked = 1, and the method returns the mutex to its user. *)
Mark(t) ==
    /\ Goto(t, "mark", "rest")
    /\ m_locked' = 1
    /\ held' = [held EXCEPT ![t] = @ + 1]
    /\ UNCHANGED <<build, alive, owner, depth>>

(* trylock() on a mutex that the kernel gives. *)
TryEnters(t) ==
    /\ alive
    /\ CanEnter(t) /\ Enter(t)
    /\ Goto(t, "rest", "mark")
    /\ UNCHANGED <<build, alive, m_locked, held>>

(* trylock() on a mutex that is taken, in the pthread build also by the     *)
(* caller: that build returns NC_FAILED; WIN32 first writes m_locked = 0.   *)
Taken(t) == owner # NoThread /\ (build = "win32" => owner # t)

TryFails_TakenForSuccess(t) ==
    /\ alive /\ Taken(t)
    /\ Goto(t, "rest", "mark")
    /\ UNCHANGED <<build, alive, m_locked, owner, depth, held>>
TryFails(t) ==
    /\ alive /\ Taken(t)
    /\ IF build = "win32" THEN Goto(t, "rest", "busy") ELSE Goto(t, "rest", "rest")
    /\ UNCHANGED <<build, alive, m_locked, owner, depth, held>>

TryFailClears(t) ==
    /\ Goto(t, "busy", "rest")
    /\ m_locked' = 0
    /\ UNCHANGED <<build, alive, owner, depth, held>>

(* pthread_mutex_unlock or LeaveCriticalSection, by a user that has it. *)
unlock(t) ==
    /\ alive /\ held[t] > 0
    /\ Goto(t, "rest", "clear")
    /\ held' = [held EXCEPT ![t] = @ - 1]
    /\ Leave
    /\ UNCHANGED <<build, alive, m_locked>>

(* m_locked = 0, after the mutex has been released. *)
Clear_Skipped(t) ==
    /\ Goto(t, "clear", "rest")
    /\ UNCHANGED <<build, alive, m_locked, owner, depth, held>>
Clear(t) ==
    /\ Goto(t, "clear", "rest")
    /\ m_locked' = 0
    /\ UNCHANGED <<build, alive, owner, depth, held>>

(* ~ncMutex, run by t when nobody else uses the object: it unlocks if       *)
(* m_locked says so and then destroys the kernel's mutex as it finds it.    *)
Destroy_NoTest(t) ==
    /\ alive
    /\ \A u \in Threads : pc[u] = "rest" /\ (u # t => held[u] = 0)
    /\ alive' = FALSE
    /\ Leave /\ m_locked' = 0
    /\ UNCHANGED <<build, held, pc>>
Destroy(t) ==
    /\ alive
    /\ \A u \in Threads : pc[u] = "rest" /\ (u # t => held[u] = 0)
    /\ alive' = FALSE
    /\ IF m_locked = 1
       THEN Leave /\ m_locked' = 0
       ELSE UNCHANGED <<owner, depth, m_locked>>
    /\ UNCHANGED <<build, held, pc>>

Next ==
    \/ Construct
    \/ \E t \in Threads :
        \/ lock(t) \/ LockEnters(t) \/ Mark(t)
        \/ TryEnters(t) \/ TryFails(t) \/ TryFailClears(t)
        \/ unlock(t) \/ Clear(t) \/ Destroy(t)

Spec == Init /\ [][Next]_vars
-----------------------------------------------------------------------------
(* Properties. *)

(* What ties the kernel's mutex, the users' holds and m_locked together:    *)
(* the inductive invariant from which the properties below follow.  The     *)
(* last conjunct is the one the destructor relies on: while m_locked is 1,  *)
(* the mutex is owned or an unlock() is about to write its late 0.          *)
Consistent ==
    /\ owner = NoThread <=> depth = 0
    /\ ~alive => \A t \in Threads : pc[t] = "rest"
    /\ alive => \A t \in Threads :
        /\ pc[t] = "mark" \/ held[t] > 0 => owner = t
        /\ owner = t => depth = held[t] + (IF pc[t] = "mark" THEN 1 ELSE 0)
    /\ alive /\ m_locked = 1 => owner # NoThread \/ \E t \in Threads : pc[t] = "clear"

(* The users' view of the mutex refines an abstract lock: lock() returning  *)
(* and trylock() returning NC_OK hand the mutex to one thread at a time,    *)
(* through any number of failed trylock()s and nested WIN32 entries.        *)
Inside == {t \in Threads : alive /\ held[t] > 0}
Lock == INSTANCE LockSpec WITH inside <- Inside
LockRefined == Lock!Spec

(* When no thread is inside a method and nobody holds the mutex, m_locked   *)
(* is 0: the destructor's `if (m_locked) unlock()' never unlocks a mutex    *)
(* that is already free, whatever the order in which unlock()'s late        *)
(* `m_locked = 0' and other threads' `m_locked = 1' were written.           *)
FlagClearWhenFree ==
    alive /\ owner = NoThread /\ (\A t \in Threads : pc[t] = "rest")
        => m_locked = 0

(* ncmutex.h: isLocked "returns 1 if this mutex is locked; 0 otherwise".    *)
(* Asked only of moments when no thread is inside a method.                 *)
IsLockedTellsTruth ==
    alive /\ (\A t \in Threads : pc[t] = "rest")
        => (m_locked = 1 <=> owner # NoThread)
=============================================================================
