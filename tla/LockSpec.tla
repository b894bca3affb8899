------------------------------ MODULE LockSpec ------------------------------
(***************************************************************************)
(* What a mutex promises: a thread is inside at most when no other is.     *)
(* `inside' is the users' view of it: the threads to which lock() or a     *)
(* successful trylock() has given the mutex and that have not given it     *)
(* back.  Module NcMutex is shown to implement this specification.         *)
(***************************************************************************)
CONSTANT Threads

VARIABLE inside

Init == inside = {}

Enter(t) == inside = {} /\ inside' = {t}

Leave(t) == inside = {t} /\ inside' = {}

Next == \E t \in Threads : Enter(t) \/ Leave(t)

Spec == Init /\ [][Next]_inside
=============================================================================
