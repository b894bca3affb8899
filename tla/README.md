# NetClass in TLA+

NetClass (`src/`) is a small C++ library of sockets, threads and mutexes over
POSIX and WIN32.  This directory models its core, checks it with TLC on small
instances and proves the most important results with TLAPS for every value of
the constants.  `PROJECT.json` has, for each definition, the source lines it
stands for, and for each property a mutant of the code that breaks it.

## 1. The system

| part | state | operations | who touches it |
|---|---|---|---|
| `ncSocket` transfer (`ncsocket.cpp`) | `m_timeout`, `m_polltime`, the kernel's socket, the locals of one call | `readData`, `writeData`, `checkTimeout`, `setTimeout`, `setPollTime` | one user thread; the kernel and the peer decide every answer |
| `ncSocket` lifecycle (`ncsocket.cpp`) | `m_sockfd`, `m_stdiofd` | constructors, destructor, `connect`, `close`, `flush` | the user; the listener makes one for each accepted connection |
| `ncSocketListener` (`ncsocklist.cpp`) | `m_sockfd`, `m_listening`, plain ints | `startListening` (blocks), `stopListening`, destructor, `setBackLog` | the thread that listens, the thread that stops it, one thread per callback |
| `ncThread` (`ncthread.cpp`) | a handle and a return value | `start`, `join`, `detach`, `stop`, `exit`, `testCancel` | the listener and the user |
| `ncMutex` (`ncmutex.cpp`) | the kernel's mutex and `m_locked`, a plain int | `lock`, `trylock`, `unlock`, `isLocked`, destructor | any number of threads |
| `ncarch.h` | none | the error classes `ncIsBlockingError`, `ncIsConnected` that the loops branch on | all of them |
| `udpData`, `netClass`, the other headers | none that changes | | |

They interact in few places: the listener creates an `ncSocket` for each
connection and hands it to a callback, which must delete it; with `NC_THREADED`
an `ncThread` runs the callback; all of them share the process's descriptor
table, whose numbers are reused at once.  The library does not use `ncMutex`
itself; threads that the application starts and stops share it.

What is hard here: fields shared between threads without a lock (`m_listening`
and `m_sockfd` between the listening and the stopping thread; `m_locked`
between all users of a mutex); loops whose progress depends on what the kernel
answers, with a clock kept in unsigned arithmetic by adding up poll times;
descriptors that outlive or survive the object that holds their number, and
thread handles that do the same; handshakes that go on after `connect` has given
up; and an `errno` that is read when nothing has failed.  The
list is under `hazards` in `PROJECT.json`, each at its line.

Correctness, by part:

* transfer: the return code and `*numActualBytes` say what really moved; a call
  ends in time; after a disconnect no later call seems to succeed;
* mutex: one thread at a time; `m_locked` never makes the destructor unlock a
  free mutex;
* listener: no descriptor is lost, none that belongs to somebody else is closed,
  callbacks overlap only where the caller asked for it, a stop ends it;
* lifecycle: an object closes its own descriptor, once, and nobody else's;
  `connect` ends in time and its result is true;
* thread: `join`, `detach` and `stop` hit the thread the object started, nothing
  is left unreaped, no cancel outlives its thread, and `stop` returns.

## 2. The modules

| module | what it is |
|---|---|
| `DataTransfer` | abstract: what one `readData`/`writeData` call promises (the text of `ncsocket.h`) |
| `NcTransfer` | the two loops of the poll build; implements `DataTransfer` |
| `MCTransfer` | bounds for TLC |
| `NcTransferProofs` | theorems about `NcTransfer` |
| `NcArch` | the error classes of `ncarch.h` |
| `NcSelect` | the two loops of the select build, over the object and helpers of `NcTransfer` |
| `MCSelect`, `NcSelectProofs` | bounds for TLC; theorems about `NcSelect` |
| `NcSocket` | several `ncSocket` objects over one descriptor table: constructors, `connect`, `close`, `flush`, destructor |
| `MCSocket`, `NcSocketProofs` | bounds for TLC; theorems about `NcSocket` |
| `LockSpec` | abstract: a lock |
| `NcMutex` | `ncMutex`, pthread and WIN32; implements `LockSpec` |
| `NcMutexProofs` | theorems about `NcMutex` |
| `NcListener` | `ncSocketListener` with its callbacks, the descriptor table, the stopping thread and the clients |
| `MCListener` | bounds for TLC |
| `NcListenerProofs` | theorems about `NcListener` |
| `NcThread` | `ncThread`, pthread and WIN32, with the kernel's threads and a mutex (`LockSpec`) that they share |
| `NcThreadProofs` | theorems about `NcThread` |

**NcTransfer.** The variables are the object's two times, the mode of its
descriptor, the arguments and the locals of the call in progress, and three
history variables (bytes moved, milliseconds waited, disconnects reported).
`readData` and `writeData` are the same loop, so one set of actions serves both
and `op` tells them apart: `Call` (entry), `PollTimesOut`, `PollFails`,
`PollReady`, and then what `send()` or `recv()` did: `Transfer(n, w)` (n bytes;
0 is end of file), `WouldBlock`, `Reset`, `XferFails`.  `checkTimeout` is part of
the actions that call it.  Between `PollReady` and the transfer other things may
happen to the connection, so every answer is possible there.  A `send()` on a
blocking descriptor (one from `accept()`, which the library does not switch) may
wait.  `m_timeout`, `m_polltime` and the clock are unsigned ints of `UINT`
values.  The buffer's contents are left out, and the data's order with them.

**NcSelect.** The select build shares fields, entry, `checkTimeout` and the
branches of failure with the poll build, so the module extends `NcTransfer` and
adds `pPtr`, `errno` and a count of EAGAINs.  What differs is kept: the timeval
(`SelectWait`; the product `m_polltime*1000` is an unsigned int and may wrap, and
tenths of seconds are taken for seconds), the branch that treats a `send()` that
failed with `EAGAIN` as a transfer of -1 bytes (`SendBlocks`), and the end of
file, where `recv()` sets no `errno` and the code goes by the old one
(`EndOfFile`).  `SInit` lets `errno` be what `connect` leaves.  An iteration's
`select()` returns at once or after all of its time.

**NcSocket.** One thread per object.  `connect` is `SocketOpens` or
`SocketFails` (both are `Dials`: the old number is overwritten), `Resolve` or
`ResolveFails`, and one `Dial` for each turn of the loop, where the state of the
kernel's socket decides the answer (`Answers`); the peer completes or refuses the
handshake at any time (`PeerAnswers`), also when `connect` is over.  `kernel`
says whether a finished handshake is a success (GNU/Linux) or `EISCONN` (a BSD).
`m_timeout` is one value for all objects, and the clock of `connect` an unsigned
long of `ULONG` values that wraps (`Advanced`).  `close`, `flush` and the
destructor may be called on any object at rest.  Where the code does not defend
itself, the history variable `misused` records it: `close()` or `flush()` of an
object built from a host name and not connected (the 0 it holds is not its own)
while somebody has descriptor 0 open, and `close()` of a number that the object's
FILE wraps (the destructor will close it again).  The harm that such a call does
to the table is part of the step; what comes after it is not followed
(`Abandoned`), and the properties about descriptors speak of the time before.
Objects outside `Retriers` are closed before they connect again; the others are
not, and lose descriptors.

**NcThread.** `ncthread` is uninitialised memory until `start` (the constructor
leaves any identifier in it), may name a thread that has been reaped, or one whose
identifier has been given to another; `mine` says which objects have a thread
still to reap.  `join` and `stop` are two steps, the call and its return, and
other threads run between them.  Every method may be called on any object at rest
and goes to whatever the handle names: a thread that can be joined (`Joins`), one
that is detached, or none, which the kernel refuses.  If it names a thread that is
neither the object's own to reap nor its own detached one, the call is a stray
hit: its effect is part of the step, the history variable `stray` records it, and
what comes after is not followed (`Followed`).  That includes the unconditional
`CloseHandle` of the WIN32 destructor.  The threads' function is the smallest that
matters: it takes and leaves the shared mutex, and may return, call `exit()` or be
cancelled wherever it is, also in the critical section; only not while it waits
for the mutex, since `pthread_mutex_lock` is no point of cancellation (`MayEnd`).
Values are `PTHREAD_CANCELED` and all others.  Assumed of the application: a
thread is joined, detached or stopped before its object starts another or dies,
except by the objects in `Sloppy`.  On WIN32 `join` keeps the handle, and `stop` is
`TerminateThread` (`Terminate`), which asks nobody.

**NcMutex.** A method is two or three steps: the kernel's call and the write of
`m_locked`, in the order of the code.  `owner` and `depth` are the kernel's
mutex, `held` is how often each user has been given it.  The build is a
variable chosen at the start.  Users are well-behaved: only an owner unlocks, a
pthread owner does not lock twice, the destructor runs when nobody else is in
a method or holds the mutex.

**NcListener.** One step for each system call or shared-field access of
`startListening` (`SocketOpens`, `SocketFails`, `Arm`, `SetReuse`, `BindSucceeds`, `BindFails`,
`Listen`, `LoopTest`, `Accept`, `AcceptFails`, `Spawn`, `SpawnFails`, `Join`,
`InlineReturns`, `Recv`, `RecvReturns`, `RecvFails`, `RecvWoken`, `EmptyCallback`), three for
`stopListening` (`Stop`, `StopCloses`, `StopZeroes`), one for the destructor and
a new constructor (`Recreate`), one for the end of a callback, which deletes its
`ncSocket`, and two for the surroundings (`AppOpens`, `Reaches`).  `fd` is the
descriptor table: `socket()` and `accept()` get the lowest free number, so a
number that is closed is soon somebody else's.  `ncSleep` is not a bound on
anything: a thread may be held up longer than another sleeps.  `setsockopt()` and
`listen()` may fail on a good socket as well.  A `recvfrom()` returns -1 on a
descriptor that is gone (`Recv`), and on an open one when a signal interrupts it
or, on WIN32, when the datagram is larger than the buffer (`RecvFails`); with -1
the constructor of `udpData` copies `(size_t)-1` bytes: `pc` becomes `"crash"` and
nothing happens any more.  Assumed of the
application: it restarts a listener only when the last call has returned and a
stop or the destructor has finished since, with the same arguments; one thread
at a time is in `stopListening`; callbacks return and delete their socket.

## 3. The runs

| run | result | what it shows |
|---|---|---|
| `transfer` | passes | `TypeOK`; `CountExact`: bytes left plus bytes moved is `bufLen` and `*numActualBytes` is exact; `Prompt`: waiting stays below the timeout plus a poll time; `TransferContract`: refinement of `DataTransfer`; `DisconnectIsFinal`; `CallReturns` (liveness) and `CallAdvances`, its variant: every step of the loop uses up fuel |
| `transfer_early` | violated | `TimeoutTakesTime`: the loop charges a poll time for iterations that did not wait |
| `select` | passes | `STypeOK`; `Displaced`: pointer, bytes left and count agree, and are off from the bytes really moved by the number of EAGAINs, which for reads is none; `PositionContract`: the return code keeps the contract for the position reached; `TenfoldPrompt`: the wait is at most ten times too long; `SCallReturns` (liveness) and its variant `SCallAdvances`; `ContractUnlessEAGAIN`: without an EAGAIN each step is one of `DataTransfer` |
| `select_count` | violated | `CountExact`: `*numActualBytes` is not what was sent, after an EAGAIN |
| `sockets` | passes | `TypeOK`; until a misuse (section 2), `NobodyRobbed`: whatever an object, its FILE or the application has open is still its own; `NoLeak`: a careful user's descriptors can be closed; `ConnectTellsTruth`; for timeouts that the clock can pass (`SaneTimeout`), `ConnectOnTime`, `ConnectReturns` (liveness) and its variant `ConnectAdvances` |
| `mutex` | passes | `TypeOK`, `Consistent` (the inductive invariant), `FlagClearWhenFree`, `LockRefined`: refinement of `LockSpec` |
| `mutex_islocked` | violated | `IsLockedTellsTruth`: the late `m_locked = 0` of `unlock()` |
| `listener` | passes | `TypeOK`, `DescriptorsOwned`, `CallbacksSerial`, `OthersIntact` (action property), `StopWakes`: no wake-up of a blocked `recvfrom()` is lost; `StopEndsListener` (liveness) and its variant `StopAdvances`: at most four steps after a stop |
| `listener_stop` | violated | `StopAlwaysEnds`: a stop before `m_listening = 1` is lost |
| `listener_threads` | violated | `EveryThreadReaped`: `flags ==` instead of a bit test |
| `listener_port` | violated | `ServesItsPort`: `EADDRINUSE` leaves the bind loop as success does |
| `thread` | passes | `TypeOK`; until a stray hit (section 2), `OwnThread`: handles are not stale when used; `NoZombie`; `CancelVerdict`: what `m_retVal` says of a cancel; `CancelIsOwn`: no cancel outlives its `stop()` or its thread; `StopReturns` (liveness), unless a thread has ended with the mutex |

The six violated properties are what the headers or comments say; the findings
in `PROJECT.json` quote them.  In `listener` and its variants the deadlock check
is off because the process really ends at a crash, and in `thread` because a
thread that ends with the mutex may keep it from everybody, and because a behaviour
is not followed beyond a stray hit.

**Bounds.** `transfer`: an unsigned int of 8 values, buffers of 0, 1 and 3
bytes, times -1 (which becomes 7), 0, 1 and 3: the loop runs not at all, once or
several times, times out exactly at and just past its limit, wraps, and is cut
in up to three pieces; a blocking send stalls for up to `MaxStall` = 1.  The
`waited` clock stops at 2 * `UINT`, above every bound a property compares it
with.  `mutex`: three threads, so that two can race on `m_locked` while the
third holds or destroys; WIN32 depth 2.  `listener`: two clients, four
descriptors, all of which the application may take (two in the runs that look for
a violation), so that a closed number is reused and the table can be full when
`socket()` or `accept()` is called; two starts; `BindTries` = 1 instead of 10,
which only shortens the bind loop; six argument combinations, one for each way
through the dispatch and one that is refused.  `select`: real milliseconds, times
of 0, 50, 100 and 150, on both sides of the 100 where the timeval goes wrong, and
an unsigned int of 20 bits, in which the product with 1000 fits; up to `MaxBack`
= 2 EAGAINs, which for a buffer of one byte put the pointer before its start.
`sockets`: two objects, of which one retries, and three descriptors, of which the
application may have one, so that numbers are reused and run out; a tick of 2
and timeouts of 3, so that the last tick does not fit, and of 5, where the unsigned
long of 6 values wraps first and `connect` may run for ever.  `thread`: two objects, one
of them sloppy, and two identifiers, so that an identifier is reused while
another object still has it in its field.

**Fairness.** `transfer`: weak fairness of the loop, except where the kernel may
keep a thread for ever: a blocking `send()` and a `poll()` with a negative time.
`listener`: weak fairness of the listening thread, of a `stopListening` in
progress and of each callback: the scheduler runs threads that can run, and
callbacks are assumed to return (a joined or inline callback that does not,
keeps the listener for ever), as long as the process lives; a failing
`recvfrom()` is never forced by it.  `select`: weak
fairness of the loop, except for a blocking `send()`.  `sockets`: weak fairness
of each thread in `connect`, name resolution included; nothing of the peers.
`thread`: weak fairness of a join that can return and of leaving the critical
section; strong fairness of getting the mutex (a thread that goes on waiting is
served) and of reaching a point of cancellation when a cancel is pending, without
which `stop()` does wait for ever; all as long as the behaviour is followed, as in
`sockets`.  Nothing is assumed of clients, of the application
or of when a stop comes.

## 4. The proofs

All are for every value of the constants (any width of unsigned int from two
bits up, any buffers and times, any number of threads and depth of re-entry, any
clients and size of the descriptor table).

`NcTransferProofs`: `TransferTypes`, `TransferCountsExactly`,
`TransferIsPrompt`, `TransferDisconnectFinal`, `TransferKeepsContract`.  The
inductive invariant joins `TypeOK` and `CountExact` with three facts: a loop
that still runs has not timed out (without it the verdict of an earlier
iteration could leak into the result), every direction reported as disconnected
has been shut down, and `Timely`: while the loop runs, its clock is 0 or below
the timeout, and is never behind the time really waited (by at most the poll in
progress).  `Timely` is what makes `Prompt` inductive; it needs that on sane
times (`SaneTimes`: positive finite poll time, timeout plus poll time at most
`UINT`) the unsigned addition does not wrap (`NoWrap`, from `ModSmall`).  The
refinement maps each step of the loop to `Progress`: the lemma
`CheckTimeoutType` says what `checkTimeout` may answer for the bytes counted,
and `VerdictAllowed` that the contract permits it.

`NcMutexProofs`: `MutexInvariant`, `MutexFlagClear`, `MutexRefinesLock`.  The
invariant `Consistent` ties `owner` and `depth` to what the users hold, and says
that while `m_locked` is 1 the mutex is owned or an `unlock()` has its late write
still to make; `FlagClearWhenFree` alone is not inductive because it does not
speak of the moments when methods run.

`NcListenerProofs`: `ListenerOwnsDescriptors`, `ListenerCallbacksSerial`,
`ListenerLeavesOthers`.  The invariant has two halves.  `Ledger` says whose each
descriptor is.  Its main part is that a nonzero `m_sockfd` names the listener's
own socket exactly until `stopListening` has closed it, and afterwards, until it
is zeroed, does not: so what a stop or the destructor closes is its own, and
what the zeroing forgets is already closed.  It also follows a client from the
kernel's queue (no descriptor, no callback) through the dispatch (a descriptor,
no callback yet) to its callback.  `Dispatch` ties the arguments to the way
callbacks are run.  `QuietStep` serves all the steps that touch neither.

`ListenerTypes` rests on the same invariant; `MutexTypes` is proved on its own.

`NcSelectProofs`: `SelectTypes`, `SelectDisplaced`, `SelectPosition`,
`SelectTenfold`.  The lemmas of `NcTransferProofs` about `checkTimeout` and the
unsigned clock are used again.  The invariant adds to the properties that a loop
that runs has a real buffer and has not timed out, and `STimely`: the time really
waited is at most ten times the clock, and at most the clock if the poll time is
below 100 ms (`SelectWaitBound`).  `AdvanceSInv` treats a transfer of n bytes for
every n, -1 and 0 included, so that EAGAIN and end of file are instances of it.

`NcSocketProofs`: `SocketTypes`, `SocketNobodyRobbed`, `SocketNoLeak`,
`SocketTellsTruth`, `SocketOnTime`.  The invariant has a part that always holds
(`TypeOK`, and `Clock`: the clock of a `connect` that runs is the time slept, and
`ConnectOnTime`) and one that holds until a misuse.  `NobodyRobbed` is not inductive
alone: `Files` adds that an object that does not exist has nothing, that one which
has not dialled has 0 or no number (so that the destructor's test for > 0 finds only
its own), and that a careful user's FILE is on the object's own descriptor (else the
destructor would lose it).  `OwnClosed` is the heart: who closes a number that is
his own or nobody's, and keeps no claim on it, leaves everybody else's in order.
For `connect`, `Calls` says that a socket not dialled yet is not connected, and that
a refused one never will be.

`NcThreadProofs`: `ThreadTypes`, `ThreadIsOwn`, `ThreadNoZombie`,
`ThreadCancelVerdict`.  All but the types are about the time until a stray hit.
`Handles` adds to `OwnThread` that
detached threads are running (an ended one is gone, and its identifier with it)
and that an object in `join` or `stop` has a thread; `Joinable` extends `NoZombie`
to running threads, which is what makes it inductive; `Verdicts` says that
`m_retVal` is `PTHREAD_CANCELED` only after a join.

**Why calls return.**  Liveness itself cannot be proved here, but what it rests
on can.  Each liveness property of a loop has a *variant*: a number that every
step of the loop lowers, that stays natural, and that no other actor raises.  The
runs check the variants and these theorems prove them for every value of the
constants:

* `TransferAdvances` and `SelectAdvances` (`CallAdvances`, `SCallAdvances`).
  `Fuel` is twice the time the clock has left, plus one before `poll()`.  A step
  ends the call, goes from `poll()` to the transfer, or charges one poll time
  (`Charged`).  `CheckCharges` shows that of each branch that calls
  `checkTimeout`, and `ChargedAdvances` draws the conclusion for both builds.
  They need an invariant of their own, `Clock`: on sane times the clock of a call
  that runs is 0 or below the timeout.  Unlike `Timely` it also speaks of blocking
  writes, whose number of system calls is bounded although their time is not.
* `SocketAdvances` (`ConnectAdvances`).  `Patience` is the time `connect` may
  still sleep.  That it is natural follows from `ConnectOnTime` and from `Clock`
  (the clock is the time slept, and does not wrap below a sane timeout); `OthersPatient` shows that no other object, file
  or peer touches it.
* `ListenerStopAdvances` (`StopAdvances`).  `StepsLeft` counts the steps
  that `startListening` may take after a stop, four at most, from every place
  past `m_listening = 1`.  A step may have to wait for a callback or for
  `recvfrom()`; for the latter, `ListenerStopWakes` (`StopWakes`) proves that no
  wake-up is lost: a listener that was told to stop and is still blocked has been shut down,
  or the stop is still asleep before its `shutdown()`.  Its invariant `Waking`
  says that a stop is in progress until `m_sockfd` is 0 and that a `recvfrom()`
  nobody has woken is on a socket nobody has closed.
* `ThreadCancelIsOwn` (`CancelIsOwn`) and `ThreadStopCancels`: cancels
  (of threads that are not detached) and waiting `stop()`s correspond one to one, so a `stop()` never waits for a
  thread that was not cancelled and no cancel is left for the next thread under
  the identifier.  `CancelIsOwn` is not inductive alone: on WIN32 a wait ends
  without reaping, and `Cancels` adds that there are no cancels in that build.

What is missing for liveness is only that the step that lowers the variant is
enabled and is taken, which is where fairness comes in.

`SelectKeepsContract` (`ContractUnlessEAGAIN`) is the refinement of `DataTransfer`
for the select build, step by step, as far as it goes: `Displaced` says that the
position is the number of bytes moved as long as `back` is 0, and then
`PositionContract` is the contract for the bytes.  Every `readData` is covered.

The assumptions are the `ASSUME`s of the modules: types of the constants, `UINT >
3` (for the select build `UINT > 100000`, which every real unsigned int meets),
`NoThread`, `NoTid` and `NoObject` not members of the sets they extend, clients
and objects distinct from the other marks of a descriptor table, socket types TCP
or UDP.  TLC evaluates them in the runs.

Only model-checked, because fairness and ENABLED are beyond the prover:
`CallReturns`, `SCallReturns`, `ConnectReturns`, `StopEndsListener`,
`StopReturns`.  All have the parts of their argument that are safety proved, as
above.  The six violations are TLC's as well.

## 5. Not modelled, and what is left

Not modelled:

* `netClass`: `WSAStartup` and `WSACleanup` around a WIN32 program, empty
  elsewhere.  Its hazard is listed: `initialize` is static, but each object's
  destructor cleans up.
* `ncarch.h` beyond the two error classes, `ncconsts.h`, `ncenums.h`,
  `ncdebug.h`: names, types and constants.
* `udpData` beyond the length -1: a value that never changes.
* getters and setters that carry a number (`getIpAddr`, `setIpAddr`, `getSockfd`,
  `getBackLog`, `setBackLog`, `getThreadHandle`).
* debug output and the text of names and addresses; failures of `detach()` and
  `join()` of a thread that has just been started; a `new` that returns a null
  pointer (it throws instead); an `fd_set` with a descriptor beyond `FD_SETSIZE`.
* what happens after a stray hit (`NcThread`) or a misuse (`NcSocket`): two owners
  have one number then, and the code promises nothing.  A `pthread` call on a handle
  that names no thread is taken to return an error; it may also crash.

Cases that the model has and the properties exempt, because the code does get them
wrong: number 0 from `socket()` (leaked, and taken for a failure), a `connect()`
again without `close()` (loses a descriptor), `EISCONN` on a BSD (reported as a
failure), the value that `exit()` hands on from an earlier thread, a mutex whose
holder has ended, the -1 of `recvfrom()`, a timeout that the clock cannot pass.

Left for later:

1. A second thread in `stopListening`, or a start before the last stop, which leave
   the use that the code seems meant for.
2. `NcStream`: a writer and a reader, each an `NcTransfer` loop, over a bounded
   TCP channel; what is read is a prefix of what was written.  The byte accounts
   that it needs are proved (`CountExact`, and `Displaced` for where the select
   build breaks it).
