# Verification of the ThreadX C++ wrapper

`src/` is a header-and-source C++23 wrapper around Azure RTOS: ThreadX (threads,
timers, semaphores, mutexes, queues, event flags, memory pools), FileX (media,
files) and LevelX (NOR flash).  Nearly every method is one call of the native
kernel; what the wrapper adds is the part worth verifying, and these modules
concentrate on it: a critical-section class with an atomic flag, `join()` on
threads, parameters cached beside a kernel timer, the conversion of durations
and deadlines to ticks, loops and clean-up around kernel calls that can fail.

The native kernels are not under `src/`.  They are modelled by what their
services do as the wrapper uses them, and marked external in `PROJECT.json`.

## Inventory

| Part | State it keeps | Operations | Interacts with | What is hard |
|---|---|---|---|---|
| `Kernel::CriticalSection` (kernel.hpp, kernel.cpp) | one static flag `m_locked`, one static saved interrupt posture | `lock`, `unlock`, scoped guard | the CPU's interrupt posture; used by `Thread::join` | preemption between test-and-set and disabling; nesting; two contexts sharing one flag and one saved posture |
| Kernel entry and queries (kernel.cpp) | none | `start`, `inThread`, `inIsr`, `state` | kernel system state | nothing concurrent |
| `Thread` (thread.hpp) | native thread block, `m_stackAlloc`, `m_exitSignalPtr` | create, destroy, resume, suspend, reset, restart, terminate, abortWait, join | CriticalSection, BinarySemaphore, memory pools; the kernel calls `entryExitNotifyCallback` back | a pointer to a semaphore on another thread's stack; exit racing with join, abort, restart, terminate; a thread that runs before or after its object is whole |
| `ThisThread` (thread.hpp, thread.cpp) | none | `sleepFor`, `sleepUntil`, `yield`, `id` | `TickTimer::ticks` | rounding, wrap-around, deadlines that have passed |
| `TickTimer` (tickTimer.hpp, tickTimer.cpp) | native timer block, `m_timeoutTicks`, `m_type`, `m_activationType` | create, destroy, five `reset`s, `activate`, `deactivate`, `now`, `ticks` | tick interrupt, expiration callback | members and kernel timer changed in several steps |
| `CountingSemaphore`, `BinarySemaphore` (semaphore.hpp, semaphore.cpp) | native semaphore, ceiling | acquire in four forms, `release(n)`, `prioritise`, destroy | threads, timers, ISRs; `join` | `release(n)` is n puts and may stop half-way |
| `Mutex`, `LockGuard`, `UniqueLock` (mutex.hpp, mutex.cpp) | native mutex | lock in four forms, `unlock`, `prioritise`, destroy | `std::lock_guard`, `Thread::abortWait` | the guard ignores the error of `lock()` |
| `Queue` (queue.hpp) | native queue, its storage | send and receive in four forms each, front send, `flush`, `prioritise`, destroy | memory pools, send callback | waiters on both ends, front sends, deletion with waiters |
| `EventFlags` (eventFlags.hpp, eventFlags.cpp) | native group | `set`, `clear`, `get`, wait for all or any, clearing or not | set callback | several waiters satisfied by one set; clears racing with sets; a callback that comes late |
| `BytePool`, `BlockPool`, `Allocation` (memoryPool.hpp) | pool memory, one pointer each | allocate and release by scope | Thread, Queue | lifetime of pool and allocation, size arithmetic |
| `Media` (media.hpp) | native media, static `m_fileSystemInitialised`, driver callback | open, format, close, directory and sector calls | user driver, NorFlash | once-only initialisation, open in two steps, close in the destructor, a local directory kept in a local variable |
| `File` (file.hpp, file.cpp) | native file | open by constructor, allocate, truncate, seek, read, write, close by destructor | Media | lifetime against the media's |
| `NorFlash` (norFlash.hpp) | native flash, static `m_initialised`, block layout | open, close, defragment, sector calls, driver callbacks | user driver | once-only initialisation, open in two steps, sizes computed from members set at open |
| `NandFlash` (nandFlash.hpp) | | | | whole file under `#if 0` |
| `Trace` (trace.hpp) | a buffer | one trace service each | | nothing concurrent of its own |
| Common types, build | enumerations | | | |

The hazards, each at its line, are listed in `PROJECT.json`.

## Modules

| Module | Models | Correspondence |
|---|---|---|
| `CriticalSection` | kernel.cpp:15-31 | `locked` is `m_locked`, `interruptSave` the static `interrupt_save`, `posture` the CPU's; `LockTestAndSet`, `LockDisable`, `UnlockTest`, `UnlockRestore`, `UnlockClear` are the machine steps of the two functions; `Interrupt`, `InterruptReturn`, `Schedule` are the single core |
| `IdealCriticalSection` | the promise of kernel.hpp:22-31 | an owner, and a core that is not given away while there is one |
| `JoinSection` | thread.hpp:315-335 on the steps of `CriticalSection` | `JoinerGuard` is the scoped object of line 321, `JoinerChecks` line 323, `JoinerPublishes` line 328, `JoinerAcquires` line 331, `JoinerReturns` line 334, `TargetExits` the exit callback |
| `Thread` | thread.hpp | `state` and `delayed` are the native thread's state and pending suspension, `exitSignal[t]` is `m_exitSignalPtr` (the thread on whose stack the semaphore lives), `pc` a step of `join()` or `restart()`; one action per call |
| `ThreadLife` | constructor and destructor of thread.hpp, `BytePool` and `Allocation` of memoryPool.hpp | extends `Thread`: `life` is how far the constructors and destructors of an object have come, the start type is a parameter of `Create`, `created` what the kernel knows, `stack` the span of the pool that `m_stackAlloc` holds; `Need` and `PoolSize` are the sizes `Allocation` and `minimumPoolSize()` compute with |
| `TickTimer` | tickTimer.hpp, tickTimer.cpp | `m` is the three members, `active`, `remaining`, `reload` the native timer; `Reset`, `ResetChange`, `ResetAssign`, `ResetActivate` are the steps of `reset()` between which others run |
| `TickDeadline` | tickTimer.hpp:44, 99-107, thread.hpp:19-29 | `Ticks` is `ticks()`, with its clamp, its narrowing cast and its rounding; `TicksUntil` is `ticks(time - Clock::now())` for an unsigned and a signed clock |
| `CountingSemaphore` | semaphore.hpp, semaphore.cpp | `count`, `waiters` are the native semaphore, `left` the loop variable of `release(n)` |
| `Mutex` | mutex.hpp, mutex.cpp | `owner`, `count`, `waiters` are the native mutex, `depth` the guards a thread has alive, `how` whether the caller looks at the Error of `lock()`; `Terminate` is a thread that dies with its guards |
| `Queue` | queue.hpp | `stored` is the native storage, `waiters` the suspension list (receivers of an empty, senders to a full queue), `telling` the contexts inside the send callback; one action per call, for the native service as a whole |
| `IdealQueue` | the promise of queue.hpp | one unbounded line of messages; `Queue` maps suspended `sendFront()`s, storage and suspended `send()`s to it |
| `EventFlags` | eventFlags.hpp, eventFlags.cpp | `flags` and `waiting` are the native group, the callback is a step of its own after the set; `Option` is the class of that name, with the kernel's numbers, `waitAllFor` and `waitAnyFor` what the wrapper makes of it for the kernel (eventFlags.hpp:88, 107), `AndBit` and `ClearBit` the bits the kernel looks at; the other variables are history: which setting of a flag went to whom, and who was told |
| `Storage` | life of the objects of media.hpp, file.hpp, file.cpp, norFlash.hpp | `flagged` is the two static flags, `open` and `handle` the objects' own state, `listed` the kernels' lists, `enabling` an object between the two calls of `open()`, `formatted` the size `mediaFormatSize()` gave, `faultTolerant` whether FileX is built with FX_ENABLE_FAULT_TOLERANT; `Stops` is an assertion that fails or a pure virtual function that is called, after which there is no step |
| `...Proofs` | | the theorems about the module they extend |
| `MC...` | | the instances TLC checks |

Definitions called a fault in their comment are deliberate bugs, one for each
property: put in the place of the definition after them they make the property
fail.  They are used by no specification.

What is abstracted: names, time slices, callbacks of the application (a callback
that calls back into the wrapper is a context like any other), the payload of
objects.  `join()`'s critical section is one action of `Thread`; the composition
`JoinSection` of it with `CriticalSection` justifies that, and says for which users
of the section.  The three assignments to a timer's members (tickTimer.hpp:148-150)
are one step: with calls that do not overlap nothing reads them in between.  The
byte pool takes any hole that is large enough, where the kernel's search starts at a
place of its own choice.  A service of a native kernel is one step: the kernels
lock themselves.

## Runs

| Run | Question | Bounds and why they are enough |
|---|---|---|
| `critical_section` | do users of one priority get the promise of CriticalSection, do interrupts come back, is join()'s block atomic? | two users, a thread above and one below them, two nested interrupts; a third user of the same priority could only wait its turn |
| `cs_preempted_lock` | and users of different priority? No: `Protected` fails | a user of lower priority is enough |
| `join` | is join() right against every other call on threads, is it so for threads that are destroyed and constructed again, do they keep their stacks, is there room for them? | three threads: a joiner, its target, one that interferes or joins in a chain or a ring; two of them mortal, with stacks of 6 and 8 bytes, words of 2 (`Word`), a smallest block of 10 (`MinBlock`): the smaller rest is given away with a block, and the holes differ with the order of allocation |
| `join_restarted` | does the assertion of the exit callback hold? No: a restarted target releases twice | restart() is the only other call |
| `auto_started` | does a thread execute only the entry point it was defined with? No, not one that is started by default: `EntersDerived` fails | the threads of `join`, without the habit `startsWhole` |
| `time` | do members and kernel timer agree until the timer is destroyed, do changes take effect, when does a sleep until a deadline end? | each behaviour is about the timer or about a deadline, which share nothing. Timer: two callers; timeouts of 0 (refused), 1 (the tick periodicImmediate starts with) and 2 ticks. Deadline: 3 units a tick, a counter of 8 that wraps, deadlines up to 6 ticks ahead (`MaxAhead`, the furthest the theorems allow: two ticks less than a turn) from every value of the counter |
| `deadline_passed` | and if a TickTimer deadline passed before the call? It sleeps for a whole turn of the counter | `MaxLate` more than a tick |
| `semaphore` | are instances conserved, does release(n) say truly what it did? | two threads, an ISR, ceiling 2, releases of up to 2 (`MaxRelease`), 3 puts in all (`MaxPuts`): a full semaphore, a half-made release and two waiters all occur |
| `mutex` | do sections exclude each other, is ownership balanced, is the most important waiter served? | two threads of one priority and a less important one, priority inheritance, sections of guards and of checked calls nested to `MaxDepth` 2 |
| `queue` | are messages received in order and once, do sends answer truly, is every message announced, is it the ideal queue? | two threads send and receive, an ISR receives; room for 2, `MaxSent` 4: two stored and two suspended, every mix of front and plain sends |
| `events` | is a waiter overlooked, does an answer hold, is an event used twice, is one set that nobody will report? | two threads that ask, an interrupt that sets while both wait, two flags, each set anew at most twice (`MaxSet`): every mask, both calls, both options; an ISR's `get()` is that of a thread that does not wait, so only threads ask (`Getters`) |
| `storage` | do the kernels' lists say what is open, does a formatted media fit its flash? | two medias, flashes and files; FileX with and without fault tolerance; four blocks of four sectors, the largest number of blocks for which the size holds; the run has no other bound |

`CHECK_DEADLOCK FALSE` stands where the system may really stop: in `join` and
`join_restarted` and `auto_started` every thread may have finished, or wait in a ring
of joins, in `time`, `deadline_passed`, `semaphore`, `mutex`, `queue` and `events` the
object may be destroyed, in `storage` an assertion may have stopped the program.

Type invariants are checked by a run where they say more than a type, of `Thread`,
`TickDeadline` and the semaphore: a count within its ceiling, a number within its
width.  `Queue` is typed by the invariant of its proofs.

Two more bounds live in the guards: `MaxDepth` (how deep a context nests critical
sections; with 2 the inner `unlock()` ends the outer section, so the theorems
assume 1) and `MaxOver` (how long a sleep beyond its deadline is followed).

### Fairness

`Thread`: a ready thread gets the core and takes its next step of `join()`; the
scheduler is priority-based, so this assumes an application in which no thread
spins for ever.  Nothing is assumed about targets, `resume()` or other calls.
`Mutex`: a section that was entered is left, and so is the outermost one however
often its thread nests others in it (strong fairness); without that a section
that never ends would refute any liveness of a lock.  Nothing is assumed about
who locks, and no fairness about time-outs.
`JoinSection`: the running context executes its next instruction inside `lock()`,
`unlock()` and `join()`'s block, and a scoped section is left.  `TickTimer`: a
caller inside `reset()` goes on.  The other modules state safety only.

## Properties

The safety properties, the action properties and the liveness properties are
stated, with the code they are about, at the end of each module.  The ones that
carry most:

* critical sections: `Protected` and `ImplementsIdeal` (nobody else runs inside a
  section), `NothingLeftBehind`, `JoinerIsWoken`;
* join: `NoLostWakeup`, `PointerValid`, `SuccessMeansExit`, `JoinReturns`;
* the life of threads: `EntersDerived` (what a thread executes is the derived
  class's `entryCallback()`; it fails for the default start type), `StackHeld`,
  `RoomForAll` (a pool of `minimumPoolSize()` suffices in any order),
  `ImplementsThread` (what is said of join holds for threads that come and go);
* timers: `MembersDescribeTimer` (also after a reset that failed),
  `ChangeTakesEffect`, `NeverOversleeps`, `WakesWithinATick`;
* semaphore: `Conserved`, `NoIdleInstance`, `ReleaseTold` (the Error of
  `release(n)` against the instances that were put);
* mutex: `Exclusion`, `Balanced`, `TopPriorityGetsIn`;
* queue: `InOrder`, `SendAnswersTruly` (a sender may retry what was refused, and
  only that), `Announced`, `NoIdleWait`, `ImplementsIdeal`;
* event flags: `NobodyOverlooked`, `AnswerHolds` (what the caller asked for with
  `waitAll`, `waitAny` and its `FlagOption` is what it got, through the numbers the
  wrapper makes of them), `Accounts`, `Announced` (a flag
  nobody was told of is never set without a callback on its way);
* storage: `ListsAreTrue`, `MediaFits`.

## What the checks found

* `CriticalSection` protects only users of one priority that do not nest.  A user
  preempted between `test_and_set` and `TX_DISABLE` (kernel.cpp:17-20) makes every
  user that preempts it run unprotected.
* A thread that ends, is restarted and ends again before its joiner has run
  releases the joiner's binary semaphore twice: thread.hpp:378 asserts.
* A thread that is constructed with the default start type (thread.hpp:99) is ready
  inside `tx_thread_create` (thread.hpp:216), before its callback is registered and
  before the derived class that has its `entryCallback()` is constructed: on a core that
  is given to it there it enters a pure virtual function, where thread.hpp:116 says that
  it executes at the entry point defined at its creation.
* A deadline of TickTimer's own clock that has passed oversleeps: the difference is
  unsigned and tickTimer.hpp:101 cannot see it.  One tick late makes 2^32 - 1 ticks,
  which is `waitForever`; more make almost 2^32.

The assumptions of the passing runs say where else care is needed.

`SerialJoin`:
the assertion of thread.hpp:317 is evaluated outside the critical section, so it
does not keep two joiners apart.  `KillJoiner = FALSE`: a joiner that is
terminated leaves `m_exitSignalPtr` pointing into its stack.  `Serial` (timers):
a call that overlaps a `reset()` can make its change a no-op.  A sleep of n ticks
may end up to a tick early, its first tick having begun already, so `NeverEarly`
is stated for TickTimer's own clock only.

`AbortGuards = FALSE`: `std::lock_guard` drops the Error of `lock()`; if
`Thread::abortWait` ends the wait of a guard its thread runs its section as a
second owner, and its `unlock()` fails or takes an ownership away.
`MixFronts = FALSE`: `prioritise()` while a `sendFront()` is suspended may put a
suspended `send()` before it, and the front message then waits behind stored
ones.  The callback of a queue makes no call that suspends, and the queue is not
destroyed while a callback runs.  `flush()` answers success to the senders it
resumes, although their messages are gone with the stored ones; `SendAnswersTruly`
counts a flush as a receiver for that reason.  `EventFlags::get()` with its
default mask asks for all 32 flags at once.

`Habits` are what an application must do; leave out any of them, and TLC finds the
properties named here violated.

| Without | what happens |
|---|---|
| `startsWhole` | a thread that is started by default runs, and may finish, before its callback is registered and its derived class constructed (thread.hpp:216): `EntersDerived`, `ImplementsThread` |
| `endsFirst` | the destructor of the derived class runs while the thread does, and `Thread`'s destructor ends it only then (thread.hpp:225): `ImplementsThread`, `EntersDerived` |
| `callsDone` | a thread is destroyed that another one is joining or restarting: `ImplementsThread`, `EntersDerived` |
| `serialInit` | the flag is set before `fx_system_initialize()` or `lx_nor_flash_initialize()` has run (media.hpp:161, norFlash.hpp:111); a constructor that preempts it goes on, opens, and the initialisation then empties the list: `ListsAreTrue` |
| `flashOpen` | the destructor closes a flash that is not open, and the kernel unlinks whatever it finds (norFlash.hpp:119): `ListsAreTrue` |

What the wrapper asserts of storage is modelled with its failure: `Storage` takes the
step `Stops`, after which nothing is left to check.  No habit keeps it from there, and no
property says that it does not get there, for it may:

* the destructor of a media that is open closes it, also one that was left open by an
  `open()` whose second call failed (media.hpp:198); the driver it calls is a pure virtual
  function by then (media.hpp:180-184);
* `fx_file_open` fails for a file that is not there, a media that is not open or an
  error of the driver, and the constructor of `File` asserts (file.hpp:69-70);
* `abort()` or `close()` of the media closes the files under their File objects, whose
  destructors assert, as they do after an error of the driver (file.cpp:9-10);
* `open()` of a media, with fault tolerance by default, asserts where FileX has none
  (media.hpp:200);
* `mediaFormatSize()` reads a number of blocks only a first `open()` sets, and asserts
  (norFlash.hpp:125).

Hazards that are assumed away or only shown are not covered by any property: nested
sections, two joiners or a killed one, overlapping resets, aborted guards, the two
initialisations and the flash that is closed twice, a flushed sender, `prioritise()` among
suspended `sendFront()`s, stacks of three sizes, and a flash with more blocks than
sectors in a block.  `PROJECT.json` says so at each.

Two properties hold for some sizes only, and the assumptions say for which.

* `MediaFits`: `mediaFormatSize()` (norFlash.hpp:126) keeps one block back, while each
  block keeps one of its sectors for its metadata (norFlash.hpp:40).  The formatted
  media fits exactly when there are no more blocks than sectors per block
  (`FormatSizeIsExact`); most real flashes have many more.
* `RoomForAll`: `minimumPoolSize()` (memoryPool.hpp:197) does not round a size up to
  words, and the kernel does not split off a rest below its smallest block.  The
  sizes must be whole words and no smaller than that block.  Of three mortal threads
  with stacks of different size the third may find the pool in pieces: with a word of
  1, blocks down to 1 and stacks of 1, 4 and 7 bytes, construct them in the order 7, 1,
  4, destroy 7 and 4 and construct 4 anew.  The run and the theorem have two; three
  stacks of one size find room, too.

## Proofs

All theorems are checked by TLAPS for every value of the constants.

* `CriticalSectionProofs`: `TypeCorrect`, `WinnerIsProtected` (no nesting),
  `SectionIsProtected`, `SectionLeavesNothing`, `Implements` (users of one
  priority, no nesting: `OnePriority`).  The invariant says that at most one user
  is busy, what the flag, the saved posture and the posture are at each of its
  steps, and that it is the loaded thread whenever interrupts are off; it is
  needed because `Protected` alone says nothing of the steps before and after.
  Then, of `JoinSection`, `JoinTypeCorrect`, `TargetStandsStill` and `JoinerAlwaysWoken`,
  from the lemmas about one step of the core.
* `ThreadProofs`: `TypeCorrect`, `JoinLosesNoWakeup`, `ExitPointerValid`,
  `JoinSuccessMeansExit`, `JoinAssertHolds`, under `Courteous` (one joiner per
  thread at a time, none of them killed).  The invariant ties the pointer of a
  thread to the step its joiner is at.  Of `ThreadLife`, under `Tidy` (`Courteous` and
  the three habits): `LifeImplementsThread`, `StacksAreHeld`.
  `LifeIInv` says what a thread is doing at each stage of its object's life: one that
  is not alive is suspended or has finished and nobody joins it, so that creating
  it is a `Reset` and destroying it a `Terminate` of `Thread`, or a stutter.
  `TwoThreadsHaveRoom` needs neither: with two mortal threads every stack is at an
  end of the pool and no two at the same one (`AtEnds`), so there is always one
  hole, and it is the place the other stack had or will have.  The fold that sums the
  sizes is computed for two threads by showing that the function of its subsets with
  the obvious values satisfies its recursion (`SumOfTwo`).
* `TickTimerProofs`: `MembersAgree`, `ChangeIsMade`, `ActivationAccepted`, `TypeCorrect`,
  for calls that do not overlap.  Of `TickDeadline`: `DeadlineTypeCorrect`,
  `SleepNeverTooLong`, `WakesInTime`, `NeverReturnsEarly`, for a counter of any width and
  ticks of any length, under two hypotheses, which the run `time` satisfies: a
  deadline of TickTimer's own clock is used less than a tick after it passed
  (`InTimeCalls`; `deadline_passed` shows what happens otherwise), and none is further
  ahead than two ticks less than a turn (`NotTooFar`), beyond which `ticks()` answers
  `waitForever` or wraps (`TicksAtTheLimits`).  The invariant
  relates the ticks still to sleep to the distance of the deadline.  Under it lie
  `TicksRoundUp` (`ticks()` is the least number of ticks that lasts as long),
  `TicksAtTheLimits` (the two durations it mistakes) and `PassedDeadlineWraps` (how long
  a call with a deadline that passed sleeps); their divisions are taken to linear
  facts about quotient and remainder first (`Quotient`, `QuotientIs`).
* `CountingSemaphoreProofs`: `TypeCorrect`, `InstancesConserved`, `NothingIdle`,
  `ReleaseTellsTruth`.
* `MutexProofs`: `SectionsExclude`, `OwnershipBalanced`, `NoIdleMutex`, `TypeCorrect`, for
  any threads, priorities, nesting and either inheritance, under `GuardsWait` (no
  guard's wait is aborted).  `Exclusion` follows from `Balanced`; that is inductive
  only together with: a thread is listed at most once, the count is zero exactly
  when nobody owns, and a waiter is not the owner.
* `QueueProofs`: `NobodyWaitsIdly`, `StorageSuffices`, `AnswersAreTrue`,
  `NothingUnannounced`, `MessagesInOrder`, for any contexts, capacity, priorities and
  order of calls, `MixFronts` or not.  The invariant comes in four parts, the last two
  resting on the first two.  `IInv` types the suspension list by what its threads
  wait for: all of them find the queue empty, or all of them find it full, so that
  one receive or send decides for the whole list.  `HInv`: a waiting sender has no
  answer yet, and a context's latest message is its youngest.  `TInv`: a stored
  message is announced or its sender is inside the callback.  `OInv`: what was
  received and what is stored make one ordered line, into which every accepted
  message is inserted younger than its sender's others.
  `IsOneLine`: `Queue` implements `IdealQueue` if nothing is prioritised while a
  `sendFront()` is suspended (`MixFronts = FALSE`; with `TRUE` TLC finds a step that is
  none of the line's).  The mapping (`Around`) puts what suspended senders offer before
  and after the storage, split at the number of suspended `sendFront()`s.  That is the
  line in the order of its future only while those come first in the list, which is
  the invariant (`FInv`: the list is a join of two lists, fronts and others).  With the
  list cut so, the line is a join of three sequences, and each service changes one
  end of one of them: a send appends or prepends, a receive takes the head, a call
  that is given up takes one element out, `prioritise()` moves one of the offers behind
  the storage.  Of an empty queue only receivers are suspended, by `IInv`, so the line
  is empty; a full one has messages in it, so that those suspended are senders.
* `EventFlagsProofs`: `NobodyWaitsForSetFlags`, `AllEventsAccounted`, `AnswersHold`,
  `CallbackComes`.  The invariant adds that events that are gone are not younger than
  their flag, so that a flag set anew is an event nobody has seen.  That the kernel is
  asked for what the caller means is `OptionsUnderstood` and `SetOptionsUnderstood`: the
  bits of `waitAllFor` and `waitAnyFor` say all or any and clear or not as the name of the
  caller's option does.  `AnswersHold` rests on it.
* `StorageProofs`: `TypeCorrect`, `ListsStayTrue` under `Careful` (both habits),
  `FormattedMediaFits`, `FormatSizeIsExact`, `MetadataFits` (a block's
  metadata fits its first sector).

`TargetStands` (the check of join() is not stale when it is used), `JoinAssert`,
`ResetCanActivate` and `WaitsForAnother` are stated by a theorem only.

Only model-checked: liveness (`InterruptsComeBack`, `JoinReturns`, `ResetStarts`,
`TopPriorityGetsIn`), which the prover does not reach, and `RoomForAll` of more than two
stacks of one size, whose sum is an induction over the set of threads.  Every other
property of a passing run is stated by a theorem.

## Not modelled

* `NandFlash`: the whole file is under `#if 0`.  `Trace`, the kernel entry, the
  queries, `BlockPool`, the enumerations and the build: one kernel call or none, and
  no state of their own that others could see changing.
* `Thread`: the setters of priority, preemption threshold and time slice and the
  stack error callback, on which no state of the model depends.
* `BytePool`: allocations that wait (those of `Thread` and `Queue` do not), and the
  destructor of a pool.
* `Media`, `File`, `NorFlash`: what moves data only, that is, reading, writing, seeking,
  sectors, defragmentation and the directory calls.  That includes
  `localDir(path)`, which leaves the thread the address of a local variable
  (media.hpp:287): every call does, whatever came before it, and what is read there later
  is undefined.  The format of a media while it is open.
* `Queue`: the contents a receive that failed returns, which is a value nobody may use.
* Durations of 2^32 - 1 ticks and more (tickTimer.hpp:44); `MaxAhead` keeps below.

What a next step would be: `mediaFormatSize()` with the format of a media while it is
open, the calls that move data of `File`, and the allocations of `BytePool` that wait.
