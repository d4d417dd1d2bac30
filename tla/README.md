# Verification of qff

qff is a C++ fiber library: blocking system calls are hooked, a fiber that would
block is suspended, and an `IOManager` (a scheduler, an epoll instance and a timer
queue in one object) resumes it when its descriptor is ready or its time is up. On
top of it are sockets, a byte buffer and an HTTP parser. This directory holds TLA+
models of the library, the TLC runs that check them, and TLAPS proofs.

    tlc -workers 2 -config MCTimerManager.cfg MCTimerManager      # a run
    tlapm EventLoopProofs.tla                                     # proofs

## The system

| component | source (`src/qff/`) | state | operations | model |
|---|---|---|---|---|
| timer queue | `timer.cpp` | `m_timers`, a `std::set` ordered by deadline; `m_tickled`, `m_previous_time`; per timer deadline, delay, recurring, callback | add, cancel, refresh, reset, `get_next_time` (with rollover detection), `list_expired_cb`, `timer_manager_stop` | `TimerManager` |
| I/O events | `io_manager.cpp` | per descriptor `FdContext` (armed events, a waiter for READ and for WRITE), `m_pending_event_count`, the epoll instance | `add_event`, `del_event`, `cancel_event`, `cancel_all`, dispatch in `idle()`, `tickle` | `IoEvents` |
| scheduler loop | `scheduler.cpp`, `idle()` | `m_fiber_list`, stop and sleep signs, thread counts | `schedule`, `run`, `idle`, `start`, `stop` | `EventLoop` (one thread), `WorkerPool` (several) |
| hooks | `hook.cpp` | a timer pointer and a `timer_cond` on the stack of each call | `do_io`, sleeps, connect, accept, `socket`, `close`, `fcntl`, `ioctl`, options | `EventLoop` (the waiting), `Descriptors` (contexts and numbers) |
| fibers | `fiber.cpp` | `m_state` and a context | yield, swap in and out, end | as far as the two loops use them |
| threads and locks | `thread.cpp` | a flag in front of each pthread lock; the semaphore of a new thread | lock, unlock, start | `FlagLock`, `WorkerPool` |
| descriptor table | `fd_manager.cpp` | contexts by descriptor number | get or create, growth, delete | `Descriptors` |
| sockets | `socket.cpp` | `m_sock`, `m_is_connected` | connect, bind, accept, close, options, transfers | `Sockets` |
| byte array | `byte_array.cpp` | a list of nodes, the current node, position, size, byte order | every write, read and seek, the varint codec, buffer views, files | `ByteArray`, `ByteCodec`, `ByteStream` |
| HTTP parsers | `http/*.rl.cpp`, `http_parser.cpp` | the state of the generated machine, marks into the current buffer, the message | `execute` over a stream in buffers, the callbacks | `RequestMachine`, `ResponseMachine`, `HttpParser` |
| HTTP messages | `http/http.cpp`, `utils.cpp` | headers, parameters, cookies, body | get, set, delete, lazy parsing of parameters and cookies, URL decoding | `HttpMessage` |
| configuration, logger, addresses, the rest of `utils.cpp` | | | | not modelled, see the end |

How they interact. A fiber calls a hook. `do_io` looks its descriptor up in the table
and tries the system call; on `EAGAIN` it starts a timer (if the descriptor has a
timeout), arms the event in the epoll instance and yields. `Scheduler::run` takes the
next entry of `m_fiber_list`; if there is none it asks whether to stop and runs
`idle()`, which computes a timeout from the first deadline, waits in `epoll_wait`,
schedules the callbacks of expired timers and then the waiters of the events that were
reported. A timer callback cancels the event it was started for, which schedules the
waiter, or schedules a sleeper. Everything meets in `m_fiber_list`. A `Socket` is a
number on which such calls are made. The byte array and the HTTP parsers are
sequential and use none of this.

What is hard about it: an answer and a timeout that race, both ending in the same
list; edge-triggered epoll, which reports an edge once; a set keyed by a deadline
that is not unique; a millisecond clock in an int; one flag for all sleepers; a
count kept by hand in seven places; a loop that must end, but not too early. With
several workers: locks that do not exclude, fibers resumed before they are saved,
descriptor numbers that are closed and reused between two steps of a call. In the
sequential parts: a buffer pointer that is null at the end of the capacity, and a
parser whose offsets are relative to a buffer while its state is not.

## The modules

`TimerService.tla` is what a user of `timer.h` may rely on, without queue or clock
representation: armed timers have a deadline, only timers whose time has really
passed fire, a one-shot timer fires once, a recurring one is re-armed one period
later. It promises safety only: which of the due timers fire is left open.

`TimerManager.tla` is `timer.cpp`. One action per operation. `m_next_time`, `m_ms`,
`m_cb` are the fields of `Timer`; `now` is `GetCurrentMS()`. `Insert` is
`std::set::insert` (dropped when the deadline is taken), `SameKey` is `find`. All
ints go through `Wrap`, the conversion to w bits with `Half` = 2^(w-1); signed
overflow in `reset`, undefined in C++, is taken as wrap-around, what the build does.
Ghosts, not visible to the code: `uptime` (time really elapsed), `due` (what the
callers asked for, in uptime), `wrapped` (some value has been truncated). `Tick` and
`SetBack` are the wall clock. The one restriction: the rollover shift is only taken
when the shifted deadlines fit (`ShiftFits`), because otherwise the set is no longer
sorted and `std::set` is undefined.

`IoEvents.tla` is the event table of `io_manager.cpp` against an explicit epoll:
`level` is the readiness of a descriptor, `queued` the ready list of the epoll
instance, `interest` what the kernel was told, `batch` is `ep_events`. Edges, closes,
cancels and new waits come between `EpollWait` and `Dispatch`, as they do when several
workers share the object; each call of the manager is one step (with one thread that is exact,
and it is what the mutex of each `FdContext` is for).
`Close` is the hooked `close()`: `cancel_all` and then the kernel forgets the
descriptor. `AddEvent` on an event that is armed does what the code does after it has logged it: the
count goes up though nothing more is armed, and the first waiter is overwritten. The ghost `ousted` has the
waiters this happened to; nothing ever resumes them. `aborted` records a failed assertion, or `~Fiber` on an
overwritten fiber whose last reference that was.

`EventLoop.tla` composes both (`TM!` and `IO!`) with `Scheduler::run`, `idle()` and
the fibers, for the configuration of all tests and of the default constructor,
`IOManager(1, name, true)`: the only worker is the thread that destroys the object, so
`m_stop_sign` is set before the loop starts. `pc` says where the loop is, `at[f]`
where a fiber is in its hooked call. Only the loop or the fiber on the processor
steps; `KernelEdge` and `Clock` go on in between, also between the two clock readings
of one pass of `idle()`. Any number of fibers may wait for one event, as `do_io` lets them: the last one is
armed, the others are in `ousted`, and the timeout of an overwritten fiber cancels the wait of the other.
`pipe` and `drain` are the tickle pipe, which with one
worker is written only by `idle()` itself.

`FlagLock.tla` is `Mutex` and `SpinLock`: `lock()` returns at once when the flag is set,
whoever set it, and `EndOfScope` is the destructor of a guard, which calls `unlock()` whether or not its
owner has done so: what it clears and releases may be another thread's. `WorkerPool.tla` has one process per thread: `start` with the
semaphore handshake, `schedule`, `run` step by step (lock, scan, unlock, look at the
state, swap), the yields of a fiber (in `YieldToHold` the state is HOLD one step before the context is
saved), `idle`, `tickle`, `stop` and the joins. The guards of `schedule` and `run` unlock twice, the second time at "scoped",
after the tickle, and at "exit", when the loop is over. Each waiting fiber has an event of its own here. Two threads in the list at once, or one
fiber on two threads, is undefined in C++: the model reaches the first such state
(`Undefined`) and takes no step from it. What it checks is therefore true of every behaviour up to
and including that state, and such states are reached: the lock does let two threads in.
Ghosts: `given` (fibers scheduled so far), `late` (events armed after a worker decided to
stop), `doubled` (fibers that `run()` scheduled again after another worker had them).

`Descriptors.tla` has the table of `fd_manager.cpp` beside the kernel's. A hooked call is
a record that goes from step to step; a step is one access to the table or one
system call, because another caller can come in between any two. Callers are fibers
on hooked workers, or threads without hooks, which change the kernel's table behind the
library's. `contexts` are shared by table and calls, as the `shared_ptr`s are. `failure` is the first
undefined behaviour (an index out of range, a null timer); nothing follows it. Ghosts:
`undercut` (numbers closed past the hooks or by a call that found no slot, used during or after another's close, or
waited for by two), `crossed` (numbers whose settings changed past the table).
`Sockets.tla` EXTENDS it with `Socket` objects, whose operations are sequences of hooked
calls; `own` is the file an object opened, `clash` that two callers changed an
object at once. Only the receive side is modelled; the send side is alike.

`ByteStream.tla` is what a user of `byte_array.h` relies on: a sequence and a position.
`ByteCodec.tla` has the encodings with their widths as parameters: fixed integers in both
byte orders, 7-bit groups, zigzag, string prefixes. `ByteArray.tla` is `byte_array.cpp`: `mem` is the memory
of the nodes in a row, `m_cur` the number of the current node or `Null`, and every
address is worked out as the code does (node and position modulo the node size), so that a wrong
node shows. A dereference of null is `crashed`. `fields` remembers what was written where.

`RequestMachine.tla` and `ResponseMachine.tla` are the state machines that ragel generated,
with the generated states named by what they mean and a count (349 and 123 states of `goto`
code). Every state's moves on every byte, and the actions on each
move, were compared with the generated code while the tables were written; none differed. What the
grammar gets wrong is kept. `HttpParser.tla` runs either machine over a stream that arrives
in buffers: `execute` resets the marks but not the state, callbacks copy what lies between
two marks; at its end it asserts that `body_start`, left from the last end of a message, is not past the
buffer. `whole` is a second parser that gets the stream in one piece, `got` the
elements reported as places in the stream. `HttpMessage.tla` is the request after that: what a program
sets, reads and deletes, with parameters and cookies parsed at the first look.

`MC*.tla` give symmetry sets; the `.cfg` files give the constants. Definitions whose
comment begins with "Fault" are mistakes used to see that each property can fail.

## The runs

| run | instance | shows |
|---|---|---|
| `timer_queue` | 2 timers, delays 1-2, clock set back by 1 (tolerated) or 3 (rollover), 3 ms; 519k states | distinct keys, live members, no early deadline, no silent loss, `TimerManager` implements `TimerService` |
| `timer_wrap` | 3 timers, an int of 3 bits that overflows; 663k states | what survives the overflow: types, distinct keys, no silent loss |
| `io_events` | 2 descriptors, 3 waiters, one event per `epoll_wait`; 128k states | the pending count is that of the armed events and the overwritten waits, the kernel watches what is armed, no edge is missed, no waiter is doubled, or lost unless overwritten |
| `event_loop` | 2 fibers with 2 calls each, 1 descriptor, positive int clock, 3 ms; 2.4M states | every suspended fiber has a waker unless overwritten or displaced, nothing is scheduled twice, a timeout meets its own wait, nothing ends early, the loop drains |
| `event_loop_live` | the same, negative int clock, 2 ms, weak fairness; 198k states | what is scheduled runs, timed calls end, the loop exits |
| `byte_array` | nodes of 2 bytes, at most 5 of them, 4 calls; 163k states | the node pointer follows the position, fields read back, every view shows the content, `ByteArray` implements `ByteStream` |
| `worker_pool` | a worker and the caller, 2 fibers, one pinned to the worker, with 2 and 1 yields; 4.6M states | no fiber is lost, the only fibers swapped in while running are those that `run()` doubled, the list is drained unless there is one, only late events are left |
| `sockets` | 2 hooked workers, a thread without hooks, 2 sockets, a table of 3 that is full, 2 more files, 4 operations; 0.8M states | contexts match the kernel's files, no index out of range, who waits can be woken, sockets and objects belong together |
| `http` | 9 requests and 3 responses in every split into three buffers, 4 calls on each request; 255k states | the verdict does not depend on the split, whole elements are reported alike, the target's parts partition it, what a program sets survives |
| `io_assert` | expected violation | `assert(event & events)` fails on a hang-up while only WRITE is armed |
| `io_writer` | expected violation | a writer is woken because its descriptor became readable |
| `idle_wait` | expected violation | a timer that is already due makes `epoll_wait` wait without limit |

Why the bounds are enough. Two timers are the least that share a deadline, displace
each other and are erased by each other's `cancel`; the third, in `timer_wrap`, gives
a re-inserted recurring timer two rivals. Delays 1 and 2 over 3 ms let a timer be due
before, with and after another, and expire late. Set-backs of 1 and 3 lie on both sides of the
slack. Two descriptors with `MaxEvents` = 1 let a ready descriptor stay queued; three waiters
fill both contexts of one and leave one more, which waits elsewhere or overwrites. In the event loop two fibers and one descriptor give
reader and writer, two readers on one event, close under a waiter, reuse of the number, sleepers with the same
and with different deadlines, and two calls per fiber let a leftover of the first meet the second.
`MaxTimeout` (5000 ms in the code) is small enough to be reached.

`worker_pool`: two threads are enough to be in the list at once, to hold one fiber twice and to
end while the other is busy; the pinned fiber lets the caller pass an entry over, two yields of
the other let it meet its own leftover. `sockets`: the three inherited files fill the first
table, so that the first socket makes it grow, to four; with the second number above, a
thread without hooks that opens the first can push its end out of reach; a number that was closed is the next to be
given out; four operations are a socket, a wait on it, a close under it and a second socket on the number.
A larger table that grows by two slots at once, while a call that found no slot goes on, takes a third number (a table of
four, three files, 2.8M states, no violation either); the run leaves it to the theorems, which hold for every size. `byte_array`: with nodes of two bytes and fixed integers of one and
two, varints of up to three groups of 2 bits and strings with prefixes, every kind of
field is written across a node boundary, at the end of the capacity and over an older field; `NewMemory`
has two values because `new char[]` leaves them open. `http`: the streams take every
element (method, the five forms of a target, both versions, three kinds of header, chunk
headers) through the parser, and three buffers cut each at any two places, so that an element is cut at either
end or twice.

Deadlock is not checked where the system may stop: the clock is bounded, waiters
and fibers may all wait for an edge that never comes, the loop exits, undefined
states end a behaviour, and calls and buffers are bounded.

Fairness (`FairSpec`): the thread runs, `WF(Program)`, as the operating system
schedules it; and time passes, `WF(Clock)`. Nothing is assumed of the kernel's edges
and no fiber is made to call anything. Liveness is checked with a negative int clock
and with no millisecond between the two readings of one pass: the run `idle_wait`
shows what happens otherwise, `TimedCallEnds` fails with a positive one. (The low 32
bits of the Unix time in ms change sign every 24.8 days.)

What the properties leave out on purpose, each a defect the model has:

* `WakerExists`, `DrainBeforeExit`, `TimedCallEnds` except sleepers whose timer was `Displaced`: of two
  sleepers with one deadline the second's timer is dropped by `std::set::insert` and it never wakes.
  `NoSilentLoss` states that this is the only way a timer is lost.
* `PendingExact`, `NoLostWaiter`, `WakerExists`, `TimedCallEnds` except waiters in `ousted`: `add_event` only logs that
  its event is armed already (`io_manager.cpp:186`, `209`), and two fibers that read from or accept on one socket
  do this. The first never wakes, not even by its own timeout, which cancels the other fiber's wait instead; the count is
  too high for good, so that the loop never ends. `PendingExact` states that it is too high by exactly these waits
  and for no other reason, `NoLostWaiter` that a waiter is lost in no other way but by `del_event`.
* The properties of `WorkerPool` up to the first undefined state. The second unlock of a guard (`thread.h:37`) is one of the
  ways to it: it lets another thread in beside the one whose flag it cleared.
* `SwapInAssert` (the assertion of `fiber.cpp:138`) except fibers in `doubled`: `scheduler.cpp:223`
  reads the state of a fiber that another worker may be running by then, and schedules it twice.
* `ListDrained` except when some fiber is in `doubled`, or the caller does not run the loop: a worker that takes the
  second entry of a fiber that is over goes on to stop without another look at the list, and leaves what is behind.
* `LeftArmedLate` except events in `late`: `stopping()` does not look at
  `m_active_thread_count`, so a worker may end while another runs a fiber that is about to wait.
* `ContextCurrent`, `NobodyForgotten`, `HandlesExact` except numbers in `undercut` and objects in a
  `clash`. Without a close past the hooks or under another's call they hold; with one, a
  second accept on a number overwrites the first waiter (`io_manager.cpp:209`), a look-up of a
  closed number leaves a context that makes the next socket of that number fail with
  `EBADF` and an accepted one leak (`fd_manager.cpp:55`, `socket.cpp:76`), and a
  `connect` whose `add_event` failed yields with nobody to wake it (`hook.cpp:251`). A call whose look-up is
  past the end of the table finds no context, though the table may have grown and have one when it goes on: a close then
  neither cancels nor drops, and a setting is not remembered.
* `CursorSound` and the rest of `byte_array` until `crashed`: at the end of the
  capacity `m_cur` is null, and a read of no bytes or of an empty string reads through it.
* `WholeElements` except elements that a buffer boundary cuts: of these only the last part is
  reported, and a query that is cut has a negative length and ends the program (`std::length_error`).
* `ProgramWins` except deletions before the first look, which lazy parsing undoes.

Three runs expect a violation, of what the code or its comments say: `io_assert` and
`io_writer` (`io_manager.cpp:412`, `417`) and `idle_wait` (`io_manager.cpp:359`).

What the models keep that a user would notice as well, not stated as properties:

* Pool: with `use_caller` false an unpinned entry scheduled just before `stop()` can be left; the flag
  lock can leave a pthread mutex locked; `start()` after `stop()` fails its assertion (`scheduler.cpp:85`).
* Hooks: `fcntl` changes contexts without asking `t_hook_enable`; the test of `ioctl` is inverted
  (`hook.cpp:411`); `Socket::close` clears `m_sock` only after `::close` came back.
* Byte array: `write_to_file` leaves out the end of the content when the position is inside a node;
  `read_string` throws after it has consumed the prefix.
* Requests: a header cut between name and value is error 1002; a version cut at its end reads as 1.1;
  a method cut after "UN" reads LOCK, `GETX` reads GET, M-SEARCH cannot be reached; a finished parser that
  is fed again is no longer finished; control bytes continue a header's name; `[2001:db8::1]` is refused and more
  than eight groups accepted; in a dotted quad 30-99, 210-249 and 251-255 are refused; the path of an
  absolute URI includes the authority.
* Responses: `is_finished` knows one final state of two; `execute` of no bytes moves memory by a wrapped
  length; with `chunk` set every call starts the machine anew; a machine that is done in its other
  final state and is fed less than its `body_start` ends the program (an assertion).
* Parameters: changes of header or body after the first look are ignored; `Trim` trims the left side only.

## The proofs

`TimerManagerProofs.tla`, for any set of timers, delays, int width, starting clock,
slack, set-backs and any bound on time, from `TimerAssumption` alone:

* `TypeCorrect`: `Spec => []TypeOK`, with deadlines within an int;
* `QueueSound`: `Spec => [](KeysDistinct /\ LiveMembers)`;
* `NeverEarly`: `Spec => []DeadlineKept`;
* `MembersLive`: `Spec => []LiveMembers`; `NothingSilentlyLost`: `Spec => NoSilentLoss`;
* `Refinement`: `Spec /\ []~wrapped => ImplementsTimerService`.

The argument is the invariant `IInv`, which adds to these that a live timer's delay
is one that was asked for (needed to see `refresh` and re-arming as steps of the
service). `LiveMembers` needs `KeysDistinct`: `cancel` clears the callback of its own
timer but erases the member with its deadline, and only distinct keys make sure that
no other member lost its callback. `KeysDistinct` after `list_expired_cb` rests on the
order in which recurring timers are put back; after a rollover shift on the shift being
the same for all. `DeadlineKept` after a shift (`RolloverDelays`) rests on the distance being negative.
The refinement cannot hold after a truncation, so it is stated for behaviours
without one; no set-back bound is needed.

`IoEventsProofs.tla`, for any finite set of descriptors, any waiters and any size of
`ep_events`, from `IoAssumption` alone:

* `IoTypeCorrect`: `Spec => []TypeOK`;
* `PendingCounted`: `Spec => []PendingExact`;
* `KernelWatches`: `Spec => []KernelCovers`, `EdgesSeen`: `Spec => []NoMissedEdge`;
* `ReaderWoken`: `Spec => ReaderWokenWhenReady`.

Here `IInv` adds `ContextMatch`, an event is armed exactly when its context holds a
waiter: without it an empty context might be scheduled, and the type of the list would
not be kept. `PendingExact` is part of a second invariant, `WInv`, with the facts about waiters below: a wait that
is overwritten moves from the armed events to `ousted`, and is counted there once only if no waiter
is in two places (`Apart`, `OustedOut`); how many events one call takes off a
descriptor (`ForgetCount`, none, one or two) is the rest. `NoMissedEdge` needs `KernelCovers`: an
edge queues a descriptor only if the kernel was told of the event. The one hard case
is `Dispatch` (`DispatchWatch`): it tells the kernel what the report leaves over but wakes
a writer whether or not it was reported, and the two agree unless a reader
was woken too, when nothing stays armed.

* `WaitersOnce`: `Spec => []WaiterOnce`, `NobodyForgotten`: `Spec => NoLostWaiter`.

For the last two the invariant says no waiter is armed twice, armed and
scheduled, or listed twice, and one that was overwritten is neither; what every operation but `add_event` does to waiters is
one of two things, nothing (`SameMoves`)
or moving those of some armed events to the end of the list (`TriggerMoves`).

`EventLoopProofs.tla`, for any finite sets of fibers and descriptors, any delays, int width, calls per
fiber and bound on time, from `LoopAssumption` alone:

* `LoopTypeCorrect`: `Spec => []TypeOK`;
* `AlwaysAWaker`: `Spec => []WakerExists`;
* `ScheduledOnce`: `Spec => []EntryOnce`;
* `TimeoutInTime`: `Spec => []TimeoutMeetsItsWait`;
* `NeverBeforeTime`: `Spec => []NoEarlyWake`;
* `DrainedAtExit`: `Spec => []DrainBeforeExit`.

These are all the invariants of the run `event_loop`. The proof composes the other two: a step of the loop is, on the timer
variables, a step of `TimerManager` or a stutter (`QueueSteps`) and, on the table, one of `IoEvents`
(`TableSteps`), so the invariants of `TimerManagerProofs` and `IoEventsProofs` are instantiated and
not proved again. `IInv` adds what joins them. `OwnerInv`: a waiter in the table is a fiber that
waits for that event, and one in `ousted` a fiber that waits. `PlaceInv`: for each place `at[f]` in a call, who has the fiber (the processor, the
list, the table, a timer), or that nobody has it, when its wait was overwritten. `AlarmInv`: what the timer of a fiber is for, and which of its callbacks may be
under way. `DueInv`: what went off was due. `OrderInv`: a timeout callback that is under way for a scheduled fiber
is ahead of it in the list. The last is the heart of `TimeoutMeetsItsWait`: `idle()` schedules callbacks before it dispatches
events, so the callback runs before its fiber can begin another call; without it neither `EntryOnce` nor
`WakerExists` is inductive. `DrainedAtExit` needs the count: the loop ends only when it is zero, so that no event is armed and
no wait was overwritten. For each action one lemma says what it does to the fiber concerned, and
`Aside(g)` that every other fiber's part stays.

`WorkerPoolProofs.tla`, for any finite set of workers, any fibers, pinned or not, from `PoolAssumption`:

* `OnlyLateLeft`: `Spec => []LeftArmedLate`;
* `NobodyLost`: `Spec => []NothingLost`;
* `SwapInSafe`: `Spec => []SwapInAssert`;
* `NoEntryLeft`: `Spec => []ListDrained`.

They do not assume that the lock excludes, nor whose lock an unlock releases, so the second unlock of a guard takes nothing from
them; they hold up to the first undefined state. `CustodyInv` says in whose
hands a fiber is; `OnceInv` that a fiber that was not doubled is in one place: in the list,
armed, or in the hands of one thread. An armed fiber may still run on the thread that armed it, up
to the swap, and that window is part of the invariant. `NoEntryLeft` follows what the list is watched by: each
entry that any thread may take has a thread that will look at the list again before it ends (`Returns`), because
whoever puts an entry there looks afterwards, whoever takes one runs it and looks again, and a look that takes nothing
found the entry executing, on a thread that will be back.

`SocketsProofs.tla`, for any finite set of callers with and without hooks, any objects, first size of the table,
inherited files, limits and number of files, from `CallerAssumption`, `SlotsAssumption` and `BoundsAssumption`:

* `SocketsTypeCorrect`: `Spec => []TypeOK`;
* `EndInReach`: `Spec => []TableInRange`;
* `ParkedIsWatched`: `Spec => []NobodyForgotten`.

An operation of an object does one of four things to the descriptors (`FdNext`: a step of a call, a call that begins, one
that ends, a file opened past the library), so all that follows is about those. Types need `Shaped`, which fields of a call
go together, and that a call without a context always finds a free one (`FreshContext`). `TableInv`: entries lie within the
table, which is never smaller than it was. `WaitInv`: who is parked is the waiter, what is waited for is open and watched,
and a close past its `cancel_all` finds nobody waiting; without the last, closing the descriptor would leave a waiter behind.

`ContextProofs.tla` builds on it:

* `TableIsCurrent`: `Spec => []ContextCurrent`;
* `HandlesAreExact`: `Spec => []HandlesExact`.

A setting is written to the context
and to the kernel in two steps, so the invariant `ContextInv` says of every number what the property says of
those in no change: the entry is that of the file, or gone when a close is about to end (`EntryOfFile`); at most one call changes
the number (`OneChanger`); and the context has the file's settings, or the one that is on its way (`SettingsOfFile`). Contexts
are shared by reference: `Distinct` says no two numbers have one file or one context. Each step is about one number, and
leaves alone what the invariant says of the others.

`ObjectInv` is about the objects. A number that an object has and is not about to give up (`Holds`), or that a call has just
opened for one (`Hand`), is open and in nobody else's hands, and every open socket is held or in a hand (`HeldOnce`,
`HandOnce`, `Owned`). That needs three more facts: what call an operation is in (`Serves`), in particular that only
an object without a descriptor creates one and only the object's own number is closed; that callers change an object
one after the other (`Exclusive`, the reason for stopping at a `clash`); and that a descriptor just accepted is entered
before it is handed on and finds the context of a socket (`Entered`, which rests on `ContextInv`).

`ByteArrayProofs.tla`, for any size of a node, any widths of the integers, any bits in a group, any values of the types
and any contents of new memory, from `CodecAssumption`, `BaseAssumption` and `SamplesAssumption`:

* `PointerFollowsPosition`: `Spec => []CursorSound`;
* `WrittenReadsBack`: `Spec => []FieldsReadBack`;
* `NodesAreAStream`: `Spec => ImplementsByteStream`;
* `ViewsShowTheContent`: `Spec => []ViewsAgree`.

Half of it is about the codec: what `Encode` makes of a value, `Decode` takes back, with nothing left over and whatever
follows (`DecodeEncode`), by way of the round trips of digits in a base, of zigzag and of the groups of a varint. Powers and digits
are recursive functions; an induction is an argument about the set of numbers for which the fact holds, which has
no least exception. The other half is the invariant, `IInv == CursorSound /\ Numbers /\ FieldsSound`.
`FieldsSound` says that the bytes of a field not overwritten are still where they were written: every write is before, after or
over it, and growth only adds at the end. `CursorSound` has to be part of it: the address a byte goes to is worked out
from `m_cur`, and is the position only if the pointer is the node of the position. The file view needs an argument
about the loop of `write_to_file`, node by node (`FileWhole`, `FileShort`).

`HttpProofs.tla`, for any streams, any cuts, any bodies, names and values, from `HttpAssumption` and `BodiesAssumption`:

* `VerdictIsUnsplit`: `MessageSpec => []VerdictUnsplit`;
* `ElementsAreWhole`: `MessageSpec => []WholeElements`;
* `TargetIsSplit`: `MessageSpec => []TargetSplit`;
* `ProgramAlwaysWins`: `MessageSpec => []ProgramWins`.

`Related` sets the call that gets a piece of the stream beside the parser that has had all before it: both are in one state,
and a mark of the one is a mark of the other, moved by where the buffer began, unless the mark lies before the
buffer. Each action of a step keeps it, whatever the machine (`ConsumeRelated`), so no table is opened for the
first two theorems. Between calls `InStep` is left of it, that all marks are behind the next byte: that is why a mark that `execute`
resets to 0 cannot be mistaken for one set in the buffer. `Matched` is what has been reported so far on either side.

`TargetIsSplit` does open the tables. `OnLine` says, for each kind of state, where in the line the machine is: which separators
lie behind, what is marked, which elements have been reported. `Fits` is what a table may do, and is shown of each table of moves:
a path ends at a space, `?` or `#` and at no other byte, a query at a space or `#`, a fragment at a space; an address
in brackets has to be shown not to take one of them in, for each of its alternatives (`Open`). `Goes` then takes `OnLine` over a byte, one lemma
for each part of the line, and `Tracks` says what the actions of that step mark and report.

For `ProgramAlwaysWins` the invariant is `MInv`: what the program did last to a name is what the map says, and a name
is known to be gone only when all the texts it could come from have been parsed (`GoneAfterLook`). Parsing only adds names (`Extends`).

Only model-checked: liveness, that is `ScheduledRuns`, `TimedCallEnds` and `LoopExits`, as fairness and ENABLED are outside the
prover. Every other property of the passing runs is stated by a theorem. No property says what a callback makes of the text of an
element (`WholeElements` and `TargetSplit` are about places in the stream).

## Not modelled

* `config.cpp`: look-up of dotted keys in a YAML tree that a library parses, once at start (one hazard, listed).
* `log.cpp`: formatting and output; no other part depends on its state. `Logger::log` returns at the first
  appender with a higher level (`log.cpp:293`).
* `address.cpp`: data conversion over the C library, without state. Reading it showed that the
  network of an address is computed with the host mask, and that an IPv6 prefix of 128 indexes byte 16.
* The serialisation of HTTP messages (`dump`), redirects and status texts; formatting and system queries in `utils.cpp`.
* `RWMutex` with several threads, and with it timers used from several threads: `add_timer` and
  `list_expired_cb` unlock in the middle (`timer.cpp:114`), and `reset` tells no thread (`timer.cpp:89`). `TimerManager` is exact for
  one thread. `WorkerPool` has no timers.
* Growing `m_fd_contexts` (`io_manager.cpp:163`), machine contexts and stacks: memory. `Conditon` is used by nothing.
* The send side of the hooks, `set_recv_timeout(0)`, cached addresses and the options set when a
  socket is created, and the probe of a UNIX path in `bind`.
