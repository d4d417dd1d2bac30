------------------------------ MODULE EventLoop ------------------------------
(***************************************************************************)
(* One IOManager whose only worker is the thread that destroys it,         *)
(* IOManager(1, name, true), as every test and the default constructor     *)
(* have it: ~IOManager calls stop(), which runs Scheduler::run on the      *)
(* caller until there is nothing left to wait for.                         *)
(*                                                                         *)
(* The module composes the timer queue and the event table with            *)
(*   - Scheduler::run, IOManager::idle (scheduler.cpp, io_manager.cpp),    *)
(*   - fibers that call the hooked read/write, sleep and close (hook.cpp). *)
(* Only the fiber on the processor or the loop itself makes a step of the  *)
(* program; the kernel and the clock go on in between.                     *)
(*                                                                         *)
(* A definition whose comment begins with "Fault" is a mistake one could   *)
(* make in the definition after it; the runs show that it is noticed.      *)
(***************************************************************************)
EXTENDS Integers, Sequences, FiniteSets, SequencesExt

CONSTANTS Fiber, FD, None, MaxEvents,
          Half, Epoch, RolloverSlack, MaxUptime,
          Delays,        \* the milliseconds a fiber may sleep
          IoTimeouts,    \* SO_RCVTIMEO and SO_SNDTIMEO; None is -1
          Conditions,    \* what the kernel reports in this instance
          MaxTimeout,    \* MAX_TIMEOUT of idle()
          SlowReadings,  \* the clock may advance between the two readings
                         \* one pass of idle() takes
          MaxOps         \* bound: hooked calls per fiber

\* What a timer is created for, and with it the callback it schedules.
CallbackKind == {"timeout", "wake"}

ASSUME LoopAssumption ==
  /\ IsFiniteSet(Fiber) /\ IsFiniteSet(FD)
  /\ None \notin Fiber \cup FD \cup (CallbackKind \X Fiber)
  /\ Fiber \cap (CallbackKind \X Fiber) = {}
  /\ MaxEvents \in Nat \ {0}
  /\ Half \in Nat \ {0} /\ Epoch \in 0 .. 2 * Half - 1
  /\ RolloverSlack \in Nat /\ MaxUptime \in Nat /\ MaxTimeout \in Nat /\ MaxOps \in Nat
  /\ Delays \subseteq Nat /\ IoTimeouts \ {None} \subseteq Nat
  /\ Conditions \subseteq {"READ", "WRITE", "ERR"}

VARIABLES
  \* the timer queue
  now, m_timers, m_next_time, m_ms, m_recurring, m_cb, m_previous_time,
  m_tickled, expired_cbs, uptime, due, wrapped,
  \* the event table and the kernel
  events, waiter, m_pending_event_count, m_fiber_list, batch, aborted, ousted,
  open, level, registered, interest, queued,
  \* the loop
  pc,            \* where run() and idle() are
  cur,           \* the entry of m_fiber_list being executed
  m_sleep_sign,
  limit,         \* get_next_time's result, then the uptime epoll_wait returns at
  pipe,          \* the tickle pipe holds unread bytes
  drain,         \* ep_events holds the pipe
  \* the fibers
  at,            \* how far each fiber is in its call
  op,            \* the descriptor and event of a do_io in progress
  timed,         \* its local timer pointer is not null
  cancelled,     \* t_cond->cancelled
  ops            \* calls made so far (bound)

TM == INSTANCE TimerManager
        WITH Timer <- Fiber, Durations <- Delays \cup (IoTimeouts \ {None}), SetBacks <- {}
IO == INSTANCE IoEvents WITH Waiter <- Fiber

timerVars  == <<now, m_timers, m_next_time, m_ms, m_recurring, m_cb,
                m_previous_time, m_tickled, expired_cbs, uptime, due, wrapped>>
ctxVars    == <<events, waiter, m_pending_event_count, ousted>>
kernelVars == <<open, level, registered, interest, queued>>
\* The event table without the list of scheduled entries, and with it.
tableVars  == <<events, waiter, m_pending_event_count, batch, aborted,
                ousted, open, level, registered, interest, queued>>
ioVars     == <<tableVars, m_fiber_list>>
pipeVars  == <<pipe, drain>>
loopVars  == <<pc, cur, limit, pipeVars>>
fiberVars == <<at, op, timed, cancelled, ops>>
vars == <<timerVars, ioVars, loopVars, m_sleep_sign, at, op, timed, cancelled, ops>>

Forever == -1
NoOp == <<None, None>>

\* An entry of m_fiber_list is a fiber or a timer callback about one.
Entry == Fiber \cup (CallbackKind \X Fiber)

Init ==
  /\ TM!Init
  /\ IO!InitContexts
  /\ m_fiber_list \in Bijection(1 .. Cardinality(Fiber), Fiber)
  /\ pc = "pick" /\ cur = None /\ limit = 0 /\ m_sleep_sign = FALSE
  /\ pipe = FALSE /\ drain = FALSE
  /\ at = [f \in Fiber |-> "run"]
  /\ op = [f \in Fiber |-> NoOp]
  /\ timed = [f \in Fiber |-> FALSE]
  /\ cancelled = [f \in Fiber |-> FALSE]
  /\ ops = [f \in Fiber |-> 0]

-----------------------------------------------------------------------------
(***************************************************************************)
(* Scheduler::run and IOManager::idle.                                     *)
(***************************************************************************)

\* The executing entry gives the processor back to run().
Yield == pc' = "pick" /\ cur' = None

Pick ==
  /\ pc = "pick" /\ m_fiber_list # <<>>
  /\ cur' = Head(m_fiber_list)
  /\ m_fiber_list' = Tail(m_fiber_list)
  /\ pc' = "exec"
  /\ UNCHANGED <<timerVars, tableVars, limit, pipeVars, m_sleep_sign, fiberVars>>

\* Fault: armed events do not count.
StoppingUncounted == m_timers' = {}

\* IOManager::stopping, after timer_manager_stop.
Stopping == m_pending_event_count = 0 /\ m_timers' = {}

\* Nothing to run: m_stop_sign is set, so the loop ends unless somebody sleeps
\* or IOManager::stopping(), which first drops the recurring timers, says no.
AskToStop ==
  /\ pc = "pick" /\ m_fiber_list = <<>>
  /\ \/ /\ m_sleep_sign
        /\ pc' = "idle"
        /\ UNCHANGED timerVars
     \/ /\ ~m_sleep_sign
        /\ TM!TimerManagerStop
        /\ pc' = IF Stopping THEN "exited" ELSE "idle"
  /\ UNCHANGED <<ioVars, cur, limit, pipeVars, m_sleep_sign, fiberVars>>

ReadNextTime ==
  /\ pc = "idle"
  /\ TM!GetNextTime
  /\ limit' = TM!NextTime(m_timers, m_next_time', TM!NowInt, Half - 1)
  /\ pc' = "timeout"
  /\ UNCHANGED <<ioVars, cur, pipeVars, m_sleep_sign, fiberVars>>

\* Fault: the difference is taken the wrong way round.
NextTimeoutSwapped == TM!Wrap(now - limit)

\* next_timeout = get_next_time() - GetCurrentMS(), in an int.
NextTimeout == TM!Wrap(limit - now)

\* A negative timeout makes epoll_wait wait for an event however long it takes.
ComputeTimeout ==
  /\ pc = "timeout"
  /\ limit' = IF NextTimeout < 0 THEN Forever
              ELSE uptime + (IF NextTimeout < MaxTimeout THEN NextTimeout ELSE MaxTimeout)
  /\ pc' = "wait"
  /\ UNCHANGED <<timerVars, ioVars, cur, pipeVars, m_sleep_sign, fiberVars>>

\* At the end of the modelled time a bounded wait is over as well.
TimedOut == limit # Forever /\ (uptime >= limit \/ uptime = MaxUptime)

\* The pipe takes one of the places of ep_events, or waits for the next call.
ReturnFromWait ==
  /\ pc = "wait"
  /\ IO!Pollable # {} \/ pipe \/ TimedOut
  /\ \/ /\ pipe
        /\ IO!EpollWait(MaxEvents - 1)
        /\ drain' = TRUE
     \/ /\ ~pipe \/ Cardinality(IO!Pollable) >= MaxEvents
        /\ IO!EpollWait(MaxEvents)
        /\ drain' = FALSE
  /\ limit' = 0
  /\ pc' = "expire"
  /\ UNCHANGED <<timerVars, cur, pipe, m_sleep_sign, fiberVars>>

Expire ==
  /\ pc = "expire"
  /\ TM!ListExpired
  /\ pc' = "schedule"
  /\ UNCHANGED <<ioVars, cur, limit, pipeVars, m_sleep_sign, fiberVars>>

\* Fault: every timer is taken for an I/O timeout.
CallbackTimeout(f) == <<"timeout", f>>

\* The callback a timer was created with.
Callback(f) == IF timed[f] THEN <<"timeout", f>> ELSE <<"wake", f>>

\* schedule() into an empty list tickles, and tickle() writes to the pipe only
\* while a thread is idle: with one worker, when idle() itself schedules.
Tickle == pipe' = (pipe \/ (m_fiber_list = <<>> /\ m_fiber_list' # <<>>))

\* The callbacks are scheduled in the order of their deadlines.
ScheduleExpired ==
  /\ pc = "schedule"
  /\ \E fired \in Bijection(1 .. Cardinality(expired_cbs), expired_cbs) :
       /\ \A i, j \in DOMAIN fired : i < j => m_next_time[fired[i]] < m_next_time[fired[j]]
       /\ m_fiber_list' = m_fiber_list \o [i \in DOMAIN fired |-> Callback(fired[i])]
  /\ IF expired_cbs # {} THEN TM!TakeExpired ELSE UNCHANGED timerVars
  /\ Tickle
  /\ pc' = "dispatch"
  /\ UNCHANGED <<tableVars, cur, limit, drain, m_sleep_sign, fiberVars>>

\* One entry of ep_events after the other, the pipe among them, and then idle() yields to run().
DispatchBatch ==
  /\ pc = "dispatch"
  /\ \/ /\ drain
        /\ drain' = FALSE /\ pipe' = FALSE
        /\ UNCHANGED <<ioVars, pc>>
     \/ /\ \E fd \in FD : IO!Dispatch(fd)
        /\ Tickle
        /\ UNCHANGED <<pc, drain>>
     \/ /\ ~drain /\ \A fd \in FD : batch[fd] = {}
        /\ pc' = "pick"
        /\ UNCHANGED <<ioVars, pipeVars>>
  /\ UNCHANGED <<timerVars, cur, limit, m_sleep_sign, fiberVars>>

Loop == \/ Pick \/ AskToStop \/ ReadNextTime \/ ComputeTimeout \/ ReturnFromWait
        \/ Expire \/ ScheduleExpired \/ DispatchBatch

-----------------------------------------------------------------------------
(***************************************************************************)
(* The fibers.                                                             *)
(***************************************************************************)
Running(f) == pc = "exec" /\ cur = f

\* A fiber between two hooked calls begins another one.
Begin(f) ==
  /\ Running(f) /\ at[f] = "run" /\ ops[f] < MaxOps
  /\ ops' = [ops EXCEPT ![f] = @ + 1]

\* read, write, recv, send, accept, ..., whoever else waits for that event.
BeginIo(f, fd, ev) ==
  /\ Begin(f)
  /\ fd \in open
  /\ at' = [at EXCEPT ![f] = "try"]
  /\ op' = [op EXCEPT ![f] = <<fd, ev>>]
  /\ UNCHANGED <<timerVars, ioVars, loopVars, m_sleep_sign, timed, cancelled>>

\* do_io returns; t_cond and the timer pointer are gone.
Return(f) ==
  /\ at' = [at EXCEPT ![f] = "run"]
  /\ op' = [op EXCEPT ![f] = NoOp]
  /\ timed' = [timed EXCEPT ![f] = FALSE]
  /\ cancelled' = [cancelled EXCEPT ![f] = FALSE]
  /\ UNCHANGED ops

\* The system call does not say EAGAIN.
CanProceed(fd, ev) == fd \notin open \/ level[fd] \cap {ev, "ERR"} # {}

TryIo(f) ==
  LET fd == op[f][1]
      ev == op[f][2]
  IN /\ Running(f) /\ at[f] = "try" /\ CanProceed(fd, ev)
     /\ IO!Exhaust(fd, ev) \/ UNCHANGED ioVars
     /\ Return(f)
     /\ UNCHANGED <<timerVars, loopVars, m_sleep_sign>>

\* EAGAIN: with a timeout set, a conditional timer is started.
StartTimer(f) ==
  /\ Running(f) /\ at[f] = "try" /\ ~CanProceed(op[f][1], op[f][2])
  /\ \E ms \in IoTimeouts :
       /\ timed' = [timed EXCEPT ![f] = ms # None]
       /\ IF ms = None THEN UNCHANGED timerVars
          ELSE uptime + ms <= MaxUptime /\ TM!AddTimer(f, ms, FALSE)
  /\ at' = [at EXCEPT ![f] = "arm"]
  /\ UNCHANGED <<ioVars, loopVars, m_sleep_sign, op, cancelled, ops>>

\* add_event succeeds, also if it takes over the wait of another fiber.
ArmIo(f) ==
  /\ Running(f) /\ at[f] = "arm"
  /\ IO!AddEventOk(op[f][1], op[f][2], f)
  /\ at' = [at EXCEPT ![f] = "wait"]
  /\ Yield
  /\ UNCHANGED <<timerVars, limit, pipeVars, m_sleep_sign, op, timed, cancelled, ops>>

\* add_event failed: timer->cancel() is called on a null pointer when no
\* timeout was set.
ArmIoFails(f) ==
  /\ Running(f) /\ at[f] = "arm" /\ ~IO!CanAdd(op[f][1])
  /\ \/ /\ timed[f]
        /\ TM!Cancel(f)
        /\ Return(f)
        /\ UNCHANGED aborted
     \/ /\ ~timed[f]
        /\ aborted' = TRUE
        /\ UNCHANGED <<timerVars, fiberVars>>
  /\ UNCHANGED <<ctxVars, m_fiber_list, batch, kernelVars, loopVars, m_sleep_sign>>

\* Resumed after the wait: ETIMEDOUT, or the timer is cancelled and the system
\* call is made again.
WakeIo(f) ==
  /\ Running(f) /\ at[f] = "wait"
  /\ \/ /\ cancelled[f]
        /\ Return(f)
        /\ UNCHANGED timerVars
     \/ /\ ~cancelled[f]
        /\ IF timed[f] THEN TM!Cancel(f) ELSE UNCHANGED timerVars
        /\ timed' = [timed EXCEPT ![f] = FALSE]
        /\ at' = [at EXCEPT ![f] = "try"]
        /\ UNCHANGED <<op, cancelled, ops>>
  /\ UNCHANGED <<ioVars, loopVars, m_sleep_sign>>

\* Fault: YieldToReady instead of YieldToHold.
SleepReady(f, ms) ==
  /\ Begin(f)
  /\ uptime + ms <= MaxUptime
  /\ m_sleep_sign' = TRUE
  /\ TM!AddTimer(f, ms, FALSE)
  /\ at' = [at EXCEPT ![f] = "sleep"]
  /\ m_fiber_list' = Append(m_fiber_list, f)
  /\ Yield
  /\ UNCHANGED <<tableVars, limit, pipeVars, op, timed, cancelled>>

\* sleep, usleep, nanosleep.
Sleep(f, ms) ==
  /\ Begin(f)
  /\ uptime + ms <= MaxUptime
  /\ m_sleep_sign' = TRUE
  /\ TM!AddTimer(f, ms, FALSE)
  /\ at' = [at EXCEPT ![f] = "sleep"]
  /\ Yield
  /\ UNCHANGED <<ioVars, limit, pipeVars, op, timed, cancelled>>

WakeSleeper(f) ==
  /\ Running(f) /\ at[f] = "sleep"
  /\ at' = [at EXCEPT ![f] = "run"]
  /\ UNCHANGED <<timerVars, ioVars, loopVars, m_sleep_sign, op, timed, cancelled, ops>>

\* close() wakes whoever waits on the descriptor; socket() reuses the number.
CloseFd(f, fd) ==
  /\ Begin(f)
  /\ IO!Close(fd)
  /\ UNCHANGED <<timerVars, loopVars, m_sleep_sign, at, op, timed, cancelled>>

OpenFd(f, fd) ==
  /\ Begin(f)
  /\ IO!Open(fd)
  /\ UNCHANGED <<timerVars, loopVars, m_sleep_sign, at, op, timed, cancelled>>

\* YieldToReady: run() puts the fiber at the end of the list.
YieldToReady(f) ==
  /\ Begin(f)
  /\ m_fiber_list' = Append(m_fiber_list, f)
  /\ Yield
  /\ UNCHANGED <<timerVars, tableVars, limit, pipeVars, m_sleep_sign, at, op, timed, cancelled>>

Finish(f) ==
  /\ Running(f) /\ at[f] = "run"
  /\ at' = [at EXCEPT ![f] = "done"]
  /\ Yield
  /\ UNCHANGED <<timerVars, ioVars, limit, pipeVars, m_sleep_sign, op, timed, cancelled, ops>>

\* The timer callbacks, each run by a fiber of its own.  OnTimer does nothing
\* once the call that created the timer has returned; otherwise it ends the
\* wait for the event, whoever waits for it by then.
RunTimeout(f) ==
  /\ pc = "exec" /\ cur = <<"timeout", f>>
  /\ IF op[f] # NoOp
     THEN /\ cancelled' = [cancelled EXCEPT ![f] = TRUE]
          /\ IO!CancelEvent(op[f][1], op[f][2])
     ELSE UNCHANGED <<cancelled, ioVars>>
  /\ Yield
  /\ UNCHANGED <<timerVars, limit, pipeVars, m_sleep_sign, at, op, timed, ops>>

RunWake(f) ==
  /\ pc = "exec" /\ cur = <<"wake", f>>
  /\ m_fiber_list' = Append(m_fiber_list, f)
  /\ m_sleep_sign' = FALSE
  /\ Yield
  /\ UNCHANGED <<timerVars, tableVars, limit, pipeVars, fiberVars>>

Execute ==
  \E f \in Fiber :
    \/ \E fd \in FD, ev \in IO!EventType : BeginIo(f, fd, ev)
    \/ TryIo(f) \/ StartTimer(f) \/ ArmIo(f) \/ ArmIoFails(f) \/ WakeIo(f)
    \/ \E ms \in Delays : Sleep(f, ms)
    \/ WakeSleeper(f)
    \/ \E fd \in FD : CloseFd(f, fd) \/ OpenFd(f, fd)
    \/ YieldToReady(f) \/ Finish(f)
    \/ RunTimeout(f) \/ RunWake(f)

-----------------------------------------------------------------------------
KernelEdge ==
  /\ \E fd \in FD, c \in Conditions : IO!Edge(fd, c)
  /\ UNCHANGED <<timerVars, loopVars, m_sleep_sign, fiberVars>>

Clock ==
  /\ SlowReadings \/ pc # "timeout"
  /\ TM!Tick
  /\ UNCHANGED <<ioVars, loopVars, m_sleep_sign, fiberVars>>

Alive == ~aborted /\ pc # "exited"

Program == Alive /\ (Loop \/ Execute)

Next == Program \/ (Alive /\ (KernelEdge \/ Clock))

Spec == Init /\ [][Next]_vars

\* The thread is scheduled and time passes.
FairSpec == Spec /\ WF_vars(Program) /\ WF_vars(Alive /\ Clock)

-----------------------------------------------------------------------------
\* The loop's and the fibers' variables keep their types; those of the timer
\* queue and the event table are checked with their own modules.
TypeOK ==
  /\ pc \in {"pick", "exec", "idle", "timeout", "wait", "expire", "schedule",
             "dispatch", "exited"}
  /\ cur \in Entry \cup {None}
  /\ m_fiber_list \in Seq(Entry)
  /\ m_sleep_sign \in BOOLEAN
  /\ limit \in Int
  /\ pipe \in BOOLEAN /\ drain \in BOOLEAN
  /\ at \in [Fiber -> {"run", "try", "arm", "wait", "sleep", "done"}]
  /\ op \in [Fiber -> (FD \X IO!EventType) \cup {NoOp}]
  /\ timed \in [Fiber -> BOOLEAN]
  /\ cancelled \in [Fiber -> BOOLEAN]
  /\ ops \in [Fiber -> 0 .. MaxOps]

Listed == {m_fiber_list[i] : i \in DOMAIN m_fiber_list}
Handed == Listed \cup {cur}      \* scheduled or executing

\* The callback of f's timer is set but the timer is not in the queue: another
\* timer with the same deadline took its key or removed it.
Displaced(f) == m_cb[f] /\ f \notin m_timers

ArmedFor(f) == \E fd \in FD, ev \in IO!EventType :
                 op[f] = <<fd, ev>> /\ waiter[fd][ev] = f /\ ev \in events[fd]

\* A suspended fiber can still be woken: one that waits for I/O is armed for
\* the very event it waits for or already scheduled; one that sleeps has its
\* timer in the queue, handed out, or its callback or itself scheduled, unless
\* its timer was displaced.  Close, timeouts and dispatch all end waits.  The
\* one wait without an end is that of a fiber overwritten by another fiber's
\* wait for the same event.
WakerExists ==
  ~aborted => \A f \in Fiber :
    /\ at[f] = "wait" => ArmedFor(f) \/ f \in Handed \/ f \in ousted
    /\ at[f] = "sleep" => \/ f \in m_timers \cup expired_cbs
                          \/ {f, <<"wake", f>>} \cap Handed # {}
                          \/ Displaced(f)

\* Nothing is scheduled twice, or scheduled while it executes; a fiber in the
\* list is not finished and nobody holds it as a waiter.  So run() never swaps
\* in a fiber that is EXEC, nor drops one it found TERM.
EntryOnce ==
  /\ \A i, j \in DOMAIN m_fiber_list : m_fiber_list[i] = m_fiber_list[j] => i = j
  /\ cur \notin Listed
  /\ \A f \in Fiber \cap Handed : at[f] # "done" /\ ~ArmedFor(f)

\* A timeout callback runs while the wait it was created for is still going
\* on: the fiber has not been resumed, has not started another timer, and if
\* it is scheduled it comes later in the list.  Its cancel_event can then not
\* hit a later wait of that fiber (it can hit the wait of another fiber that
\* has taken over the event).
TimeoutMeetsItsWait ==
  \A f \in Fiber :
    /\ <<"timeout", f>> \in Handed =>
         at[f] = "wait" /\ timed[f] /\ f \notin m_timers /\ cur # f
    /\ \A i, j \in DOMAIN m_fiber_list :
         m_fiber_list[i] = <<"timeout", f>> /\ m_fiber_list[j] = f => i < j
    /\ <<"wake", f>> \in Handed => at[f] = "sleep" /\ f \notin Handed

\* No sleep ends and no call reports ETIMEDOUT before the time it was given
\* has passed, however long the loop or another fiber took in between.
NoEarlyWake ==
  ~wrapped => \A f \in Fiber :
    \/ {<<"timeout", f>>, <<"wake", f>>} \cap Handed # {}
    \/ cancelled[f]
    \/ at[f] = "sleep" /\ f \in Handed
    => due[f] <= uptime

\* The loop ends, and with it the destructor goes on, only when nothing is
\* scheduled, armed or timed and every fiber has finished, except sleepers
\* whose timers were displaced.
DrainBeforeExit ==
  pc = "exited" =>
    /\ m_fiber_list = <<>> /\ m_timers = {} /\ m_pending_event_count = 0
    /\ IO!Armed = {}
    /\ \A f \in Fiber : at[f] = "done" \/ (at[f] = "sleep" /\ Displaced(f))

\* epoll_wait is given at most MAX_TIMEOUT, the cap idle() computes with.
IdleWaitBounded == pc = "wait" => limit # Forever

-----------------------------------------------------------------------------
\* Everything scheduled is executed, however many fibers yield and wake.
ScheduledRuns ==
  \A e \in Entry :
    e \in Listed ~> cur = e \/ aborted

\* A sleep, or a call with a timeout, comes to an end once its time has come,
\* unless its timer was displaced or its wait overwritten: it fires although
\* the loop computed its next wait before or after the deadline, with nothing
\* else happening.
TimedCallEnds ==
  \A f \in Fiber :
    at[f] = "sleep" \/ (at[f] = "wait" /\ timed[f])
      ~> \/ at[f] # "sleep" /\ ~(at[f] = "wait" /\ timed[f])
         \/ Displaced(f) \/ f \in ousted \/ aborted

\* When all fibers have finished the loop ends: no timer, pending count or
\* sleep sign is left behind to keep the destructor waiting.
LoopExits == (\A f \in Fiber : at[f] = "done") ~> pc = "exited"
=============================================================================
