----------------------------- MODULE WorkerPool -----------------------------
(***************************************************************************)
(* Several workers on one Scheduler: Thread (thread.cpp), start, run and   *)
(* stop (scheduler.cpp), the fibers they resume (fiber.cpp) and as much of *)
(* IOManager (tickle, stopping, idle) as the workers see.                  *)
(*                                                                         *)
(* The list is protected by a FlagLock, which every guard unlocks twice:   *)
(* once by the call in schedule() and run(), and once more where its scope *)
(* ends.  Two threads in the list at once, or one fiber on two threads, is *)
(* undefined behaviour: the model contains the first such state and        *)
(* nothing after it.                                                       *)
(*                                                                         *)
(* Each fiber that waits has an event of its own (two fibers on one event: *)
(* IoEvents and EventLoop).                                                *)
(***************************************************************************)
EXTENDS Integers, Sequences, FiniteSets, SequencesExt

CONSTANTS Worker,     \* the threads of m_thread_pool
          Main,       \* the thread that starts and stops the scheduler
          UseCaller,  \* Main runs the loop too, while it stops
          Fiber,
          Pinned,     \* the fibers scheduled for one thread, and for which:
          PinnedTo,
          None,
          MaxYields   \* bound: how often each fiber yields

Thread == Worker \cup {Main}

ASSUME PoolAssumption ==
  /\ IsFiniteSet(Worker) /\ Main \notin Worker
  /\ None \notin Thread \cup Fiber
  /\ Pinned \subseteq Fiber /\ PinnedTo \in Thread
  /\ UseCaller \in BOOLEAN

VARIABLES
  m_is_locked, m_mutex, at,  \* m_mutex of the scheduler, a FlagLock
  m_fiber_list,
  m_active_thread_count, m_idle_thread_count,
  m_stop_sign, m_is_stopping, m_is_stop,
  m_thread_ids, m_id, m_sem, \* of Thread
  m_state,                   \* of each fiber
  armed,                     \* fibers with an event armed: m_pending_event_count
  pipe,                      \* the tickle pipe is readable
  pc,                        \* where each thread is
  ft,                        \* its FiberAndThread ft
  tick_me,
  put,                       \* what schedule() is called with, and where it
  back,                      \* returns to
  given,                     \* ghost: fibers scheduled so far
  yields,                    \* ghost: yields of each fiber (bound)
  late,                      \* ghost: fibers that armed an event after the decision to stop
  doubled                    \* ghost: fibers rescheduled by a worker that no longer had them

lockVars  == <<m_is_locked, m_mutex, at>>
countVars == <<m_active_thread_count, m_idle_thread_count>>
signVars  == <<m_stop_sign, m_is_stopping, m_is_stop>>
startVars == <<m_thread_ids, m_id, m_sem>>
fiberVars == <<m_state, armed, yields>>
localVars == <<ft, tick_me, put, back>>
ghostVars == <<given, late, doubled>>
vars == <<lockVars, m_fiber_list, countVars, signVars, startVars, fiberVars,
          pipe, pc, localVars, ghostVars>>

L == INSTANCE FlagLock WITH Free <- None

Init ==
  /\ L!InitLock
  /\ m_fiber_list = <<>>
  /\ m_active_thread_count = 0 /\ m_idle_thread_count = 0
  /\ m_stop_sign = FALSE /\ m_is_stopping = FALSE /\ m_is_stop = TRUE
  /\ m_thread_ids = {} /\ m_id = [w \in Worker |-> -1] /\ m_sem = [w \in Worker |-> 0]
  /\ m_state = [f \in Fiber |-> "INIT"] /\ armed = {}
  /\ yields = [f \in Fiber |-> 0]
  /\ pipe = FALSE
  /\ pc = [t \in Thread |-> IF t = Main THEN "start" ELSE "none"]
  /\ ft = [t \in Thread |-> None] /\ tick_me = [t \in Thread |-> FALSE]
  /\ put = [t \in Thread |-> None] /\ back = [t \in Thread |-> "none"]
  /\ given = {} /\ late = {} /\ doubled = {}

Goto(t, from, to) == pc[t] = from /\ pc' = [pc EXCEPT ![t] = to]

\* IOManager::tickle
Tickle == pipe' = (pipe \/ m_idle_thread_count > 0)

Over == {"TERM", "EXCEPT"}

-----------------------------------------------------------------------------
\* Thread and start()

\* Thread::Thread in start(): pthread_create, then wait for the semaphore.
Create(w) ==
  /\ pc[w] = "none"
  /\ m_is_stop' = FALSE
  /\ put' = [put EXCEPT ![Main] = w]
  /\ pc[Main] = "start" /\ pc' = [pc EXCEPT ![Main] = "sem", ![w] = "born"]
  /\ UNCHANGED <<lockVars, m_fiber_list, countVars, m_stop_sign, m_is_stopping,
                 startVars, fiberVars, pipe, ft, tick_me, back, ghostVars>>

\* Thread::Run up to its notify.
SetId(w) ==
  /\ Goto(w, "born", "named")
  /\ m_id' = [m_id EXCEPT ![w] = w]
  /\ UNCHANGED <<lockVars, m_fiber_list, countVars, signVars, m_thread_ids, m_sem,
                 fiberVars, pipe, localVars, ghostVars>>
Notify(w) ==
  /\ Goto(w, "named", "pick")
  /\ m_sem' = [m_sem EXCEPT ![w] = @ + 1]
  /\ UNCHANGED <<lockVars, m_fiber_list, countVars, signVars, m_thread_ids, m_id,
                 fiberVars, pipe, localVars, ghostVars>>

\* The constructor returns; start() notes the id.
Created ==
  LET w == put[Main]
  IN  /\ Goto(Main, "sem", IF \E v \in Worker : pc[v] = "none" THEN "start" ELSE "user")
      /\ m_sem[w] > 0
      /\ m_sem' = [m_sem EXCEPT ![w] = @ - 1]
      /\ m_thread_ids' = m_thread_ids \cup {m_id[w]}
      /\ put' = [put EXCEPT ![Main] = None]
      /\ UNCHANGED <<lockVars, m_fiber_list, countVars, signVars, m_id, fiberVars,
                     pipe, ft, tick_me, back, ghostVars>>

-----------------------------------------------------------------------------
\* schedule(): the caller goes to "put", takes the lock, appends, unlocks and
\* tickles if the list was empty; then its guard unlocks again ("scoped").

CallSchedule(t, from, f, to) ==
  /\ Goto(t, from, "put")
  /\ put' = [put EXCEPT ![t] = f]
  /\ back' = [back EXCEPT ![t] = to]

\* The lock is taken by whoever is about to pick or to put, and left after;
\* the guard of schedule() or run() leaves it again at the end of its scope.
StepLock(t) ==
  /\ pc[t] \in {"pick", "put"} /\ L!Lock(t)
  /\ UNCHANGED <<m_fiber_list, countVars, signVars, startVars, fiberVars, pipe,
                 pc, localVars, ghostVars>>
StepUnlock(t) ==
  /\ pc[t] \in {"picked", "putted", "scoped", "exit"} /\ at[t] # "out" /\ L!Unlock(t)
  /\ UNCHANGED <<m_fiber_list, countVars, signVars, startVars, fiberVars, pipe,
                 pc, localVars, ghostVars>>

Emplace(t) ==
  /\ at[t] = "in"
  /\ Goto(t, "put", "putted")
  /\ tick_me' = [tick_me EXCEPT ![t] = m_fiber_list = <<>>]
  /\ m_fiber_list' = Append(m_fiber_list, put[t])
  /\ UNCHANGED <<lockVars, countVars, signVars, startVars, fiberVars, pipe, ft,
                 put, back, ghostVars>>

Scheduled(t) ==
  /\ Goto(t, "putted", "scoped")
  /\ IF tick_me[t] THEN Tickle ELSE UNCHANGED pipe
  /\ L!EndOfScope(t)
  /\ put' = [put EXCEPT ![t] = None]
  /\ UNCHANGED <<m_fiber_list, countVars, signVars, startVars, fiberVars, ft,
                 tick_me, back, ghostVars>>

Return(t) ==
  /\ at[t] = "out"
  /\ Goto(t, "scoped", back[t])
  /\ UNCHANGED <<lockVars, m_fiber_list, countVars, signVars, startVars, fiberVars,
                 pipe, localVars, ghostVars>>

\* The user schedules a fiber.
Give(f) ==
  /\ f \notin given
  /\ given' = given \cup {f}
  /\ CallSchedule(Main, "user", f, "user")
  /\ UNCHANGED <<lockVars, m_fiber_list, countVars, signVars, startVars, fiberVars,
                 pipe, ft, tick_me, late, doubled>>

\* Fault: the root fiber is not called.
StopWithoutCall ==
  /\ Goto(Main, "user", "join")
  /\ m_stop_sign' = TRUE
  /\ Tickle
  /\ UNCHANGED <<lockVars, m_fiber_list, countVars, m_is_stopping, m_is_stop,
                 startVars, fiberVars, localVars, ghostVars>>

\* stop(), up to the root fiber or the joins.
Stop ==
  /\ Goto(Main, "user", IF UseCaller THEN "pick" ELSE "join")
  /\ m_stop_sign' = TRUE
  /\ Tickle
  /\ UNCHANGED <<lockVars, m_fiber_list, countVars, m_is_stopping, m_is_stop,
                 startVars, fiberVars, localVars, ghostVars>>

Join ==
  /\ Goto(Main, "join", "done")
  /\ \A w \in Worker : pc[w] = "ended"
  /\ m_is_stop' = TRUE
  /\ UNCHANGED <<lockVars, m_fiber_list, countVars, m_stop_sign, m_is_stopping,
                 startVars, fiberVars, pipe, localVars, ghostVars>>

-----------------------------------------------------------------------------
\* run()

\* f is executing on t, also while it is in schedule().
OnProcessor(t, f) ==
  /\ ft[t] = f
  /\ \/ pc[t] \in {"fiber", "armed", "leaving"}
     \/ pc[t] \in {"put", "putted", "scoped"} /\ back[t] = "fiber"

\* t is about to run f, runs it, or is about to append it to the list.
Has(t, f) ==
  \/ ft[t] = f /\ pc[t] \in {"picked", "swap"}
  \/ OnProcessor(t, f)
  \/ put[t] = f /\ pc[t] = "put"

MayRunOn(f, t) == f \in Pinned => t = PinnedTo

\* Fault: a fiber that is still executing is taken as well.
TakenRunning(t) == {i \in DOMAIN m_fiber_list : MayRunOn(m_fiber_list[i], t)}

\* The entries a worker may take.
Takable(t) ==
  {i \in DOMAIN m_fiber_list :
     MayRunOn(m_fiber_list[i], t) /\ m_state[m_fiber_list[i]] # "EXEC"}

\* The scan: the first entry that may run here is taken; tickle if an entry of
\* another thread was passed over or something follows the one taken.
Scan(t) ==
  /\ at[t] = "in"
  /\ Goto(t, "pick", "picked")
  /\ \/ /\ Takable(t) = {}
        /\ ft' = [ft EXCEPT ![t] = None]
        /\ tick_me' = [tick_me EXCEPT ![t] =
             \E i \in DOMAIN m_fiber_list : ~MayRunOn(m_fiber_list[i], t)]
        /\ UNCHANGED m_fiber_list
     \/ \E i \in Takable(t) :
          /\ \A j \in Takable(t) : i <= j
          /\ ft' = [ft EXCEPT ![t] = m_fiber_list[i]]
          /\ tick_me' = [tick_me EXCEPT ![t] =
               \/ i < Len(m_fiber_list)
               \/ \E j \in 1 .. i : ~MayRunOn(m_fiber_list[j], t)]
          /\ m_fiber_list' = RemoveAt(m_fiber_list, i)
  /\ UNCHANGED <<lockVars, countVars, signVars, startVars, fiberVars, pipe, put,
                 back, ghostVars>>

\* After unlock: count, tickle, and look at the state of the fiber.
Picked(t) ==
  LET f == ft[t]
  IN  /\ at[t] = "out"
      /\ Goto(t, "picked", IF f # None /\ m_state[f] \notin Over THEN "swap" ELSE "check")
      /\ m_active_thread_count' = m_active_thread_count + IF f # None THEN 1 ELSE 0
      /\ IF tick_me[t] THEN Tickle ELSE UNCHANGED pipe
      /\ UNCHANGED <<lockVars, m_fiber_list, m_idle_thread_count, signVars, startVars,
                     fiberVars, localVars, ghostVars>>

SetState(f, s) == m_state' = [m_state EXCEPT ![f] = s]

\* Fiber::swap_in
SwapIn(t) ==
  /\ Goto(t, "swap", "fiber")
  /\ SetState(ft[t], "EXEC")
  /\ UNCHANGED <<lockVars, m_fiber_list, countVars, signVars, startVars, armed,
                 yields, pipe, localVars, ghostVars>>

\* The fiber on the processor: it schedules another,
Spawn(t, f) ==
  /\ f \notin given
  /\ given' = given \cup {f}
  /\ CallSchedule(t, "fiber", f, "fiber")
  /\ UNCHANGED <<lockVars, m_fiber_list, countVars, signVars, startVars, fiberVars,
                 pipe, ft, tick_me, late, doubled>>

\* or waits for an event: add_event, then YieldToHold,
Arm(t) ==
  LET f == ft[t]
  IN  /\ Goto(t, "fiber", "armed")
      /\ yields[f] < MaxYields[f]
      /\ yields' = [yields EXCEPT ![f] = @ + 1]
      /\ armed' = armed \cup {f}
      /\ late' = late \cup {g \in {f} : m_is_stopping \/ \E u \in Thread : pc[u] = "sign"}
      /\ UNCHANGED <<lockVars, m_fiber_list, countVars, signVars, startVars, m_state,
                     pipe, localVars, given, doubled>>
YieldToHold(t) ==
  /\ Goto(t, "armed", "leaving")
  /\ SetState(ft[t], "HOLD")
  /\ UNCHANGED <<lockVars, m_fiber_list, countVars, signVars, startVars, armed,
                 yields, pipe, localVars, ghostVars>>

\* or gives up its turn,
YieldToReady(t) ==
  LET f == ft[t]
  IN  /\ Goto(t, "fiber", "leaving")
      /\ yields[f] < MaxYields[f]
      /\ yields' = [yields EXCEPT ![f] = @ + 1]
      /\ SetState(f, "READY")
      /\ UNCHANGED <<lockVars, m_fiber_list, countVars, signVars, startVars, armed,
                     pipe, localVars, ghostVars>>

\* or returns or throws (MainFunc).
Finish(t) ==
  /\ Goto(t, "fiber", "leaving")
  /\ \E s \in Over : SetState(ft[t], s)
  /\ UNCHANGED <<lockVars, m_fiber_list, countVars, signVars, startVars, armed,
                 yields, pipe, localVars, ghostVars>>

\* swapcontext in swap_out saves the context; the worker goes on.
SwapOut(t) ==
  /\ Goto(t, "leaving", "back")
  /\ UNCHANGED <<lockVars, m_fiber_list, countVars, signVars, startVars, fiberVars,
                 pipe, localVars, ghostVars>>

\* Fault: a fiber that yielded is not scheduled again.
ReadyAgainNever(f) == FALSE

\* Whether the worker that got a fiber back schedules it again.
ReadyAgain(f) == m_state[f] = "READY"

\* Back in run(): the state is read when another worker may have the fiber.
Back(t) ==
  LET f == ft[t]
  IN  /\ pc[t] = "back"
      /\ m_active_thread_count' = m_active_thread_count - 1
      /\ ft' = [ft EXCEPT ![t] = None]
      /\ IF ReadyAgain(f)
         THEN /\ CallSchedule(t, "back", f, "pick")
              /\ doubled' = doubled \cup
                   {g \in {f} : g \in ToSet(m_fiber_list) \/ \E u \in Thread \ {t} : Has(u, g)}
         ELSE Goto(t, "back", "pick") /\ UNCHANGED <<put, back, doubled>>
      /\ UNCHANGED <<lockVars, m_fiber_list, m_idle_thread_count, signVars, startVars,
                     fiberVars, pipe, tick_me, given, late>>

-----------------------------------------------------------------------------
\* Nothing to run.

\* Fault: armed events do not keep the workers.
QuietIgnoringEvents == m_stop_sign

\* m_stop_sign && stopping(); the sleep sign is not used here, and there are
\* no timers.
Quiet == m_stop_sign /\ armed = {}

Check(t) ==
  /\ Goto(t, "check", IF Quiet THEN "sign" ELSE "idle")
  /\ UNCHANGED <<lockVars, m_fiber_list, countVars, signVars, startVars, fiberVars,
                 pipe, localVars, ghostVars>>

\* m_is_stopping = true.
Sign(t) ==
  /\ Goto(t, "sign", "idle")
  /\ m_is_stopping' = TRUE
  /\ UNCHANGED <<lockVars, m_fiber_list, countVars, m_stop_sign, m_is_stop, startVars,
                 fiberVars, pipe, localVars, ghostVars>>

\* The idle fiber: it waits, unless it finds m_is_stopping and ends.
Idle(t) ==
  /\ Goto(t, "idle", IF m_is_stopping THEN "over" ELSE "wait")
  /\ m_idle_thread_count' = m_idle_thread_count + 1
  /\ UNCHANGED <<lockVars, m_fiber_list, m_active_thread_count, signVars, startVars,
                 fiberVars, pipe, localVars, ghostVars>>

\* epoll_wait returns for an armed event, whose waiter is scheduled,
Dispatch(t, f) ==
  /\ f \in armed
  /\ armed' = armed \ {f}
  /\ CallSchedule(t, "wait", f, "yield")
  /\ UNCHANGED <<lockVars, m_fiber_list, countVars, signVars, startVars, m_state,
                 yields, pipe, ft, tick_me, ghostVars>>

\* for the pipe, which is drained, or because its time is over.
Wake(t) ==
  /\ Goto(t, "wait", "yield")
  /\ pipe' = FALSE
  /\ UNCHANGED <<lockVars, m_fiber_list, countVars, signVars, startVars, fiberVars,
                 localVars, ghostVars>>

\* Out of the idle fiber: the next round.
Yield(t) ==
  /\ Goto(t, "yield", "pick")
  /\ m_idle_thread_count' = m_idle_thread_count - 1
  /\ UNCHANGED <<lockVars, m_fiber_list, m_active_thread_count, signVars, startVars,
                 fiberVars, pipe, localVars, ghostVars>>

\* The idle fiber has ended: so does run(), and the scope of its guard.
End(t) ==
  /\ Goto(t, "over", "exit")
  /\ m_idle_thread_count' = m_idle_thread_count - 1
  /\ pipe' = (pipe \/ m_idle_thread_count > 1)
  /\ L!EndOfScope(t)
  /\ UNCHANGED <<m_fiber_list, m_active_thread_count, signVars, startVars, fiberVars,
                 localVars, ghostVars>>

Exit(t) ==
  /\ at[t] = "out"
  /\ Goto(t, "exit", IF t = Main THEN "join" ELSE "ended")
  /\ UNCHANGED <<lockVars, m_fiber_list, countVars, signVars, startVars, fiberVars,
                 pipe, localVars, ghostVars>>

-----------------------------------------------------------------------------
Undefined ==
  \/ Cardinality(L!Inside) > 1
  \/ \E f \in Fiber : Cardinality({t \in Thread : OnProcessor(t, f)}) > 1

Run(t) ==
  \/ StepLock(t) \/ StepUnlock(t) \/ Emplace(t) \/ Scheduled(t) \/ Return(t)
  \/ Scan(t) \/ Picked(t) \/ SwapIn(t) \/ Arm(t) \/ YieldToHold(t)
  \/ YieldToReady(t) \/ Finish(t) \/ SwapOut(t) \/ Back(t)
  \/ Check(t) \/ Sign(t) \/ Idle(t) \/ Wake(t) \/ Yield(t) \/ End(t)
  \/ Exit(t)
  \/ \E f \in Fiber : Spawn(t, f) \/ Dispatch(t, f)

Next ==
  /\ ~Undefined
  /\ \/ \E w \in Worker : Create(w) \/ SetId(w) \/ Notify(w)
     \/ Created \/ Stop \/ Join
     \/ \E f \in Fiber : Give(f)
     \/ \E t \in Thread : Run(t)

Spec == Init /\ [][Next]_vars

-----------------------------------------------------------------------------
\* assert(m_state != EXEC) in Fiber::swap_in holds, except for a fiber some
\* worker has scheduled again after it had lost it (run() reads the state of a
\* fiber that may be running elsewhere by then).
SwapInAssert ==
  \A t \in Thread : pc[t] = "swap" => m_state[ft[t]] # "EXEC" \/ ft[t] \in doubled

\* A scheduled fiber that is not over is in the list, waits for an event, or
\* some thread has it, at every point between two of these.
NothingLost ==
  \A f \in given :
    \/ m_state[f] \in Over \/ f \in ToSet(m_fiber_list) \/ f \in armed
    \/ \E t \in Thread : Has(t, f) \/ (pc[t] = "back" /\ ft[t] = f)

\* When stop() returns with the caller's own round of the loop behind it, the
\* only entries left in the list are those of threads that ended before.  The
\* exception is a fiber that run() scheduled twice: whoever takes the second
\* entry of one that is over goes on to stop without another look at the list.
ListDrained ==
  pc[Main] = "done" /\ UseCaller /\ doubled = {} => ToSet(m_fiber_list) \subseteq Pinned

\* The workers leave no event behind that was armed when they decided to stop;
\* stopping() does not see a fiber that is still running and arms one later.
LeftArmedLate ==
  pc[Main] = "done" => armed \subseteq late
=============================================================================
