---------------------------- MODULE TimerManager ----------------------------
(***************************************************************************)
(* qff/timer.cpp, qff/timer.h: the timer queue of an IOManager.            *)
(*                                                                         *)
(* m_timers is a std::set ordered by m_next_time alone, so two timers with *)
(* equal deadlines are the same key: the second insert is dropped, and a   *)
(* lookup by one timer finds the other.  Deadlines are ints, the 64-bit    *)
(* millisecond clock reduced modulo 2^w.  Every operation is one step: in  *)
(* the configuration of the tests, IOManager(1, name, true), one OS thread *)
(* makes every call and no operation yields in the middle.                 *)
(*                                                                         *)
(* A definition whose comment begins with "Fault" is a mistake one could   *)
(* make in the definition after it; the runs show that it is noticed.      *)
(***************************************************************************)
EXTENDS Integers

CONSTANTS Timer,          \* timer objects
          Durations,      \* the delays a caller asks for, in ms
          Half,           \* 2^(w-1) for an int of w bits
          Epoch,          \* the clock at start, modulo 2^w
          RolloverSlack,  \* 60 * 60 * 1000 in the code
          SetBacks,       \* by how much the wall clock may be set back
          MaxUptime       \* bound on the elapsed time

ASSUME TimerAssumption ==
  /\ Half \in Nat \ {0}
  /\ Epoch \in 0 .. 2 * Half - 1
  /\ Durations \subseteq Nat
  /\ SetBacks \subseteq Nat
  /\ RolloverSlack \in Nat
  /\ MaxUptime \in Nat

VARIABLES now,              \* GetCurrentMS(), 64 bits wide, less a multiple of 2^w
          m_timers,         \* TimerManager::m_timers
          m_next_time, m_ms, m_recurring,
          m_cb,             \* m_cb[t]: the callback of t is not null
          m_previous_time, m_tickled,
          expired_cbs,      \* the timers whose callbacks list_expired_cb returned
          uptime,           \* time really elapsed (not visible to the code)
          due,              \* the elapsed time each caller asked to wait for
          wrapped           \* a deadline, clock reading or difference was truncated

objVars  == <<m_next_time, m_ms, m_recurring, m_cb, due>>
timeVars == <<now, uptime>>
vars == <<now, m_timers, m_next_time, m_ms, m_recurring, m_cb,
          m_previous_time, m_tickled, expired_cbs, uptime, due, wrapped>>

-----------------------------------------------------------------------------
\* Fault: deadlines are kept in 64 bits in one place and in an int elsewhere.
WrapNot(x) == x

\* Conversion of a millisecond count to int.
Wrap(x) == ((x + Half) % (2 * Half)) - Half

NowInt == Wrap(now)

\* What std::set::find(t) finds: the member with t's deadline, t or not.
SameKey(t) == {u \in m_timers : m_next_time[u] = m_next_time[t]}

\* Fault: a multiset, or a comparator that breaks ties.
InsertTied(S, nx, t) == S \cup {t}

\* std::set::insert under deadlines nx: dropped when the key is taken.
Insert(S, nx, t) == IF \E u \in S : nx[u] = nx[t] THEN S ELSE S \cup {t}

\* The iterator insert returns is begin(), whether or not it inserted.
AtFront(S, nx, t) == \A u \in S : nx[t] <= nx[u]

\* The guard of cancel, refresh and reset; otherwise they return -1.
Found(t) == m_cb[t] /\ SameKey(t) # {}

\* Fault: a timer expires one millisecond before its deadline.
ExpiredEarly == {t \in m_timers : m_next_time[t] <= NowInt + 1}

Expired == {t \in m_timers : m_next_time[t] <= NowInt}

-----------------------------------------------------------------------------
Init == /\ now = Wrap(Epoch)
        /\ m_timers = {}
        /\ m_next_time = [t \in Timer |-> 0]
        /\ m_ms = [t \in Timer |-> 0]
        /\ m_recurring = [t \in Timer |-> FALSE]
        /\ m_cb = [t \in Timer |-> FALSE]
        /\ m_previous_time = Wrap(Epoch)
        /\ m_tickled = FALSE
        /\ expired_cbs = {}
        /\ uptime = 0
        /\ due = [t \in Timer |-> 0]
        /\ wrapped = FALSE

\* add_timer(ms, cb, recurring): the deadline is computed by the constructor.
AddTimer(t, ms, rec) ==
  /\ t \notin m_timers
  /\ m_next_time' = [m_next_time EXCEPT ![t] = Wrap(now + ms)]
  /\ m_ms' = [m_ms EXCEPT ![t] = ms]
  /\ m_recurring' = [m_recurring EXCEPT ![t] = rec]
  /\ m_cb' = [m_cb EXCEPT ![t] = TRUE]
  /\ due' = [due EXCEPT ![t] = uptime + ms]
  /\ m_timers' = Insert(m_timers, m_next_time', t)
  /\ m_tickled' = (m_tickled \/ AtFront(m_timers, m_next_time', t))
  /\ wrapped' = (wrapped \/ Wrap(now + ms) # now + ms)
  /\ UNCHANGED <<timeVars, m_previous_time, expired_cbs>>

\* Fault: cancel clears the callback and leaves the timer in the set.
CancelKeeps(t) ==
  /\ Found(t)
  /\ m_cb' = [m_cb EXCEPT ![t] = FALSE]
  /\ UNCHANGED <<timeVars, m_timers, m_next_time, m_ms, m_recurring, due,
                 m_previous_time, m_tickled, expired_cbs, wrapped>>

CancelFound(t) ==
  /\ Found(t)
  /\ m_timers' = m_timers \ SameKey(t)
  /\ m_cb' = [m_cb EXCEPT ![t] = FALSE]
  /\ UNCHANGED <<timeVars, m_next_time, m_ms, m_recurring, due, m_previous_time,
                 m_tickled, expired_cbs, wrapped>>

\* Timer::cancel, which fails without effect once the timer has fired.
Cancel(t) ==
  \/ CancelFound(t)
  \/ ~Found(t) /\ UNCHANGED vars

\* Fault: refresh does not add the timer again.
RefreshForgets(t) ==
  /\ Found(t)
  /\ m_timers' = m_timers \ SameKey(t)
  /\ UNCHANGED <<timeVars, objVars, m_previous_time, m_tickled, expired_cbs, wrapped>>

Refresh(t) ==
  /\ Found(t)
  /\ m_next_time' = [m_next_time EXCEPT ![t] = Wrap(now + m_ms[t])]
  /\ due' = [due EXCEPT ![t] = uptime + m_ms[t]]
  /\ m_timers' = Insert(m_timers \ SameKey(t), m_next_time', t)
  /\ m_tickled' = (m_tickled \/ AtFront(m_timers \ SameKey(t), m_next_time', t))
  /\ wrapped' = (wrapped \/ Wrap(now + m_ms[t]) # now + m_ms[t])
  /\ UNCHANGED <<timeVars, m_ms, m_recurring, m_cb, m_previous_time, expired_cbs>>

\* reset inserts into the set itself: nobody is told of a new front.
Reset(t, ms, from_now) ==
  LET start == IF from_now THEN now ELSE m_next_time[t] - m_ms[t]
  IN /\ ms # m_ms[t] \/ from_now
     /\ Found(t)
     /\ m_next_time' = [m_next_time EXCEPT ![t] = Wrap(start + ms)]
     /\ due' = [due EXCEPT ![t] = IF from_now THEN uptime + ms ELSE @ - m_ms[t] + ms]
     /\ m_ms' = [m_ms EXCEPT ![t] = ms]
     /\ m_timers' = Insert(m_timers \ SameKey(t), m_next_time', t)
     /\ wrapped' = (wrapped \/ Wrap(start + ms) # start + ms)
     /\ UNCHANGED <<timeVars, m_recurring, m_cb, m_previous_time, m_tickled, expired_cbs>>

-----------------------------------------------------------------------------
Rollover == /\ NowInt < m_previous_time
            /\ NowInt < Wrap(m_previous_time - RolloverSlack)

Distance == Wrap(NowInt - m_previous_time)

\* The shifted deadlines still fit an int, so the order of the set survives.
ShiftFits == \A t \in m_timers :
               Wrap(m_next_time[t] - Distance) = m_next_time[t] - Distance

\* get_next_time, with detect_clock_rollover: a clock that went back by more
\* than the slack moves every deadline by "-= distance", and distance < 0.
GetNextTime ==
  /\ m_tickled' = FALSE
  /\ m_previous_time' = NowInt
  /\ wrapped' = (\/ wrapped
                 \/ NowInt # now
                 \/ Rollover /\ Distance # NowInt - m_previous_time)
  /\ \/ /\ ~Rollover
        /\ UNCHANGED m_next_time
     \/ /\ Rollover /\ ShiftFits
        /\ m_next_time' = [t \in Timer |-> IF t \in m_timers
                                           THEN m_next_time[t] - Distance
                                           ELSE m_next_time[t]]
  /\ UNCHANGED <<timeVars, m_timers, m_ms, m_recurring, m_cb, due, expired_cbs>>

\* What get_next_time returns in the state it leaves behind; None is INT_MAX.
NextTime(S, nx, clock, None) ==
  IF S = {} THEN None
  ELSE LET first == CHOOSE t \in S : \A u \in S : nx[t] <= nx[u]
       IN IF clock >= nx[first] THEN 0 ELSE nx[first]

-----------------------------------------------------------------------------
\* Recurring timers go back one period from now, in the order of their old
\* deadlines: the first to claim a key keeps it.
Again == {t \in Expired : m_recurring[t]}
Kept  == m_timers \ Expired

\* Fault: the deadline of a recurring timer is not moved on.
NextAgainSame == m_next_time

NextAgain == [t \in Timer |-> IF t \in Again THEN Wrap(now + m_ms[t])
                              ELSE m_next_time[t]]

\* Fault: no check whether the new deadline is taken.
ReinsertedAll(nx) == Again

Reinserted(nx) ==
  {t \in Again :
     /\ \A u \in Kept : nx[u] # nx[t]
     /\ \A u \in Again : m_next_time[u] < m_next_time[t] => nx[u] # nx[t]}

ListExpired ==
  /\ expired_cbs = {}
  /\ expired_cbs' = Expired
  /\ m_next_time' = NextAgain
  /\ m_timers' = Kept \cup Reinserted(NextAgain)
  /\ due' = [t \in Timer |-> IF t \in Again THEN uptime + m_ms[t] ELSE due[t]]
  /\ m_cb' = [t \in Timer |-> m_cb[t] /\ t \notin Expired \ Again]
  /\ m_tickled' = (m_tickled \/ \E t \in Again : AtFront(Kept, NextAgain, t))
  /\ wrapped' = (\/ wrapped
                 \/ NowInt # now
                 \/ \E t \in Again : Wrap(now + m_ms[t]) # now + m_ms[t])
  /\ UNCHANGED <<timeVars, m_ms, m_recurring, m_previous_time>>

\* The idle loop hands the callbacks to the scheduler (io_manager.cpp).
TakeExpired ==
  /\ expired_cbs # {}
  /\ expired_cbs' = {}
  /\ UNCHANGED <<timeVars, m_timers, objVars, m_previous_time, m_tickled, wrapped>>

\* Fault: the condition is the wrong way round.
StopOneShots ==
  /\ m_timers' = {t \in m_timers : m_recurring[t]}
  /\ UNCHANGED <<timeVars, objVars, m_previous_time, m_tickled, expired_cbs, wrapped>>

\* timer_manager_stop, called each time the scheduler asks whether to stop.
TimerManagerStop ==
  /\ m_timers' = {t \in m_timers : ~m_recurring[t]}
  /\ UNCHANGED <<timeVars, objVars, m_previous_time, m_tickled, expired_cbs, wrapped>>

-----------------------------------------------------------------------------
\* The environment: a millisecond passes, or the wall clock is set back in it.
Tick ==
  /\ uptime < MaxUptime
  /\ uptime' = uptime + 1
  /\ now' = now + 1
  /\ UNCHANGED <<m_timers, objVars, m_previous_time, m_tickled, expired_cbs, wrapped>>

SetBack(d) ==
  /\ uptime < MaxUptime
  /\ now - d >= -Half
  /\ uptime' = uptime + 1
  /\ now' = now - d
  /\ UNCHANGED <<m_timers, objVars, m_previous_time, m_tickled, expired_cbs, wrapped>>

Next ==
  \/ \E t \in Timer, ms \in Durations, rec \in BOOLEAN : AddTimer(t, ms, rec)
  \/ \E t \in Timer : Cancel(t)
  \/ \E t \in Timer : Refresh(t)
  \/ \E t \in Timer, ms \in Durations, from_now \in BOOLEAN : Reset(t, ms, from_now)
  \/ GetNextTime
  \/ ListExpired
  \/ TakeExpired
  \/ TimerManagerStop
  \/ Tick
  \/ \E d \in SetBacks : SetBack(d)

Spec == Init /\ [][Next]_vars

-----------------------------------------------------------------------------
\* Every variable keeps the type of its declaration in timer.h; deadlines and
\* clock readings stay within an int.
TypeOK ==
  /\ now \in Int
  /\ m_timers \subseteq Timer
  /\ m_next_time \in [Timer -> -Half .. Half - 1]
  /\ m_ms \in [Timer -> Nat]
  /\ m_recurring \in [Timer -> BOOLEAN]
  /\ m_cb \in [Timer -> BOOLEAN]
  /\ m_previous_time \in -Half .. Half - 1
  /\ m_tickled \in BOOLEAN
  /\ expired_cbs \subseteq Timer
  /\ uptime \in Nat
  /\ due \in [Timer -> Int]
  /\ wrapped \in BOOLEAN

\* The queue never holds two timers with one deadline, so that find() in
\* cancel, refresh and reset is unambiguous.  The recurring timers that
\* list_expired_cb puts back and the shift after a rollover could break it.
KeysDistinct ==
  \A t, u \in m_timers : m_next_time[t] = m_next_time[u] => t = u

\* A queued timer still has its callback, so list_expired_cb never schedules
\* an empty function, although cancel may erase a timer other than its own.
LiveMembers == \A t \in m_timers : m_cb[t]

\* The deadline of a timer that may still fire is no earlier, measured from
\* the present, than what its caller asked for: through refresh, reset, expiry,
\* the clock set back and the rollover shift, in the queue or displaced from
\* it, until an int has been truncated.
DeadlineKept ==
  ~wrapped => \A t \in Timer :
                m_cb[t] => due[t] - uptime <= m_next_time[t] - now

\* A timer that still has its callback leaves the queue, or fails to enter
\* it, only through manager stop or because of another timer with the same
\* deadline: the one that holds the key it wants, or the displaced one whose
\* cancel, refresh or reset erased it.
NoSilentLoss ==
  [][\A t \in Timer :
       m_cb'[t] /\ t \notin m_timers' /\ (t \in m_timers \/ due'[t] # due[t])
         => \/ m_recurring[t] /\ m_timers' = {u \in m_timers : ~m_recurring[u]}
            \/ \E u \in m_timers' : m_next_time'[u] = m_next_time'[t]
            \/ \E u \in Timer \ m_timers : m_cb[u] /\ m_next_time[u] = m_next_time[t]]_vars

\* The queue implements the timer service: callbacks are handed out only for
\* armed timers whose time has really passed, and one-shot timers fire once.
Service == INSTANCE TimerService
             WITH armed     <- {t \in Timer : m_cb[t]},
                  recurring <- {t \in Timer : m_recurring[t]},
                  period    <- m_ms,
                  fired     <- expired_cbs

ImplementsTimerService == Service!Spec
=============================================================================
