------------------------- MODULE TimerManagerProofs -------------------------
(***************************************************************************)
(* Proofs about the timer queue for any set of timers, any delays, any int *)
(* width, and any clock that runs forward a millisecond at a time or is    *)
(* set back.                                                               *)
(***************************************************************************)
EXTENDS TimerManager, WellFoundedInduction, TLAPS

\* The delay of a timer that may still fire is one its callers asked for.
DelayAsked == \A t \in Timer : m_cb[t] => m_ms[t] \in Durations

IInv == TypeOK /\ KeysDistinct /\ LiveMembers /\ DelayAsked /\ DeadlineKept

-----------------------------------------------------------------------------
\* Converting to int yields a value an int can hold.
LEMMA WrapInt == \A x \in Int : Wrap(x) \in Int /\ Wrap(x) \in -Half .. Half - 1
  BY TimerAssumption DEF Wrap

\* Inserting adds at most the timer itself.
LEMMA InsertSubset ==
  ASSUME NEW S, NEW nx, NEW t
  PROVE  Insert(S, nx, t) \subseteq S \cup {t}
  BY DEF Insert

-----------------------------------------------------------------------------
\* Every step keeps the types.
LEMMA TypeStep == TypeOK /\ [Next]_vars => TypeOK'
<1> SUFFICES ASSUME TypeOK, [Next]_vars PROVE TypeOK'
  OBVIOUS
<1> USE TimerAssumption, WrapInt DEF TypeOK
<1>1. ASSUME NEW t \in Timer, NEW ms \in Durations, NEW rec \in BOOLEAN,
             AddTimer(t, ms, rec)
      PROVE  TypeOK'
  <2>1. m_timers' \subseteq Timer
    BY <1>1, InsertSubset DEF AddTimer
  <2>2. m_next_time' \in [Timer -> -Half .. Half - 1] /\ due' \in [Timer -> Int]
    BY <1>1 DEF AddTimer
  <2>3. m_tickled' \in BOOLEAN /\ wrapped' \in BOOLEAN
    BY <1>1 DEF AddTimer, AtFront
  <2> QED BY <1>1, <2>1, <2>2, <2>3 DEF AddTimer, timeVars
<1>2. ASSUME NEW t \in Timer, Cancel(t) PROVE TypeOK'
  BY <1>2 DEF Cancel, CancelFound, SameKey, timeVars, vars
<1>3. ASSUME NEW t \in Timer, Refresh(t) PROVE TypeOK'
  <2>1. m_timers' \subseteq Timer
    BY <1>3, InsertSubset DEF Refresh
  <2>2. m_next_time' \in [Timer -> -Half .. Half - 1] /\ due' \in [Timer -> Int]
    BY <1>3 DEF Refresh
  <2>3. m_tickled' \in BOOLEAN /\ wrapped' \in BOOLEAN
    BY <1>3 DEF Refresh, AtFront
  <2> QED BY <1>3, <2>1, <2>2, <2>3 DEF Refresh, timeVars
<1>4. ASSUME NEW t \in Timer, NEW ms \in Durations, NEW from_now \in BOOLEAN,
             Reset(t, ms, from_now)
      PROVE  TypeOK'
  <2>1. m_timers' \subseteq Timer
    BY <1>4, InsertSubset DEF Reset
  <2>2. m_next_time' \in [Timer -> -Half .. Half - 1] /\ due' \in [Timer -> Int]
    BY <1>4 DEF Reset
  <2>3. m_tickled' \in BOOLEAN /\ wrapped' \in BOOLEAN
    BY <1>4 DEF Reset, AtFront
  <2> QED BY <1>4, <2>1, <2>2, <2>3 DEF Reset, timeVars
<1>5. CASE GetNextTime
  <2>1. NowInt \in Int /\ Distance \in Int
    BY DEF NowInt, Distance
  <2>2. m_next_time' \in [Timer -> -Half .. Half - 1]
    <3>1. \A t \in m_timers : Rollover /\ ShiftFits =>
            m_next_time[t] - Distance \in -Half .. Half - 1
      <4> SUFFICES ASSUME NEW t \in m_timers, ShiftFits
                   PROVE  m_next_time[t] - Distance \in -Half .. Half - 1
        OBVIOUS
      <4>1. m_next_time[t] - Distance \in Int
        BY <2>1
      <4>2. Wrap(m_next_time[t] - Distance) = m_next_time[t] - Distance
        BY DEF ShiftFits
      <4>3. Wrap(m_next_time[t] - Distance) \in -Half .. Half - 1
        BY <4>1
      <4> QED BY <4>2, <4>3
    <3> QED BY <1>5, <2>1, <3>1 DEF GetNextTime
  <2>3. m_previous_time' \in -Half .. Half - 1
    BY <1>5 DEF GetNextTime, NowInt
  <2> QED BY <1>5, <2>2, <2>3 DEF GetNextTime, timeVars
<1>6. CASE ListExpired
  <2>1. m_timers' \subseteq Timer
    BY <1>6 DEF ListExpired, Expired, Again, Kept, Reinserted
  <2>2. m_next_time' \in [Timer -> -Half .. Half - 1] /\ due' \in [Timer -> Int]
    BY <1>6 DEF ListExpired, NextAgain
  <2>3. m_cb' \in [Timer -> BOOLEAN] /\ expired_cbs' \subseteq Timer
    BY <1>6 DEF ListExpired, Expired, Again, Kept, Reinserted
  <2>4. m_tickled' \in BOOLEAN /\ wrapped' \in BOOLEAN
    BY <1>6 DEF ListExpired
  <2> QED BY <1>6, <2>1, <2>2, <2>3, <2>4 DEF ListExpired, timeVars
<1>7. CASE TakeExpired
  BY <1>7 DEF TakeExpired, timeVars, objVars
<1>8. CASE TimerManagerStop
  BY <1>8 DEF TimerManagerStop, timeVars, objVars
<1>9. CASE Tick
  BY <1>9 DEF Tick, objVars
<1>10. ASSUME NEW d \in SetBacks, SetBack(d) PROVE TypeOK'
  BY <1>10 DEF SetBack, objVars
<1>11. CASE UNCHANGED vars
  BY <1>11 DEF vars
<1> QED
  BY <1>1, <1>2, <1>3, <1>4, <1>5, <1>6, <1>7, <1>8, <1>9, <1>10, <1>11 DEF Next

-----------------------------------------------------------------------------
\* Every step keeps the deadlines in the queue distinct.
LEMMA DistinctStep == TypeOK /\ KeysDistinct /\ [Next]_vars => KeysDistinct'
<1> SUFFICES ASSUME TypeOK, KeysDistinct, [Next]_vars PROVE KeysDistinct'
  OBVIOUS
<1> USE DEF KeysDistinct
<1>1. ASSUME NEW t \in Timer, NEW ms \in Durations, NEW rec \in BOOLEAN,
             AddTimer(t, ms, rec)
      PROVE  KeysDistinct'
  <2>1. \A u, v \in m_timers : m_next_time'[u] = m_next_time'[v] => u = v
    BY <1>1 DEF AddTimer, TypeOK
  <2> QED BY <1>1, <2>1 DEF AddTimer, Insert
<1>2. ASSUME NEW t \in Timer, Cancel(t) PROVE KeysDistinct'
  BY <1>2 DEF Cancel, CancelFound, SameKey, vars
<1>3. ASSUME NEW t \in Timer, Refresh(t) PROVE KeysDistinct'
  <2>1. \A u, v \in m_timers \ SameKey(t) :
          m_next_time'[u] = m_next_time'[v] => u = v
    BY <1>3 DEF Refresh, SameKey, TypeOK
  <2> QED BY <1>3, <2>1 DEF Refresh, Insert
<1>4. ASSUME NEW t \in Timer, NEW ms \in Durations, NEW from_now \in BOOLEAN,
             Reset(t, ms, from_now)
      PROVE  KeysDistinct'
  <2>1. \A u, v \in m_timers \ SameKey(t) :
          m_next_time'[u] = m_next_time'[v] => u = v
    BY <1>4 DEF Reset, SameKey, TypeOK
  <2> QED BY <1>4, <2>1 DEF Reset, Insert
<1>5. CASE GetNextTime
  <2>1. Distance \in Int
    BY WrapInt, TimerAssumption DEF Distance, NowInt, TypeOK
  <2>2. m_timers' = m_timers
    BY <1>5 DEF GetNextTime
  <2>3. CASE UNCHANGED m_next_time
    BY <2>2, <2>3
  <2>4. CASE m_next_time' = [t \in Timer |-> IF t \in m_timers
                                             THEN m_next_time[t] - Distance
                                             ELSE m_next_time[t]]
    <3>1. \A u \in m_timers : m_next_time'[u] = m_next_time[u] - Distance
      BY <2>4 DEF TypeOK
    <3> QED BY <2>1, <2>2, <3>1 DEF TypeOK
  <2> QED BY <1>5, <2>3, <2>4 DEF GetNextTime
<1>6. CASE ListExpired
  \* Of two timers that end up with one key, one lost to the other.
  <2> DEFINE nx == NextAgain
  <2>1. m_timers' = Kept \cup Reinserted(nx) /\ m_next_time' = nx
    BY <1>6 DEF ListExpired
  <2>2. /\ Again \subseteq m_timers /\ Kept \subseteq m_timers
        /\ m_timers \subseteq Timer
        /\ \A t \in m_timers : m_next_time[t] \in Int
    BY DEF Again, Kept, Expired, TypeOK
  <2>3. \A u \in Kept : nx[u] = m_next_time[u]
    BY <2>2 DEF NextAgain, Again, Kept
  <2> HIDE DEF nx
  <2> SUFFICES ASSUME NEW u \in m_timers', NEW v \in m_timers', nx[u] = nx[v]
               PROVE  u = v
    BY <2>1
  <2>4. CASE u \in Kept /\ v \in Kept
    BY <2>2, <2>3, <2>4
  <2>5. CASE u \in Kept /\ v \notin Kept
    BY <2>1, <2>5 DEF Reinserted
  <2>6. CASE u \notin Kept /\ v \in Kept
    BY <2>1, <2>6 DEF Reinserted
  <2>7. CASE u \notin Kept /\ v \notin Kept
    <3>1. ~(m_next_time[u] < m_next_time[v]) /\ ~(m_next_time[v] < m_next_time[u])
      BY <2>1, <2>7 DEF Reinserted
    <3>2. u \in m_timers /\ v \in m_timers
      BY <2>1, <2>2, <2>7 DEF Reinserted
    <3> QED BY <2>2, <3>1, <3>2
  <2> QED BY <2>4, <2>5, <2>6, <2>7
<1>7. CASE TakeExpired
  BY <1>7 DEF TakeExpired, objVars
<1>8. CASE TimerManagerStop
  BY <1>8 DEF TimerManagerStop, objVars
<1>9. CASE Tick
  BY <1>9 DEF Tick, objVars
<1>10. ASSUME NEW d \in SetBacks, SetBack(d) PROVE KeysDistinct'
  BY <1>10 DEF SetBack, objVars
<1>11. CASE UNCHANGED vars
  BY <1>11 DEF vars
<1> QED
  BY <1>1, <1>2, <1>3, <1>4, <1>5, <1>6, <1>7, <1>8, <1>9, <1>10, <1>11 DEF Next

-----------------------------------------------------------------------------
\* Every step leaves only timers with a callback in the queue.
LEMMA LiveStep == TypeOK /\ LiveMembers /\ [Next]_vars => LiveMembers'
<1> SUFFICES ASSUME TypeOK, LiveMembers, [Next]_vars PROVE LiveMembers'
  OBVIOUS
<1> USE DEF LiveMembers
<1>1. ASSUME NEW t \in Timer, NEW ms \in Durations, NEW rec \in BOOLEAN,
             AddTimer(t, ms, rec)
      PROVE  LiveMembers'
  BY <1>1, InsertSubset DEF AddTimer, TypeOK
<1>2. ASSUME NEW t \in Timer, Cancel(t) PROVE LiveMembers'
  \* Nobody but t can have lost its callback, and t is not left behind.
  BY <1>2 DEF Cancel, CancelFound, SameKey, TypeOK, vars
<1>3. ASSUME NEW t \in Timer, Refresh(t) PROVE LiveMembers'
  BY <1>3, InsertSubset DEF Refresh, Found
<1>4. ASSUME NEW t \in Timer, NEW ms \in Durations, NEW from_now \in BOOLEAN,
             Reset(t, ms, from_now)
      PROVE  LiveMembers'
  BY <1>4, InsertSubset DEF Reset, Found
<1>5. CASE GetNextTime
  BY <1>5 DEF GetNextTime
<1>6. CASE ListExpired
  BY <1>6 DEF ListExpired, Expired, Again, Kept, Reinserted, TypeOK
<1>7. CASE TakeExpired
  BY <1>7 DEF TakeExpired, objVars
<1>8. CASE TimerManagerStop
  BY <1>8 DEF TimerManagerStop, objVars
<1>9. CASE Tick
  BY <1>9 DEF Tick, objVars
<1>10. ASSUME NEW d \in SetBacks, SetBack(d) PROVE LiveMembers'
  BY <1>10 DEF SetBack, objVars
<1>11. CASE UNCHANGED vars
  BY <1>11 DEF vars
<1> QED
  BY <1>1, <1>2, <1>3, <1>4, <1>5, <1>6, <1>7, <1>8, <1>9, <1>10, <1>11 DEF Next

\* Every step gives a timer only delays some caller asked for.
LEMMA DelayStep == TypeOK /\ DelayAsked /\ [Next]_vars => DelayAsked'
<1> SUFFICES ASSUME TypeOK, DelayAsked, [Next]_vars PROVE DelayAsked'
  OBVIOUS
<1> USE DEF DelayAsked, TypeOK
<1>1. ASSUME NEW t \in Timer, NEW ms \in Durations, NEW rec \in BOOLEAN,
             AddTimer(t, ms, rec)
      PROVE  DelayAsked'
  BY <1>1 DEF AddTimer
<1>2. ASSUME NEW t \in Timer, Cancel(t) PROVE DelayAsked'
  BY <1>2 DEF Cancel, CancelFound, vars
<1>3. ASSUME NEW t \in Timer, Refresh(t) PROVE DelayAsked'
  BY <1>3 DEF Refresh
<1>4. ASSUME NEW t \in Timer, NEW ms \in Durations, NEW from_now \in BOOLEAN,
             Reset(t, ms, from_now)
      PROVE  DelayAsked'
  BY <1>4 DEF Reset
<1>5. CASE ListExpired
  BY <1>5 DEF ListExpired, Again
<1>6. ASSUME \/ GetNextTime \/ TakeExpired \/ TimerManagerStop \/ Tick
             \/ UNCHANGED vars \/ \E d \in SetBacks : SetBack(d)
      PROVE  DelayAsked'
  BY <1>6 DEF GetNextTime, TakeExpired, TimerManagerStop, Tick, SetBack, objVars, vars
<1> QED
  BY <1>1, <1>2, <1>3, <1>4, <1>5, <1>6 DEF Next

-----------------------------------------------------------------------------
\* A rollover moves deadlines later, never earlier.
LEMMA RolloverDelays ==
  ASSUME TypeOK, Rollover, Distance = NowInt - m_previous_time
  PROVE  Distance \in Int /\ Distance < 0
  BY WrapInt DEF TypeOK, Rollover, NowInt

\* Every step keeps the deadlines no earlier than asked for.
LEMMA DeadlineStep == TypeOK /\ DeadlineKept /\ [Next]_vars => DeadlineKept'
<1> SUFFICES ASSUME TypeOK, DeadlineKept, [Next]_vars, ~wrapped',
                    NEW t \in Timer, m_cb'[t]
             PROVE  due'[t] - uptime' <= m_next_time'[t] - now'
  BY DEF DeadlineKept
<1> DEFINE KeptBefore == m_cb[t] => due[t] - uptime <= m_next_time[t] - now
<1>0. ~wrapped => KeptBefore
  BY DEF DeadlineKept
<1> USE TimerAssumption DEF TypeOK
<1>1. ASSUME NEW u \in Timer, NEW ms \in Durations, NEW rec \in BOOLEAN,
             AddTimer(u, ms, rec)
      PROVE  due'[t] - uptime' <= m_next_time'[t] - now'
  <2>1. CASE t = u
    <3>0. ms \in Int
      OBVIOUS
    <3>1. Wrap(now + ms) = now + ms
      BY <1>1, Zenon DEF AddTimer
    <3>2. m_next_time'[t] = now + ms /\ due'[t] = uptime + ms
      BY <1>1, <2>1, <3>1 DEF AddTimer
    <3> QED BY <1>1, <3>0, <3>2 DEF AddTimer, timeVars
  <2>2. CASE t # u
    BY <1>0, <1>1, <2>2 DEF AddTimer, timeVars
  <2> QED BY <2>1, <2>2
<1>2. ASSUME NEW u \in Timer, Cancel(u)
      PROVE  due'[t] - uptime' <= m_next_time'[t] - now'
  BY <1>0, <1>2 DEF Cancel, CancelFound, timeVars, vars
<1>3. ASSUME NEW u \in Timer, Refresh(u)
      PROVE  due'[t] - uptime' <= m_next_time'[t] - now'
  <2>1. CASE t = u
    <3>1. m_next_time'[t] = now + m_ms[t] /\ due'[t] = uptime + m_ms[t]
      BY <1>3, <2>1 DEF Refresh
    <3> QED BY <1>3, <3>1 DEF Refresh, timeVars
  <2>2. CASE t # u
    BY <1>0, <1>3, <2>2 DEF Refresh, timeVars
  <2> QED BY <2>1, <2>2
<1>4. ASSUME NEW u \in Timer, NEW ms \in Durations, NEW from_now \in BOOLEAN,
             Reset(u, ms, from_now)
      PROVE  due'[t] - uptime' <= m_next_time'[t] - now'
  <2>1. CASE t = u /\ from_now
    <3>1. m_next_time'[t] = now + ms /\ due'[t] = uptime + ms /\ ms \in Int
      BY <1>4, <2>1 DEF Reset
    <3> QED BY <1>4, <3>1 DEF Reset, timeVars
  <2>2. CASE t = u /\ ~from_now
    <3>1. /\ m_next_time'[t] = m_next_time[t] - m_ms[t] + ms
          /\ due'[t] = due[t] - m_ms[t] + ms
          /\ ms \in Int /\ ~wrapped /\ m_cb[t]
      BY <1>4, <2>2 DEF Reset, Found
    <3> QED BY <1>0, <1>4, <3>1 DEF Reset, timeVars
  <2>3. CASE t # u
    BY <1>0, <1>4, <2>3 DEF Reset, timeVars
  <2> QED BY <2>1, <2>2, <2>3
<1>5. CASE GetNextTime
  <2>1. ~wrapped /\ m_cb[t] /\ due' = due /\ uptime' = uptime /\ now' = now
    BY <1>5 DEF GetNextTime, timeVars
  <2>2. CASE UNCHANGED m_next_time
    BY <1>0, <2>1, <2>2
  <2>3. CASE Rollover /\ ~UNCHANGED m_next_time
    <3>1. Distance = NowInt - m_previous_time
      BY <1>5, <2>3 DEF GetNextTime
    <3>2. Distance \in Int /\ Distance < 0
      BY <2>3, <3>1, RolloverDelays
    <3>3. m_next_time'[t] \in {m_next_time[t], m_next_time[t] - Distance}
      BY <1>5, <2>3 DEF GetNextTime
    <3> QED BY <1>0, <2>1, <3>2, <3>3
  <2> QED BY <1>5, <2>2, <2>3 DEF GetNextTime
<1>6. CASE ListExpired
  <2>1. CASE t \in Expired /\ m_recurring[t]
    <3>1. m_next_time'[t] = now + m_ms[t] /\ due'[t] = uptime + m_ms[t]
      BY <1>6, <2>1 DEF ListExpired, NextAgain, Again
    <3> QED BY <1>6, <3>1 DEF ListExpired, timeVars
  <2>2. CASE ~(t \in Expired /\ m_recurring[t])
    <3>1. m_next_time'[t] = m_next_time[t] /\ due'[t] = due[t] /\ m_cb[t] /\ ~wrapped
      BY <1>6, <2>2 DEF ListExpired, NextAgain, Again
    <3> QED BY <1>0, <1>6, <3>1 DEF ListExpired, timeVars
  <2> QED BY <2>1, <2>2
<1>7. ASSUME TakeExpired \/ TimerManagerStop \/ UNCHANGED vars
      PROVE  due'[t] - uptime' <= m_next_time'[t] - now'
  BY <1>0, <1>7 DEF TakeExpired, TimerManagerStop, objVars, timeVars, vars
<1>8. CASE Tick
  BY <1>0, <1>8 DEF Tick, objVars
<1>9. ASSUME NEW d \in SetBacks, SetBack(d)
      PROVE  due'[t] - uptime' <= m_next_time'[t] - now'
  BY <1>0, <1>9 DEF SetBack, objVars
<1> QED
  BY <1>1, <1>2, <1>3, <1>4, <1>5, <1>6, <1>7, <1>8, <1>9 DEF Next

-----------------------------------------------------------------------------
\* The strengthened invariant holds initially and is kept by every step.
LEMMA InitInv == Init => IInv
<1> SUFFICES ASSUME Init PROVE IInv
  OBVIOUS
<1>1. TypeOK
  <2>1. Wrap(Epoch) \in Int /\ Wrap(Epoch) \in -Half .. Half - 1
    BY TimerAssumption, WrapInt
  <2>2. m_recurring \in [Timer -> BOOLEAN] /\ m_cb \in [Timer -> BOOLEAN]
    BY Zenon DEF Init
  <2>3. /\ m_next_time \in [Timer -> -Half .. Half - 1] /\ m_ms \in [Timer -> Nat]
        /\ due \in [Timer -> Int]
    BY TimerAssumption DEF Init
  <2> QED BY <2>1, <2>2, <2>3 DEF Init, TypeOK
<1>2. KeysDistinct /\ LiveMembers /\ DelayAsked /\ DeadlineKept
  BY DEF Init, KeysDistinct, LiveMembers, DelayAsked, DeadlineKept
<1> QED BY <1>1, <1>2 DEF IInv

\* Every part of the invariant is kept by every operation.
LEMMA StepInv == IInv /\ [Next]_vars => IInv'
  BY TypeStep, DistinctStep, LiveStep, DelayStep, DeadlineStep DEF IInv

\* The invariant of the timer queue holds in every reachable state.
THEOREM Invariance == Spec => []IInv
<1>1. Init => IInv
  BY InitInv
<1>2. IInv /\ [Next]_vars => IInv'
  BY StepInv
<1> QED BY <1>1, <1>2, PTL DEF Spec

\* The variables of the timer queue always have their declared types.
THEOREM TypeCorrect == Spec => []TypeOK
  BY Invariance, PTL DEF IInv

\* std::set::find never has two candidates, and no queued timer has lost its
\* callback, whatever sequence of calls was made.
THEOREM QueueSound == Spec => [](KeysDistinct /\ LiveMembers)
  BY Invariance, PTL DEF IInv

\* No timer that may still fire has a deadline earlier than asked for, also
\* when the clock is set back, until an int has been truncated.
THEOREM NeverEarly == Spec => []DeadlineKept
  BY Invariance, PTL DEF IInv

\* Every timer in the queue still has its callback, so none that is due hands
\* the scheduler an empty function.
THEOREM MembersLive == Spec => []LiveMembers
<1>1. IInv => LiveMembers
  BY DEF IInv
<1> QED BY <1>1, Invariance, PTL

-----------------------------------------------------------------------------
\* Of the recurring timers that want one key, the one with the earliest old
\* deadline is looked at first.
LEMMA FirstAgain ==
  ASSUME TypeOK, NEW t \in Again
  PROVE  \E u \in Again :
           /\ NextAgain[u] = NextAgain[t]
           /\ \A v \in Again : m_next_time[v] < m_next_time[u] => NextAgain[v] # NextAgain[t]
<1> DEFINE Rivals == {u \in Again : NextAgain[u] = NextAgain[t]}
           Old == {m_next_time[u] + Half : u \in Rivals}
<1>1. Rivals \subseteq Timer /\ t \in Rivals
  BY DEF Again, Expired, TypeOK
<1>2. Half \in Nat /\ \A u \in Timer : m_next_time[u] \in Int /\ m_next_time[u] >= -Half
  BY TimerAssumption DEF TypeOK
<1>3. Old \subseteq Nat
  <2> SUFFICES ASSUME NEW u \in Rivals PROVE m_next_time[u] + Half \in Nat
    OBVIOUS
  <2>1. m_next_time[u] \in Int /\ m_next_time[u] >= -Half
    BY <1>1, <1>2
  <2> QED BY <2>1, <1>2
<1>4. Old # {}
  BY <1>1
<1>5. PICK least \in Old : \A y \in Old : ~(<<y, least>> \in OpToRel(<, Nat))
  BY <1>3, <1>4, WFMin, NatLessThanWellFounded
<1>6. PICK u \in Rivals : least = m_next_time[u] + Half
  OBVIOUS
<1>7. ASSUME NEW v \in Again, m_next_time[v] < m_next_time[u], NextAgain[v] = NextAgain[t]
      PROVE  FALSE
  <2>1. v \in Rivals /\ v \in Timer /\ u \in Timer
    BY <1>1, <1>7
  <2>2. m_next_time[v] + Half \in Old /\ m_next_time[v] + Half \in Nat /\ least \in Nat
    BY <2>1, <1>3
  <2>3. m_next_time[v] + Half < least
    BY <1>2, <1>6, <1>7, <2>1
  <2> HIDE DEF Old
  <2> QED BY <1>5, <2>2, <2>3 DEF OpToRel
<1> QED BY <1>6, <1>7

\* No step loses a timer silently.
LEMMA LossStep ==
  TypeOK /\ KeysDistinct /\ [Next]_vars =>
    [\A t \in Timer :
       m_cb'[t] /\ t \notin m_timers' /\ (t \in m_timers \/ due'[t] # due[t])
         => \/ m_recurring[t] /\ m_timers' = {u \in m_timers : ~m_recurring[u]}
            \/ \E u \in m_timers' : m_next_time'[u] = m_next_time'[t]
            \/ \E u \in Timer \ m_timers : m_cb[u] /\ m_next_time[u] = m_next_time[t]]_vars
<1> SUFFICES ASSUME TypeOK, KeysDistinct, Next, NEW t \in Timer, m_cb'[t], t \notin m_timers',
                    t \in m_timers \/ due'[t] # due[t]
             PROVE  \/ m_recurring[t] /\ m_timers' = {u \in m_timers : ~m_recurring[u]}
                    \/ \E u \in m_timers' : m_next_time'[u] = m_next_time'[t]
                    \/ \E u \in Timer \ m_timers : m_cb[u] /\ m_next_time[u] = m_next_time[t]
  OBVIOUS
<1> DEFINE Rival == \E u \in m_timers' : m_next_time'[u] = m_next_time'[t]
           Stranger == \E u \in Timer \ m_timers : m_cb[u] /\ m_next_time[u] = m_next_time[t]
<1>0. /\ m_timers \subseteq Timer
      /\ DOMAIN m_next_time = Timer /\ DOMAIN due = Timer /\ DOMAIN m_cb = Timer
  BY DEF TypeOK
\* What another timer's cancel, refresh or reset erases.
<1>a. ASSUME NEW s \in Timer, s # t, Found(s), t \in SameKey(s) PROVE Stranger
  <2>1. m_cb[s] /\ t \in m_timers /\ m_next_time[t] = m_next_time[s]
    BY <1>a DEF Found, SameKey
  <2>2. s \notin m_timers
    BY <1>a, <2>1 DEF KeysDistinct
  <2> QED BY <2>1, <2>2
<1>1. ASSUME NEW s \in Timer, NEW ms \in Durations, NEW rec \in BOOLEAN, AddTimer(s, ms, rec)
      PROVE  Rival
  <2>1. t = s \/ due'[t] = due[t]
    BY <1>0, <1>1 DEF AddTimer
  <2>2. m_timers \subseteq m_timers'
    BY <1>1 DEF AddTimer, Insert
  <2>3. t = s
    BY <2>1, <2>2
  <2> QED BY <1>1, <2>2, <2>3 DEF AddTimer, Insert
<1>2. ASSUME NEW s \in Timer, Cancel(s) PROVE Stranger
  <2>1. CASE ~Found(s)
    BY <1>2, <2>1 DEF Cancel, CancelFound, vars
  <2>2. CASE CancelFound(s)
    <3>1. t \in SameKey(s) /\ t # s
      BY <1>0, <2>2 DEF CancelFound
    <3> QED BY <1>a, <2>2, <3>1 DEF CancelFound
  <2> QED BY <1>2, <2>1, <2>2 DEF Cancel
<1>3. ASSUME NEW s \in Timer, Refresh(s) PROVE Rival \/ Stranger
  <2>1. CASE t = s
    BY <1>3, <2>1 DEF Refresh, Insert
  <2>2. CASE t # s
    <3>1. due'[t] = due[t]
      BY <1>0, <1>3, <2>2 DEF Refresh
    <3>2. t \in SameKey(s)
      BY <1>3, <3>1 DEF Refresh, Insert
    <3> QED BY <1>a, <1>3, <2>2, <3>2 DEF Refresh
  <2> QED BY <2>1, <2>2
<1>4. ASSUME NEW s \in Timer, NEW ms \in Durations, NEW from_now \in BOOLEAN,
             Reset(s, ms, from_now)
      PROVE  Rival \/ Stranger
  <2>1. CASE t = s
    BY <1>4, <2>1 DEF Reset, Insert
  <2>2. CASE t # s
    <3>1. due'[t] = due[t]
      BY <1>0, <1>4, <2>2 DEF Reset
    <3>2. t \in SameKey(s)
      BY <1>4, <3>1 DEF Reset, Insert
    <3> QED BY <1>a, <1>4, <2>2, <3>2 DEF Reset
  <2> QED BY <2>1, <2>2
<1>5. ASSUME ListExpired PROVE Rival
  <2>1. m_timers' = Kept \cup Reinserted(NextAgain) /\ m_next_time' = NextAgain
    BY <1>5 DEF ListExpired
  <2>2. t \in m_timers
    BY <1>0, <1>5 DEF ListExpired, Again, Expired
  <2>3. t \in Again
    BY <1>5, <2>1, <2>2 DEF ListExpired, Kept
  <2>4. CASE \E u \in Kept : NextAgain[u] = NextAgain[t]
    BY <2>1, <2>4
  <2>5. CASE \A u \in Kept : NextAgain[u] # NextAgain[t]
    <3>1. PICK u \in Again :
            /\ NextAgain[u] = NextAgain[t]
            /\ \A v \in Again : m_next_time[v] < m_next_time[u] => NextAgain[v] # NextAgain[t]
      BY <2>3, FirstAgain
    <3>2. u \in Reinserted(NextAgain)
      BY <2>5, <3>1 DEF Reinserted
    <3> QED BY <2>1, <3>1, <3>2
  <2> QED BY <2>4, <2>5
<1>6. CASE TimerManagerStop
  BY <1>6 DEF TimerManagerStop, objVars
<1>7. CASE GetNextTime \/ TakeExpired \/ Tick \/ \E d \in SetBacks : SetBack(d)
  BY <1>7 DEF GetNextTime, TakeExpired, Tick, SetBack, objVars
<1> QED BY <1>1, <1>2, <1>3, <1>4, <1>5, <1>6, <1>7 DEF Next

\* A timer with a callback leaves the queue or fails to enter it only for one
\* of the three reasons NoSilentLoss lists.
THEOREM NothingSilentlyLost == Spec => NoSilentLoss
<1>1. IInv /\ [Next]_vars => TypeOK /\ KeysDistinct
  BY DEF IInv
<1> QED BY <1>1, LossStep, Invariance, PTL DEF Spec, NoSilentLoss


-----------------------------------------------------------------------------
\* The initial queue is an initial state of the timer service.
LEMMA ServiceInit == Init => Service!Init
  BY DEF Init, Service!Init

\* Each step is a step of the timer service or leaves it unchanged: adding,
\* refreshing and resetting from now arm a timer, a found cancel disarms it,
\* expiry fires due timers, the clock elapses.
LEMMA ServiceStep ==
  IInv /\ [Next]_vars /\ ~wrapped' => [Service!Next]_(Service!vars)
<1> SUFFICES ASSUME IInv, [Next]_vars, ~wrapped'
             PROVE  [Service!Next]_(Service!vars)
  OBVIOUS
<1> USE TimerAssumption DEF IInv, TypeOK
<1>1. ASSUME NEW t \in Timer, NEW ms \in Durations, NEW rec \in BOOLEAN,
             AddTimer(t, ms, rec)
      PROVE  Service!Next
  <2>1. Service!Arm(t, ms, rec)
    BY <1>1 DEF AddTimer, Service!Arm, timeVars
  <2> QED BY <2>1 DEF Service!Next
<1>2. ASSUME NEW t \in Timer, Cancel(t)
      PROVE  Service!Next \/ UNCHANGED Service!vars
  <2>1. CASE CancelFound(t)
    <3>1. Service!Disarm(t)
      BY <2>1 DEF CancelFound, Service!Disarm, timeVars
    <3> QED BY <3>1 DEF Service!Next
  <2>2. CASE UNCHANGED vars
    BY <2>2 DEF vars, Service!vars
  <2> QED BY <1>2, <2>1, <2>2 DEF Cancel
<1>3. ASSUME NEW t \in Timer, Refresh(t) PROVE Service!Next
  <2>1. m_ms[t] \in Durations /\ m_recurring[t] \in BOOLEAN
    BY <1>3 DEF Refresh, Found, DelayAsked
  <2>2. PICK ms \in Durations, rec \in BOOLEAN : ms = m_ms[t] /\ rec = m_recurring[t]
    BY <2>1
  <2>3. {u \in Timer : m_cb'[u]} = {u \in Timer : m_cb[u]} \cup {t}
    BY <1>3 DEF Refresh, Found
  <2>4. {u \in Timer : m_recurring'[u]}
          = IF rec THEN {u \in Timer : m_recurring[u]} \cup {t}
            ELSE {u \in Timer : m_recurring[u]} \ {t}
    BY <1>3, <2>2 DEF Refresh
  <2>5. m_ms' = [m_ms EXCEPT ![t] = ms]
    BY <1>3, <2>2 DEF Refresh
  <2>6. Service!Arm(t, ms, rec)
    BY <1>3, <2>2, <2>3, <2>4, <2>5 DEF Refresh, Service!Arm, timeVars
  <2> QED BY <2>6 DEF Service!Next
<1>4. ASSUME NEW t \in Timer, NEW ms \in Durations, NEW from_now \in BOOLEAN,
             Reset(t, ms, from_now)
      PROVE  Service!Next
  <2>1. CASE from_now
    <3>1. PICK rec \in BOOLEAN : rec = m_recurring[t]
      OBVIOUS
    <3>2. {u \in Timer : m_cb'[u]} = {u \in Timer : m_cb[u]} \cup {t}
      BY <1>4 DEF Reset, Found
    <3>3. {u \in Timer : m_recurring'[u]}
            = IF rec THEN {u \in Timer : m_recurring[u]} \cup {t}
              ELSE {u \in Timer : m_recurring[u]} \ {t}
      BY <1>4, <3>1 DEF Reset
    <3>4. Service!Arm(t, ms, rec)
      BY <1>4, <2>1, <3>2, <3>3 DEF Reset, Service!Arm, timeVars
    <3> QED BY <3>4 DEF Service!Next
  <2>2. CASE ~from_now
    <3>1. Service!Shift(t, ms)
      BY <1>4, <2>2 DEF Reset, Found, Service!Shift, timeVars
    <3> QED BY <3>1 DEF Service!Next
  <2> QED BY <2>1, <2>2
<1>5. CASE GetNextTime
  BY <1>5 DEF GetNextTime, timeVars, Service!vars
<1>6. ASSUME ListExpired PROVE Service!Next
  <2>1. NowInt = now /\ ~wrapped
    BY <1>6 DEF ListExpired
  <2>2. Expired \subseteq {t \in Timer : m_cb[t] /\ due[t] <= uptime}
    BY <2>1 DEF Expired, LiveMembers, DeadlineKept
  <2>3. PICK S \in SUBSET Timer : S = Expired
    BY <2>2
  <2>4. Service!Fire(S)
    BY <1>6, <2>2, <2>3 DEF ListExpired, Again, Service!Fire, timeVars
  <2> QED BY <2>4 DEF Service!Next
<1>7. ASSUME TakeExpired PROVE Service!Next
  <2>1. Service!Take
    BY <1>7 DEF TakeExpired, Service!Take, timeVars, objVars
  <2> QED BY <2>1 DEF Service!Next
<1>8. CASE TimerManagerStop
  BY <1>8 DEF TimerManagerStop, timeVars, objVars, Service!vars
<1>9. ASSUME Tick \/ \E d \in SetBacks : SetBack(d) PROVE Service!Next
  <2>1. Service!Elapse
    BY <1>9 DEF Tick, SetBack, Service!Elapse, objVars
  <2> QED BY <2>1 DEF Service!Next
<1>10. CASE UNCHANGED vars
  BY <1>10 DEF vars, Service!vars
<1> QED
  BY <1>1, <1>2, <1>3, <1>4, <1>5, <1>6, <1>7, <1>8, <1>9, <1>10 DEF Next

\* As long as nothing is truncated, the queue implements the timer service:
\* only armed timers fire, only when their time has passed, one-shots once.
THEOREM Refinement == Spec /\ []~wrapped => ImplementsTimerService
<1>1. IInv /\ [Next]_vars /\ ~wrapped' => [Service!Next]_(Service!vars)
  BY ServiceStep
<1>2. Init => Service!Init
  BY ServiceInit
<1> QED
  BY <1>1, <1>2, Invariance, PTL DEF Spec, Service!Spec, ImplementsTimerService
=============================================================================
