--------------------------- MODULE EventLoopProofs ---------------------------
(***************************************************************************)
(* Proofs about one IOManager with one worker, for any finite sets of      *)
(* fibers and descriptors, any delays, any int width and any bounds.  The  *)
(* proofs about the timer queue and the event table are used through their *)
(* instances: an entry of m_fiber_list is what the table calls a waiter.   *)
(***************************************************************************)
EXTENDS EventLoop, FiniteSetTheorems, SequenceTheorems, WellFoundedInduction, TLAPS

Queue == INSTANCE TimerManagerProofs
           WITH Timer <- Fiber, Durations <- Delays \cup (IoTimeouts \ {None}), SetBacks <- {}
Table == INSTANCE IoEventsProofs WITH Waiter <- Entry

-----------------------------------------------------------------------------
\* The assumptions of the two components hold.
LEMMA QueueAssumption == Queue!TimerAssumption
  BY LoopAssumption DEF Queue!TimerAssumption

\* The same of the event table.
LEMMA TableAssumption == Table!IoAssumption
  BY LoopAssumption DEF Table!IoAssumption, Entry, Table!IsFiniteSet, IsFiniteSet

-----------------------------------------------------------------------------
\* What a step does to the timer queue is a step of the timer queue.
LEMMA QueueSteps ==
  /\ TM!Init => Queue!Init
  /\ \A f \in Fiber, ms \in (Delays \cup (IoTimeouts \ {None})) :
       TM!AddTimer(f, ms, FALSE) => Queue!AddTimer(f, ms, FALSE)
  /\ \A f \in Fiber : TM!Cancel(f) => Queue!Cancel(f)
  /\ TM!GetNextTime => Queue!GetNextTime
  /\ TM!ListExpired => Queue!ListExpired
  /\ TM!TakeExpired => Queue!TakeExpired
  /\ TM!TimerManagerStop => Queue!TimerManagerStop
  /\ TM!Tick => Queue!Tick
<1> USE DEF TM!Wrap, Queue!Wrap, TM!timeVars, Queue!timeVars, TM!objVars, Queue!objVars,
            TM!NowInt, Queue!NowInt
<1>1. TM!Init => Queue!Init
  BY DEF TM!Init, Queue!Init
<1>2. ASSUME NEW f \in Fiber, NEW ms \in Delays \cup (IoTimeouts \ {None}),
             TM!AddTimer(f, ms, FALSE)
      PROVE  Queue!AddTimer(f, ms, FALSE)
  BY <1>2 DEF TM!AddTimer, Queue!AddTimer, TM!Insert, Queue!Insert, TM!AtFront, Queue!AtFront
<1>3. ASSUME NEW f \in Fiber, TM!Cancel(f) PROVE Queue!Cancel(f)
  BY <1>3 DEF TM!Cancel, Queue!Cancel, TM!CancelFound, Queue!CancelFound, TM!Found,
              Queue!Found, TM!SameKey, Queue!SameKey, TM!vars, Queue!vars
<1>4. TM!GetNextTime => Queue!GetNextTime
  BY DEF TM!GetNextTime, Queue!GetNextTime, TM!Rollover, Queue!Rollover, TM!Distance,
         Queue!Distance, TM!ShiftFits, Queue!ShiftFits
<1>5. TM!ListExpired => Queue!ListExpired
  BY DEF TM!ListExpired, Queue!ListExpired, TM!Expired, Queue!Expired, TM!Again, Queue!Again,
         TM!Kept, Queue!Kept, TM!NextAgain, Queue!NextAgain, TM!Reinserted, Queue!Reinserted,
         TM!AtFront, Queue!AtFront
<1>6. (TM!TakeExpired => Queue!TakeExpired) /\ (TM!TimerManagerStop => Queue!TimerManagerStop)
      /\ (TM!Tick => Queue!Tick)
  BY DEF TM!TakeExpired, Queue!TakeExpired, TM!TimerManagerStop, Queue!TimerManagerStop,
         TM!Tick, Queue!Tick
<1> QED BY <1>1, <1>2, <1>3, <1>4, <1>5, <1>6

\* What a call or a dispatch does to the table is a step of the table.
LEMMA TableSteps ==
  /\ IO!InitContexts => Table!InitContexts
  /\ \A fd \in FD :
       /\ IO!Close(fd) => Table!Close(fd)
       /\ IO!Open(fd) => Table!Open(fd)
       /\ IO!Dispatch(fd) => Table!Dispatch(fd)
       /\ \A ev \in IO!EventType :
            /\ ev \in Table!EventType
            /\ IO!CancelEvent(fd, ev) => Table!CancelEvent(fd, ev)
            /\ IO!Exhaust(fd, ev) => Table!Exhaust(fd, ev)
            /\ \A f : IO!AddEventOk(fd, ev, f) => Table!AddEventOk(fd, ev, f)
       /\ \A c : IO!Edge(fd, c) => Table!Edge(fd, c)
<1> USE DEF IO!EventType, Table!EventType, IO!ctxVars, Table!ctxVars, IO!kernelVars,
            Table!kernelVars, IO!vars, Table!vars
<1>1. IO!InitContexts => Table!InitContexts
  BY DEF IO!InitContexts, Table!InitContexts
<1>2. ASSUME NEW fd \in FD, NEW S, IO!Trigger(fd, S) PROVE Table!Trigger(fd, S)
  BY <1>2 DEF IO!Trigger, Table!Trigger, IO!Forget, Table!Forget, IO!Woken, Table!Woken,
              IO!Cardinality, Table!Cardinality
<1>3. ASSUME NEW fd \in FD, NEW S, IO!Modify(fd, S) PROVE Table!Modify(fd, S)
  BY <1>3 DEF IO!Modify, Table!Modify, IO!Register, Table!Register, IO!Deregister,
              Table!Deregister
<1>4. ASSUME NEW fd \in FD, IO!Close(fd) PROVE Table!Close(fd)
  BY <1>2, <1>4 DEF IO!Close, Table!Close
<1>5. ASSUME NEW fd \in FD, IO!Dispatch(fd) PROVE Table!Dispatch(fd)
  BY <1>2, <1>3, <1>5 DEF IO!Dispatch, Table!Dispatch, IO!Served, Table!Served,
     IO!RealEvents, Table!RealEvents
<1>6. ASSUME NEW fd \in FD, NEW ev \in IO!EventType, IO!CancelEvent(fd, ev)
      PROVE  Table!CancelEvent(fd, ev)
  BY <1>2, <1>3, <1>6 DEF IO!CancelEvent, Table!CancelEvent, IO!CancelEventOk, Table!CancelEventOk
<1>7. ASSUME NEW fd \in FD, NEW ev \in IO!EventType, NEW f, IO!AddEventOk(fd, ev, f)
      PROVE  Table!AddEventOk(fd, ev, f)
  BY <1>7 DEF IO!AddEventOk, Table!AddEventOk, IO!CanAdd, Table!CanAdd, IO!Register,
              Table!Register, IO!Oust, Table!Oust
<1>8. ASSUME NEW fd \in FD
      PROVE  /\ IO!Open(fd) => Table!Open(fd)
             /\ \A ev \in IO!EventType : IO!Exhaust(fd, ev) => Table!Exhaust(fd, ev)
             /\ \A c : IO!Edge(fd, c) => Table!Edge(fd, c)
  BY DEF IO!Open, Table!Open, IO!Exhaust, Table!Exhaust, IO!Edge, Table!Edge
<1> QED BY <1>1, <1>4, <1>5, <1>6, <1>7, <1>8

-----------------------------------------------------------------------------
(***************************************************************************)
(* The invariant.                                                          *)
(***************************************************************************)

\* The event table and the list, as far as proved of IoEvents.
TableInv ==
  /\ Table!TypeOK /\ Table!ContextMatch /\ Table!Counted
  /\ Table!ArmedOnce /\ Table!Apart /\ Table!ListOnce /\ Table!OustedOut

\* The timer queue; the hooks use one-shot timers only.
QueueInv == Queue!IInv /\ \A f \in Fiber : ~m_recurring[f]

\* Where the loop is, and what it then holds.
LoopInv ==
  /\ TypeOK
  /\ cur # None <=> pc = "exec"
  /\ pc \in {"idle", "timeout", "wait", "expire", "schedule", "exited"} => m_fiber_list = <<>>
  /\ expired_cbs # {} => pc = "schedule"
  /\ cur \notin Listed

\* A waiter in the table is a fiber that waits for that very event; one that
\* was overwritten waits for good.
OwnerInv ==
  /\ \A p \in Table!Armed :
       /\ Table!WaiterOf(p) \in Fiber
       /\ op[Table!WaiterOf(p)] = p /\ at[Table!WaiterOf(p)] = "wait"
  /\ \A w \in ousted : w \in Fiber /\ at[w] = "wait"

\* The fibers that wait: armed, or overwritten.
Held == Table!Waiting \cup ousted

\* Where a fiber is, and who has it.
Place(f) ==
  /\ at[f] \in {"try", "arm", "wait"} <=> op[f] # NoOp
  /\ at[f] \in {"try", "arm"} => cur = f
  /\ at[f] = "run" => f \in Handed
  /\ at[f] = "wait" => f \in Held \cup Handed
  /\ f \in Handed => at[f] # "done" /\ f \notin Held

PlaceInv == \A f \in Fiber : Place(f)

\* What the timer of a fiber is for, and which callback may be under way.
Alarm(f) ==
  /\ timed[f] => at[f] \in {"arm", "wait"}
  /\ cancelled[f] => at[f] = "wait" /\ timed[f] /\ f \notin m_timers
  /\ f \in m_timers \cup expired_cbs => at[f] = "sleep" \/ timed[f]
  /\ f \in expired_cbs => f \notin m_timers
  /\ <<"timeout", f>> \in Handed => at[f] = "wait" /\ timed[f] /\ f \notin m_timers /\ cur # f
  /\ <<"wake", f>> \in Handed => at[f] = "sleep" /\ f \notin Handed /\ f \notin m_timers
  /\ at[f] = "sleep" =>
       /\ f \in Handed => f \notin m_timers
       /\ \/ f \in m_timers \cup expired_cbs \/ {f, <<"wake", f>>} \cap Handed # {}
          \/ Displaced(f)

AlarmInv == \A f \in Fiber : Alarm(f)

\* A timer that has gone off, and whatever it set going, was due.
Due(f) ==
  \/ f \in expired_cbs \/ {<<"timeout", f>>, <<"wake", f>>} \cap Handed # {} \/ cancelled[f]
  \/ at[f] = "sleep" /\ f \in Handed
  => due[f] <= uptime

DueInv == ~wrapped => \A f \in Fiber : Due(f)

\* The callback of a timeout comes before the fiber it is about.
OrderInv ==
  \A f \in Fiber : \A i, j \in DOMAIN m_fiber_list :
    m_fiber_list[i] = <<"timeout", f>> /\ m_fiber_list[j] = f => i < j

IInv == /\ TableInv /\ QueueInv /\ LoopInv /\ OwnerInv
        /\ PlaceInv /\ AlarmInv /\ DueInv /\ OrderInv

-----------------------------------------------------------------------------
\* Fibers, callbacks and None are different things.
LEMMA Entries ==
  /\ None \notin Entry
  /\ \A f \in Fiber : f \in Entry /\ f # None
  /\ \A f, g \in Fiber, k \in CallbackKind : <<k, f>> \in Entry /\ <<k, f>> # g /\ <<k, f>> # None
  /\ "timeout" \in CallbackKind /\ "wake" \in CallbackKind
  /\ \A fd \in FD : \A ev : <<fd, ev>> # NoOp
<1>1. \A f, g \in Fiber, k \in CallbackKind : <<k, f>> \in CallbackKind \X Fiber
  OBVIOUS
<1>2. \A fd \in FD : \A ev : <<fd, ev>> # NoOp
  BY LoopAssumption DEF NoOp
<1>3. "timeout" \in CallbackKind /\ "wake" \in CallbackKind
  BY DEF CallbackKind
<1> QED BY <1>1, <1>2, <1>3, LoopAssumption DEF Entry

\* A fiber is armed for its own operation exactly when the table holds it.
LEMMA ArmedWaiting ==
  ASSUME OwnerInv, NEW f \in Fiber
  PROVE  ArmedFor(f) <=> f \in Table!Waiting
<1>1. ASSUME f \in Table!Waiting PROVE ArmedFor(f)
  <2>1. PICK p \in Table!Armed : f = Table!WaiterOf(p)
    BY <1>1 DEF Table!Waiting, Table!WaiterOf
  <2>2. op[f] = p
    BY <2>1 DEF OwnerInv
  <2>3. p[1] \in FD /\ p[2] \in IO!EventType /\ p = <<p[1], p[2]>> /\ p[2] \in events[p[1]]
    BY DEF Table!Armed, Table!EventType, IO!EventType
  <2> QED BY <2>1, <2>2, <2>3 DEF ArmedFor, Table!WaiterOf
<1>2. ASSUME ArmedFor(f) PROVE f \in Table!Waiting
  <2>1. PICK fd \in FD, ev \in IO!EventType : waiter[fd][ev] = f /\ ev \in events[fd]
    BY <1>2 DEF ArmedFor
  <2>2. <<fd, ev>> \in Table!Armed
    BY <2>1 DEF Table!Armed, Table!EventType, IO!EventType
  <2> QED BY <2>1, <2>2 DEF Table!Waiting
<1> QED BY <1>1, <1>2

\* The list as the table names it.
LEMMA ListedScheduled == Listed = Table!Scheduled
  BY DEF Listed, Table!Scheduled

\* The invariant says what the runs check.
LEMMA Consequences ==
  ASSUME IInv
  PROVE  TypeOK /\ WakerExists /\ EntryOnce /\ TimeoutMeetsItsWait /\ NoEarlyWake
<1> USE DEF IInv
<1>1. WakerExists
  BY ArmedWaiting DEF WakerExists, PlaceInv, Place, Held, AlarmInv, Alarm
<1>2. EntryOnce
  BY ArmedWaiting DEF EntryOnce, TableInv, Table!ListOnce, LoopInv, PlaceInv, Place, Held
<1>3. TimeoutMeetsItsWait
  BY DEF TimeoutMeetsItsWait, AlarmInv, Alarm, OrderInv
<1>4. NoEarlyWake
  BY DEF NoEarlyWake, DueInv, Due
<1> QED BY <1>1, <1>2, <1>3, <1>4 DEF LoopInv

-----------------------------------------------------------------------------
(***************************************************************************)
(* The table and the list.                                                 *)
(***************************************************************************)

\* The types of the table, as the steps of the loop use them.
LEMMA EntryTypes ==
  /\ Table!EventType = IO!EventType /\ Table!EventType = {"READ", "WRITE"}
  /\ TableInv => /\ m_fiber_list \in Seq(Entry)
                 /\ events \in [FD -> SUBSET Table!EventType]
                 /\ waiter \in [FD -> [Table!EventType -> Entry \cup {None}]]
  BY DEF TableInv, Table!TypeOK, Table!EventType, IO!EventType

\* A step of the event table keeps its invariants.
LEMMA TableNext ==
  ASSUME TableInv, ~aborted, Table!Step
  PROVE  TableInv'
<1>1. [Table!Next]_(Table!vars)
  BY DEF Table!Next
<1> QED BY <1>1, TableAssumption, Table!TypeStep, Table!ContextStep, Table!PendingStep,
           Table!OnceStep DEF TableInv

\* So does a step that touches neither contexts nor list.
LEMMA TableKept ==
  ASSUME TableInv, UNCHANGED <<events, waiter, m_pending_event_count, ousted, m_fiber_list>>,
         Table!TypeOK'
  PROVE  TableInv'
<1>1. Table!Armed' = Table!Armed
  BY DEF Table!Armed
<1>2. Table!Counted'
  BY <1>1 DEF TableInv, Table!Counted, Table!PendingExact
<1>3. \A p : Table!WaiterOf(p)' = Table!WaiterOf(p)
  BY DEF Table!WaiterOf
<1>4. Table!ContextMatch' /\ Table!ArmedOnce' /\ Table!Apart' /\ Table!ListOnce' /\ Table!OustedOut'
  BY <1>1, <1>3 DEF TableInv, Table!ContextMatch, Table!ArmedOnce, Table!Apart, Table!ListOnce,
     Table!OustedOut
<1> QED BY <1>2, <1>4 DEF TableInv

\* So does putting new entries behind the list that the table does not hold.
LEMMA TableGrows ==
  ASSUME TableInv, UNCHANGED tableVars, NEW s \in Seq(Entry), m_fiber_list' = m_fiber_list \o s,
         \A i \in DOMAIN s : s[i] \notin Listed \cup Held,
         \A i, j \in DOMAIN s : s[i] = s[j] => i = j
  PROVE  TableInv'
<1>1. Table!Armed' = Table!Armed /\ \A p : Table!WaiterOf(p)' = Table!WaiterOf(p)
  BY DEF tableVars, Table!Armed, Table!WaiterOf
<1>2. Table!Counted' /\ Table!ContextMatch' /\ Table!ArmedOnce'
  BY <1>1 DEF tableVars, TableInv, Table!Counted, Table!PendingExact, Table!ContextMatch,
     Table!ArmedOnce
<1>3. m_fiber_list \in Seq(Entry)
  BY EntryTypes
<1>4. Table!TypeOK'
  BY <1>3 DEF tableVars, TableInv, Table!TypeOK
<1>5. \A i \in DOMAIN m_fiber_list' :
        \/ i \in DOMAIN m_fiber_list /\ m_fiber_list'[i] = m_fiber_list[i]
        \/ \E j \in DOMAIN s : i = Len(m_fiber_list) + j /\ m_fiber_list'[i] = s[j]
  BY <1>3, Table!Behind
<1>6. Table!Apart'
  <2> SUFFICES ASSUME NEW p \in Table!Armed, NEW i \in DOMAIN m_fiber_list'
               PROVE  Table!WaiterOf(p) # m_fiber_list'[i]
    BY <1>1 DEF Table!Apart
  <2>1. Table!WaiterOf(p) \in Held
    BY DEF Table!WaiterOf, Table!Waiting, Held
  <2> QED BY <1>5, <2>1 DEF TableInv, Table!Apart
<1>7. Table!ListOnce'
  <2> SUFFICES ASSUME NEW i \in DOMAIN m_fiber_list', NEW j \in DOMAIN m_fiber_list',
                      m_fiber_list'[i] = m_fiber_list'[j]
               PROVE  i = j
    BY DEF Table!ListOnce
  <2>0. \A k \in DOMAIN m_fiber_list : \A l \in DOMAIN s : m_fiber_list[k] # s[l]
    BY DEF Listed
  <2>1. CASE i \in DOMAIN m_fiber_list /\ m_fiber_list'[i] = m_fiber_list[i]
    <3>1. CASE j \in DOMAIN m_fiber_list /\ m_fiber_list'[j] = m_fiber_list[j]
      BY <2>1, <3>1 DEF TableInv, Table!ListOnce
    <3>2. ASSUME NEW l \in DOMAIN s, m_fiber_list'[j] = s[l]
          PROVE  FALSE
      BY <2>0, <2>1, <3>2
    <3> QED BY <1>5, <3>1, <3>2
  <2>2. CASE j \in DOMAIN m_fiber_list /\ m_fiber_list'[j] = m_fiber_list[j]
    <3>1. CASE i \in DOMAIN m_fiber_list /\ m_fiber_list'[i] = m_fiber_list[i]
      BY <2>2, <3>1 DEF TableInv, Table!ListOnce
    <3>2. ASSUME NEW l \in DOMAIN s, m_fiber_list'[i] = s[l]
          PROVE  FALSE
      BY <2>0, <2>2, <3>2
    <3> QED BY <1>5, <3>1, <3>2
  <2>3. ASSUME NEW k \in DOMAIN s, NEW l \in DOMAIN s, i = Len(m_fiber_list) + k,
               j = Len(m_fiber_list) + l, m_fiber_list'[i] = s[k], m_fiber_list'[j] = s[l]
        PROVE  i = j
    BY <2>3
  <2> QED BY <1>5, <2>1, <2>2, <2>3
<1>8. Table!OustedOut'
  <2>1. \A i \in DOMAIN m_fiber_list' : m_fiber_list'[i] \notin ousted
    BY <1>5 DEF TableInv, Table!OustedOut, Held
  <2> QED BY <1>1, <2>1 DEF tableVars, TableInv, Table!OustedOut
<1> QED BY <1>2, <1>4, <1>6, <1>7, <1>8 DEF TableInv

\* What a list holds after something was put behind it.
LEMMA Joined ==
  ASSUME NEW A, NEW x \in Seq(A), NEW y \in Seq(A), NEW z, z = x \o y
  PROVE  /\ {z[i] : i \in DOMAIN z} = {x[i] : i \in DOMAIN x} \cup {y[i] : i \in DOMAIN y}
         /\ \A i \in DOMAIN x : i \in DOMAIN z /\ z[i] = x[i]
         /\ \A i \in DOMAIN z \ DOMAIN x :
              z[i] \in {y[j] : j \in DOMAIN y} /\ \A j \in DOMAIN x : j < i
<1>1. /\ \A i \in DOMAIN (x \o y) :
           \/ i \in DOMAIN x /\ (x \o y)[i] = x[i]
           \/ \E j \in DOMAIN y : i = Len(x) + j /\ (x \o y)[i] = y[j]
      /\ \A i \in DOMAIN x : i \in DOMAIN (x \o y) /\ (x \o y)[i] = x[i]
      /\ \A j \in DOMAIN y :
           Len(x) + j \in DOMAIN (x \o y) /\ (x \o y)[Len(x) + j] = y[j]
  BY TableAssumption, Table!Behind, SMTT(30)
<1>2. /\ \A i \in DOMAIN z :
           \/ i \in DOMAIN x /\ z[i] = x[i]
           \/ \E j \in DOMAIN y : i = Len(x) + j /\ z[i] = y[j]
      /\ \A i \in DOMAIN x : i \in DOMAIN z /\ z[i] = x[i]
      /\ \A j \in DOMAIN y : Len(x) + j \in DOMAIN z /\ z[Len(x) + j] = y[j]
  BY <1>1, Zenon
<1>3. {z[i] : i \in DOMAIN z} = {x[i] : i \in DOMAIN x} \cup {y[i] : i \in DOMAIN y}
  <2>1. \A i \in DOMAIN z : (\E j \in DOMAIN x : z[i] = x[j]) \/ (\E j \in DOMAIN y : z[i] = y[j])
    BY <1>2
  <2>2. {x[i] : i \in DOMAIN x} \subseteq {z[i] : i \in DOMAIN z}
    <3>1. \A j \in DOMAIN x : \E i \in DOMAIN z : z[i] = x[j]
      BY <1>2
    <3> QED BY <3>1, Zenon
  <2>3. \A j \in DOMAIN y : \E i \in DOMAIN z : z[i] = y[j]
    BY <1>2
  <2>4. {y[i] : i \in DOMAIN y} \subseteq {z[i] : i \in DOMAIN z}
    BY <2>3, Zenon
  <2>5. {z[i] : i \in DOMAIN z} \subseteq {x[i] : i \in DOMAIN x} \cup {y[i] : i \in DOMAIN y}
    BY <2>1, Zenon
  <2> QED BY <2>2, <2>4, <2>5, Zenon
<1>4. \A j \in DOMAIN y : j \in Nat /\ j > 0
  OBVIOUS
<1>5. Len(x) \in Nat /\ DOMAIN x = 1 .. Len(x)
  OBVIOUS
<1>6. ASSUME NEW i \in DOMAIN z \ DOMAIN x
      PROVE  z[i] \in {y[j] : j \in DOMAIN y} /\ \A j \in DOMAIN x : j < i
  <2>1. PICK j \in DOMAIN y : i = Len(x) + j /\ z[i] = y[j]
    BY <1>2
  <2>2. \A k \in DOMAIN x : k < i
    BY <1>4, <1>5, <2>1
  <2> QED BY <2>1, <2>2
<1> QED BY <1>2, <1>3, <1>6

\* The same of m_fiber_list.
LEMMA GrownList ==
  ASSUME NEW s \in Seq(Entry), m_fiber_list \in Seq(Entry), m_fiber_list' = m_fiber_list \o s
  PROVE  /\ Listed' = Listed \cup {s[i] : i \in DOMAIN s}
         /\ \A i \in DOMAIN m_fiber_list :
              i \in DOMAIN m_fiber_list' /\ m_fiber_list'[i] = m_fiber_list[i]
         /\ \A i \in DOMAIN m_fiber_list' \ DOMAIN m_fiber_list :
              /\ m_fiber_list'[i] \in {s[j] : j \in DOMAIN s}
              /\ \A j \in DOMAIN m_fiber_list : j < i
<1> DEFINE z == m_fiber_list \o s
<1>1. m_fiber_list' = z
  OBVIOUS
<1>2. /\ {z[i] : i \in DOMAIN z} = Listed \cup {s[i] : i \in DOMAIN s}
      /\ \A i \in DOMAIN m_fiber_list : i \in DOMAIN z /\ z[i] = m_fiber_list[i]
      /\ \A i \in DOMAIN z \ DOMAIN m_fiber_list :
           z[i] \in {s[j] : j \in DOMAIN s} /\ \A j \in DOMAIN m_fiber_list : j < i
  BY Joined DEF Listed
<1> QED BY <1>1, <1>2 DEF Listed

\* Taking the first entry.
LEMMA PickedList ==
  ASSUME TableInv, Pick
  PROVE  /\ cur' \in Entry /\ cur' \notin Listed' /\ Listed = Listed' \cup {cur'}
         /\ cur' = m_fiber_list[1] /\ 1 \in DOMAIN m_fiber_list
         /\ \A i \in DOMAIN m_fiber_list' :
              /\ i \in Nat \ {0} /\ i + 1 \in DOMAIN m_fiber_list
              /\ m_fiber_list'[i] = m_fiber_list[i + 1]
<1>1. /\ m_fiber_list \in Seq(Entry) /\ m_fiber_list # <<>>
      /\ cur' = Head(m_fiber_list) /\ m_fiber_list' = Tail(m_fiber_list)
  BY EntryTypes DEF Pick
<1>2. cur' = m_fiber_list[1] /\ 1 \in DOMAIN m_fiber_list /\ cur' \in Entry
  BY <1>1
<1>3. \A i \in DOMAIN m_fiber_list' :
        /\ i \in Nat \ {0} /\ i + 1 \in DOMAIN m_fiber_list
        /\ m_fiber_list'[i] = m_fiber_list[i + 1]
  BY <1>1
<1>4. \A k \in DOMAIN m_fiber_list :
        k = 1 \/ (k - 1 \in DOMAIN m_fiber_list' /\ (k - 1) + 1 = k)
  BY <1>1
<1>5. Listed = Listed' \cup {cur'}
  <2>1. ASSUME NEW k \in DOMAIN m_fiber_list PROVE m_fiber_list[k] \in Listed' \cup {cur'}
    <3>1. CASE k = 1
      BY <1>2, <3>1, Zenon
    <3>2. CASE k - 1 \in DOMAIN m_fiber_list' /\ (k - 1) + 1 = k
      <4>1. m_fiber_list'[k - 1] = m_fiber_list[k]
        BY <1>3, <3>2
      <4> QED BY <3>2, <4>1 DEF Listed
    <3> QED BY <1>4, <3>1, <3>2
  <2> QED BY <1>2, <1>3, <2>1 DEF Listed
<1>6. cur' \notin Listed'
  <2> SUFFICES ASSUME NEW i \in DOMAIN m_fiber_list', cur' = m_fiber_list'[i] PROVE FALSE
    BY DEF Listed
  <2>1. i + 1 = 1
    BY <1>2, <1>3 DEF TableInv, Table!ListOnce
  <2> QED BY <1>3, <2>1
<1> QED BY <1>2, <1>3, <1>5, <1>6

\* Every step keeps the invariants of the table and the list.
LEMMA TableStep ==
  ASSUME IInv, Next
  PROVE  TableInv'
<1> USE DEF IInv
<1>1. ~aborted /\ TableInv /\ TypeOK
  BY DEF Next, Program, Alive, LoopInv
<1>2. ASSUME UNCHANGED ioVars PROVE TableInv'
  <2>1. Table!TypeOK'
    BY <1>1, <1>2 DEF ioVars, tableVars, TableInv, Table!TypeOK
  <2> QED BY <1>1, <1>2, <2>1, TableKept DEF ioVars, tableVars
<1>3. CASE Pick
  BY <1>1, <1>3, TableNext DEF Pick, Table!Step, Table!Resume, tableVars, Table!ctxVars,
     Table!kernelVars
<1>4. CASE AskToStop \/ ReadNextTime \/ ComputeTimeout \/ Expire
  BY <1>2, <1>4 DEF AskToStop, ReadNextTime, ComputeTimeout, Expire
<1>5. CASE ReturnFromWait
  <2>1. PICK max : IO!EpollWait(max)
    BY <1>5 DEF ReturnFromWait
  <2>2. /\ UNCHANGED <<events, waiter, m_pending_event_count, ousted, m_fiber_list, aborted, open,
                       level, registered, interest>>
        /\ queued' \subseteq IO!Pollable
        /\ \E S : batch' = [fd \in FD |-> IF fd \in S THEN IO!Reported(fd) ELSE {}]
    BY <2>1 DEF IO!EpollWait, IO!ctxVars
  <2>3. queued' \subseteq FD
    BY <1>1, <2>2 DEF IO!Pollable, TableInv, Table!TypeOK
  <2>4. batch' \in [FD -> SUBSET Table!Condition]
    BY <1>1, <2>2 DEF IO!Reported, TableInv, Table!TypeOK
  <2>5. Table!TypeOK'
    BY <1>1, <2>2, <2>3, <2>4 DEF TableInv, Table!TypeOK
  <2> QED BY <1>1, <2>2, <2>5, TableKept
<1>6. CASE ScheduleExpired
  <2>1. PICK fired \in Bijection(1 .. Cardinality(expired_cbs), expired_cbs) :
          m_fiber_list' = m_fiber_list \o [i \in DOMAIN fired |-> Callback(fired[i])]
    BY <1>6 DEF ScheduleExpired
  <2> DEFINE s == [i \in DOMAIN fired |-> Callback(fired[i])]
  <2>2. expired_cbs \subseteq Fiber
    BY DEF QueueInv, Queue!IInv, Queue!TypeOK
  <2>3. Cardinality(expired_cbs) \in Nat
    BY <2>2, LoopAssumption, FS_Subset, FS_CardinalityType
  <2>4. /\ DOMAIN fired = 1 .. Cardinality(expired_cbs)
        /\ \A i \in DOMAIN fired : fired[i] \in expired_cbs
        /\ \A i, j \in DOMAIN fired : fired[i] = fired[j] => i = j
    BY DEF Bijection, Injection, IsInjective
  <2>5. \A i \in DOMAIN fired : s[i] \in CallbackKind \X Fiber
    BY <2>2, <2>4 DEF Callback, CallbackKind
  <2>6. s \in Seq(Entry)
    BY <2>3, <2>4, <2>5 DEF Entry
  <2>7. \A i, j \in DOMAIN s : s[i] = s[j] => i = j
    BY <2>4 DEF Callback
  <2>8. Listed = {}
    BY <1>6 DEF ScheduleExpired, LoopInv, Listed
  <2>9. \A i \in DOMAIN s : s[i] \notin Held
    <3> SUFFICES ASSUME NEW i \in DOMAIN s, s[i] \in Held PROVE FALSE
      OBVIOUS
    <3>1. s[i] \in Fiber
      BY DEF Held, Table!Waiting, Table!WaiterOf, OwnerInv
    <3> QED BY <2>5, <3>1, LoopAssumption
  <2>10. UNCHANGED tableVars
    BY <1>6 DEF ScheduleExpired
  <2> HIDE DEF s
  <2> QED BY <1>1, <2>1, <2>6, <2>7, <2>8, <2>9, <2>10, TableGrows DEF s
<1>7. CASE DispatchBatch
  <2>1. CASE UNCHANGED ioVars
    BY <1>2, <2>1
  <2>2. ASSUME NEW fd \in FD, IO!Dispatch(fd) PROVE TableInv'
    BY <1>1, <2>2, TableSteps, TableNext DEF Table!Step
  <2> QED BY <1>7, <2>1, <2>2 DEF DispatchBatch
<1>8. ASSUME NEW f \in Fiber, NEW fd \in FD, NEW ev \in IO!EventType, BeginIo(f, fd, ev)
      PROVE  TableInv'
  BY <1>2, <1>8 DEF BeginIo
<1>9. ASSUME NEW f \in Fiber, TryIo(f) PROVE TableInv'
  <2>1. CASE UNCHANGED ioVars
    BY <1>2, <2>1
  <2>2. CASE IO!Exhaust(op[f][1], op[f][2])
    <3>1. op[f] # NoOp
      BY <1>9 DEF TryIo, PlaceInv, Place
    <3>2. op[f][1] \in FD /\ op[f][2] \in IO!EventType
      BY <1>1, <3>1 DEF TypeOK
    <3>3. Table!Exhaust(op[f][1], op[f][2])
      BY <2>2, <3>2, TableSteps
    <3> QED BY <1>1, <3>2, <3>3, EntryTypes, TableNext DEF Table!Step
  <2> QED BY <1>9, <2>1, <2>2 DEF TryIo
<1>10. ASSUME NEW f \in Fiber, StartTimer(f) \/ WakeIo(f) \/ WakeSleeper(f) \/ Finish(f)
       PROVE  TableInv'
  BY <1>2, <1>10 DEF StartTimer, WakeIo, WakeSleeper, Finish
<1>11. ASSUME NEW f \in Fiber, ArmIo(f) PROVE TableInv'
  <2>1. op[f] # NoOp /\ f \in Handed
    BY <1>11 DEF ArmIo, Running, PlaceInv, Place, Handed
  <2>2. op[f][1] \in FD /\ op[f][2] \in Table!EventType /\ op[f] = <<op[f][1], op[f][2]>>
    BY <1>1, <2>1, EntryTypes DEF TypeOK
  <2>3. Table!AddEventOk(op[f][1], op[f][2], f)
    BY <1>11, <2>2, EntryTypes, TableSteps DEF ArmIo
  <2>4. f \notin Held /\ f \notin Table!Scheduled
    BY <1>11, <2>1, ListedScheduled DEF ArmIo, Running, PlaceInv, Place, LoopInv
  <2>6. Table!MayWait(f) /\ Table!AddEvent(op[f][1], op[f][2], f)
    BY <2>3, <2>4 DEF Table!MayWait, Table!AddEvent, Held
  <2>7. Table!Step
    BY <2>2, <2>6, Entries DEF Table!Step
  <2> QED BY <1>1, <2>7, TableNext
<1>12. ASSUME NEW f \in Fiber, ArmIoFails(f) PROVE TableInv'
  <2>1. /\ UNCHANGED <<events, waiter, m_pending_event_count, ousted, m_fiber_list, batch, open,
                       level, registered, interest, queued>>
        /\ aborted' \in BOOLEAN
    BY <1>1, <1>12 DEF ArmIoFails, ctxVars, kernelVars, TableInv, Table!TypeOK
  <2>2. Table!TypeOK'
    BY <1>1, <2>1 DEF TableInv, Table!TypeOK
  <2> QED BY <1>1, <2>1, <2>2, TableKept
<1>13. ASSUME NEW f \in Fiber, NEW ms \in Delays, Sleep(f, ms) PROVE TableInv'
  BY <1>2, <1>13 DEF Sleep
<1>14. ASSUME NEW f \in Fiber, NEW fd \in FD, CloseFd(f, fd) \/ OpenFd(f, fd) PROVE TableInv'
  BY <1>1, <1>14, TableSteps, TableNext DEF CloseFd, OpenFd, Table!Step
<1>15. ASSUME NEW f \in Fiber, YieldToReady(f) \/ RunWake(f) PROVE TableInv'
  <2>1. m_fiber_list' = Append(m_fiber_list, f) /\ UNCHANGED tableVars
    BY <1>15 DEF YieldToReady, RunWake
  <2>2. f \notin Listed \cup Held
    <3>1. CASE YieldToReady(f)
      BY <3>1 DEF YieldToReady, Begin, Running, PlaceInv, Place, Handed, LoopInv
    <3>2. CASE RunWake(f)
      <4>1. at[f] = "sleep" /\ f \notin Handed
        BY <3>2 DEF RunWake, AlarmInv, Alarm, Handed
      <4>2. f \notin Held
        BY <4>1 DEF Held, OwnerInv, Table!Waiting, Table!WaiterOf
      <4> QED BY <4>1, <4>2 DEF Handed
    <3> QED BY <1>15, <3>1, <3>2
  <2>3. <<f>> \in Seq(Entry) /\ DOMAIN <<f>> = {1} /\ <<f>>[1] = f
    BY Entries
  <2>4. m_fiber_list' = m_fiber_list \o <<f>>
    BY <1>1, <2>1, <2>3, EntryTypes, Entries
  <2> QED BY <1>1, <2>1, <2>2, <2>3, <2>4, TableGrows
<1>16. ASSUME NEW f \in Fiber, RunTimeout(f) PROVE TableInv'
  <2>1. CASE UNCHANGED ioVars
    BY <1>2, <2>1
  <2>2. CASE op[f] # NoOp /\ IO!CancelEvent(op[f][1], op[f][2])
    <3>1. op[f][1] \in FD /\ op[f][2] \in Table!EventType
      BY <1>1, <2>2, EntryTypes DEF TypeOK
    <3> QED BY <1>1, <2>2, <3>1, EntryTypes, TableSteps, TableNext DEF Table!Step
  <2> QED BY <1>16, <2>1, <2>2 DEF RunTimeout
<1>17. CASE KernelEdge
  <2>1. PICK fd \in FD, c \in Conditions : IO!Edge(fd, c)
    BY <1>17 DEF KernelEdge
  <2>2. c \in Table!Condition
    BY LoopAssumption DEF Table!Condition, Table!EventType
  <2> QED BY <1>1, <2>1, <2>2, TableSteps, TableNext DEF Table!Step
<1>18. CASE Clock
  BY <1>2, <1>18 DEF Clock
<1> QED BY <1>3, <1>4, <1>5, <1>6, <1>7, <1>8, <1>9, <1>10, <1>11, <1>12, <1>13, <1>14, <1>15,
           <1>16, <1>17, <1>18 DEF Next, Program, Loop, Execute
-----------------------------------------------------------------------------
(***************************************************************************)
(* The timers.                                                             *)
(***************************************************************************)
TimerDurations == Delays \cup (IoTimeouts \ {None})

QueueMove ==
  \/ UNCHANGED timerVars
  \/ \E f \in Fiber, ms \in TimerDurations : TM!AddTimer(f, ms, FALSE)
  \/ \E f \in Fiber : TM!Cancel(f)
  \/ TM!GetNextTime \/ TM!ListExpired \/ TM!TakeExpired \/ TM!TimerManagerStop \/ TM!Tick

\* What a step does with the timers keeps the queue's invariant, and all
\* timers stay one-shot.
LEMMA QueueKept ==
  ASSUME QueueInv, QueueMove
  PROVE  QueueInv'
<1>1. [Queue!Next]_(Queue!vars)
  <2>1. CASE UNCHANGED timerVars
    BY <2>1 DEF timerVars, Queue!vars, Queue!timeVars, Queue!objVars
  <2>2. ASSUME NEW f \in Fiber, NEW ms \in TimerDurations, TM!AddTimer(f, ms, FALSE)
        PROVE  Queue!Next
    <3>1. Queue!AddTimer(f, ms, FALSE)
      BY <2>2, QueueSteps DEF TimerDurations
    <3> QED BY <3>1 DEF Queue!Next, TimerDurations
  <2>3. CASE \E f \in Fiber : TM!Cancel(f)
    BY <2>3, QueueSteps DEF Queue!Next
  <2>4. CASE TM!GetNextTime \/ TM!ListExpired \/ TM!TakeExpired \/ TM!TimerManagerStop \/ TM!Tick
    BY <2>4, QueueSteps DEF Queue!Next
  <2> QED BY <2>1, <2>2, <2>3, <2>4 DEF QueueMove
<1>2. Queue!IInv'
  BY <1>1, QueueAssumption, Queue!StepInv DEF QueueInv
<1>3. \A f \in Fiber : ~m_recurring'[f]
  <2>1. m_recurring \in [Fiber -> BOOLEAN] /\ \A f \in Fiber : ~m_recurring[f]
    BY DEF QueueInv, Queue!IInv, Queue!TypeOK
  <2>2. m_recurring' = m_recurring
        \/ \E f \in Fiber : m_recurring' = [m_recurring EXCEPT ![f] = FALSE]
    BY DEF QueueMove, timerVars, TM!AddTimer, TM!Cancel, TM!CancelFound, TM!vars, TM!objVars,
           TM!GetNextTime, TM!ListExpired, TM!TakeExpired, TM!TimerManagerStop, TM!Tick
  <2> QED BY <2>1, <2>2
<1> QED BY <1>2, <1>3 DEF QueueInv

\* Types of the queue's variables.
LEMMA QueueTypes ==
  ASSUME QueueInv
  PROVE  /\ m_timers \subseteq Fiber /\ expired_cbs \subseteq Fiber
         /\ m_next_time \in [Fiber -> -Half .. Half - 1] /\ m_cb \in [Fiber -> BOOLEAN]
         /\ due \in [Fiber -> Int] /\ now \in Int /\ uptime \in Nat /\ wrapped \in BOOLEAN
         /\ \A f \in m_timers : m_cb[f]
         /\ ~wrapped => \A f \in Fiber : m_cb[f] => due[f] - uptime <= m_next_time[f] - now
  BY DEF QueueInv, Queue!IInv, Queue!TypeOK, Queue!LiveMembers, Queue!DeadlineKept

\* Starting a timer touches no other timer.
LEMMA AddEffect ==
  ASSUME QueueInv, NEW f \in Fiber, NEW ms \in TimerDurations, TM!AddTimer(f, ms, FALSE)
  PROVE  /\ f \notin m_timers /\ m_cb'[f]
         /\ \A g \in Fiber \ {f} :
              (g \in m_timers' <=> g \in m_timers) /\ m_cb'[g] = m_cb[g] /\ due'[g] = due[g]
         /\ UNCHANGED <<expired_cbs, uptime>> /\ (wrapped => wrapped')
  BY QueueTypes DEF TM!AddTimer, TM!Insert, TM!timeVars

\* Cancelling removes the timer, and others only by way of displacing them.
LEMMA CancelEffect ==
  ASSUME QueueInv, NEW f \in Fiber, TM!Cancel(f)
  PROVE  /\ f \notin m_timers' /\ m_timers' \subseteq m_timers
         /\ \A g \in Fiber \ {f} : m_cb'[g] = m_cb[g]
         /\ UNCHANGED <<expired_cbs, uptime, due, wrapped>>
<1>1. CASE TM!CancelFound(f)
  <2>1. f \in m_timers => f \in TM!SameKey(f)
    BY DEF TM!SameKey
  <2> QED BY <1>1, <2>1, QueueTypes DEF TM!CancelFound, TM!timeVars
<1>2. CASE ~TM!Found(f) /\ UNCHANGED TM!vars
  <2>1. f \notin m_timers
    BY <1>2, QueueTypes DEF TM!Found, TM!SameKey
  <2> QED BY <1>2, <2>1 DEF TM!vars, TM!timeVars, TM!objVars
<1> QED BY <1>1, <1>2 DEF TM!Cancel

\* list_expired_cb takes timers out that are due.
LEMMA ExpireEffect ==
  ASSUME QueueInv, TM!ListExpired
  PROVE  /\ expired_cbs' \subseteq m_timers /\ m_timers' = m_timers \ expired_cbs'
         /\ \A g \in Fiber \ expired_cbs' : m_cb'[g] = m_cb[g]
         /\ UNCHANGED <<due, uptime>> /\ (wrapped => wrapped')
         /\ ~wrapped' => \A g \in expired_cbs' : due[g] <= uptime
<1>1. TM!Again = {} /\ TM!Expired \subseteq m_timers /\ m_timers \subseteq Fiber
  BY QueueTypes DEF TM!Again, TM!Expired, QueueInv
<1>2. /\ expired_cbs' = TM!Expired
      /\ m_timers' = m_timers \ TM!Expired
      /\ m_cb' = [g \in Fiber |-> m_cb[g] /\ g \notin TM!Expired]
      /\ due' = [g \in Fiber |-> due[g]]
      /\ uptime' = uptime /\ (wrapped => wrapped')
      /\ ~wrapped' => ~wrapped /\ TM!NowInt = now
  BY <1>1 DEF TM!ListExpired, TM!Kept, TM!Reinserted, TM!timeVars
<1>3. due' = due /\ \A g \in Fiber \ TM!Expired : m_cb'[g] = m_cb[g]
  BY <1>2, QueueTypes
<1>4. ASSUME ~wrapped', NEW g \in TM!Expired PROVE due[g] <= uptime
  <2>1. g \in Fiber /\ m_cb[g] /\ m_next_time[g] <= now
    BY <1>1, <1>2, <1>4, QueueTypes DEF TM!Expired
  <2>2. due[g] - uptime <= m_next_time[g] - now
    BY <1>2, <1>4, <2>1, QueueTypes
  <2>3. due[g] \in Int /\ uptime \in Int /\ m_next_time[g] \in Int /\ now \in Int
    BY <2>1, QueueTypes, LoopAssumption
  <2> QED BY <2>1, <2>2, <2>3
<1> QED BY <1>1, <1>2, <1>3, <1>4

\* Looking at the queue, and time passing.
LEMMA LookEffect ==
  ASSUME QueueInv, TM!GetNextTime \/ TM!TimerManagerStop \/ TM!Tick \/ UNCHANGED timerVars
  PROVE  UNCHANGED <<m_timers, m_cb, due, expired_cbs>> /\ uptime <= uptime' /\ (wrapped => wrapped')
<1>1. uptime \in Nat /\ m_timers \subseteq Fiber /\ \A f \in Fiber : ~m_recurring[f]
  BY QueueTypes DEF QueueInv
<1>2. CASE TM!TimerManagerStop
  <2>1. m_timers' = m_timers
    BY <1>1, <1>2 DEF TM!TimerManagerStop
  <2> QED BY <1>1, <1>2, <2>1 DEF TM!TimerManagerStop, TM!timeVars, TM!objVars
<1>3. CASE TM!Tick
  BY <1>1, <1>3 DEF TM!Tick, TM!objVars
<1>4. CASE TM!GetNextTime
  <2>1. UNCHANGED <<m_timers, m_cb, due, expired_cbs, uptime>>
    BY <1>4 DEF TM!GetNextTime, TM!timeVars
  <2>2. wrapped => wrapped'
    BY <1>4 DEF TM!GetNextTime
  <2> QED BY <1>1, <2>1, <2>2
<1>5. CASE UNCHANGED timerVars
  BY <1>1, <1>5 DEF timerVars
<1> QED BY <1>2, <1>3, <1>4, <1>5

\* The first deadline exists, so get_next_time returns a number.
LEMMA NextTimeType ==
  ASSUME NEW S \in SUBSET Fiber, NEW nx \in [Fiber -> -Half .. Half - 1], NEW clock, NEW last \in Int
  PROVE  TM!NextTime(S, nx, clock, last) \in Int
<1>1. CASE S = {}
  BY <1>1 DEF TM!NextTime
<1>2. CASE S # {}
  <2> DEFINE Old == {nx[t] + Half : t \in S}
  <2>1. Half \in Nat /\ \A t \in S : nx[t] \in Int /\ nx[t] + Half \in Nat
    BY LoopAssumption
  <2>a. Old \subseteq Nat /\ Old # {}
    BY <1>2, <2>1
  <2>2. PICK least \in Old : \A y \in Old : ~(<<y, least>> \in OpToRel(<, Nat))
    BY <2>a, WFMin, NatLessThanWellFounded
  <2>3. PICK t \in S : least = nx[t] + Half
    OBVIOUS
  <2>4. \A u \in S : nx[t] <= nx[u]
    <3> SUFFICES ASSUME NEW u \in S, nx[u] < nx[t] PROVE FALSE
      BY <2>1
    <3>1. nx[u] + Half \in Old /\ nx[u] + Half \in Nat /\ nx[u] + Half < least /\ least \in Nat
      BY <2>1, <2>3
    <3> HIDE DEF Old
    <3> QED BY <2>2, <3>1 DEF OpToRel
  <2> DEFINE first == CHOOSE t1 \in S : \A u \in S : nx[t1] <= nx[u]
  <2>5. first \in S
    BY <2>4
  <2>6. nx[first] \in Int
    BY <2>1, <2>5
  <2> HIDE DEF first
  <2>7. TM!NextTime(S, nx, clock, last) = IF clock >= nx[first] THEN 0 ELSE nx[first]
    BY <1>2 DEF TM!NextTime, first
  <2> QED BY <2>6, <2>7
<1> QED BY <1>1, <1>2

\* Every step does one thing with the timers, or nothing.
LEMMA QueueStep ==
  ASSUME IInv, Next
  PROVE  QueueInv'
<1>1. CASE Loop
  <2>1. AskToStop => UNCHANGED timerVars \/ TM!TimerManagerStop
    BY DEF AskToStop
  <2>2. (ReadNextTime => TM!GetNextTime) /\ (Expire => TM!ListExpired)
        /\ (ScheduleExpired => TM!TakeExpired \/ UNCHANGED timerVars)
    BY DEF ReadNextTime, Expire, ScheduleExpired
  <2>a. Pick \/ ComputeTimeout \/ ReturnFromWait \/ DispatchBatch => UNCHANGED timerVars
    BY DEF Pick, ComputeTimeout, ReturnFromWait, DispatchBatch
  <2>3. QueueMove
    BY <1>1, <2>1, <2>2, <2>a, Zenon DEF Loop, QueueMove
  <2> QED BY <2>3, QueueKept DEF IInv
<1>2. ASSUME NEW f \in Fiber, StartTimer(f) \/ ArmIoFails(f) \/ WakeIo(f) PROVE QueueMove
  BY <1>2 DEF StartTimer, ArmIoFails, WakeIo, QueueMove, TimerDurations
<1>3. ASSUME NEW f \in Fiber, NEW ms \in Delays, Sleep(f, ms) PROVE QueueMove
  BY <1>3 DEF Sleep, QueueMove, TimerDurations
<1>4. ASSUME NEW f \in Fiber,
             \/ \E fd \in FD, ev \in IO!EventType : BeginIo(f, fd, ev)
             \/ TryIo(f) \/ ArmIo(f) \/ WakeSleeper(f)
             \/ \E fd \in FD : CloseFd(f, fd) \/ OpenFd(f, fd)
             \/ YieldToReady(f) \/ Finish(f) \/ RunTimeout(f) \/ RunWake(f)
      PROVE  QueueMove
  BY <1>4 DEF BeginIo, TryIo, ArmIo, WakeSleeper, CloseFd, OpenFd, YieldToReady, Finish,
              RunTimeout, RunWake, QueueMove
<1>5. CASE Execute
  <2>1. QueueMove
    BY <1>2, <1>3, <1>4, <1>5 DEF Execute
  <2> QED BY <2>1, QueueKept DEF IInv
<1>6. CASE KernelEdge \/ Clock
  <2>1. QueueMove
    BY <1>6 DEF KernelEdge, Clock, QueueMove
  <2> QED BY <2>1, QueueKept DEF IInv
<1> QED BY <1>1, <1>5, <1>6 DEF Next, Program

-----------------------------------------------------------------------------
(***************************************************************************)
(* The loop.                                                               *)
(***************************************************************************)

\* The loop's and the fibers' variables keep their types.
LEMMA TypeStep ==
  ASSUME IInv, Next
  PROVE  TypeOK'
<1> USE DEF IInv, Yield
<1>1. TypeOK /\ m_fiber_list' \in Seq(Entry)
  BY TableStep, EntryTypes DEF TableInv, LoopInv, Table!TypeOK
<1>2. MaxOps \in Nat /\ uptime \in Nat /\ Half \in Nat \ {0} /\ now \in Int /\ MaxTimeout \in Nat
  BY LoopAssumption, QueueTypes
<1>3. CASE Pick
  BY <1>1, <1>3, PickedList DEF Pick, TypeOK, pipeVars, fiberVars
<1>4. CASE AskToStop \/ Expire
  BY <1>1, <1>4 DEF AskToStop, Expire, TypeOK, pipeVars, fiberVars
<1>5. CASE ReadNextTime
  <2>1. m_next_time' \in [Fiber -> -Half .. Half - 1] /\ m_timers \in SUBSET Fiber
    BY QueueStep, QueueTypes DEF QueueInv, Queue!IInv, Queue!TypeOK
  <2>2. limit' \in Int
    BY <1>2, <1>5, <2>1, NextTimeType DEF ReadNextTime
  <2> QED BY <1>1, <1>5, <2>2 DEF ReadNextTime, TypeOK, pipeVars, fiberVars
<1>6. CASE ComputeTimeout
  <2>1. NextTimeout \in Int
    BY <1>1, <1>2 DEF NextTimeout, TM!Wrap, TypeOK
  <2>2. limit' \in Int
    BY <1>2, <1>6, <2>1 DEF ComputeTimeout, Forever
  <2> QED BY <1>1, <1>6, <2>2 DEF ComputeTimeout, TypeOK, pipeVars, fiberVars
<1>7. CASE ReturnFromWait
  <2>1. /\ limit' = 0 /\ pc' = "expire" /\ UNCHANGED <<cur, pipe, m_sleep_sign, fiberVars>>
        /\ drain' \in BOOLEAN
    BY <1>7 DEF ReturnFromWait
  <2> QED BY <1>1, <2>1 DEF TypeOK, fiberVars
<1>8. CASE ScheduleExpired
  BY <1>1, <1>8 DEF ScheduleExpired, Tickle, TypeOK, fiberVars
<1>9. CASE DispatchBatch
  BY <1>1, <1>9 DEF DispatchBatch, Tickle, TypeOK, fiberVars, pipeVars
<1>10. ASSUME NEW f \in Fiber, NEW fd \in FD, NEW ev \in IO!EventType, BeginIo(f, fd, ev)
       PROVE  TypeOK'
  BY <1>1, <1>2, <1>10 DEF BeginIo, Begin, TypeOK, loopVars, pipeVars
<1>11. ASSUME NEW f \in Fiber, TryIo(f) PROVE TypeOK'
  BY <1>1, <1>11 DEF TryIo, Return, TypeOK, loopVars, pipeVars
<1>12. ASSUME NEW f \in Fiber, StartTimer(f) PROVE TypeOK'
  <2>1. timed' \in [Fiber -> BOOLEAN]
    BY <1>1, <1>12 DEF StartTimer, TypeOK
  <2> QED BY <1>1, <1>12, <2>1 DEF StartTimer, TypeOK, loopVars, pipeVars
<1>13. ASSUME NEW f \in Fiber, ArmIo(f) PROVE TypeOK'
  BY <1>1, <1>13 DEF ArmIo, TypeOK, pipeVars
<1>14. ASSUME NEW f \in Fiber, ArmIoFails(f) PROVE TypeOK'
  BY <1>1, <1>14 DEF ArmIoFails, Return, TypeOK, loopVars, pipeVars, fiberVars
<1>15. ASSUME NEW f \in Fiber, WakeIo(f) PROVE TypeOK'
  BY <1>1, <1>15 DEF WakeIo, Return, TypeOK, loopVars, pipeVars
<1>16. ASSUME NEW f \in Fiber, NEW ms \in Delays, Sleep(f, ms) PROVE TypeOK'
  BY <1>1, <1>2, <1>16 DEF Sleep, Begin, TypeOK, pipeVars
<1>17. ASSUME NEW f \in Fiber, WakeSleeper(f) PROVE TypeOK'
  BY <1>1, <1>17 DEF WakeSleeper, TypeOK, loopVars, pipeVars
<1>18. ASSUME NEW f \in Fiber, NEW fd \in FD, CloseFd(f, fd) \/ OpenFd(f, fd) PROVE TypeOK'
  <2>1. /\ Begin(f)
        /\ UNCHANGED <<loopVars, m_sleep_sign, at, op, timed, cancelled>>
    BY <1>18 DEF CloseFd, OpenFd
  <2> QED BY <1>1, <1>2, <2>1 DEF Begin, TypeOK, loopVars, pipeVars
<1>19. ASSUME NEW f \in Fiber, YieldToReady(f) PROVE TypeOK'
  BY <1>1, <1>2, <1>19 DEF YieldToReady, Begin, TypeOK, pipeVars
<1>20. ASSUME NEW f \in Fiber, Finish(f) PROVE TypeOK'
  BY <1>1, <1>20 DEF Finish, TypeOK, pipeVars
<1>21. ASSUME NEW f \in Fiber, RunTimeout(f) PROVE TypeOK'
  BY <1>1, <1>21 DEF RunTimeout, TypeOK, pipeVars
<1>22. ASSUME NEW f \in Fiber, RunWake(f) PROVE TypeOK'
  BY <1>1, <1>22 DEF RunWake, TypeOK, pipeVars, fiberVars
<1>23. CASE KernelEdge \/ Clock
  BY <1>1, <1>23 DEF KernelEdge, Clock, TypeOK, loopVars, pipeVars, fiberVars
<1> QED BY <1>3, <1>4, <1>5, <1>6, <1>7, <1>8, <1>9, <1>10, <1>11, <1>12, <1>13, <1>14, <1>15,
           <1>16, <1>17, <1>18, <1>19, <1>20, <1>21, <1>22, <1>23
        DEF Next, Program, Loop, Execute

\* What is on the list, when it stays and when one entry is put behind it.
LEMMA ListSame ==
  ASSUME m_fiber_list' = m_fiber_list
  PROVE  Listed' = Listed
  BY DEF Listed

\* An entry put behind the list is the only new one, and comes last.
LEMMA Appended ==
  ASSUME m_fiber_list \in Seq(Entry), NEW e \in Entry, m_fiber_list' = Append(m_fiber_list, e)
  PROVE  /\ Listed' = Listed \cup {e}
         /\ \A i \in DOMAIN m_fiber_list :
              i \in DOMAIN m_fiber_list' /\ m_fiber_list'[i] = m_fiber_list[i]
         /\ \A i \in DOMAIN m_fiber_list' \ DOMAIN m_fiber_list :
              m_fiber_list'[i] = e /\ \A j \in DOMAIN m_fiber_list : j < i
<1>1. <<e>> \in Seq(Entry) /\ DOMAIN <<e>> = {1} /\ <<e>>[1] = e
  OBVIOUS
<1>2. m_fiber_list' = m_fiber_list \o <<e>>
  BY <1>1
<1>3. {<<e>>[i] : i \in DOMAIN <<e>>} = {e}
  BY <1>1
<1> QED BY <1>1, <1>2, <1>3, GrownList

\* No entry is None.
LEMMA NoneUnlisted == \A q \in Seq(Entry) : None \notin {q[i] : i \in DOMAIN q}
  BY Entries

\* A call or a dispatch that moves waiters puts only waiters on the list.
LEMMA MovedList ==
  ASSUME Table!Moved
  PROVE  /\ Listed \subseteq Listed' /\ Listed' \subseteq Listed \cup Table!Waiting
         /\ Table!Waiting' \subseteq Table!Waiting
         /\ Table!Waiting \subseteq Table!Waiting' \cup Listed'
<1>1. Listed \subseteq Listed' /\ Listed' \subseteq Listed \cup Table!Waiting
  BY DEF Table!Moved, Listed
<1>2. Table!Waiting' \subseteq Table!Waiting
  <2>1. \A p \in Table!Armed' : Table!WaiterOf(p)' = Table!WaiterOf(p) /\ p \in Table!Armed
    BY DEF Table!Moved
  <2> QED BY <2>1 DEF Table!Waiting, Table!WaiterOf
<1>3. Table!Waiting \subseteq Table!Waiting' \cup Listed'
  BY ListedScheduled DEF Table!Moved, Table!Scheduled, Listed
<1> QED BY <1>1, <1>2, <1>3

\* Which steps move waiters, and where.
LEMMA Moves ==
  ASSUME IInv, NEW fd \in FD,
         IO!Close(fd) \/ IO!Dispatch(fd) \/ \E ev \in IO!EventType : IO!CancelEvent(fd, ev)
  PROVE  Table!Moved
<1>1. Table!Close(fd) \/ Table!Dispatch(fd) \/ \E ev \in Table!EventType : Table!CancelEvent(fd, ev)
  BY TableSteps, EntryTypes
<1> QED BY <1>1, TableAssumption, Table!CallMoves DEF IInv, TableInv

\* The steps of the fibers hand out no expired timers, and there are none.
LEMMA NoneExpired ==
  ASSUME IInv, NEW f \in Fiber, pc = "exec",
         \/ UNCHANGED timerVars
         \/ TM!Cancel(f)
         \/ \E ms \in TimerDurations : TM!AddTimer(f, ms, FALSE)
  PROVE  expired_cbs = {} /\ expired_cbs' = {}
<1>1. expired_cbs = {}
  BY DEF IInv, LoopInv
<1>2. expired_cbs' = expired_cbs
  BY AddEffect, CancelEffect DEF timerVars, IInv
<1> QED BY <1>1, <1>2

\* A step of a fiber that runs on, and one that ends its turn.
LEMMA StaysRunning ==
  ASSUME IInv, TypeOK', pc = "exec", UNCHANGED loopVars, m_fiber_list' = m_fiber_list,
         expired_cbs' = {}
  PROVE  LoopInv'
<1>1. cur' = cur /\ pc' = pc /\ Listed' = Listed
  BY ListSame DEF loopVars
<1> QED BY <1>1 DEF IInv, LoopInv

\* The entry yields to run().
LEMMA TurnEnds ==
  ASSUME IInv, TypeOK', pc = "exec", Yield, expired_cbs' = {}
  PROVE  LoopInv'
<1>1. cur' = None /\ pc' = "pick" /\ None \notin Listed'
  BY NoneUnlisted DEF TypeOK, Yield, Listed
<1> QED BY <1>1 DEF LoopInv

\* Every step keeps the loop in order.
LEMMA LoopStep ==
  ASSUME IInv, Next
  PROVE  LoopInv'
<1> USE DEF IInv
<1>1. TypeOK' /\ TypeOK /\ LoopInv
  BY TypeStep DEF LoopInv
<1>2. None \notin Listed'
  BY <1>1, NoneUnlisted DEF TypeOK, Listed
<1>3. CASE Pick
  <2>1. cur' \in Entry /\ cur' \notin Listed' /\ cur' # None
    BY <1>3, PickedList, Entries
  <2>2. pc = "pick" /\ pc' = "exec" /\ expired_cbs' = expired_cbs
    BY <1>3 DEF Pick, timerVars
  <2> QED BY <1>1, <2>1, <2>2 DEF LoopInv
<1>4. CASE AskToStop \/ ReadNextTime
  <2>1. expired_cbs' = expired_cbs
    BY <1>4, LookEffect DEF AskToStop, ReadNextTime
  <2>2. /\ m_fiber_list = <<>> /\ UNCHANGED <<m_fiber_list, cur>>
        /\ pc \in {"pick", "idle"} /\ pc' \in {"idle", "timeout", "exited"}
    BY <1>1, <1>4 DEF AskToStop, ReadNextTime, LoopInv, ioVars
  <2>3. cur' = None
    BY <1>1, <2>2 DEF LoopInv
  <2> QED BY <1>1, <1>2, <2>1, <2>2, <2>3 DEF LoopInv
<1>5. CASE ComputeTimeout
  <2>1. pc = "timeout" /\ pc' = "wait" /\ UNCHANGED <<m_fiber_list, cur, expired_cbs>>
    BY <1>5 DEF ComputeTimeout, ioVars, timerVars
  <2> QED BY <1>1, <1>2, <2>1 DEF LoopInv
<1>6. CASE ReturnFromWait
  <2>1. pc = "wait" /\ pc' = "expire" /\ UNCHANGED <<m_fiber_list, cur, expired_cbs>>
    BY <1>6 DEF ReturnFromWait, timerVars, IO!EpollWait
  <2> QED BY <1>1, <1>2, <2>1 DEF LoopInv
<1>7. CASE Expire
  <2>1. pc = "expire" /\ pc' = "schedule" /\ UNCHANGED <<m_fiber_list, cur>>
    BY <1>7 DEF Expire, ioVars
  <2> QED BY <1>1, <1>2, <2>1 DEF LoopInv
<1>8. CASE ScheduleExpired
  <2>1. expired_cbs' = {}
    BY <1>8 DEF ScheduleExpired, TM!TakeExpired, timerVars
  <2>2. pc = "schedule" /\ pc' = "dispatch" /\ cur' = cur
    BY <1>8 DEF ScheduleExpired
  <2> QED BY <1>1, <1>2, <2>1, <2>2 DEF LoopInv
<1>9. CASE DispatchBatch
  <2>1. pc = "dispatch" /\ pc' \in {"dispatch", "pick"} /\ UNCHANGED <<cur, expired_cbs>>
    BY <1>9 DEF DispatchBatch, timerVars
  <2> QED BY <1>1, <1>2, <2>1 DEF LoopInv
<1>10. CASE KernelEdge \/ Clock
  <2>1. /\ expired_cbs' = expired_cbs /\ UNCHANGED <<pc, cur, m_fiber_list>>
    BY <1>10, LookEffect DEF KernelEdge, Clock, timerVars, ioVars, loopVars, IO!Edge
  <2> QED BY <1>1, <2>1, ListSame DEF LoopInv
<1>11. ASSUME NEW f \in Fiber, NEW fd \in FD, NEW ev \in IO!EventType, BeginIo(f, fd, ev)
       PROVE  LoopInv'
  BY <1>1, <1>11, NoneExpired, StaysRunning DEF BeginIo, Begin, Running, ioVars
<1>12. ASSUME NEW f \in Fiber, TryIo(f) PROVE LoopInv'
  BY <1>1, <1>12, NoneExpired, StaysRunning DEF TryIo, Running, ioVars, IO!Exhaust
<1>13. ASSUME NEW f \in Fiber, StartTimer(f) PROVE LoopInv'
  <2>1. UNCHANGED timerVars \/ \E ms \in TimerDurations : TM!AddTimer(f, ms, FALSE)
    BY <1>13 DEF StartTimer, TimerDurations
  <2> QED BY <1>1, <1>13, <2>1, NoneExpired, StaysRunning DEF StartTimer, Running, ioVars
<1>14. ASSUME NEW f \in Fiber, ArmIoFails(f) PROVE LoopInv'
  <2>1. UNCHANGED timerVars \/ TM!Cancel(f)
    BY <1>14 DEF ArmIoFails
  <2> QED BY <1>1, <1>14, <2>1, NoneExpired, StaysRunning DEF ArmIoFails, Running
<1>15. ASSUME NEW f \in Fiber, WakeIo(f) PROVE LoopInv'
  <2>1. UNCHANGED timerVars \/ TM!Cancel(f)
    BY <1>15 DEF WakeIo
  <2> QED BY <1>1, <1>15, <2>1, NoneExpired, StaysRunning DEF WakeIo, Running, ioVars
<1>16. ASSUME NEW f \in Fiber, WakeSleeper(f) PROVE LoopInv'
  BY <1>1, <1>16, NoneExpired, StaysRunning DEF WakeSleeper, Running, ioVars
<1>17. ASSUME NEW f \in Fiber, NEW fd \in FD, OpenFd(f, fd) PROVE LoopInv'
  BY <1>1, <1>17, NoneExpired, StaysRunning DEF OpenFd, Begin, Running, IO!Open
<1>18. ASSUME NEW f \in Fiber, NEW fd \in FD, CloseFd(f, fd) PROVE LoopInv'
  <2>1. pc = "exec" /\ cur = f /\ UNCHANGED <<pc, cur>> /\ expired_cbs' = {}
    BY <1>18, NoneExpired DEF CloseFd, Begin, Running, loopVars
  <2>2. Listed' \subseteq Listed \cup Table!Waiting
    BY <1>18, Moves, MovedList DEF CloseFd
  <2>3. f \notin Table!Waiting
    BY <2>1 DEF PlaceInv, Place, Handed, Held
  <2> QED BY <1>1, <2>1, <2>2, <2>3 DEF LoopInv
<1>19. ASSUME NEW f \in Fiber,
              \/ ArmIo(f) \/ YieldToReady(f) \/ Finish(f) \/ RunTimeout(f) \/ RunWake(f)
       PROVE  LoopInv'
  <2>1. pc = "exec" /\ Yield /\ UNCHANGED timerVars
    BY <1>19 DEF ArmIo, YieldToReady, Finish, RunTimeout, RunWake, Begin, Running
  <2> QED BY <1>1, <2>1, NoneExpired, TurnEnds
<1>20. ASSUME NEW f \in Fiber, NEW ms \in Delays, Sleep(f, ms) PROVE LoopInv'
  <2>1. pc = "exec" /\ Yield /\ TM!AddTimer(f, ms, FALSE) /\ ms \in TimerDurations
    BY <1>20 DEF Sleep, Begin, Running, TimerDurations
  <2> QED BY <1>1, <2>1, NoneExpired, TurnEnds
<1> QED BY <1>3, <1>4, <1>5, <1>6, <1>7, <1>8, <1>9, <1>10, <1>11, <1>12, <1>13, <1>14, <1>15,
           <1>16, <1>17, <1>18, <1>19, <1>20 DEF Next, Program, Loop, Execute

-----------------------------------------------------------------------------
(***************************************************************************)
(* The fibers.  A step is about at most one fiber f: what it does to f is  *)
(* looked at step by step, and for the other fibers the invariant follows  *)
(* from what the step leaves alone.                                        *)
(***************************************************************************)
Elapsed == uptime <= uptime' /\ (wrapped => wrapped')

\* Nothing about g has changed but that its timer may have been displaced.
Aside(g) ==
  /\ at'[g] = at[g] /\ op'[g] = op[g] /\ timed'[g] = timed[g] /\ cancelled'[g] = cancelled[g]
  /\ due'[g] = due[g] /\ m_cb'[g] = m_cb[g]
  /\ g \in m_timers' => g \in m_timers
  /\ g \in expired_cbs' <=> g \in expired_cbs
  /\ g \in Held' <=> g \in Held
  /\ \A e \in {g, <<"timeout", g>>, <<"wake", g>>} : e \in Handed' <=> e \in Handed
  /\ cur' = g <=> cur = g

Rest == OwnerInv /\ PlaceInv /\ AlarmInv /\ DueInv /\ OrderInv

\* The invariant of such a fiber is kept.
LEMMA AsideKept ==
  ASSUME IInv, QueueInv', Elapsed, NEW g \in Fiber, Aside(g)
  PROVE  Place(g)' /\ Alarm(g)' /\ (~wrapped' => Due(g)')
<1>1. Place(g) /\ Alarm(g) /\ (~wrapped => Due(g))
  BY DEF IInv, PlaceInv, AlarmInv, DueInv
<1>2. uptime \in Nat /\ uptime' \in Nat /\ due[g] \in Int /\ (g \in m_timers => m_cb[g])
  BY QueueTypes DEF IInv, QueueInv, Queue!IInv, Queue!TypeOK
<1>3. Place(g)'
  BY <1>1 DEF Aside, Place
<1>4. Displaced(g) => Displaced(g)'
  BY DEF Aside, Displaced
<1>5. g \in m_timers => g \in m_timers' \/ Displaced(g)'
  BY <1>2 DEF Aside, Displaced
<1>6. Alarm(g)'
  <2>1. /\ timed[g]' => at[g]' \in {"arm", "wait"}
        /\ cancelled[g]' => at[g]' = "wait" /\ timed[g]' /\ g \notin m_timers'
        /\ g \in m_timers' \cup expired_cbs' => at[g]' = "sleep" \/ timed[g]'
        /\ g \in expired_cbs' => g \notin m_timers'
    BY <1>1 DEF Aside, Alarm
  <2>2. /\ <<"timeout", g>> \in Handed' =>
             at[g]' = "wait" /\ timed[g]' /\ g \notin m_timers' /\ cur' # g
        /\ <<"wake", g>> \in Handed' => at[g]' = "sleep" /\ g \notin Handed' /\ g \notin m_timers'
    BY <1>1 DEF Aside, Alarm
  <2>3. at[g]' = "sleep" =>
          /\ g \in Handed' => g \notin m_timers'
          /\ \/ g \in m_timers' \cup expired_cbs' \/ {g, <<"wake", g>>} \cap Handed' # {}
             \/ Displaced(g)'
    BY <1>1, <1>4, <1>5 DEF Aside, Alarm
  <2> QED BY <2>1, <2>2, <2>3 DEF Alarm
<1>7. ~wrapped' => Due(g)'
  BY <1>1, <1>2 DEF Aside, Due, Elapsed
<1> QED BY <1>3, <1>6, <1>7

\* One fiber is looked at, the others are left aside.
LEMMA OneFiber ==
  ASSUME IInv, QueueInv', Elapsed, NEW f \in Fiber, \A g \in Fiber \ {f} : Aside(g),
         Place(f)', Alarm(f)', ~wrapped' => Due(f)'
  PROVE  PlaceInv' /\ AlarmInv' /\ DueInv'
<1>1. \A g \in Fiber : Place(g)' /\ Alarm(g)' /\ (~wrapped' => Due(g)')
  BY AsideKept
<1> QED BY <1>1 DEF PlaceInv, AlarmInv, DueInv

\* Contexts that stay the same hold whom they held.
LEMMA TableStill ==
  ASSUME UNCHANGED <<events, waiter, ousted>>
  PROVE  /\ Table!Armed' = Table!Armed /\ Table!Waiting' = Table!Waiting /\ Held' = Held
         /\ \A p : Table!WaiterOf(p)' = Table!WaiterOf(p)
<1>1. Table!Armed' = Table!Armed
  BY DEF Table!Armed
<1> QED BY <1>1 DEF Table!Waiting, Table!WaiterOf, Held

\* Waiters stay owners of their events while their calls go on.
LEMMA OwnerKept ==
  ASSUME OwnerInv, Table!Armed' \subseteq Table!Armed, ousted' = ousted,
         \A p \in Table!Armed' : Table!WaiterOf(p)' = Table!WaiterOf(p),
         \A g \in Held' : op'[g] = op[g] /\ at'[g] = at[g]
  PROVE  OwnerInv'
<1>1. ASSUME NEW p \in Table!Armed'
      PROVE  /\ Table!WaiterOf(p)' \in Fiber
             /\ op'[Table!WaiterOf(p)'] = p /\ at'[Table!WaiterOf(p)'] = "wait"
  <2>1. Table!WaiterOf(p)' \in Held'
    BY DEF Table!Waiting, Table!WaiterOf, Held
  <2> QED BY <2>1 DEF OwnerInv
<1>2. \A w \in ousted' : w \in Fiber /\ at'[w] = "wait"
  BY DEF OwnerInv, Held
<1> QED BY <1>1, <1>2 DEF OwnerInv

\* The order of the list.
LEMMA OrderSame ==
  ASSUME OrderInv, m_fiber_list' = m_fiber_list
  PROVE  OrderInv'
  BY DEF OrderInv

\* New entries that are fibers come last.
LEMMA OrderGrown ==
  ASSUME OrderInv,
         \A i \in DOMAIN m_fiber_list : m_fiber_list'[i] = m_fiber_list[i],
         \A i \in DOMAIN m_fiber_list' \ DOMAIN m_fiber_list :
           m_fiber_list'[i] \in Fiber /\ \A j \in DOMAIN m_fiber_list : j < i
  PROVE  OrderInv'
<1> SUFFICES ASSUME NEW f \in Fiber, NEW i \in DOMAIN m_fiber_list', NEW j \in DOMAIN m_fiber_list',
                    m_fiber_list'[i] = <<"timeout", f>>, m_fiber_list'[j] = f
             PROVE  i < j
  BY DEF OrderInv
<1>1. i \in DOMAIN m_fiber_list
  BY Entries
<1>2. CASE j \in DOMAIN m_fiber_list
  BY <1>1, <1>2 DEF OrderInv
<1>3. CASE j \notin DOMAIN m_fiber_list
  BY <1>1, <1>3
<1> QED BY <1>2, <1>3

\* Who is handed out after the turn of an entry about f, besides f itself.
LEMMA HandedAside ==
  ASSUME NEW f \in Fiber, cur \in {f, <<"timeout", f>>, <<"wake", f>>}, cur' \in {cur, None},
         Listed' \in {Listed, Listed \cup {f}}
  PROVE  \A g \in Fiber \ {f} :
           /\ \A e \in {g, <<"timeout", g>>, <<"wake", g>>} : e \in Handed' <=> e \in Handed
           /\ cur' = g <=> cur = g
<1> SUFFICES ASSUME NEW g \in Fiber \ {f}, NEW e \in {g, <<"timeout", g>>, <<"wake", g>>}
             PROVE  (e \in Handed' <=> e \in Handed) /\ (cur' = g <=> cur = g)
  OBVIOUS
<1>1. g # None /\ cur # g /\ cur' # g
  BY Entries
<1>2. e # cur /\ e # cur' /\ e # f
  BY Entries
<1> QED BY <1>1, <1>2 DEF Handed

\* Steps of the loop, the kernel and the clock that concern no fiber.
LEMMA QuietStep ==
  ASSUME IInv, QueueInv', Elapsed,
         UNCHANGED <<events, waiter, ousted, m_fiber_list, cur, at, op, timed, cancelled>>,
         UNCHANGED <<m_timers, m_cb, due, expired_cbs>>
  PROVE  Rest'
<1>1. OwnerInv'
  BY TableStill, OwnerKept DEF IInv
<1>2. Handed' = Handed
  BY ListSame DEF Handed
<1>3. \A g \in Fiber : Aside(g)
  BY <1>2, TableStill DEF Aside
<1>4. \A g \in Fiber : Place(g)' /\ Alarm(g)' /\ (~wrapped' => Due(g)')
  BY <1>3, AsideKept
<1> QED BY <1>1, <1>4, OrderSame DEF Rest, PlaceInv, AlarmInv, DueInv, IInv

\* Pick hands the first entry from the list to the processor.
LEMMA PickStep ==
  ASSUME IInv, QueueInv', Pick
  PROVE  Rest'
<1> USE DEF IInv
<1>1. /\ UNCHANGED <<events, waiter, ousted, at, op, timed, cancelled, m_timers, m_cb, due, expired_cbs>>
      /\ pc = "pick" /\ uptime' = uptime /\ wrapped' = wrapped
  BY DEF Pick, tableVars, fiberVars, timerVars
<1>2. cur = None
  BY <1>1 DEF LoopInv
<1>3. \A e \in Entry : e \in Handed' <=> e \in Handed
  BY <1>2, PickedList, Entries DEF Handed
<1>4. \A g \in Fiber : \A e \in {g, <<"timeout", g>>, <<"wake", g>>} : e \in Handed' <=> e \in Handed
  BY <1>3, Entries
<1>5. OwnerInv'
  BY <1>1, TableStill, OwnerKept
<1>6. ASSUME NEW g \in Fiber PROVE Place(g)'
  <2>1. at[g] \notin {"try", "arm"} /\ Place(g)
    BY <1>2, Entries DEF PlaceInv, Place
  <2> QED BY <1>1, <1>4, <2>1, TableStill DEF Place
<1>7. ASSUME NEW g \in Fiber PROVE Alarm(g)' /\ (~wrapped' => Due(g)')
  <2>1. Alarm(g) /\ (~wrapped => Due(g))
    BY DEF AlarmInv, DueInv
  <2>2. <<"timeout", g>> \in Handed' => cur' # g
    <3> SUFFICES ASSUME <<"timeout", g>> \in Handed', cur' = g PROVE FALSE
      OBVIOUS
    <3>1. <<"timeout", g>> \in Listed'
      BY Entries DEF Handed
    <3>2. PICK i \in DOMAIN m_fiber_list' : m_fiber_list'[i] = <<"timeout", g>>
      BY <3>1 DEF Listed
    <3>3. /\ i \in Nat \ {0} /\ i + 1 \in DOMAIN m_fiber_list
          /\ m_fiber_list[i + 1] = <<"timeout", g>>
          /\ 1 \in DOMAIN m_fiber_list /\ m_fiber_list[1] = g
      BY <3>2, PickedList
    <3>4. i + 1 < 1
      BY <3>3 DEF OrderInv
    <3> QED BY <3>3, <3>4
  <2>3. Displaced(g)' <=> Displaced(g)
    BY <1>1 DEF Displaced
  <2>4. Alarm(g)'
    BY <1>1, <1>4, <2>1, <2>2, <2>3 DEF Alarm
  <2>5. ~wrapped' => Due(g)'
    BY <1>1, <1>4, <2>1 DEF Due
  <2> QED BY <2>4, <2>5
<1>8. OrderInv'
  <2> SUFFICES ASSUME NEW f \in Fiber, NEW i \in DOMAIN m_fiber_list', NEW j \in DOMAIN m_fiber_list',
                      m_fiber_list'[i] = <<"timeout", f>>, m_fiber_list'[j] = f
               PROVE  i < j
    BY DEF OrderInv
  <2>1. /\ i \in Nat /\ j \in Nat
        /\ i + 1 \in DOMAIN m_fiber_list /\ m_fiber_list[i + 1] = <<"timeout", f>>
        /\ j + 1 \in DOMAIN m_fiber_list /\ m_fiber_list[j + 1] = f
    BY PickedList
  <2>2. i + 1 < j + 1
    BY <2>1 DEF OrderInv
  <2> QED BY <2>1, <2>2
<1> QED BY <1>5, <1>6, <1>7, <1>8 DEF Rest, PlaceInv, AlarmInv, DueInv

\* Expire takes the timers that are due out of the queue.
LEMMA ExpireStep ==
  ASSUME IInv, QueueInv', Expire
  PROVE  Rest'
<1> USE DEF IInv
<1>1. /\ UNCHANGED <<events, waiter, ousted, m_fiber_list, cur, at, op, timed, cancelled>>
      /\ pc = "expire" /\ TM!ListExpired
  BY DEF Expire, ioVars, tableVars, fiberVars
<1>2. /\ expired_cbs = {} /\ expired_cbs' \subseteq m_timers
      /\ m_timers' = m_timers \ expired_cbs'
      /\ \A g \in Fiber \ expired_cbs' : m_cb'[g] = m_cb[g]
      /\ due' = due /\ uptime' = uptime /\ (wrapped => wrapped')
      /\ ~wrapped' => \A g \in expired_cbs' : due[g] <= uptime
  BY <1>1, ExpireEffect DEF LoopInv
<1>3. OwnerInv' /\ OrderInv'
  BY <1>1, TableStill, OwnerKept, OrderSame
<1>4. Handed' = Handed
  BY <1>1, ListSame DEF Handed
<1>5. ASSUME NEW g \in Fiber PROVE Place(g)'
  BY <1>1, <1>4, TableStill DEF PlaceInv, Place
<1>6. ASSUME NEW g \in Fiber PROVE Alarm(g)'
  <2>1. Displaced(g) => Displaced(g)'
    BY <1>2 DEF Displaced
  <2>2. Alarm(g)
    BY DEF AlarmInv
  <2> QED BY <1>1, <1>2, <1>4, <2>1, <2>2 DEF Alarm
<1>7. ASSUME NEW g \in Fiber, ~wrapped' PROVE Due(g)'
  <2>1. Due(g)
    BY <1>2, <1>7 DEF DueInv
  <2> QED BY <1>1, <1>2, <1>4, <1>7, <2>1 DEF Due
<1> QED BY <1>3, <1>5, <1>6, <1>7 DEF Rest, PlaceInv, AlarmInv, DueInv

\* ScheduleExpired turns expired timers into callbacks on the list.
LEMMA ScheduleStep ==
  ASSUME IInv, QueueInv', ScheduleExpired
  PROVE  Rest'
<1> USE DEF IInv
<1>1. /\ UNCHANGED <<events, waiter, ousted, cur, at, op, timed, cancelled>> /\ pc = "schedule"
  BY DEF ScheduleExpired, tableVars, fiberVars
<1>2. /\ UNCHANGED <<m_timers, m_cb, due, uptime, wrapped>> /\ expired_cbs' = {}
  BY DEF ScheduleExpired, TM!TakeExpired, TM!timeVars, TM!objVars, timerVars
<1>3. cur = None /\ m_fiber_list = <<>>
  BY <1>1 DEF LoopInv
<1>4. Listed' = {Callback(f) : f \in expired_cbs}
  <2>1. PICK fired \in Bijection(1 .. Cardinality(expired_cbs), expired_cbs) :
          m_fiber_list' = m_fiber_list \o [i \in DOMAIN fired |-> Callback(fired[i])]
    BY DEF ScheduleExpired
  <2>2. Cardinality(expired_cbs) \in Nat
    BY QueueTypes, LoopAssumption, FS_Subset, FS_CardinalityType
  <2>3. /\ DOMAIN fired = 1 .. Cardinality(expired_cbs)
        /\ \A i \in DOMAIN fired : fired[i] \in expired_cbs
        /\ \A f \in expired_cbs : \E i \in DOMAIN fired : fired[i] = f
    BY DEF Bijection, Injection, Surjection
  <2> DEFINE s == [i \in DOMAIN fired |-> Callback(fired[i])]
  <2>4. s \in Seq({Callback(f) : f \in expired_cbs})
    BY <2>2, <2>3
  <2>5. m_fiber_list' = s
    BY <1>3, <2>1, <2>4
  <2>6. {s[i] : i \in DOMAIN s} = {Callback(f) : f \in expired_cbs}
    BY <2>3
  <2> HIDE DEF s
  <2> QED BY <2>5, <2>6 DEF Listed
<1>5. OwnerInv'
  BY <1>1, TableStill, OwnerKept
<1>6. \A g \in Fiber :
        /\ g \notin Handed /\ <<"timeout", g>> \notin Handed /\ <<"wake", g>> \notin Handed
        /\ g \notin Handed'
        /\ <<"timeout", g>> \in Handed' <=> g \in expired_cbs /\ timed[g]
        /\ <<"wake", g>> \in Handed' <=> g \in expired_cbs /\ ~timed[g]
  <2> SUFFICES ASSUME NEW g \in Fiber
               PROVE  /\ g \notin Handed /\ <<"timeout", g>> \notin Handed
                      /\ <<"wake", g>> \notin Handed /\ g \notin Handed'
                      /\ <<"timeout", g>> \in Handed' <=> g \in expired_cbs /\ timed[g]
                      /\ <<"wake", g>> \in Handed' <=> g \in expired_cbs /\ ~timed[g]
    OBVIOUS
  <2>1. Handed = {None} /\ Handed' = Listed' \cup {None}
    BY <1>1, <1>3 DEF Handed, Listed
  <2>2. expired_cbs \subseteq Fiber
    BY QueueTypes
  <2>3. g # None /\ <<"timeout", g>> # None /\ <<"wake", g>> # None
    BY Entries
  <2>4. \A f \in expired_cbs : Callback(f) # g
    BY <2>2, Entries DEF Callback
  <2> QED BY <1>4, <2>1, <2>2, <2>3, <2>4 DEF Callback
<1>7. ASSUME NEW g \in Fiber PROVE Place(g)'
  BY <1>1, <1>6, TableStill DEF PlaceInv, Place
<1>8. ASSUME NEW g \in Fiber PROVE Alarm(g)'
  <2>1. Alarm(g) /\ at[g] \notin {"try", "arm"} /\ cur' # g
    BY <1>1, <1>3, Entries DEF AlarmInv, PlaceInv, Place
  <2>2. Displaced(g)' <=> Displaced(g)
    BY <1>2 DEF Displaced
  <2> QED BY <1>1, <1>2, <1>6, <2>1, <2>2 DEF Alarm
<1>9. ASSUME NEW g \in Fiber, ~wrapped' PROVE Due(g)'
  <2>1. Due(g)
    BY <1>2, <1>9 DEF DueInv
  <2> QED BY <1>1, <1>2, <1>6, <2>1 DEF Due
<1>10. OrderInv'
  <2> SUFFICES ASSUME NEW f \in Fiber PROVE f \notin Listed'
    BY DEF OrderInv, Listed
  <2> QED BY <1>6 DEF Handed
<1> QED BY <1>5, <1>7, <1>8, <1>9, <1>10 DEF Rest, PlaceInv, AlarmInv, DueInv

\* Waiters that are moved were waiting, and are then on the list only.
LEMMA MovesHanded ==
  ASSUME IInv, TableInv', Table!Moved, NEW g \in Fiber
  PROVE  /\ <<"timeout", g>> \in Listed' <=> <<"timeout", g>> \in Listed
         /\ <<"wake", g>> \in Listed' <=> <<"wake", g>> \in Listed
         /\ g \in Listed => g \in Listed'
         /\ g \in Listed' => g \in Listed \/ g \in Held
         /\ g \in Held => at[g] = "wait" /\ (g \in Held' \/ g \in Listed')
         /\ g \in Held' => g \in Held /\ g \notin Listed'
<1>1. /\ Listed \subseteq Listed' /\ Listed' \subseteq Listed \cup Table!Waiting
      /\ Table!Waiting' \subseteq Table!Waiting
      /\ Table!Waiting \subseteq Table!Waiting' \cup Listed'
  BY MovedList
<1>2. \A w \in Held : w \in Fiber /\ at[w] = "wait"
  BY DEF IInv, OwnerInv, Table!Waiting, Table!WaiterOf, Held
<1>3. \A w \in Held' : w \notin Listed'
  BY DEF TableInv, Table!Apart, Table!OustedOut, Listed, Table!Waiting, Table!WaiterOf, Held
<1>4. ousted' = ousted
  BY DEF Table!Moved
<1> QED BY <1>1, <1>2, <1>3, <1>4, Entries DEF Held

\* Their events are gone, and they come behind whatever was on the list.
LEMMA MovesOrder ==
  ASSUME IInv, Table!Moved, UNCHANGED <<at, op>>
  PROVE  OwnerInv' /\ OrderInv'
<1>1. OwnerInv'
  BY OwnerKept DEF IInv, Table!Moved
<1>2. \A w \in Table!Waiting : w \in Fiber
  BY DEF IInv, OwnerInv, Table!Waiting, Table!WaiterOf
<1>3. OrderInv'
  BY <1>2, OrderGrown DEF IInv, Table!Moved
<1> QED BY <1>1, <1>3

\* Dispatch and close: nothing else happens.
LEMMA MovesStep ==
  ASSUME IInv, QueueInv', TableInv', Table!Moved,
         UNCHANGED <<cur, at, op, timed, cancelled, timerVars>>
  PROVE  Rest'
<1> USE DEF IInv
<1>1. UNCHANGED <<m_timers, m_cb, due, expired_cbs, uptime, wrapped>>
  BY DEF timerVars
<1>2. ASSUME NEW g \in Fiber PROVE Place(g)'
  <2>1. Place(g)
    BY DEF PlaceInv
  <2> QED BY <2>1, MovesHanded DEF Place, Handed
<1>3. ASSUME NEW g \in Fiber PROVE Alarm(g)'
  <2>1. Alarm(g)
    BY DEF AlarmInv
  <2>2. Displaced(g)' <=> Displaced(g)
    BY <1>1 DEF Displaced
  <2>3. /\ <<"timeout", g>> \in Handed' <=> <<"timeout", g>> \in Handed
        /\ <<"wake", g>> \in Handed' <=> <<"wake", g>> \in Handed
        /\ at[g] = "sleep" => (g \in Handed' <=> g \in Handed)
    BY MovesHanded DEF Handed
  <2> QED BY <1>1, <2>1, <2>2, <2>3 DEF Alarm
<1>4. ASSUME NEW g \in Fiber, ~wrapped' PROVE Due(g)'
  <2>1. Due(g)
    BY <1>1, <1>4 DEF DueInv
  <2>2. /\ <<"timeout", g>> \in Handed' <=> <<"timeout", g>> \in Handed
        /\ <<"wake", g>> \in Handed' <=> <<"wake", g>> \in Handed
        /\ at[g] = "sleep" => (g \in Handed' <=> g \in Handed)
    BY MovesHanded DEF Handed
  <2> QED BY <1>1, <2>1, <2>2 DEF Due
<1> QED BY <1>2, <1>3, <1>4, MovesOrder DEF Rest, PlaceInv, AlarmInv, DueInv

\* A timeout callback cancels the call it finds.
LEMMA TimeoutStep ==
  ASSUME IInv, QueueInv', TableInv', NEW f \in Fiber, RunTimeout(f)
  PROVE  Rest'
<1> USE DEF IInv
<1>1. /\ cur = <<"timeout", f>> /\ cur' = None /\ <<"timeout", f>> \in Handed
      /\ UNCHANGED <<m_timers, m_cb, due, expired_cbs, uptime, wrapped, at, op, timed>>
  BY DEF RunTimeout, Yield, timerVars, Handed
<1>2. at[f] = "wait" /\ timed[f] /\ f \notin m_timers
  BY <1>1 DEF AlarmInv, Alarm
<1>3. op[f] # NoOp
  BY <1>2 DEF PlaceInv, Place
<1>4. op[f][1] \in FD /\ op[f][2] \in IO!EventType
  BY <1>3 DEF LoopInv, TypeOK
<1>5. /\ cancelled' = [cancelled EXCEPT ![f] = TRUE]
      /\ Table!Moved
  BY <1>3, <1>4, Moves DEF RunTimeout
<1>6. cancelled'[f] /\ \A g \in Fiber \ {f} : cancelled'[g] = cancelled[g]
  BY <1>5 DEF LoopInv, TypeOK
<1>7. ASSUME NEW g \in Fiber
      PROVE  /\ <<"timeout", g>> \in Handed' => <<"timeout", g>> \in Handed
             /\ <<"timeout", g>> \in Handed' => g # f
             /\ <<"wake", g>> \in Handed' <=> <<"wake", g>> \in Handed
             /\ g \in Handed => g \in Handed'
             /\ g \in Handed' => g \in Handed \/ g \in Held
             /\ g \in Held => at[g] = "wait" /\ (g \in Held' \/ g \in Handed')
             /\ g \in Held' => g \in Held /\ g \notin Handed'
             /\ cur # g /\ cur' # g
  <2>1. <<"timeout", f>> \notin Listed
    BY <1>1 DEF LoopInv
  <2>2. g # cur /\ <<"wake", g>> # cur /\ g # None /\ <<"wake", g>> # None
        /\ <<"timeout", g>> # None
    BY <1>1, Entries
  <2> QED BY <1>1, <1>5, <2>1, <2>2, MovesHanded DEF Handed
<1>8. ASSUME NEW g \in Fiber PROVE Place(g)'
  BY <1>1, <1>7 DEF PlaceInv, Place
<1>9. ASSUME NEW g \in Fiber PROVE Alarm(g)'
  <2>1. Alarm(g)
    BY DEF AlarmInv
  <2>2. Displaced(g)' <=> Displaced(g)
    BY <1>1 DEF Displaced
  <2> QED BY <1>1, <1>2, <1>6, <1>7, <2>1, <2>2 DEF Alarm
<1>10. ASSUME NEW g \in Fiber, ~wrapped' PROVE Due(g)'
  <2>1. Due(g)
    BY <1>1, <1>10 DEF DueInv
  <2> QED BY <1>1, <1>6, <1>7, <2>1 DEF Due
<1> QED BY <1>1, <1>5, <1>8, <1>9, <1>10, MovesOrder DEF Rest, PlaceInv, AlarmInv, DueInv

\* A fiber that runs, before its step.
LEMMA RunningFiber ==
  ASSUME IInv, NEW f \in Fiber, Running(f)
  PROVE  /\ cur = f /\ pc = "exec" /\ f \in Handed /\ f \notin Listed /\ f \notin Held
         /\ expired_cbs = {} /\ cancelled[f] = (at[f] = "wait" /\ cancelled[f])
         /\ <<"timeout", f>> \notin Handed /\ <<"wake", f>> \notin Handed
         /\ <<"timeout", f>> \notin Listed /\ <<"wake", f>> \notin Listed
         /\ Place(f) /\ Alarm(f) /\ at[f] # "done" /\ None \notin Listed
         /\ f # None /\ <<"timeout", f>> # None /\ <<"wake", f>> # None
<1>1. cur = f /\ pc = "exec" /\ f \in Handed /\ f \notin Listed /\ Place(f) /\ Alarm(f)
  BY DEF Running, Handed, IInv, LoopInv, PlaceInv, AlarmInv
<1>2. f \notin Held /\ at[f] # "done" /\ expired_cbs = {}
  BY <1>1 DEF Place, IInv, LoopInv
<1>3. <<"timeout", f>> \notin Handed /\ <<"wake", f>> \notin Handed
  BY <1>1 DEF Alarm
<1>4. None \notin Listed
  BY NoneUnlisted DEF IInv, LoopInv, TypeOK, Listed
<1>5. cancelled[f] = (at[f] = "wait" /\ cancelled[f])
  BY <1>1 DEF Alarm, IInv, LoopInv, TypeOK
<1> QED BY <1>1, <1>2, <1>3, <1>4, <1>5, Entries DEF Handed

\* The others, when the step changes f's place and perhaps its timer.
LEMMA OthersAside ==
  ASSUME IInv, NEW f \in Fiber, Running(f), cur' \in {f, None},
         Listed' \in {Listed, Listed \cup {f}}, UNCHANGED <<events, waiter, ousted>>,
         \A g \in Fiber \ {f} :
           /\ at'[g] = at[g] /\ op'[g] = op[g] /\ timed'[g] = timed[g]
           /\ cancelled'[g] = cancelled[g]
           /\ due'[g] = due[g] /\ m_cb'[g] = m_cb[g] /\ (g \in m_timers' => g \in m_timers),
         expired_cbs' = expired_cbs
  PROVE  \A g \in Fiber \ {f} : Aside(g)
<1>1. \A g \in Fiber \ {f} :
        /\ \A e \in {g, <<"timeout", g>>, <<"wake", g>>} : e \in Handed' <=> e \in Handed
        /\ cur' = g <=> cur = g
  BY HandedAside DEF Running
<1> QED BY <1>1, TableStill DEF Aside

\* The variables of the fibers are functions.
LEMMA FiberTypes ==
  ASSUME IInv
  PROVE  /\ at \in [Fiber -> {"run", "try", "arm", "wait", "sleep", "done"}]
         /\ op \in [Fiber -> (FD \X IO!EventType) \cup {NoOp}]
         /\ timed \in [Fiber -> BOOLEAN] /\ cancelled \in [Fiber -> BOOLEAN]
         /\ m_fiber_list \in Seq(Entry)
  BY DEF IInv, LoopInv, TypeOK

\* Whatever a fiber that does not wait does with its call, the waiters own what
\* they owned.
LEMMA OwnerAside ==
  ASSUME IInv, NEW f \in Fiber, f \notin Held, UNCHANGED <<events, waiter, ousted>>,
         \A g \in Fiber \ {f} : at'[g] = at[g] /\ op'[g] = op[g]
  PROVE  OwnerInv'
<1>1. \A g \in Held : g \in Fiber \ {f}
  BY DEF IInv, OwnerInv, Table!Waiting, Table!WaiterOf, Held
<1> QED BY <1>1, TableStill, OwnerKept DEF IInv

\* A fiber begins a call on an event.
LEMMA BeginIoStep ==
  ASSUME IInv, QueueInv', NEW f \in Fiber, NEW fd \in FD, NEW ev \in IO!EventType,
         BeginIo(f, fd, ev)
  PROVE  Rest'
<1>1. /\ Running(f) /\ at[f] = "run"
      /\ at' = [at EXCEPT ![f] = "try"] /\ op' = [op EXCEPT ![f] = <<fd, ev>>]
      /\ UNCHANGED <<events, waiter, ousted, m_fiber_list, cur, timed, cancelled>>
      /\ UNCHANGED <<m_timers, m_cb, due, expired_cbs, uptime, wrapped>>
  BY DEF BeginIo, Begin, timerVars, ioVars, tableVars, loopVars
<1>2. /\ at'[f] = "try" /\ op'[f] = <<fd, ev>> /\ op'[f] # NoOp
      /\ \A g \in Fiber \ {f} : at'[g] = at[g] /\ op'[g] = op[g]
  BY <1>1, FiberTypes, Entries
<1>3. Listed' = Listed /\ Handed' = Handed /\ cur' = f /\ Held' = Held
  BY <1>1, ListSame, TableStill DEF Handed, Running
<1>4. \A g \in Fiber \ {f} : Aside(g)
  BY <1>1, <1>2, <1>3, OthersAside
<1>5. Place(f)'
  BY <1>1, <1>2, <1>3, RunningFiber DEF Place
<1>6. ~timed[f] /\ ~cancelled[f] /\ f \notin m_timers
  BY <1>1, RunningFiber DEF Alarm
<1>7. Alarm(f)' /\ Due(f)'
  BY <1>1, <1>2, <1>3, <1>6, RunningFiber DEF Alarm, Due
<1>8. PlaceInv' /\ AlarmInv' /\ DueInv'
  <2>1. Elapsed
    BY <1>1, QueueTypes DEF Elapsed, IInv
  <2> QED BY <1>4, <1>5, <1>7, <2>1, OneFiber
<1>9. OwnerInv'
  BY <1>1, <1>2, RunningFiber, OwnerAside
<1>10. OrderInv'
  BY <1>1, OrderSame DEF IInv
<1> QED BY <1>8, <1>9, <1>10 DEF Rest

\* The call returns: the fiber is between calls, with no timer left.
LEMMA ReturnStep ==
  ASSUME IInv, QueueInv', Elapsed, NEW f \in Fiber, Running(f), Return(f),
         UNCHANGED <<events, waiter, ousted, m_fiber_list, cur, expired_cbs, due>>,
         f \notin m_timers', m_timers' \subseteq m_timers,
         \A g \in Fiber \ {f} : m_cb'[g] = m_cb[g]
  PROVE  Rest'
<1>1. /\ at'[f] = "run" /\ op'[f] = NoOp /\ ~timed'[f] /\ ~cancelled'[f]
      /\ \A g \in Fiber \ {f} : /\ at'[g] = at[g] /\ op'[g] = op[g] /\ timed'[g] = timed[g]
                                /\ cancelled'[g] = cancelled[g]
  BY FiberTypes DEF Return
<1>2. Listed' = Listed /\ Handed' = Handed /\ cur' = f /\ Held' = Held
  BY ListSame, TableStill DEF Handed, Running
<1>3. \A g \in Fiber \ {f} : Aside(g)
  BY <1>1, <1>2, OthersAside
<1>4. Place(f)' /\ Alarm(f)' /\ Due(f)'
  BY <1>1, <1>2, RunningFiber DEF Place, Alarm, Due
<1>5. PlaceInv' /\ AlarmInv' /\ DueInv'
  BY <1>3, <1>4, OneFiber
<1> QED BY <1>1, <1>5, RunningFiber, OwnerAside, OrderSame DEF Rest, IInv

\* The system call does not have to wait.
LEMMA TryIoStep ==
  ASSUME IInv, QueueInv', NEW f \in Fiber, TryIo(f)
  PROVE  Rest'
<1>1. /\ Running(f) /\ at[f] = "try" /\ Return(f)
      /\ UNCHANGED <<events, waiter, ousted, m_fiber_list, cur>>
      /\ UNCHANGED <<m_timers, m_cb, due, expired_cbs, uptime, wrapped>>
  BY DEF TryIo, timerVars, ioVars, tableVars, loopVars, IO!Exhaust, IO!ctxVars
<1>2. f \notin m_timers
  BY <1>1, RunningFiber DEF Alarm
<1>3. Elapsed
  BY <1>1, QueueTypes DEF Elapsed, IInv
<1> QED BY <1>1, <1>2, <1>3, ReturnStep

\* It says EAGAIN, and a timer may be started.
LEMMA StartTimerStep ==
  ASSUME IInv, QueueInv', NEW f \in Fiber, StartTimer(f)
  PROVE  Rest'
<1>1. /\ Running(f) /\ at[f] = "try" /\ at' = [at EXCEPT ![f] = "arm"]
      /\ UNCHANGED <<events, waiter, ousted, m_fiber_list, cur, op, cancelled>>
  BY DEF StartTimer, ioVars, tableVars, loopVars
<1>2. PICK ms \in IoTimeouts :
        /\ timed' = [timed EXCEPT ![f] = ms # None]
        /\ IF ms = None THEN UNCHANGED timerVars ELSE TM!AddTimer(f, ms, FALSE)
  BY DEF StartTimer
<1>3. /\ at'[f] = "arm" /\ timed'[f] = (ms # None)
      /\ \A g \in Fiber \ {f} : at'[g] = at[g] /\ timed'[g] = timed[g]
  BY <1>1, <1>2, FiberTypes
<1>4. /\ \A g \in Fiber \ {f} :
           (g \in m_timers' <=> g \in m_timers) /\ m_cb'[g] = m_cb[g] /\ due'[g] = due[g]
      /\ expired_cbs' = expired_cbs /\ Elapsed
      /\ ms = None => m_timers' = m_timers
  <2>1. CASE ms = None
    BY <1>2, <2>1, QueueTypes DEF timerVars, Elapsed, IInv
  <2>2. CASE ms # None
    <3>1. ms \in TimerDurations /\ TM!AddTimer(f, ms, FALSE) /\ uptime \in Nat
      BY <1>2, <2>2, QueueTypes DEF TimerDurations, IInv
    <3>2. /\ \A g \in Fiber \ {f} :
               (g \in m_timers' <=> g \in m_timers) /\ m_cb'[g] = m_cb[g] /\ due'[g] = due[g]
          /\ UNCHANGED <<expired_cbs, uptime>> /\ (wrapped => wrapped')
      BY <3>1, AddEffect DEF IInv
    <3> QED BY <2>2, <3>1, <3>2 DEF Elapsed
  <2> QED BY <2>1, <2>2
<1>5. Listed' = Listed /\ Handed' = Handed /\ cur' = f /\ Held' = Held
  BY <1>1, ListSame, TableStill DEF Handed, Running
<1>6. \A g \in Fiber \ {f} : Aside(g)
  BY <1>1, <1>3, <1>4, <1>5, OthersAside
<1>7. f \notin m_timers /\ ~cancelled[f]
  BY <1>1, RunningFiber DEF Alarm
<1>8. Place(f)' /\ Alarm(f)' /\ Due(f)'
  BY <1>1, <1>3, <1>4, <1>5, <1>7, RunningFiber DEF Place, Alarm, Due
<1>9. PlaceInv' /\ AlarmInv' /\ DueInv'
  BY <1>4, <1>6, <1>8, OneFiber
<1> QED BY <1>1, <1>3, <1>9, RunningFiber, OwnerAside, OrderSame DEF Rest, IInv

\* The call waits: the table holds the fiber from here on.
LEMMA ArmIoStep ==
  ASSUME IInv, QueueInv', TypeOK', NEW f \in Fiber, ArmIo(f)
  PROVE  Rest'
<1>1. /\ Running(f) /\ at[f] = "arm" /\ at' = [at EXCEPT ![f] = "wait"]
      /\ IO!AddEventOk(op[f][1], op[f][2], f)
      /\ cur' = None /\ UNCHANGED <<op, timed, cancelled>>
      /\ UNCHANGED <<m_timers, m_cb, due, expired_cbs, uptime, wrapped>>
  BY DEF ArmIo, Yield, timerVars
<1>2. at'[f] = "wait" /\ \A g \in Fiber \ {f} : at'[g] = at[g]
  BY <1>1, FiberTypes
<1>3. op[f] # NoOp
  BY <1>1, RunningFiber DEF Place
<1>4. PICK fd \in FD, ev \in Table!EventType : op[f] = <<fd, ev>>
  BY <1>3, FiberTypes, EntryTypes
<1>5. /\ events' = [events EXCEPT ![fd] = @ \cup {ev}]
      /\ waiter' = [waiter EXCEPT ![fd][ev] = f]
      /\ m_fiber_list' = m_fiber_list
  BY <1>1, <1>4 DEF IO!AddEventOk
<1>6. /\ events \in [FD -> SUBSET Table!EventType]
      /\ waiter \in [FD -> [Table!EventType -> Entry \cup {None}]]
  BY EntryTypes DEF IInv
<1>7. /\ ev \in events'[fd] /\ events'[fd] = events[fd] \cup {ev} /\ waiter'[fd][ev] = f
      /\ \A g \in FD : g # fd => events'[g] = events[g] /\ waiter'[g] = waiter[g]
      /\ \A e \in Table!EventType : e # ev => waiter'[fd][e] = waiter[fd][e]
  BY <1>5, <1>6
<1>8. \A g \in FD, e \in Table!EventType :
        /\ <<g, e>> \in Table!Armed' <=> <<g, e>> \in Table!Armed \cup {<<fd, ev>>}
        /\ <<g, e>> # <<fd, ev>> => waiter'[g][e] = waiter[g][e]
  BY <1>7 DEF Table!Armed
<1>9. Table!Armed' = Table!Armed \cup {<<fd, ev>>}
  BY <1>4, <1>8 DEF Table!Armed
<1>10. /\ Table!WaiterOf(<<fd, ev>>)' = f
       /\ \A p \in Table!Armed : p # <<fd, ev>> => Table!WaiterOf(p)' = Table!WaiterOf(p)
  <2>1. Table!WaiterOf(<<fd, ev>>)' = f
    BY <1>7 DEF Table!WaiterOf
  <2>2. ASSUME NEW p \in Table!Armed, p # <<fd, ev>>
        PROVE  Table!WaiterOf(p)' = Table!WaiterOf(p)
    <3>1. p[1] \in FD /\ p[2] \in Table!EventType /\ p = <<p[1], p[2]>>
      BY DEF Table!Armed
    <3> QED BY <1>8, <2>2, <3>1 DEF Table!WaiterOf
  <2> QED BY <2>1, <2>2
<1>11. /\ <<fd, ev>> \in Table!Armed => ousted' = ousted \cup {Table!WaiterOf(<<fd, ev>>)}
       /\ <<fd, ev>> \notin Table!Armed => ousted' = ousted
  <2>1. IO!Oust(fd, ev)
    BY <1>1, <1>4 DEF IO!AddEventOk
  <2> QED BY <1>4, <2>1 DEF IO!Oust, Table!Armed, Table!WaiterOf
<1>12. Held' = Held \cup {f}
  <2>1. Table!Waiting = {Table!WaiterOf(p) : p \in Table!Armed}
        /\ Table!Waiting' = {Table!WaiterOf(p)' : p \in Table!Armed'}
    BY DEF Table!Waiting, Table!WaiterOf
  <2>2. Held' \subseteq Held \cup {f}
    <3>1. Table!Waiting' \subseteq Table!Waiting \cup {f}
      BY <1>9, <1>10, <2>1
    <3>2. ousted' \subseteq ousted \cup Table!Waiting
      BY <1>11, <2>1
    <3> QED BY <3>1, <3>2 DEF Held
  <2>3. f \in Held'
    BY <1>9, <1>10, <2>1 DEF Held
  <2>4. ASSUME NEW p \in Table!Armed PROVE Table!WaiterOf(p) \in Held'
    <3>1. CASE p = <<fd, ev>>
      BY <1>11, <3>1 DEF Held
    <3>2. CASE p # <<fd, ev>>
      BY <1>9, <1>10, <2>1, <3>2 DEF Held
    <3> QED BY <3>1, <3>2
  <2>5. Held \subseteq Held'
    BY <1>11, <2>1, <2>4 DEF Held
  <2> QED BY <2>2, <2>3, <2>5
<1>13. Listed' = Listed
  BY <1>5, ListSame
<1>14. \A g \in Fiber \ {f} : Aside(g)
  <2>1. \A g \in Fiber \ {f} :
          /\ \A e \in {g, <<"timeout", g>>, <<"wake", g>>} : e \in Handed' <=> e \in Handed
          /\ cur' = g <=> cur = g
    BY <1>1, <1>13, HandedAside DEF Running
  <2> QED BY <1>1, <1>2, <1>12, <2>1 DEF Aside
<1>15. f \notin Handed' /\ <<"timeout", f>> \notin Handed' /\ <<"wake", f>> \notin Handed'
  BY <1>1, <1>13, RunningFiber DEF Handed
<1>16. Place(f)'
  BY <1>1, <1>2, <1>3, <1>12, <1>15 DEF Place
<1>17. Alarm(f)' /\ (~wrapped' => Due(f)')
  BY <1>1, <1>2, <1>15, RunningFiber DEF Alarm, Due
<1>18. PlaceInv' /\ AlarmInv' /\ DueInv'
  <2>1. Elapsed
    BY <1>1, QueueTypes DEF Elapsed, IInv
  <2> QED BY <1>14, <1>16, <1>17, <2>1, OneFiber
<1>19. OwnerInv'
  <2>1. ASSUME NEW p \in Table!Armed'
        PROVE  /\ Table!WaiterOf(p)' \in Fiber
               /\ op'[Table!WaiterOf(p)'] = p /\ at'[Table!WaiterOf(p)'] = "wait"
    <3>1. CASE p = <<fd, ev>>
      BY <1>1, <1>2, <1>4, <1>10, <3>1
    <3>2. CASE p \in Table!Armed /\ p # <<fd, ev>>
      <4>1. /\ Table!WaiterOf(p) \in Fiber /\ op[Table!WaiterOf(p)] = p
            /\ at[Table!WaiterOf(p)] = "wait"
        BY <3>2 DEF IInv, OwnerInv
      <4> QED BY <1>1, <1>2, <1>10, <3>2, <4>1
    <3> QED BY <1>9, <3>1, <3>2
  <2>2. ASSUME NEW w \in ousted' PROVE w \in Fiber /\ at'[w] = "wait"
    <3>1. w \in Fiber /\ at[w] = "wait"
      BY <1>11, <2>2 DEF IInv, OwnerInv
    <3> QED BY <1>1, <1>2, <3>1
  <2> QED BY <2>1, <2>2 DEF OwnerInv
<1> QED BY <1>5, <1>18, <1>19, OrderSame DEF Rest, IInv

\* add_event fails: the call returns, or the null timer ends the program.
LEMMA ArmIoFailsStep ==
  ASSUME IInv, QueueInv', NEW f \in Fiber, ArmIoFails(f)
  PROVE  Rest'
<1>1. Running(f) /\ UNCHANGED <<events, waiter, ousted, m_fiber_list, cur>>
  BY DEF ArmIoFails, ctxVars, loopVars
<1>2. CASE TM!Cancel(f) /\ Return(f)
  <2>1. /\ f \notin m_timers' /\ m_timers' \subseteq m_timers
        /\ \A g \in Fiber \ {f} : m_cb'[g] = m_cb[g]
        /\ UNCHANGED <<expired_cbs, uptime, due, wrapped>>
    BY <1>2, CancelEffect DEF IInv
  <2>2. Elapsed
    BY <2>1, QueueTypes DEF Elapsed, IInv
  <2> QED BY <1>1, <1>2, <2>1, <2>2, ReturnStep
<1>3. CASE UNCHANGED <<timerVars, fiberVars>>
  <2>1. /\ UNCHANGED <<at, op, timed, cancelled, m_timers, m_cb, due, expired_cbs>>
        /\ UNCHANGED <<uptime, wrapped>>
    BY <1>3 DEF timerVars, fiberVars
  <2>2. Elapsed
    BY <2>1, QueueTypes DEF Elapsed, IInv
  <2> QED BY <1>1, <2>1, <2>2, QuietStep
<1> QED BY <1>2, <1>3 DEF ArmIoFails

\* Resumed after the wait, the call gives up or tries again without a timer.
LEMMA WakeIoStep ==
  ASSUME IInv, QueueInv', NEW f \in Fiber, WakeIo(f)
  PROVE  Rest'
<1>1. Running(f) /\ at[f] = "wait" /\ UNCHANGED <<events, waiter, ousted, m_fiber_list, cur>>
  BY DEF WakeIo, ioVars, tableVars, loopVars
<1>2. CASE cancelled[f] /\ Return(f) /\ UNCHANGED timerVars
  <2>1. UNCHANGED <<m_timers, m_cb, due, expired_cbs, uptime, wrapped>>
    BY <1>2 DEF timerVars
  <2>2. f \notin m_timers
    BY <1>1, <1>2, RunningFiber DEF Alarm
  <2>3. Elapsed
    BY <2>1, QueueTypes DEF Elapsed, IInv
  <2> QED BY <1>1, <1>2, <2>1, <2>2, <2>3, ReturnStep
<1>3. CASE /\ ~cancelled[f]
           /\ IF timed[f] THEN TM!Cancel(f) ELSE UNCHANGED timerVars
           /\ timed' = [timed EXCEPT ![f] = FALSE]
           /\ at' = [at EXCEPT ![f] = "try"]
           /\ UNCHANGED <<op, cancelled, ops>>
  <2>1. /\ at'[f] = "try" /\ ~timed'[f] /\ ~cancelled'[f]
        /\ \A g \in Fiber \ {f} : at'[g] = at[g] /\ timed'[g] = timed[g]
    BY <1>3, FiberTypes
  <2>2. /\ f \notin m_timers' /\ m_timers' \subseteq m_timers
        /\ \A g \in Fiber \ {f} : m_cb'[g] = m_cb[g]
        /\ UNCHANGED <<expired_cbs, uptime, due, wrapped>>
    <3>1. CASE timed[f]
      BY <1>3, <3>1, CancelEffect DEF IInv
    <3>2. CASE ~timed[f]
      <4>1. f \notin m_timers
        BY <1>1, <3>2, RunningFiber DEF Alarm
      <4> QED BY <1>3, <3>2, <4>1 DEF timerVars
    <3> QED BY <3>1, <3>2
  <2>3. Listed' = Listed /\ Handed' = Handed /\ cur' = f /\ Held' = Held
    BY <1>1, ListSame, TableStill DEF Handed, Running
  <2>4. \A g \in Fiber \ {f} : Aside(g)
    BY <1>1, <1>3, <2>1, <2>2, <2>3, OthersAside
  <2>5. Place(f)' /\ Alarm(f)' /\ Due(f)'
    BY <1>1, <1>3, <2>1, <2>2, <2>3, RunningFiber DEF Place, Alarm, Due
  <2>6. PlaceInv' /\ AlarmInv' /\ DueInv'
    <3>1. Elapsed
      BY <2>2, QueueTypes DEF Elapsed, IInv
    <3> QED BY <2>4, <2>5, <3>1, OneFiber
  <2> QED BY <1>1, <1>3, <2>1, <2>6, RunningFiber, OwnerAside, OrderSame DEF Rest, IInv
<1> QED BY <1>2, <1>3 DEF WakeIo

\* A fiber goes to sleep: it is in the queue, or displaced from the start.
LEMMA SleepStep ==
  ASSUME IInv, QueueInv', NEW f \in Fiber, NEW ms \in Delays, Sleep(f, ms)
  PROVE  Rest'
<1>1. /\ Running(f) /\ at[f] = "run" /\ at' = [at EXCEPT ![f] = "sleep"] /\ cur' = None
      /\ UNCHANGED <<events, waiter, ousted, m_fiber_list, op, timed, cancelled>>
      /\ TM!AddTimer(f, ms, FALSE) /\ ms \in TimerDurations
  BY DEF Sleep, Begin, Yield, ioVars, tableVars, TimerDurations
<1>2. at'[f] = "sleep" /\ \A g \in Fiber \ {f} : at'[g] = at[g]
  BY <1>1, FiberTypes
<1>3. /\ m_cb'[f]
      /\ \A g \in Fiber \ {f} :
           (g \in m_timers' <=> g \in m_timers) /\ m_cb'[g] = m_cb[g] /\ due'[g] = due[g]
      /\ UNCHANGED <<expired_cbs, uptime>> /\ (wrapped => wrapped')
  BY <1>1, AddEffect DEF IInv
<1>4. Listed' = Listed /\ Held' = Held
  BY <1>1, ListSame, TableStill
<1>5. \A g \in Fiber \ {f} : Aside(g)
  BY <1>1, <1>2, <1>3, <1>4, OthersAside
<1>6. f \notin Handed' /\ <<"timeout", f>> \notin Handed' /\ <<"wake", f>> \notin Handed'
  BY <1>1, <1>4, RunningFiber DEF Handed
<1>7. f \in m_timers' \/ Displaced(f)'
  BY <1>3 DEF Displaced
<1>8. Place(f)'
  BY <1>1, <1>2, <1>4, <1>6, RunningFiber DEF Place
<1>9. ~timed[f] /\ ~cancelled[f]
  BY <1>1, RunningFiber DEF Alarm
<1>10. Alarm(f)' /\ Due(f)'
  BY <1>1, <1>2, <1>3, <1>6, <1>7, <1>9, RunningFiber DEF Alarm, Due
<1>11. PlaceInv' /\ AlarmInv' /\ DueInv'
  <2>1. Elapsed
    BY <1>3, QueueTypes DEF Elapsed, IInv
  <2> QED BY <1>5, <1>8, <1>10, <2>1, OneFiber
<1> QED BY <1>1, <1>2, <1>11, RunningFiber, OwnerAside, OrderSame DEF Rest, IInv

\* It goes on after the sleep.
LEMMA WakeSleeperStep ==
  ASSUME IInv, QueueInv', NEW f \in Fiber, WakeSleeper(f)
  PROVE  Rest'
<1>1. /\ Running(f) /\ at[f] = "sleep" /\ at' = [at EXCEPT ![f] = "run"]
      /\ UNCHANGED <<events, waiter, ousted, m_fiber_list, cur, op, timed, cancelled>>
      /\ UNCHANGED <<m_timers, m_cb, due, expired_cbs, uptime, wrapped>>
  BY DEF WakeSleeper, ioVars, tableVars, loopVars, timerVars
<1>2. at'[f] = "run" /\ \A g \in Fiber \ {f} : at'[g] = at[g]
  BY <1>1, FiberTypes
<1>3. Listed' = Listed /\ Handed' = Handed /\ cur' = f /\ Held' = Held
  BY <1>1, ListSame, TableStill DEF Handed, Running
<1>4. \A g \in Fiber \ {f} : Aside(g)
  BY <1>1, <1>2, <1>3, OthersAside
<1>5. Place(f)' /\ Alarm(f)' /\ Due(f)'
  BY <1>1, <1>2, <1>3, RunningFiber DEF Place, Alarm, Due
<1>6. PlaceInv' /\ AlarmInv' /\ DueInv'
  <2>1. Elapsed
    BY <1>1, QueueTypes DEF Elapsed, IInv
  <2> QED BY <1>4, <1>5, <2>1, OneFiber
<1> QED BY <1>1, <1>2, <1>6, RunningFiber, OwnerAside, OrderSame DEF Rest, IInv

\* It yields the processor and comes last on the list.
LEMMA YieldStep ==
  ASSUME IInv, QueueInv', NEW f \in Fiber, YieldToReady(f)
  PROVE  Rest'
<1>1. /\ Running(f) /\ at[f] = "run" /\ m_fiber_list' = Append(m_fiber_list, f) /\ cur' = None
      /\ UNCHANGED <<events, waiter, ousted, at, op, timed, cancelled>>
      /\ UNCHANGED <<m_timers, m_cb, due, expired_cbs, uptime, wrapped>>
  BY DEF YieldToReady, Begin, Yield, tableVars, timerVars
<1>2. /\ Listed' = Listed \cup {f}
      /\ \A i \in DOMAIN m_fiber_list : m_fiber_list'[i] = m_fiber_list[i]
      /\ \A i \in DOMAIN m_fiber_list' \ DOMAIN m_fiber_list :
           m_fiber_list'[i] = f /\ \A j \in DOMAIN m_fiber_list : j < i
  BY <1>1, Appended, FiberTypes, Entries
<1>3. \A g \in Fiber \ {f} : Aside(g)
  BY <1>1, <1>2, OthersAside
<1>4. f \in Handed' /\ <<"timeout", f>> \notin Handed' /\ <<"wake", f>> \notin Handed'
      /\ Held' = Held
  <2>1. <<"timeout", f>> # f /\ <<"wake", f>> # f
    BY Entries
  <2> QED BY <1>1, <1>2, <2>1, RunningFiber, TableStill DEF Handed
<1>5. Place(f)' /\ Alarm(f)' /\ Due(f)'
  BY <1>1, <1>4, RunningFiber DEF Place, Alarm, Due
<1>6. PlaceInv' /\ AlarmInv' /\ DueInv'
  <2>1. Elapsed
    BY <1>1, QueueTypes DEF Elapsed, IInv
  <2> QED BY <1>3, <1>5, <2>1, OneFiber
<1>7. OrderInv'
  BY <1>2, OrderGrown DEF IInv
<1> QED BY <1>1, <1>6, <1>7, RunningFiber, OwnerAside DEF Rest, IInv

\* It returns from its function and is gone.
LEMMA FinishStep ==
  ASSUME IInv, QueueInv', NEW f \in Fiber, Finish(f)
  PROVE  Rest'
<1>1. /\ Running(f) /\ at[f] = "run" /\ at' = [at EXCEPT ![f] = "done"] /\ cur' = None
      /\ UNCHANGED <<events, waiter, ousted, m_fiber_list, op, timed, cancelled>>
      /\ UNCHANGED <<m_timers, m_cb, due, expired_cbs, uptime, wrapped>>
  BY DEF Finish, Yield, ioVars, tableVars, timerVars
<1>2. at'[f] = "done" /\ \A g \in Fiber \ {f} : at'[g] = at[g]
  BY <1>1, FiberTypes
<1>3. Listed' = Listed /\ Held' = Held
  BY <1>1, ListSame, TableStill
<1>4. \A g \in Fiber \ {f} : Aside(g)
  BY <1>1, <1>2, <1>3, OthersAside
<1>5. f \notin Handed' /\ <<"timeout", f>> \notin Handed' /\ <<"wake", f>> \notin Handed'
  BY <1>1, <1>3, RunningFiber DEF Handed
<1>6. Place(f)' /\ Alarm(f)' /\ Due(f)'
  BY <1>1, <1>2, <1>3, <1>5, RunningFiber DEF Place, Alarm, Due
<1>7. PlaceInv' /\ AlarmInv' /\ DueInv'
  <2>1. Elapsed
    BY <1>1, QueueTypes DEF Elapsed, IInv
  <2> QED BY <1>4, <1>6, <2>1, OneFiber
<1> QED BY <1>1, <1>2, <1>7, RunningFiber, OwnerAside, OrderSame DEF Rest, IInv

\* The callback of a sleep puts the sleeper on the list.
LEMMA RunWakeStep ==
  ASSUME IInv, QueueInv', NEW f \in Fiber, RunWake(f)
  PROVE  Rest'
<1>1. /\ cur = <<"wake", f>> /\ cur' = None /\ m_fiber_list' = Append(m_fiber_list, f)
      /\ UNCHANGED <<events, waiter, ousted, at, op, timed, cancelled>>
      /\ UNCHANGED <<m_timers, m_cb, due, expired_cbs, uptime, wrapped>>
  BY DEF RunWake, Yield, tableVars, timerVars, fiberVars
<1>2. <<"wake", f>> \in Handed /\ <<"wake", f>> \notin Listed /\ Place(f) /\ Alarm(f)
      /\ (~wrapped => Due(f))
  BY <1>1 DEF Handed, IInv, LoopInv, PlaceInv, AlarmInv, DueInv
<1>3. at[f] = "sleep" /\ f \notin m_timers /\ f \notin Handed /\ f \notin Held
  <2>1. at[f] = "sleep" /\ f \notin m_timers /\ f \notin Handed
    BY <1>2 DEF Alarm
  <2>2. f \notin Held
    BY <2>1 DEF IInv, OwnerInv, Table!Waiting, Table!WaiterOf, Held
  <2> QED BY <2>1, <2>2
<1>4. /\ Listed' = Listed \cup {f}
      /\ \A i \in DOMAIN m_fiber_list : m_fiber_list'[i] = m_fiber_list[i]
      /\ \A i \in DOMAIN m_fiber_list' \ DOMAIN m_fiber_list :
           m_fiber_list'[i] = f /\ \A j \in DOMAIN m_fiber_list : j < i
  BY <1>1, Appended, FiberTypes, Entries
<1>5. \A g \in Fiber \ {f} : Aside(g)
  <2>1. \A g \in Fiber \ {f} :
          /\ \A e \in {g, <<"timeout", g>>, <<"wake", g>>} : e \in Handed' <=> e \in Handed
          /\ cur' = g <=> cur = g
    BY <1>1, <1>4, HandedAside
  <2> QED BY <1>1, <2>1, TableStill DEF Aside
<1>6. f \in Handed' /\ <<"wake", f>> \notin Handed' /\ cur' # f
      /\ (<<"timeout", f>> \in Handed' => <<"timeout", f>> \in Handed)
      /\ Held' = Held
  <2>1. <<"timeout", f>> # f /\ <<"wake", f>> # f /\ f # None /\ <<"timeout", f>> # None
        /\ <<"wake", f>> # None
    BY Entries
  <2> QED BY <1>1, <1>2, <1>4, <2>1, TableStill DEF Handed
<1>7. Place(f)'
  BY <1>1, <1>2, <1>3, <1>6 DEF Place
<1>8. Alarm(f)' /\ (~wrapped' => Due(f)')
  BY <1>1, <1>2, <1>3, <1>6 DEF Alarm, Due
<1>9. PlaceInv' /\ AlarmInv' /\ DueInv'
  <2>1. Elapsed
    BY <1>1, QueueTypes DEF Elapsed, IInv
  <2> QED BY <1>5, <1>7, <1>8, <2>1, OneFiber
<1>10. OrderInv'
  BY <1>4, OrderGrown DEF IInv
<1> QED BY <1>1, <1>3, <1>9, <1>10, OwnerAside DEF Rest, IInv

\* Every step keeps what is said of the fibers.
LEMMA RestStep ==
  ASSUME IInv, Next
  PROVE  Rest'
<1>1. QueueInv' /\ TableInv' /\ TypeOK'
  BY QueueStep, TableStep, TypeStep
<1>2. ASSUME TM!GetNextTime \/ TM!TimerManagerStop \/ TM!Tick \/ UNCHANGED timerVars,
             UNCHANGED <<events, waiter, ousted, m_fiber_list, cur, at, op, timed, cancelled>>
      PROVE  Rest'
  BY <1>1, <1>2, LookEffect, QuietStep DEF Elapsed, IInv
<1>3. CASE AskToStop \/ ReadNextTime \/ ComputeTimeout
  BY <1>2, <1>3 DEF AskToStop, ReadNextTime, ComputeTimeout, ioVars, tableVars, fiberVars
<1>4. CASE ReturnFromWait
  <2>1. UNCHANGED timerVars
        /\ UNCHANGED <<events, waiter, ousted, m_fiber_list, cur, at, op, timed, cancelled>>
    BY <1>4 DEF ReturnFromWait, IO!EpollWait, IO!ctxVars, fiberVars
  <2> QED BY <1>2, <2>1
<1>5. CASE DispatchBatch
  <2>1. UNCHANGED <<cur, at, op, timed, cancelled, timerVars>>
    BY <1>5 DEF DispatchBatch, fiberVars
  <2>2. CASE UNCHANGED ioVars
    BY <1>2, <2>1, <2>2 DEF ioVars, tableVars
  <2>3. CASE \E fd \in FD : IO!Dispatch(fd)
    BY <1>1, <2>1, <2>3, Moves, MovesStep
  <2> QED BY <1>5, <2>2, <2>3 DEF DispatchBatch
<1>6. CASE KernelEdge \/ Clock
  BY <1>2, <1>6 DEF KernelEdge, Clock, IO!Edge, IO!ctxVars, ioVars, tableVars, loopVars, fiberVars
<1>7. CASE Loop
  BY <1>1, <1>3, <1>4, <1>5, <1>7, PickStep, ExpireStep, ScheduleStep DEF Loop
<1>8. ASSUME NEW f \in Fiber, NEW fd \in FD, CloseFd(f, fd) \/ OpenFd(f, fd) PROVE Rest'
  <2>1. UNCHANGED <<cur, at, op, timed, cancelled, timerVars>>
    BY <1>8 DEF CloseFd, OpenFd, loopVars
  <2>2. CASE CloseFd(f, fd)
    BY <1>1, <2>1, <2>2, Moves, MovesStep DEF CloseFd
  <2>3. CASE OpenFd(f, fd)
    BY <1>2, <2>1, <2>3 DEF OpenFd, IO!Open, IO!ctxVars
  <2> QED BY <1>8, <2>2, <2>3
<1>9. CASE Execute
  BY <1>1, <1>8, <1>9, BeginIoStep, TryIoStep, StartTimerStep, ArmIoStep, ArmIoFailsStep,
     WakeIoStep, SleepStep, WakeSleeperStep, YieldStep, FinishStep, TimeoutStep, RunWakeStep
  DEF Execute
<1> QED BY <1>6, <1>7, <1>9 DEF Next, Program

-----------------------------------------------------------------------------
(***************************************************************************)
(* The invariant holds from the start and in every step.                   *)
(***************************************************************************)
LEMMA StepInv == IInv /\ [Next]_vars => IInv'
<1> SUFFICES ASSUME IInv, [Next]_vars PROVE IInv'
  OBVIOUS
<1>1. CASE Next
  BY <1>1, TableStep, QueueStep, LoopStep, RestStep DEF IInv, Rest
<1>2. CASE UNCHANGED vars
  <2>1. /\ UNCHANGED <<events, waiter, m_pending_event_count, ousted, m_fiber_list, batch, aborted, open,
                       level, registered, interest, queued>>
        /\ UNCHANGED <<cur, at, op, timed, cancelled, ops, timerVars, pc, limit, pipe, drain,
                       m_sleep_sign>>
    BY <1>2 DEF vars, ioVars, tableVars, loopVars, pipeVars
  <2>2. TableInv'
    <3>1. Table!TypeOK'
      BY <2>1 DEF IInv, TableInv, Table!TypeOK
    <3> QED BY <2>1, <3>1, TableKept DEF IInv
  <2>3. QueueInv'
    BY <2>1, QueueKept DEF IInv, QueueMove
  <2>4. LoopInv'
    <3>1. TypeOK'
      BY <2>1 DEF IInv, LoopInv, TypeOK
    <3> QED BY <2>1, <3>1, ListSame DEF IInv, LoopInv, timerVars
  <2>5. Rest'
    BY <2>1, <2>3, LookEffect, QuietStep DEF Elapsed, IInv
  <2> QED BY <2>2, <2>3, <2>4, <2>5 DEF IInv, Rest
<1> QED BY <1>1, <1>2

\* At the start all fibers are on the list, each once, and nothing is armed.
LEMMA StartInv == Init => IInv
<1> SUFFICES ASSUME Init PROVE IInv
  OBVIOUS
<1>1. /\ DOMAIN m_fiber_list = 1 .. Cardinality(Fiber) /\ Cardinality(Fiber) \in Nat
      /\ \A i \in DOMAIN m_fiber_list : m_fiber_list[i] \in Fiber
      /\ \A i, j \in DOMAIN m_fiber_list : m_fiber_list[i] = m_fiber_list[j] => i = j
      /\ \A f \in Fiber : \E i \in DOMAIN m_fiber_list : m_fiber_list[i] = f
      /\ m_fiber_list \in [1 .. Cardinality(Fiber) -> Fiber]
  <2>1. Cardinality(Fiber) \in Nat
    BY LoopAssumption, FS_CardinalityType
  <2> QED BY <2>1 DEF Init, Bijection, Injection, Surjection, IsInjective
<1>2. m_fiber_list \in Seq(Fiber) /\ m_fiber_list \in Seq(Entry) /\ Listed = Fiber
  <2>1. m_fiber_list \in Seq(Fiber)
    BY <1>1
  <2>2. \A i \in DOMAIN m_fiber_list : m_fiber_list[i] \in Entry
    BY <1>1, Entries
  <2>3. m_fiber_list \in [1 .. Cardinality(Fiber) -> Entry]
    BY <1>1, <2>2
  <2>4. m_fiber_list \in Seq(Entry)
    BY <1>1, <2>3
  <2> QED BY <1>1, <2>1, <2>4 DEF Listed
<1>3. Table!InitContexts
  BY TableSteps DEF Init
<1>4. Table!Armed = {} /\ Table!Waiting = {} /\ ousted = {} /\ Held = {}
  BY <1>3 DEF Table!Armed, Table!Waiting, Table!InitContexts, Held
<1>5. TableInv
  <2>1. Table!TypeOK
    <3>1. /\ events \in [FD -> SUBSET Table!EventType] /\ interest \in [FD -> SUBSET Table!EventType]
          /\ batch \in [FD -> SUBSET Table!Condition] /\ level \in [FD -> SUBSET Table!Condition]
      BY <1>3 DEF Table!InitContexts
    <3>2. waiter \in [FD -> [Table!EventType -> Entry \cup {None}]]
      BY <1>3 DEF Table!InitContexts
    <3>3. /\ m_pending_event_count \in Int /\ aborted \in BOOLEAN
          /\ ousted \subseteq Entry /\ open \subseteq FD /\ registered \subseteq FD /\ queued \subseteq FD
      <4>1. aborted = FALSE /\ open = FD /\ registered = {} /\ queued = {}
        BY <1>3, Zenon DEF Table!InitContexts
      <4>2. m_pending_event_count \in Int
        BY <1>3 DEF Table!InitContexts
      <4>3. aborted \in BOOLEAN
        BY <4>1
      <4> QED BY <1>4, <4>1, <4>2, <4>3
    <3> QED BY <1>2, <3>1, <3>2, <3>3 DEF Table!TypeOK
  <2>2. Table!ContextMatch
    BY <1>3 DEF Table!ContextMatch, Table!InitContexts
  <2>3. Table!Counted
    <3>1. Cardinality({}) = 0 /\ IsFiniteSet({})
      BY FS_EmptySet
    <3>2. Table!Cardinality({}) = 0 /\ Table!IsFiniteSet({})
      BY <3>1 DEF Table!Cardinality, Cardinality, Table!IsFiniteSet, IsFiniteSet
    <3> QED BY <1>3, <1>4, <3>2 DEF Table!Counted, Table!PendingExact, Table!InitContexts
  <2>4. Table!ArmedOnce /\ Table!Apart /\ Table!ListOnce /\ Table!OustedOut
    BY <1>1, <1>4 DEF Table!ArmedOnce, Table!Apart, Table!ListOnce, Table!OustedOut
  <2> QED BY <2>1, <2>2, <2>3, <2>4 DEF TableInv
<1>6. QueueInv
  <2>1. Queue!Init
    BY QueueSteps DEF Init
  <2>2. Queue!IInv
    BY <2>1, QueueAssumption, Queue!InitInv
  <2> QED BY <2>1, <2>2 DEF QueueInv, Queue!Init
<1>7. expired_cbs = {} /\ m_timers = {}
  BY DEF Init, TM!Init
<1>8. LoopInv
  <2>1. TypeOK
    <3>1. /\ at \in [Fiber -> {"run", "try", "arm", "wait", "sleep", "done"}]
          /\ timed \in [Fiber -> BOOLEAN] /\ cancelled \in [Fiber -> BOOLEAN]
      BY DEF Init
    <3>a. /\ pc = "pick" /\ cur = None /\ m_sleep_sign \in BOOLEAN /\ limit = 0
          /\ pipe \in BOOLEAN /\ drain \in BOOLEAN
      BY DEF Init
    <3>2. op \in [Fiber -> (FD \X IO!EventType) \cup {NoOp}]
      BY DEF Init
    <3>3. ops \in [Fiber -> 0 .. MaxOps]
      BY LoopAssumption DEF Init
    <3> QED BY <1>2, <3>1, <3>2, <3>3, <3>a DEF TypeOK
  <2>2. None \notin Listed
    BY <1>2, NoneUnlisted DEF Listed
  <2> QED BY <1>7, <2>1, <2>2 DEF Init, LoopInv
<1>9. Handed = Fiber \cup {None}
  BY <1>2 DEF Handed, Init
<1>10. OwnerInv
  BY <1>4 DEF OwnerInv, Init
<1>11. PlaceInv
  BY <1>4, <1>9, Entries DEF Init, PlaceInv, Place
<1>12. \A f, g \in Fiber : <<"timeout", f>> # g /\ <<"wake", f>> # g /\ g # None
         /\ <<"timeout", f>> # None /\ <<"wake", f>> # None
  BY Entries
<1>13. AlarmInv /\ DueInv
  BY <1>7, <1>9, <1>12 DEF Init, AlarmInv, Alarm, DueInv, Due
<1>14. OrderInv
  BY <1>1, <1>12 DEF OrderInv
<1> QED BY <1>5, <1>6, <1>8, <1>10, <1>11, <1>13, <1>14 DEF IInv

\* The invariant of the whole loop holds in every reachable state.
THEOREM Invariance == Spec => []IInv
<1>1. IInv /\ [Next]_vars => IInv'
  BY StepInv
<1> QED BY <1>1, StartInv, PTL DEF Spec

-----------------------------------------------------------------------------
\* What stopping() has seen when the loop has ended.
Left == pc = "exited" => m_timers = {} /\ m_pending_event_count = 0

\* Only AskToStop ends the loop, and after that nothing is timed or armed any more.
LEMMA LeftStep ==
  ASSUME IInv, Left, [Next]_vars
  PROVE  Left'
<1>1. CASE UNCHANGED vars
  BY <1>1 DEF vars, timerVars, ioVars, tableVars, loopVars, Left
<1>2. CASE Next
  <2>1. CASE AskToStop
    BY <2>1 DEF AskToStop, Stopping, ioVars, tableVars, Left
  <2>2. CASE Pick \/ ReadNextTime \/ ComputeTimeout \/ ReturnFromWait \/ Expire \/ ScheduleExpired
    BY <2>2 DEF Pick, ReadNextTime, ComputeTimeout, ReturnFromWait, Expire, ScheduleExpired, Left
  <2>3. CASE DispatchBatch
    BY <2>3 DEF DispatchBatch, Left
  <2>4. CASE Execute
    <3>1. ASSUME NEW f \in Fiber,
                 \/ \E fd \in FD, ev \in IO!EventType : BeginIo(f, fd, ev)
                 \/ TryIo(f) \/ StartTimer(f) \/ ArmIoFails(f) \/ WakeIo(f) \/ WakeSleeper(f)
                 \/ \E fd \in FD : CloseFd(f, fd) \/ OpenFd(f, fd)
          PROVE  pc' = pc
      BY <3>1 DEF BeginIo, TryIo, StartTimer, ArmIoFails, WakeIo, WakeSleeper, CloseFd, OpenFd,
         loopVars
    <3>2. ASSUME NEW f \in Fiber,
                 \/ \E ms \in Delays : Sleep(f, ms)
                 \/ ArmIo(f) \/ YieldToReady(f) \/ Finish(f) \/ RunTimeout(f) \/ RunWake(f)
          PROVE  pc' = "pick"
      BY <3>2 DEF Sleep, ArmIo, YieldToReady, Finish, RunTimeout, RunWake, Yield
    <3>3. pc # "exited"
      BY <1>2 DEF Next, Program, Alive
    <3> QED BY <2>4, <3>1, <3>2, <3>3 DEF Execute, Left
  <2>5. CASE Alive /\ (KernelEdge \/ Clock)
    BY <2>5 DEF Alive, KernelEdge, Clock, loopVars, Left
  <2> QED BY <1>2, <2>1, <2>2, <2>3, <2>4, <2>5 DEF Next, Program, Loop
<1> QED BY <1>1, <1>2

\* With no pending event nothing is armed, and nobody was ever overwritten.
LEMMA NothingArmed ==
  ASSUME IInv, m_pending_event_count = 0
  PROVE  Table!Armed = {} /\ IO!Armed = {} /\ Held = {}
<1>1. IsFiniteSet(Table!Armed) /\ IsFiniteSet(ousted)
  <2>1. Table!IsFiniteSet(Table!Armed)
    BY TableAssumption, Table!ArmedFinite DEF IInv, TableInv
  <2>2. Table!IsFiniteSet(ousted)
    BY DEF IInv, TableInv, Table!Counted
  <2> QED BY <2>1, <2>2 DEF Table!IsFiniteSet, IsFiniteSet
<1>2. Cardinality(Table!Armed) + Cardinality(ousted) = 0
  <2>1. Table!Cardinality(Table!Armed) + Table!Cardinality(ousted) = 0
    BY DEF IInv, TableInv, Table!Counted, Table!PendingExact
  <2> QED BY <2>1 DEF Table!Cardinality, Cardinality
<1>3. Cardinality(Table!Armed) \in Nat /\ Cardinality(ousted) \in Nat
  BY <1>1, FS_CardinalityType
<1>4. Cardinality(Table!Armed) = 0 /\ Cardinality(ousted) = 0
  BY <1>2, <1>3
<1>5. Table!Armed = {} /\ ousted = {}
  BY <1>1, <1>4, FS_EmptySet
<1>6. IO!Armed = Table!Armed
  BY EntryTypes DEF IO!Armed, Table!Armed
<1> QED BY <1>5, <1>6 DEF Table!Waiting, Held

\* So the fibers are finished, or sleep under a timer that is not queued.
LEMMA LeftDrained == IInv /\ Left => DrainBeforeExit
<1> SUFFICES ASSUME IInv, Left, pc = "exited"
             PROVE  /\ m_fiber_list = <<>> /\ m_timers = {} /\ m_pending_event_count = 0
                    /\ IO!Armed = {}
                    /\ \A f \in Fiber : at[f] = "done" \/ (at[f] = "sleep" /\ Displaced(f))
  BY DEF DrainBeforeExit
<1>1. /\ m_fiber_list = <<>> /\ m_timers = {} /\ m_pending_event_count = 0
      /\ cur = None /\ expired_cbs = {}
  BY DEF Left, IInv, LoopInv
<1>2. IO!Armed = {} /\ Held = {}
  BY <1>1, NothingArmed
<1>3. Handed = {None}
  BY <1>1 DEF Handed, Listed
<1>4. ASSUME NEW f \in Fiber PROVE at[f] = "done" \/ (at[f] = "sleep" /\ Displaced(f))
  <2>1. f # None /\ <<"wake", f>> # None /\ Place(f) /\ Alarm(f)
    BY Entries DEF IInv, PlaceInv, AlarmInv
  <2>2. at[f] \in {"run", "try", "arm", "wait", "sleep", "done"}
    BY FiberTypes
  <2> QED BY <1>1, <1>2, <1>3, <2>1, <2>2 DEF Place, Alarm
<1> QED BY <1>1, <1>2, <1>4

-----------------------------------------------------------------------------
\* The loop's and the fibers' variables keep their types.
THEOREM LoopTypeCorrect == Spec => []TypeOK
<1>1. IInv => TypeOK
  BY Consequences
<1> QED BY <1>1, Invariance, PTL

\* No suspended fiber is out of everybody's reach, however calls, closes,
\* timeouts and dispatches interleave, but the one that a second fiber's wait
\* for the same event overwrote.
THEOREM AlwaysAWaker == Spec => []WakerExists
<1>1. IInv => WakerExists
  BY Consequences
<1> QED BY <1>1, Invariance, PTL

\* Nothing is scheduled twice, and run() never swaps in what runs or is done.
THEOREM ScheduledOnce == Spec => []EntryOnce
<1>1. IInv => EntryOnce
  BY Consequences
<1> QED BY <1>1, Invariance, PTL

\* A timeout callback always meets the call it was set for.
THEOREM TimeoutInTime == Spec => []TimeoutMeetsItsWait
<1>1. IInv => TimeoutMeetsItsWait
  BY Consequences
<1> QED BY <1>1, Invariance, PTL

\* Nobody sleeps or waits shorter than asked for, until an int is truncated.
THEOREM NeverBeforeTime == Spec => []NoEarlyWake
<1>1. IInv => NoEarlyWake
  BY Consequences
<1> QED BY <1>1, Invariance, PTL

\* The destructor goes on only when there is nothing left to run.
THEOREM DrainedAtExit == Spec => []DrainBeforeExit
<1>1. Init => Left
  BY DEF Init, Left
<1>2. IInv /\ Left /\ [Next]_vars => Left'
  BY LeftStep
<1>3. IInv /\ Left => DrainBeforeExit
  BY LeftDrained
<1> QED BY <1>1, <1>2, <1>3, Invariance, PTL DEF Spec
=============================================================================
