---------------------------- MODULE IoEventsProofs ----------------------------
(***************************************************************************)
(* Proofs about the event table for any finite set of descriptors, any     *)
(* waiters and any size of ep_events.                                      *)
(***************************************************************************)
EXTENDS IoEvents, FiniteSetTheorems, TLAPS

\* A context holds a waiter exactly when its event is armed.
ContextMatch ==
  \A fd \in FD, ev \in EventType : ev \in events[fd] <=> waiter[fd][ev] # None

\* KernelCovers and NoMissedEdge for one descriptor.
CoversAt(fd) ==
  /\ events[fd] # {} => fd \in registered /\ interest[fd] = events[fd]
  /\ events[fd] = {} => interest[fd] \subseteq {"WRITE"}

EdgeAt(fd) ==
  \A ev \in EventType :
    ev \in events[fd] /\ level[fd] \cap {ev, "ERR"} # {}
      => fd \in queued \/ batch[fd] \cap {ev, "ERR"} # {}

WatchAt(fd) == CoversAt(fd) /\ EdgeAt(fd)

IInv == TypeOK /\ ContextMatch /\ KernelCovers /\ NoMissedEdge

WaiterOf(p) == waiter[p[1]][p[2]]

\* The parts of WaiterOnce beside ContextMatch.
ArmedOnce == \A p, q \in Armed : WaiterOf(p) = WaiterOf(q) => p = q
Apart == \A p \in Armed, i \in DOMAIN m_fiber_list : WaiterOf(p) # m_fiber_list[i]
ListOnce ==
  \A i, j \in DOMAIN m_fiber_list : m_fiber_list[i] = m_fiber_list[j] => i = j
OustedOut ==
  /\ \A p \in Armed : WaiterOf(p) \notin ousted
  /\ \A i \in DOMAIN m_fiber_list : m_fiber_list[i] \notin ousted

\* Each overwritten wait is counted once: a waiter is overwritten once at most.
Counted == IsFiniteSet(ousted) /\ PendingExact

WInv == IInv /\ ArmedOnce /\ Apart /\ ListOnce /\ OustedOut /\ Counted

-----------------------------------------------------------------------------
\* Sets of events are finite, and how many there are in each.
LEMMA EventSets ==
  /\ IsFiniteSet(EventType)
  /\ \A S \in SUBSET EventType :
       IsFiniteSet(S) /\ Cardinality(S) \in Nat /\ Cardinality(S) \in Int
  /\ \A S \in SUBSET EventType : S \in {{}, {"READ"}, {"WRITE"}, {"READ", "WRITE"}}
  /\ Cardinality({}) = 0 /\ Cardinality({"READ"}) = 1 /\ Cardinality({"WRITE"}) = 1
  /\ Cardinality({"READ", "WRITE"}) = 2
<1>1. IsFiniteSet({"READ"}) /\ Cardinality({"READ"}) = 1 /\ Cardinality({"WRITE"}) = 1
  BY FS_Singleton
<1>2. {"READ", "WRITE"} = {"READ"} \cup {"WRITE"} /\ "WRITE" \notin {"READ"}
  OBVIOUS
<1>3. IsFiniteSet({"READ", "WRITE"}) /\ Cardinality({"READ", "WRITE"}) = 2
  BY <1>1, <1>2, FS_AddElement
<1>4. ASSUME NEW S \in SUBSET EventType
      PROVE  IsFiniteSet(S) /\ Cardinality(S) \in Nat /\ Cardinality(S) \in Int
  <2>1. S \in SUBSET {"READ", "WRITE"}
    BY DEF EventType
  <2>2. IsFiniteSet(S)
    BY <1>3, <2>1, FS_Subset
  <2>3. Cardinality(S) \in Nat
    BY <2>2, FS_CardinalityType
  <2> QED BY <2>2, <2>3
<1>5. ASSUME NEW S \in SUBSET EventType
      PROVE  S \in {{}, {"READ"}, {"WRITE"}, {"READ", "WRITE"}}
  BY DEF EventType
<1>6. Cardinality({}) = 0
  BY FS_EmptySet
<1>7. IsFiniteSet(EventType)
  BY <1>3 DEF EventType
<1> QED BY <1>1, <1>3, <1>4, <1>5, <1>6, <1>7

\* The kernel after an EPOLL_CTL_ADD or EPOLL_CTL_MOD.
LEMMA RegisterFacts ==
  ASSUME TypeOK, NEW fd \in FD, NEW S \in SUBSET EventType, Register(fd, S)
  PROVE  /\ open' = open /\ level' = level
         /\ registered' = registered \cup {fd}
         /\ interest' \in [FD -> SUBSET EventType]
         /\ interest'[fd] = S
         /\ \A g \in FD : g # fd => interest'[g] = interest[g]
         /\ queued' \subseteq FD
         /\ fd \in queued' <=> level[fd] \cap (S \cup {"ERR"}) # {}
         /\ \A g \in FD : g # fd => (g \in queued' <=> g \in queued)
  BY DEF Register, TypeOK

\* The kernel after an EPOLL_CTL_DEL.
LEMMA DeregisterFacts ==
  ASSUME TypeOK, NEW fd \in FD, Deregister(fd)
  PROVE  /\ open' = open /\ level' = level
         /\ registered' = registered \ {fd}
         /\ interest' \in [FD -> SUBSET EventType]
         /\ interest'[fd] = {}
         /\ \A g \in FD : g # fd => interest'[g] = interest[g]
         /\ queued' = queued \ {fd}
  BY DEF Deregister, TypeOK

\* The kernel is left watching what is left, or not at all.
LEMMA ModifyFacts ==
  ASSUME TypeOK, NEW fd \in FD, NEW left \in SUBSET EventType, Modify(fd, left)
  PROVE  /\ open' = open /\ level' = level
         /\ registered' \subseteq FD
         /\ \A g \in FD : g # fd => (g \in registered' <=> g \in registered)
         /\ fd \in registered' <=> left # {}
         /\ interest' \in [FD -> SUBSET EventType]
         /\ interest'[fd] = left
         /\ \A g \in FD : g # fd => interest'[g] = interest[g]
         /\ queued' \subseteq FD
         /\ left # {} /\ level[fd] \cap (left \cup {"ERR"}) # {} => fd \in queued'
         /\ \A g \in FD : g # fd => (g \in queued' <=> g \in queued)
<1>1. CASE left # {}
  <2>1. Register(fd, left)
    BY <1>1 DEF Modify
  <2> QED BY <1>1, <2>1, RegisterFacts DEF TypeOK
<1>2. CASE left = {}
  <2>1. Deregister(fd)
    BY <1>2 DEF Modify
  <2> QED BY <1>2, <2>1, DeregisterFacts DEF TypeOK
<1> QED BY <1>1, <1>2

\* The contexts after some events of a descriptor were forgotten.
LEMMA ForgetFacts ==
  ASSUME TypeOK, NEW fd \in FD, NEW S \in SUBSET EventType, Forget(fd, S)
  PROVE  /\ events' \in [FD -> SUBSET EventType]
         /\ events'[fd] = events[fd] \ S
         /\ \A g \in FD : g # fd => events'[g] = events[g] /\ waiter'[g] = waiter[g]
         /\ waiter' \in [FD -> [EventType -> Waiter \cup {None}]]
         /\ \A ev \in EventType :
              waiter'[fd][ev] = IF ev \in S THEN None ELSE waiter[fd][ev]
         /\ m_pending_event_count' = m_pending_event_count - Cardinality(S)
         /\ m_pending_event_count' \in Int
         /\ ousted' = ousted
<1>1. Cardinality(S) \in Int
  BY EventSets
<1>2. /\ events' \in [FD -> SUBSET EventType]
      /\ events'[fd] = events[fd] \ S
      /\ \A g \in FD : g # fd => events'[g] = events[g]
  BY DEF Forget, TypeOK
<1>3. /\ waiter' \in [FD -> [EventType -> Waiter \cup {None}]]
      /\ \A g \in FD : g # fd => waiter'[g] = waiter[g]
      /\ waiter'[fd] = [ev \in EventType |-> IF ev \in S THEN None ELSE waiter[fd][ev]]
  BY DEF Forget, TypeOK
<1>4. \A ev \in EventType : waiter'[fd][ev] = IF ev \in S THEN None ELSE waiter[fd][ev]
  BY <1>3
<1> QED BY <1>1, <1>2, <1>3, <1>4 DEF Forget, TypeOK

\* The waiters of armed events are waiters.
LEMMA WokenType ==
  ASSUME TypeOK, ContextMatch, NEW fd \in FD, NEW S \in SUBSET EventType,
         S \subseteq events[fd]
  PROVE  Woken(fd, S) \in Seq(Waiter)
<1>1. \A ev \in S : waiter[fd][ev] \in Waiter
  BY DEF TypeOK, ContextMatch
<1>2. "READ" \in S => <<waiter[fd]["READ"]>> \in Seq(Waiter)
  BY <1>1
<1>3. "WRITE" \in S => <<waiter[fd]["WRITE"]>> \in Seq(Waiter)
  BY <1>1
<1>4. <<>> \in Seq(Waiter)
  OBVIOUS
<1> QED BY <1>2, <1>3, <1>4 DEF Woken
-----------------------------------------------------------------------------
\* Waiters of armed events scheduled behind a list of waiters.
LEMMA TriggerType ==
  ASSUME TypeOK, ContextMatch, NEW fd \in FD, NEW S \in SUBSET EventType,
         S \subseteq events[fd], Trigger(fd, S)
  PROVE  m_fiber_list' \in Seq(Waiter)
<1>1. Woken(fd, S) \in Seq(Waiter)
  BY WokenType
<1>2. m_fiber_list \in Seq(Waiter)
  BY DEF TypeOK
<1> QED BY <1>1, <1>2 DEF Trigger

\* Every step keeps the types.
LEMMA TypeStep == TypeOK /\ ContextMatch /\ [Next]_vars => TypeOK'
<1> SUFFICES ASSUME TypeOK, ContextMatch, [Next]_vars PROVE TypeOK'
  OBVIOUS
<1> USE DEF TypeOK
<1>1. ASSUME NEW fd \in FD, NEW ev \in EventType, NEW w \in Waiter,
             AddEvent(fd, ev, w)
      PROVE  TypeOK'
  <2>1. CASE AddEventOk(fd, ev, w)
    <3>1. events[fd] \cup {ev} \in SUBSET EventType
      OBVIOUS
    <3>2. /\ registered' \subseteq FD /\ queued' \subseteq FD
          /\ interest' \in [FD -> SUBSET EventType]
          /\ open' = open /\ level' = level
      BY <2>1, <3>1, RegisterFacts DEF AddEventOk
    <3>3. /\ events' \in [FD -> SUBSET EventType]
          /\ waiter' \in [FD -> [EventType -> Waiter \cup {None}]]
      BY <2>1 DEF AddEventOk
    <3>4. aborted' \in BOOLEAN /\ ousted' \subseteq Waiter
      <4>1. CASE ev \in events[fd]
        <5>1. waiter[fd][ev] \in Waiter
          BY <4>1 DEF ContextMatch
        <5> QED BY <2>1, <4>1, <5>1 DEF AddEventOk, Oust
      <4>2. CASE ev \notin events[fd]
        BY <2>1, <4>2 DEF AddEventOk, Oust
      <4> QED BY <4>1, <4>2
    <3> QED BY <2>1, <3>2, <3>3, <3>4 DEF AddEventOk
  <2>2. CASE UNCHANGED vars
    BY <2>2 DEF vars
  <2> QED BY <1>1, <2>1, <2>2 DEF AddEvent
<1>2. ASSUME NEW fd \in FD, NEW ev \in EventType, DelEvent(fd, ev) PROVE TypeOK'
  <2>1. events[fd] \ {ev} \in SUBSET EventType /\ {ev} \in SUBSET EventType
    OBVIOUS
  <2> QED BY <1>2, <2>1, ModifyFacts, ForgetFacts DEF DelEvent
<1>3. ASSUME NEW fd \in FD, NEW ev \in EventType, CancelEvent(fd, ev) PROVE TypeOK'
  <2>1. events[fd] \ {ev} \in SUBSET EventType /\ {ev} \in SUBSET EventType
    OBVIOUS
  <2>2. CASE CancelEventOk(fd, ev)
    <3>1. m_fiber_list' \in Seq(Waiter)
      BY <2>1, <2>2, TriggerType DEF CancelEventOk
    <3> QED BY <2>1, <2>2, <3>1, ModifyFacts, ForgetFacts DEF CancelEventOk, Trigger
  <2>3. CASE UNCHANGED vars
    BY <2>3 DEF vars
  <2> QED BY <1>3, <2>2, <2>3 DEF CancelEvent
<1>4. ASSUME NEW fd \in FD, CancelAll(fd) PROVE TypeOK'
  <2>1. m_fiber_list' \in Seq(Waiter)
    BY <1>4, TriggerType DEF CancelAll
  <2> QED BY <1>4, <2>1, DeregisterFacts, ForgetFacts DEF CancelAll, Trigger
<1>5. ASSUME NEW fd \in FD, Close(fd) PROVE TypeOK'
  <2>1. /\ registered' \subseteq FD /\ queued' \subseteq FD /\ open' \subseteq FD
        /\ interest' \in [FD -> SUBSET EventType]
        /\ level' \in [FD -> SUBSET Condition]
        /\ batch' = batch /\ aborted' = aborted
    BY <1>5 DEF Close
  <2>2. CASE events[fd] # {} /\ fd \in registered
    <3>1. Trigger(fd, events[fd])
      BY <1>5, <2>2 DEF Close
    <3>2. m_fiber_list' \in Seq(Waiter)
      BY <3>1, TriggerType
    <3> QED BY <2>1, <3>1, <3>2, ForgetFacts DEF Trigger
  <2>3. CASE ~(events[fd] # {} /\ fd \in registered)
    BY <1>5, <2>1, <2>3 DEF Close, ctxVars
  <2> QED BY <2>2, <2>3
<1>6. ASSUME NEW fd \in FD, Open(fd) PROVE TypeOK'
  BY <1>6 DEF Open, ctxVars
<1>7. CASE Resume
  BY <1>7 DEF Resume, ctxVars, kernelVars
<1>8. CASE EpollWait(MaxEvents)
  <2>1. batch' \in [FD -> SUBSET Condition] /\ queued' \subseteq FD
    BY <1>8 DEF EpollWait, Reported, Pollable
  <2> QED BY <1>8, <2>1 DEF EpollWait, ctxVars
<1>9. ASSUME NEW fd \in FD, Dispatch(fd) PROVE TypeOK'
  <2>1. batch' \in [FD -> SUBSET Condition]
    BY <1>9 DEF Dispatch
  <2>2. CASE UNCHANGED <<ctxVars, m_fiber_list, aborted, kernelVars>>
    BY <2>1, <2>2 DEF ctxVars, kernelVars
  <2>3. CASE Modify(fd, events[fd] \ RealEvents(fd))
    <3>1. events[fd] \ RealEvents(fd) \in SUBSET EventType
      OBVIOUS
    <3>2. /\ registered' \subseteq FD /\ queued' \subseteq FD
          /\ interest' \in [FD -> SUBSET EventType]
          /\ open' = open /\ level' = level
      BY <2>3, <3>1, ModifyFacts
    <3>3. CASE Served(fd) \subseteq events[fd] /\ Trigger(fd, Served(fd)) /\ UNCHANGED aborted
      <4>1. Served(fd) \in SUBSET EventType
        BY <3>3
      <4>2. m_fiber_list' \in Seq(Waiter)
        BY <3>3, <4>1, TriggerType
      <4> QED BY <2>1, <3>2, <3>3, <4>1, <4>2, ForgetFacts DEF Trigger
    <3>4. CASE aborted' = TRUE /\ UNCHANGED <<ctxVars, m_fiber_list>>
      BY <2>1, <3>2, <3>4 DEF ctxVars
    <3> QED BY <1>9, <3>3, <3>4 DEF Dispatch, ctxVars, kernelVars
  <2> QED BY <1>9, <2>2, <2>3 DEF Dispatch
<1>10. ASSUME NEW fd \in FD, NEW c \in Condition, Edge(fd, c) PROVE TypeOK'
  BY <1>10 DEF Edge, ctxVars
<1>11. ASSUME NEW fd \in FD, NEW ev \in EventType, Exhaust(fd, ev) PROVE TypeOK'
  BY <1>11 DEF Exhaust, ctxVars
<1>12. CASE UNCHANGED vars
  BY <1>12 DEF vars
<1> QED
  BY <1>1, <1>2, <1>3, <1>4, <1>5, <1>6, <1>7, <1>8, <1>9, <1>10, <1>11, <1>12
  DEF Next, Step

-----------------------------------------------------------------------------
\* Every step keeps armed events and contexts in step.
LEMMA ContextStep == TypeOK /\ ContextMatch /\ [Next]_vars => ContextMatch'
<1> SUFFICES ASSUME TypeOK, ContextMatch, [Next]_vars,
                    NEW g \in FD, NEW e \in EventType
             PROVE  e \in events'[g] <=> waiter'[g][e] # None
  BY DEF ContextMatch
<1> DEFINE Match == e \in events'[g] <=> waiter'[g][e] # None
<1>0. e \in events[g] <=> waiter[g][e] # None
  BY DEF ContextMatch
<1>a. ASSUME NEW fd \in FD, NEW S \in SUBSET EventType, Forget(fd, S) PROVE Match
  BY <1>0, <1>a, ForgetFacts
<1>b. ASSUME UNCHANGED ctxVars PROVE Match
  BY <1>0, <1>b DEF ctxVars
<1>1. ASSUME NEW fd \in FD, NEW ev \in EventType, NEW w \in Waiter,
             AddEvent(fd, ev, w)
      PROVE  Match
  <2>1. CASE AddEventOk(fd, ev, w)
    <3>1. w # None
      BY IoAssumption
    <3>2. events'[g] = IF g = fd THEN events[g] \cup {ev} ELSE events[g]
      BY <2>1 DEF AddEventOk, TypeOK
    <3>3. waiter'[g][e] = IF g = fd /\ e = ev THEN w ELSE waiter[g][e]
      BY <2>1 DEF AddEventOk, TypeOK
    <3> QED BY <1>0, <3>1, <3>2, <3>3
  <2>2. CASE UNCHANGED vars
    BY <1>b, <2>2 DEF vars, ctxVars
  <2> QED BY <1>1, <2>1, <2>2 DEF AddEvent
<1>2. ASSUME NEW fd \in FD, NEW ev \in EventType, DelEvent(fd, ev) PROVE Match
  BY <1>2, <1>a DEF DelEvent
<1>3. ASSUME NEW fd \in FD, NEW ev \in EventType, CancelEvent(fd, ev) PROVE Match
  BY <1>3, <1>a, <1>b DEF CancelEvent, CancelEventOk, Trigger, vars, ctxVars
<1>4. ASSUME NEW fd \in FD, CancelAll(fd) \/ Close(fd) PROVE Match
  <2>1. events[fd] \in SUBSET EventType
    BY DEF TypeOK
  <2>2. Forget(fd, events[fd]) \/ UNCHANGED ctxVars
    BY <1>4 DEF CancelAll, Close, Trigger
  <2> QED BY <2>1, <2>2, <1>a, <1>b
<1>5. ASSUME NEW fd \in FD, Dispatch(fd) PROVE Match
  <2>1. CASE Served(fd) \subseteq events[fd] /\ Trigger(fd, Served(fd))
    <3>1. Served(fd) \in SUBSET EventType
      BY <2>1 DEF TypeOK
    <3> QED BY <2>1, <3>1, <1>a DEF Trigger
  <2>2. CASE UNCHANGED ctxVars
    BY <2>2, <1>b
  <2> QED BY <1>5, <2>1, <2>2 DEF Dispatch, ctxVars
<1>6. ASSUME \/ Resume \/ EpollWait(MaxEvents) \/ UNCHANGED vars
             \/ \E fd \in FD : Open(fd)
             \/ \E fd \in FD, c \in Condition : Edge(fd, c)
             \/ \E fd \in FD, ev \in EventType : Exhaust(fd, ev)
      PROVE  Match
  <2>1. UNCHANGED ctxVars
    BY <1>6 DEF Resume, EpollWait, Open, Edge, Exhaust, vars, ctxVars
  <2> QED BY <2>1, <1>b
<1> QED BY <1>1, <1>2, <1>3, <1>4, <1>5, <1>6 DEF Next, Step

-----------------------------------------------------------------------------
\* Only so many events are armed.
LEMMA ArmedFinite == ASSUME TypeOK PROVE IsFiniteSet(Armed) /\ Cardinality(Armed) \in Nat
<1>1. IsFiniteSet(FD \X EventType)
  BY EventSets, IoAssumption, FS_Product
<1>2. Armed \in SUBSET (FD \X EventType)
  BY DEF Armed
<1>3. IsFiniteSet(Armed)
  BY <1>1, <1>2, FS_Subset
<1> QED BY <1>3, FS_CardinalityType

\* Forgetting armed events takes as many off the number of armed events as off
\* the pending count.
LEMMA ForgetCount ==
  ASSUME TypeOK, NEW fd \in FD, NEW S \in SUBSET EventType, S \subseteq events[fd],
         Counted, Forget(fd, S)
  PROVE  Counted'
<1> DEFINE r == <<fd, "READ">>
           w == <<fd, "WRITE">>
<1>0. IsFiniteSet(Armed) /\ Cardinality(Armed) \in Nat
  BY ArmedFinite
<1>b. /\ ousted' = ousted /\ IsFiniteSet(ousted) /\ Cardinality(ousted) \in Nat
      /\ Cardinality(ousted') = Cardinality(ousted)
  BY ForgetFacts, FS_CardinalityType DEF Counted
<1>1. Armed' = Armed \ {p \in FD \X EventType : p[1] = fd /\ p[2] \in S}
  BY ForgetFacts DEF Armed
<1>2. m_pending_event_count' = Cardinality(Armed) + Cardinality(ousted) - Cardinality(S)
  <2>1. m_pending_event_count = Cardinality(Armed) + Cardinality(ousted)
    BY DEF Counted, PendingExact
  <2>2. m_pending_event_count' = m_pending_event_count - Cardinality(S)
    BY ForgetFacts
  <2>3. Cardinality(S) \in Nat
    BY EventSets
  <2> QED BY <1>0, <1>b, <2>1, <2>2, <2>3
<1>c. ASSUME Cardinality(Armed') = Cardinality(Armed) - Cardinality(S) PROVE Counted'
  <2>1. Cardinality(S) \in Nat
    BY EventSets
  <2> QED BY <1>0, <1>b, <1>2, <1>c, <2>1 DEF Counted, PendingExact
<1>3. CASE S = {}
  <2>1. Armed' = Armed
    BY <1>1, <1>3
  <2> QED BY <1>0, <1>3, <2>1, <1>c, EventSets
<1>4. CASE S = {"READ"}
  <2>1. Armed' = Armed \ {r} /\ r \in Armed
    BY <1>1, <1>4 DEF Armed, EventType
  <2>2. Cardinality(Armed \ {r}) = Cardinality(Armed) - 1
    BY <1>0, <2>1, FS_RemoveElement
  <2>3. Cardinality(Armed') = Cardinality(Armed) - 1
    BY <2>1, <2>2
  <2> QED BY <1>4, <2>3, <1>c, EventSets
<1>5. CASE S = {"WRITE"}
  <2>1. Armed' = Armed \ {w} /\ w \in Armed
    BY <1>1, <1>5 DEF Armed, EventType
  <2>2. Cardinality(Armed \ {w}) = Cardinality(Armed) - 1
    BY <1>0, <2>1, FS_RemoveElement
  <2>3. Cardinality(Armed') = Cardinality(Armed) - 1
    BY <2>1, <2>2
  <2> QED BY <1>5, <2>3, <1>c, EventSets
<1>6. CASE S = {"READ", "WRITE"}
  <2>1. Armed' = (Armed \ {r}) \ {w} /\ r \in Armed /\ w \in Armed \ {r}
    BY <1>1, <1>6 DEF Armed, EventType
  <2>2. IsFiniteSet(Armed \ {r}) /\ Cardinality(Armed \ {r}) = Cardinality(Armed) - 1
    BY <1>0, <2>1, FS_RemoveElement
  <2>3. Cardinality((Armed \ {r}) \ {w}) = Cardinality(Armed \ {r}) - 1
    BY <2>1, <2>2, FS_RemoveElement
  <2>4. Cardinality(Armed') = Cardinality(Armed) - 2
    BY <1>0, <2>1, <2>2, <2>3
  <2> QED BY <1>6, <2>4, <1>c, EventSets
<1> QED BY <1>3, <1>4, <1>5, <1>6, EventSets

\* Every step keeps the pending count exact.
LEMMA PendingStep ==
  TypeOK /\ ContextMatch /\ OustedOut /\ Counted /\ [Next]_vars => Counted'
<1> SUFFICES ASSUME TypeOK, ContextMatch, OustedOut, Counted, [Next]_vars PROVE Counted'
  OBVIOUS
<1>a. ASSUME UNCHANGED ctxVars PROVE Counted'
  <2>1. /\ events' = events /\ m_pending_event_count' = m_pending_event_count
        /\ ousted' = ousted
    BY <1>a DEF ctxVars
  <2>2. Armed' = Armed
    BY <2>1 DEF Armed
  <2> QED BY <2>1, <2>2 DEF Counted, PendingExact
<1>1. ASSUME NEW fd \in FD, NEW ev \in EventType, NEW w \in Waiter,
             MayWait(w), AddEvent(fd, ev, w)
      PROVE  Counted'
  <2>1. CASE AddEventOk(fd, ev, w)
    <3>1. IsFiniteSet(Armed) /\ Cardinality(Armed) \in Nat
      BY ArmedFinite
    <3>2. \A g \in FD : events'[g] = IF g = fd THEN events[g] \cup {ev} ELSE events[g]
      BY <2>1 DEF AddEventOk, TypeOK
    <3>3. Armed' = Armed \cup {<<fd, ev>>}
      <4>1. ASSUME NEW g \in FD, NEW e \in EventType
            PROVE  e \in events'[g] <=> e \in events[g] \/ <<g, e>> = <<fd, ev>>
        BY <3>2
      <4>2. \A p \in FD \X EventType :
              p[2] \in events'[p[1]] <=> p[2] \in events[p[1]] \/ p = <<fd, ev>>
        BY <4>1
      <4> QED BY <4>2 DEF Armed
    <3>4. m_pending_event_count' = m_pending_event_count + 1
      BY <2>1 DEF AddEventOk
    <3>5. IsFiniteSet(ousted) /\ Cardinality(ousted) \in Nat
      BY FS_CardinalityType DEF Counted
    <3>6. CASE ev \notin events[fd]
      <4>1. Cardinality(Armed') = Cardinality(Armed) + 1
        <5>1. <<fd, ev>> \notin Armed
          BY <3>6 DEF Armed
        <5> QED BY <3>1, <3>3, <5>1, FS_AddElement
      <4>2. ousted' = ousted
        BY <2>1, <3>6 DEF AddEventOk, Oust
      <4> QED BY <3>1, <3>4, <3>5, <4>1, <4>2 DEF Counted, PendingExact
    <3>7. CASE ev \in events[fd]
      <4>1. <<fd, ev>> \in Armed /\ Armed' = Armed
        BY <3>3, <3>7 DEF Armed
      <4>2. waiter[fd][ev] \notin ousted
        BY <4>1 DEF OustedOut, WaiterOf
      <4>3. ousted' = ousted \cup {waiter[fd][ev]}
        BY <2>1, <3>7 DEF AddEventOk, Oust
      <4>4. IsFiniteSet(ousted') /\ Cardinality(ousted') = Cardinality(ousted) + 1
        BY <3>5, <4>2, <4>3, FS_AddElement
      <4> QED BY <3>1, <3>4, <3>5, <4>1, <4>4 DEF Counted, PendingExact
    <3> QED BY <3>6, <3>7
  <2>2. CASE UNCHANGED vars
    BY <1>a, <2>2 DEF vars, ctxVars
  <2> QED BY <1>1, <2>1, <2>2 DEF AddEvent
<1>2. ASSUME NEW fd \in FD, NEW ev \in EventType, DelEvent(fd, ev) PROVE Counted'
  BY <1>2, ForgetCount DEF DelEvent
<1>3. ASSUME NEW fd \in FD, NEW ev \in EventType, CancelEvent(fd, ev)
      PROVE  Counted'
  BY <1>3, <1>a, ForgetCount DEF CancelEvent, CancelEventOk, Trigger, vars, ctxVars
<1>4. ASSUME NEW fd \in FD, CancelAll(fd) \/ Close(fd) PROVE Counted'
  <2>1. events[fd] \in SUBSET EventType
    BY DEF TypeOK
  <2>2. Forget(fd, events[fd]) \/ UNCHANGED ctxVars
    BY <1>4 DEF CancelAll, Close, Trigger
  <2> QED BY <2>1, <2>2, <1>a, ForgetCount
<1>5. ASSUME NEW fd \in FD, Dispatch(fd) PROVE Counted'
  <2>1. CASE Served(fd) \subseteq events[fd] /\ Trigger(fd, Served(fd))
    <3>1. Served(fd) \in SUBSET EventType
      BY <2>1 DEF TypeOK
    <3> QED BY <2>1, <3>1, ForgetCount DEF Trigger
  <2>2. CASE UNCHANGED ctxVars
    BY <2>2, <1>a
  <2> QED BY <1>5, <2>1, <2>2 DEF Dispatch, ctxVars
<1>6. ASSUME \/ Resume \/ EpollWait(MaxEvents) \/ UNCHANGED vars
             \/ \E fd \in FD : Open(fd)
             \/ \E fd \in FD, c \in Condition : Edge(fd, c)
             \/ \E fd \in FD, ev \in EventType : Exhaust(fd, ev)
      PROVE  Counted'
  <2>1. UNCHANGED ctxVars
    BY <1>6 DEF Resume, EpollWait, Open, Edge, Exhaust, vars, ctxVars
  <2> QED BY <2>1, <1>a
<1> QED BY <1>1, <1>2, <1>3, <1>4, <1>5, <1>6 DEF Next, Step

-----------------------------------------------------------------------------
\* A step that leaves a descriptor alone keeps its registration sufficient.
LEMMA WatchKept ==
  ASSUME NEW fd \in FD, WatchAt(fd),
         events'[fd] = events[fd], interest'[fd] = interest[fd],
         level'[fd] = level[fd], batch'[fd] = batch[fd],
         fd \in registered => fd \in registered', fd \in queued => fd \in queued'
  PROVE  WatchAt(fd)'
  BY DEF WatchAt, CoversAt, EdgeAt

\* A descriptor the kernel was just asked to watch for its armed events.
LEMMA WatchAsked ==
  ASSUME NEW fd \in FD, NEW left \in SUBSET EventType,
         events'[fd] = left, interest'[fd] = left,
         left # {} => fd \in registered',
         left # {} /\ level'[fd] \cap (left \cup {"ERR"}) # {} => fd \in queued'
  PROVE  WatchAt(fd)'
<1>1. CoversAt(fd)'
  BY DEF CoversAt
<1>2. ASSUME NEW ev \in EventType, ev \in events'[fd],
             level'[fd] \cap {ev, "ERR"} # {}
      PROVE  fd \in queued'
  <2>1. ev \in left
    BY <1>2
  <2>2. level'[fd] \cap (left \cup {"ERR"}) # {}
    BY <1>2, <2>1
  <2> QED BY <2>1, <2>2
<1>3. EdgeAt(fd)'
  BY <1>2 DEF EdgeAt
<1> QED BY <1>1, <1>3 DEF WatchAt

\* Telling the kernel what is left and forgetting the rest keeps every
\* registration sufficient.
LEMMA ModifyForget ==
  ASSUME TypeOK, NEW fd \in FD, NEW S \in SUBSET EventType,
         \A g \in FD : WatchAt(g),
         Modify(fd, events[fd] \ S), Forget(fd, S), batch' = batch
  PROVE  \A g \in FD : WatchAt(g)'
<1> DEFINE left == events[fd] \ S
<1>1. left \in SUBSET EventType
  BY DEF TypeOK
<1>2. WatchAt(fd)'
  <2>1. events'[fd] = left
    BY ForgetFacts
  <2>2. /\ interest'[fd] = left
        /\ left # {} => fd \in registered'
        /\ left # {} /\ level'[fd] \cap (left \cup {"ERR"}) # {} => fd \in queued'
    BY <1>1, ModifyFacts
  <2> HIDE DEF left
  <2> QED BY <1>1, <2>1, <2>2, WatchAsked
<1>3. ASSUME NEW g \in FD, g # fd PROVE WatchAt(g)'
  BY <1>1, <1>3, ModifyFacts, ForgetFacts, WatchKept
<1> QED BY <1>2, <1>3

\* Handling one entry of ep_events.  A reader that stays armed was not
\* reported, so the writer was, and the kernel still watches for the reader.
LEMMA DispatchWatch ==
  ASSUME TypeOK, NEW fd \in FD, \A g \in FD : WatchAt(g), Dispatch(fd), ~aborted'
  PROVE  \A g \in FD : WatchAt(g)'
<1> DEFINE real == RealEvents(fd)
           left == events[fd] \ real
<1>0. /\ \A g \in FD : g # fd => batch'[g] = batch[g]
      /\ batch'[fd] = {}
      /\ events[fd] \in SUBSET EventType
  BY DEF Dispatch, TypeOK
<1>1. CASE /\ events[fd] \cap real = {} \/ fd \notin registered
           /\ UNCHANGED <<ctxVars, m_fiber_list, aborted, kernelVars>>
  <2>1. ASSUME NEW g \in FD, g # fd PROVE WatchAt(g)'
    BY <1>0, <1>1, <2>1, WatchKept DEF ctxVars, kernelVars
  <2>2. CoversAt(fd)'
    BY <1>1 DEF WatchAt, CoversAt, ctxVars, kernelVars
  <2>3. ASSUME NEW ev \in EventType, ev \in events[fd],
               level[fd] \cap {ev, "ERR"} # {}
        PROVE  fd \in queued
    <3>1. fd \in registered
      BY <2>3 DEF WatchAt, CoversAt
    <3>2. ev \notin real
      BY <1>1, <2>3, <3>1
    <3>3. batch[fd] \cap {ev, "ERR"} = {}
      BY <3>2 DEF RealEvents
    <3> QED BY <2>3, <3>3 DEF WatchAt, EdgeAt
  <2>4. EdgeAt(fd)'
    BY <1>1, <2>3 DEF EdgeAt, ctxVars, kernelVars
  <2> QED BY <2>1, <2>2, <2>4 DEF WatchAt
<1>2. CASE /\ events[fd] \cap real # {} /\ Modify(fd, left)
           /\ Served(fd) \subseteq events[fd] /\ Trigger(fd, Served(fd))
  <2>1. left \in SUBSET EventType /\ Served(fd) \in SUBSET EventType
    BY <1>0, <1>2
  <2>2. ASSUME NEW g \in FD, g # fd PROVE WatchAt(g)'
    BY <1>0, <1>2, <2>1, <2>2, ModifyFacts, ForgetFacts, WatchKept DEF Trigger
  <2>3. CASE "READ" \in real
    <3>1. "READ" \in Served(fd) /\ events[fd] \ Served(fd) = {}
      BY <1>0, <2>3 DEF Served, EventType
    <3>2. left \subseteq {"WRITE"}
      BY <1>0, <2>3 DEF EventType
    <3>3. events'[fd] = {} /\ interest'[fd] = left
      BY <1>2, <2>1, <3>1, ModifyFacts, ForgetFacts DEF Trigger
    <3> QED BY <2>2, <3>2, <3>3 DEF WatchAt, CoversAt, EdgeAt
  <2>4. CASE "READ" \notin real
    <3>1. events[fd] \ Served(fd) = left
      BY <1>0, <1>2, <2>4 DEF Served, EventType
    <3>2. events'[fd] = left
      BY <1>2, <2>1, <3>1, ForgetFacts DEF Trigger
    <3>3. /\ interest'[fd] = left /\ level' = level
          /\ left # {} => fd \in registered'
          /\ left # {} /\ level[fd] \cap (left \cup {"ERR"}) # {} => fd \in queued'
      BY <1>2, <2>1, ModifyFacts
    <3>4. WatchAt(fd)'
      BY <2>1, <3>2, <3>3, WatchAsked
    <3> QED BY <2>2, <3>4
  <2> QED BY <2>3, <2>4
<1> QED BY <1>1, <1>2 DEF Dispatch

\* epoll_wait on an empty batch: what was queued and ready is in the batch or
\* queued again.
LEMMA EpollWaitWatch ==
  ASSUME TypeOK, \A g \in FD : WatchAt(g), batch = [fd \in FD |-> {}],
         EpollWait(MaxEvents)
  PROVE  \A g \in FD : WatchAt(g)'
<1> SUFFICES ASSUME NEW g \in FD PROVE WatchAt(g)'
  OBVIOUS
<1>1. CoversAt(g)'
  BY DEF WatchAt, CoversAt, EpollWait, ctxVars
<1>2. ASSUME NEW ev \in EventType, ev \in events[g], level[g] \cap {ev, "ERR"} # {}
      PROVE  g \in queued' \/ batch'[g] \cap {ev, "ERR"} # {}
  <2>1. g \in queued
    BY <1>2 DEF WatchAt, EdgeAt
  <2>2. interest[g] = events[g]
    BY <1>2 DEF WatchAt, CoversAt
  <2>3. Reported(g) \cap {ev, "ERR"} # {} /\ g \in Pollable
    BY <1>2, <2>1, <2>2 DEF Reported, Pollable
  <2>4. PICK S \in SUBSET Pollable :
          /\ batch' = [fd \in FD |-> IF fd \in S THEN Reported(fd) ELSE {}]
          /\ queued' = Pollable \ S
    BY DEF EpollWait
  <2> QED BY <2>3, <2>4
<1>3. EdgeAt(g)'
  BY <1>2 DEF EdgeAt, EpollWait, ctxVars
<1> QED BY <1>1, <1>3 DEF WatchAt

\* Every step that does not end the program keeps every armed event watched
\* and every ready one in sight of the loop.
LEMMA WatchStep ==
  TypeOK /\ (\A g \in FD : WatchAt(g)) /\ [Next]_vars /\ ~aborted'
    => \A g \in FD : WatchAt(g)'
<1> SUFFICES ASSUME TypeOK, \A g \in FD : WatchAt(g), [Next]_vars, ~aborted'
             PROVE  \A g \in FD : WatchAt(g)'
  OBVIOUS
<1>a. ASSUME UNCHANGED <<ctxVars, batch, level, registered, interest, queued>>
      PROVE  \A g \in FD : WatchAt(g)'
  BY <1>a, WatchKept DEF ctxVars
<1>1. ASSUME NEW fd \in FD, NEW ev \in EventType, NEW w \in Waiter,
             AddEvent(fd, ev, w)
      PROVE  \A g \in FD : WatchAt(g)'
  <2>1. CASE AddEventOk(fd, ev, w)
    <3> DEFINE all == events[fd] \cup {ev}
    <3>1. all \in SUBSET EventType
      BY DEF TypeOK
    <3>2. /\ events'[fd] = all /\ batch' = batch /\ Register(fd, all)
          /\ \A g \in FD : g # fd => events'[g] = events[g]
      BY <2>1 DEF AddEventOk, TypeOK
    <3>3. WatchAt(fd)'
      <4>1. /\ interest'[fd] = all /\ fd \in registered' /\ level' = level
            /\ level[fd] \cap (all \cup {"ERR"}) # {} => fd \in queued'
        BY <3>1, <3>2, RegisterFacts
      <4> HIDE DEF all
      <4> QED BY <3>1, <3>2, <4>1, WatchAsked
    <3>4. ASSUME NEW g \in FD, g # fd PROVE WatchAt(g)'
      BY <3>1, <3>2, <3>4, RegisterFacts, WatchKept
    <3> QED BY <3>3, <3>4
  <2>2. CASE UNCHANGED vars
    BY <1>a, <2>2 DEF vars, ctxVars
  <2> QED BY <1>1, <2>1, <2>2 DEF AddEvent
<1>2. ASSUME NEW fd \in FD, NEW ev \in EventType,
             DelEvent(fd, ev) \/ CancelEvent(fd, ev)
      PROVE  \A g \in FD : WatchAt(g)'
  <2>1. CASE Modify(fd, events[fd] \ {ev}) /\ Forget(fd, {ev}) /\ batch' = batch
    BY <2>1, ModifyForget
  <2>2. CASE UNCHANGED vars
    BY <1>a, <2>2 DEF vars, ctxVars
  <2> QED BY <1>2, <2>1, <2>2 DEF DelEvent, CancelEvent, CancelEventOk, Trigger
<1>3. ASSUME NEW fd \in FD, CancelAll(fd) PROVE \A g \in FD : WatchAt(g)'
  <2>1. events[fd] \in SUBSET EventType /\ events[fd] \ events[fd] = {}
    BY DEF TypeOK
  <2>2. /\ Modify(fd, events[fd] \ events[fd]) /\ Forget(fd, events[fd])
        /\ batch' = batch
    BY <1>3, <2>1 DEF CancelAll, Trigger, Modify
  <2> QED BY <2>1, <2>2, ModifyForget
<1>4. ASSUME NEW fd \in FD, Close(fd) PROVE \A g \in FD : WatchAt(g)'
  <2>1. /\ events'[fd] = {} /\ interest'[fd] = {}
        /\ \A g \in FD : g # fd => events'[g] = events[g]
    <3>1. CASE events[fd] # {} /\ fd \in registered
      <4>1. Forget(fd, events[fd]) /\ events[fd] \in SUBSET EventType
        BY <1>4, <3>1 DEF Close, Trigger, TypeOK
      <4> QED BY <1>4, <4>1, ForgetFacts DEF Close, TypeOK
    <3>2. CASE ~(events[fd] # {} /\ fd \in registered)
      <4>1. events' = events
        BY <1>4, <3>2 DEF Close, ctxVars
      <4> QED BY <1>4, <3>2, <4>1 DEF Close, TypeOK, WatchAt, CoversAt
    <3> QED BY <3>1, <3>2
  <2>2. WatchAt(fd)'
    BY <2>1 DEF WatchAt, CoversAt, EdgeAt
  <2>3. ASSUME NEW g \in FD, g # fd
        PROVE  /\ events'[g] = events[g] /\ interest'[g] = interest[g]
               /\ level'[g] = level[g] /\ batch'[g] = batch[g]
               /\ g \in registered => g \in registered'
               /\ g \in queued => g \in queued'
    BY <1>4, <2>1, <2>3 DEF Close, TypeOK
  <2> QED BY <2>2, <2>3, WatchKept
<1>5. CASE Resume
  BY <1>5, <1>a DEF Resume, kernelVars
<1>6. ASSUME NEW fd \in FD, Open(fd) PROVE \A g \in FD : WatchAt(g)'
  BY <1>6, <1>a DEF Open
<1>7. ASSUME NEW fd \in FD, NEW c \in Condition, Edge(fd, c)
      PROVE  \A g \in FD : WatchAt(g)'
  <2> SUFFICES ASSUME NEW g \in FD PROVE WatchAt(g)'
    OBVIOUS
  <2>1. CoversAt(g)'
    BY <1>7 DEF Edge, ctxVars, WatchAt, CoversAt
  <2>2. ASSUME NEW ev \in EventType, ev \in events[g], level'[g] \cap {ev, "ERR"} # {}
        PROVE  g \in queued' \/ batch[g] \cap {ev, "ERR"} # {}
    <3>1. CASE level[g] \cap {ev, "ERR"} # {}
      BY <1>7, <2>2, <3>1 DEF Edge, WatchAt, EdgeAt
    <3>2. CASE level[g] \cap {ev, "ERR"} = {}
      <4>1. g = fd /\ c \in {ev, "ERR"}
        BY <1>7, <2>2, <3>2 DEF Edge, TypeOK
      <4>2. fd \in registered /\ c \in interest[fd] \cup {"ERR"}
        BY <2>2, <4>1 DEF WatchAt, CoversAt
      <4> QED BY <1>7, <4>1, <4>2 DEF Edge
    <3> QED BY <3>1, <3>2
  <2>3. EdgeAt(g)'
    BY <1>7, <2>2 DEF Edge, ctxVars, EdgeAt
  <2> QED BY <2>1, <2>3 DEF WatchAt
<1>8. ASSUME NEW fd \in FD, NEW ev \in EventType, Exhaust(fd, ev)
      PROVE  \A g \in FD : WatchAt(g)'
  <2> SUFFICES ASSUME NEW g \in FD PROVE WatchAt(g)'
    OBVIOUS
  <2>1. level'[g] \subseteq level[g]
    BY <1>8 DEF Exhaust, TypeOK
  <2> QED BY <1>8, <2>1 DEF Exhaust, ctxVars, WatchAt, CoversAt, EdgeAt
<1>9. CASE UNCHANGED vars
  BY <1>9, <1>a DEF vars, ctxVars
<1> QED
  BY <1>1, <1>2, <1>3, <1>4, <1>5, <1>6, <1>7, <1>8, <1>9, EpollWaitWatch, DispatchWatch
  DEF Next, Step

-----------------------------------------------------------------------------
\* While the program runs, the two invariants are the ones of every descriptor.
LEMMA WatchAll ==
  (KernelCovers /\ NoMissedEdge) <=> (~aborted => \A g \in FD : WatchAt(g))
  BY DEF KernelCovers, NoMissedEdge, WatchAt, CoversAt, EdgeAt

\* Nothing is armed, registered or queued at the start.
LEMMA InitInv == Init => IInv
<1> SUFFICES ASSUME Init PROVE IInv
  OBVIOUS
<1> USE DEF Init, InitContexts
<1>1. TypeOK
  <2>1. events \in [FD -> SUBSET EventType] /\ interest \in [FD -> SUBSET EventType]
    OBVIOUS
  <2>2. waiter \in [FD -> [EventType -> Waiter \cup {None}]]
    OBVIOUS
  <2>3. batch \in [FD -> SUBSET Condition] /\ level \in [FD -> SUBSET Condition]
    OBVIOUS
  <2>4. m_fiber_list \in Seq(Waiter)
    OBVIOUS
  <2>5. m_pending_event_count \in Int
    OBVIOUS
  <2>6. ousted \subseteq Waiter /\ open \subseteq FD /\ registered \subseteq FD /\ queued \subseteq FD
    OBVIOUS
  <2>7. aborted \in BOOLEAN
    <3>1. aborted = FALSE
      OBVIOUS
    <3> HIDE DEF Init, InitContexts
    <3> QED BY <3>1, Zenon
  <2> HIDE DEF Init, InitContexts
  <2> QED BY <2>1, <2>2, <2>3, <2>4, <2>5, <2>6, <2>7 DEF TypeOK
<1>2. ContextMatch
  BY DEF ContextMatch
<1>3. KernelCovers /\ NoMissedEdge
  BY DEF KernelCovers, NoMissedEdge
<1> QED BY <1>1, <1>2, <1>3 DEF IInv

\* The invariant is inductive.
LEMMA StepInv == IInv /\ [Next]_vars => IInv'
<1> SUFFICES ASSUME IInv, [Next]_vars PROVE IInv'
  OBVIOUS
<1>1. TypeOK' /\ ContextMatch'
  BY TypeStep, ContextStep DEF IInv
<1>2. ASSUME ~aborted' PROVE \A g \in FD : WatchAt(g)'
  <2>1. ~aborted
    BY <1>2 DEF Next, vars
  <2> QED BY <1>2, <2>1, WatchAll, WatchStep DEF IInv
<1>3. (KernelCovers /\ NoMissedEdge)'
  BY <1>2 DEF KernelCovers, NoMissedEdge, WatchAt, CoversAt, EdgeAt
<1> QED BY <1>1, <1>3 DEF IInv

\* The inductive invariant holds in every reachable state.
THEOREM IoInvariance == Spec => []IInv
  BY InitInv, StepInv, PTL DEF Spec

\* Every field keeps its type: in particular the scheduler's list only ever
\* gets waiters, never an empty EventContext.
THEOREM IoTypeCorrect == Spec => []TypeOK
<1>1. IInv => TypeOK
  BY DEF IInv
<1> QED BY <1>1, IoInvariance, PTL

\* While the program runs, the kernel watches the armed events.
THEOREM KernelWatches == Spec => []KernelCovers
<1>1. IInv => KernelCovers
  BY DEF IInv
<1> QED BY <1>1, IoInvariance, PTL

\* While the program runs, no edge of an armed event is missed, whenever it
\* comes between epoll_wait and the handling of what it returned.
THEOREM EdgesSeen == Spec => []NoMissedEdge
<1>1. IInv => NoMissedEdge
  BY DEF IInv
<1> QED BY <1>1, IoInvariance, PTL

\* A step that wakes a reader by handling ep_events found it reported.
LEMMA ReaderStep == TypeOK /\ [Next]_vars => WokenWhenReported("READ")
<1> SUFFICES ASSUME TypeOK, [Next]_vars, NEW fd \in FD, batch'[fd] # batch[fd],
                    "READ" \in events[fd], "READ" \notin events'[fd]
             PROVE  batch[fd] \cap {"READ", "ERR"} # {}
  BY DEF WokenWhenReported
<1>1. UNCHANGED batch \/ EpollWait(MaxEvents) \/ \E g \in FD : Dispatch(g)
  BY DEF Next, Step, AddEvent, AddEventOk, DelEvent, CancelEvent, CancelEventOk,
         CancelAll, Close, Open, Resume, Edge, Exhaust, vars
<1>2. ~EpollWait(MaxEvents)
  BY DEF EpollWait, ctxVars
<1>3. PICK g \in FD : Dispatch(g)
  BY <1>1, <1>2
<1>4. Dispatch(fd)
  BY <1>3 DEF Dispatch, TypeOK
<1>5. Served(fd) \in SUBSET EventType /\ Trigger(fd, Served(fd))
  BY <1>4 DEF Dispatch, ctxVars, TypeOK
<1>6. "READ" \in Served(fd)
  BY <1>5, ForgetFacts DEF Trigger
<1> QED BY <1>6 DEF Served, RealEvents

\* Dispatch wakes a reader only if its descriptor was reported readable or
\* failed.
THEOREM ReaderWoken == Spec => ReaderWokenWhenReady
<1>1. IInv /\ [Next]_vars => WokenWhenReported("READ")
  BY ReaderStep DEF IInv
<1> QED BY <1>1, IoInvariance, PTL DEF Spec, ReaderWokenWhenReady
-----------------------------------------------------------------------------
(* The waiters of the event table: none is woken twice, and none that      *)
(* stops waiting is forgotten.                                             *)

\* WInv is IInv and WaiterOnce.
LEMMA WaiterOnceParts == WInv => WaiterOnce
  BY DEF WInv, IInv, ContextMatch, ArmedOnce, Apart, ListOnce, OustedOut, WaiterOnce,
         Waiting, Scheduled, WaiterOf

-----------------------------------------------------------------------------
\* Elements of a list with another behind it.
LEMMA Behind ==
  ASSUME NEW A, NEW s \in Seq(A), NEW t \in Seq(A)
  PROVE  /\ \A i \in DOMAIN (s \o t) :
              \/ i \in DOMAIN s /\ (s \o t)[i] = s[i]
              \/ \E j \in DOMAIN t : i = Len(s) + j /\ (s \o t)[i] = t[j]
         /\ \A i \in DOMAIN s : i \in DOMAIN (s \o t) /\ (s \o t)[i] = s[i]
         /\ \A j \in DOMAIN t :
              Len(s) + j \in DOMAIN (s \o t) /\ (s \o t)[Len(s) + j] = t[j]
<1>1. s \o t \in Seq(A) /\ Len(s \o t) = Len(s) + Len(t)
  OBVIOUS
<1>2. \A i \in 1 .. Len(s) + Len(t) :
        (s \o t)[i] = IF i <= Len(s) THEN s[i] ELSE t[i - Len(s)]
  OBVIOUS
<1>3. DOMAIN s = 1 .. Len(s) /\ DOMAIN t = 1 .. Len(t)
      /\ DOMAIN (s \o t) = 1 .. Len(s) + Len(t) /\ Len(s) \in Nat /\ Len(t) \in Nat
  BY <1>1
<1>4. ASSUME NEW i \in DOMAIN (s \o t)
      PROVE  \/ i \in DOMAIN s /\ (s \o t)[i] = s[i]
             \/ \E j \in DOMAIN t : i = Len(s) + j /\ (s \o t)[i] = t[j]
  <2>1. CASE i <= Len(s)
    BY <1>2, <1>3, <2>1
  <2>2. CASE ~(i <= Len(s))
    <3>1. i - Len(s) \in DOMAIN t /\ i = Len(s) + (i - Len(s))
      BY <1>3, <2>2
    <3> QED BY <1>2, <1>3, <2>2, <3>1
  <2> QED BY <2>1, <2>2
<1>5. \A i \in DOMAIN s : i \in DOMAIN (s \o t) /\ (s \o t)[i] = s[i]
  BY <1>2, <1>3
<1>6. ASSUME NEW j \in DOMAIN t
      PROVE  Len(s) + j \in DOMAIN (s \o t) /\ (s \o t)[Len(s) + j] = t[j]
  <2>1. Len(s) + j \in 1 .. Len(s) + Len(t) /\ ~(Len(s) + j <= Len(s))
        /\ (Len(s) + j) - Len(s) = j
    BY <1>3
  <2> QED BY <1>2, <1>3, <2>1
<1> QED BY <1>4, <1>5, <1>6

\* The waiters of two different events of a descriptor, in the order scheduled.
LEMMA WokenElements ==
  ASSUME TypeOK, ContextMatch, ArmedOnce, NEW fd \in FD, NEW S \in SUBSET EventType,
         S \subseteq events[fd]
  PROVE  /\ \A i \in DOMAIN Woken(fd, S) :
              \E ev \in S : Woken(fd, S)[i] = waiter[fd][ev]
         /\ \A ev \in S : \E i \in DOMAIN Woken(fd, S) : Woken(fd, S)[i] = waiter[fd][ev]
         /\ \A i, j \in DOMAIN Woken(fd, S) :
              Woken(fd, S)[i] = Woken(fd, S)[j] => i = j
<1>1. S \in {{}, {"READ"}, {"WRITE"}, {"READ", "WRITE"}}
  BY EventSets
<1>2. CASE S = {}
  <2>1. Woken(fd, S) = <<>>
    BY <1>2 DEF Woken
  <2> QED BY <1>2, <2>1
<1>3. CASE S = {"READ"}
  <2>1. Woken(fd, S) = <<waiter[fd]["READ"]>>
    BY <1>3 DEF Woken
  <2> QED BY <1>3, <2>1
<1>4. CASE S = {"WRITE"}
  <2>1. Woken(fd, S) = <<waiter[fd]["WRITE"]>>
    BY <1>4 DEF Woken
  <2> QED BY <1>4, <2>1
<1>5. CASE S = {"READ", "WRITE"}
  <2> DEFINE r == waiter[fd]["READ"]
             u == waiter[fd]["WRITE"]
  <2>1. "READ" \in S /\ "WRITE" \in S
    BY <1>5
  <2>2. Woken(fd, S) = <<r>> \o <<u>>
    BY <2>1 DEF Woken
  <2>3. r \in Waiter /\ u \in Waiter
    BY <2>1 DEF TypeOK, ContextMatch, EventType
  <2>4. r # u
    <3>1. <<fd, "READ">> \in Armed /\ <<fd, "WRITE">> \in Armed
      BY <1>5 DEF Armed, EventType
    <3> QED BY <3>1 DEF ArmedOnce, WaiterOf
  <2> DEFINE x == <<r>>
             y == <<u>>
             c == Woken(fd, S)
  <2>5. /\ x \in Seq(Waiter) /\ DOMAIN x = {1} /\ Len(x) = 1 /\ x[1] = r
        /\ y \in Seq(Waiter) /\ DOMAIN y = {1} /\ Len(y) = 1 /\ y[1] = u
    BY <2>3
  <2>6. c = x \o y
    BY <2>2
  <2> HIDE DEF x, y, c, r, u
  <2>7. /\ \A i \in DOMAIN c : (i = 1 /\ c[i] = r) \/ (i = 2 /\ c[i] = u)
        /\ 1 \in DOMAIN c /\ 2 \in DOMAIN c /\ c[1] = r /\ c[2] = u
    <3>1. x \in Seq(Waiter) /\ y \in Seq(Waiter)
      BY <2>5
    <3>2. \A i \in DOMAIN c :
            \/ i \in DOMAIN x /\ c[i] = x[i]
            \/ \E j \in DOMAIN y : i = Len(x) + j /\ c[i] = y[j]
      BY <2>6, <3>1, Behind
    <3>3. \A i \in DOMAIN x : i \in DOMAIN c /\ c[i] = x[i]
      BY <2>6, <3>1, Behind
    <3>4. \A j \in DOMAIN y : Len(x) + j \in DOMAIN c /\ c[Len(x) + j] = y[j]
      BY <2>6, <3>1, Behind
    <3> QED BY <2>5, <3>2, <3>3, <3>4
  <2>8. \A ev \in S : ev = "READ" \/ ev = "WRITE"
    BY <1>5
  <2> QED BY <2>1, <2>4, <2>7, <2>8 DEF r, u, c
<1> QED BY <1>1, <1>2, <1>3, <1>4, <1>5

-----------------------------------------------------------------------------
\* Forgetting events leaves the others armed for whom they were.
LEMMA ForgetArmed ==
  ASSUME TypeOK, NEW fd \in FD, NEW S \in SUBSET EventType, Forget(fd, S)
  PROVE  /\ Armed' = Armed \ {<<fd, ev>> : ev \in S}
         /\ \A p \in Armed' : WaiterOf(p)' = WaiterOf(p)
<1>1. /\ events'[fd] = events[fd] \ S
      /\ \A g \in FD : g # fd => events'[g] = events[g] /\ waiter'[g] = waiter[g]
      /\ \A ev \in EventType : waiter'[fd][ev] = IF ev \in S THEN None ELSE waiter[fd][ev]
  BY ForgetFacts
<1>2. \A g \in FD, ev \in EventType :
        <<g, ev>> \in Armed' <=> <<g, ev>> \in Armed \ {<<fd, e>> : e \in S}
  BY <1>1 DEF Armed
<1>3. Armed' \subseteq FD \X EventType /\ Armed \subseteq FD \X EventType
  BY DEF Armed
<1>4. ASSUME NEW p \in Armed' PROVE WaiterOf(p)' = WaiterOf(p)
  <2>1. p[1] \in FD /\ p[2] \in EventType /\ p = <<p[1], p[2]>>
    BY <1>3
  <2>2. ~(p[1] = fd /\ p[2] \in S)
    BY <1>2, <2>1
  <2> QED BY <1>1, <2>1, <2>2 DEF WaiterOf
<1> QED BY <1>2, <1>3, <1>4

\* Fewer armed events and part of the list: nothing is there twice that was not.
LEMMA FewerArmed ==
  ASSUME ArmedOnce, Apart, ListOnce, OustedOut,
         Armed' \subseteq Armed, \A p \in Armed' : WaiterOf(p)' = WaiterOf(p),
         m_fiber_list' = m_fiber_list, ousted' = ousted
  PROVE  ArmedOnce' /\ Apart' /\ ListOnce' /\ OustedOut'
  BY DEF ArmedOnce, Apart, ListOnce, OustedOut

\* trigger_event moves waiters from their contexts to the list.
LEMMA TriggerOnce ==
  ASSUME TypeOK, ContextMatch, ArmedOnce, Apart, ListOnce, OustedOut,
         NEW fd \in FD, NEW S \in SUBSET EventType, S \subseteq events[fd],
         Trigger(fd, S)
  PROVE  ArmedOnce' /\ Apart' /\ ListOnce' /\ OustedOut'
<1> DEFINE W == Woken(fd, S)
<1>1. W \in Seq(Waiter) /\ m_fiber_list \in Seq(Waiter) /\ m_fiber_list' = m_fiber_list \o W
  BY WokenType DEF TypeOK, Trigger
<1>2. /\ Armed' = Armed \ {<<fd, ev>> : ev \in S}
      /\ \A p \in Armed' : WaiterOf(p)' = WaiterOf(p)
  BY ForgetArmed DEF Trigger
<1>3. /\ \A i \in DOMAIN W : \E ev \in S : W[i] = waiter[fd][ev]
      /\ \A i, j \in DOMAIN W : W[i] = W[j] => i = j
  BY WokenElements
<1>4. \A i \in DOMAIN W : \E p \in Armed \ Armed' : W[i] = WaiterOf(p)
  <2> SUFFICES ASSUME NEW i \in DOMAIN W PROVE \E p \in Armed \ Armed' : W[i] = WaiterOf(p)
    OBVIOUS
  <2>1. PICK ev \in S : W[i] = waiter[fd][ev]
    BY <1>3
  <2>2. <<fd, ev>> \in Armed \ Armed' /\ WaiterOf(<<fd, ev>>) = waiter[fd][ev]
    BY <1>2 DEF Armed, WaiterOf
  <2> QED BY <2>1, <2>2
<1>5. Armed' \subseteq Armed
  BY <1>2
<1>6. ArmedOnce'
  BY <1>2, <1>5 DEF ArmedOnce
<1> HIDE DEF W
<1>7. \A i \in DOMAIN m_fiber_list' :
        \/ i \in DOMAIN m_fiber_list /\ m_fiber_list'[i] = m_fiber_list[i]
        \/ \E j \in DOMAIN W : i = Len(m_fiber_list) + j /\ m_fiber_list'[i] = W[j]
  BY <1>1, Behind
<1>8. ASSUME NEW p \in Armed', NEW i \in DOMAIN m_fiber_list'
      PROVE  WaiterOf(p)' # m_fiber_list'[i]
  <2>1. WaiterOf(p)' = WaiterOf(p) /\ p \in Armed
    BY <1>2, <1>5
  <2>2. CASE i \in DOMAIN m_fiber_list /\ m_fiber_list'[i] = m_fiber_list[i]
    BY <2>1, <2>2 DEF Apart
  <2>3. CASE \E j \in DOMAIN W : m_fiber_list'[i] = W[j]
    <3>1. PICK q \in Armed \ Armed' : m_fiber_list'[i] = WaiterOf(q)
      BY <1>4, <2>3
    <3> QED BY <2>1, <3>1 DEF ArmedOnce
  <2> QED BY <1>7, <2>2, <2>3
<1>9. \A i \in DOMAIN m_fiber_list, j \in DOMAIN W : m_fiber_list[i] # W[j]
  BY <1>4 DEF Apart
<1>10. ASSUME NEW i \in DOMAIN m_fiber_list', NEW j \in DOMAIN m_fiber_list',
              m_fiber_list'[i] = m_fiber_list'[j]
       PROVE  i = j
  <2>1. CASE /\ i \in DOMAIN m_fiber_list /\ m_fiber_list'[i] = m_fiber_list[i]
             /\ j \in DOMAIN m_fiber_list /\ m_fiber_list'[j] = m_fiber_list[j]
    BY <1>10, <2>1 DEF ListOnce
  <2>2. CASE /\ \E k \in DOMAIN W : i = Len(m_fiber_list) + k /\ m_fiber_list'[i] = W[k]
             /\ \E k \in DOMAIN W : j = Len(m_fiber_list) + k /\ m_fiber_list'[j] = W[k]
    BY <1>3, <1>10, <2>2 DEF W
  <2> QED BY <1>7, <1>9, <1>10, <2>1, <2>2
<1>11. OustedOut'
  <2>1. ousted' = ousted
    BY ForgetFacts DEF Trigger
  <2>2. \A i \in DOMAIN m_fiber_list' : m_fiber_list'[i] \notin ousted
    BY <1>4, <1>7 DEF OustedOut
  <2> QED BY <1>2, <1>5, <2>1, <2>2 DEF OustedOut
<1> QED BY <1>6, <1>8, <1>10, <1>11 DEF Apart, ListOnce

\* One more waiter, that was neither armed nor scheduled nor overwritten, and
\* perhaps one overwritten.
LEMMA AddOnce ==
  ASSUME TypeOK, ArmedOnce, Apart, ListOnce, OustedOut,
         NEW fd \in FD, NEW ev \in EventType, NEW w \in Waiter,
         MayWait(w), AddEventOk(fd, ev, w)
  PROVE  ArmedOnce' /\ Apart' /\ ListOnce' /\ OustedOut'
<1>1. /\ events'[fd] = events[fd] \cup {ev}
      /\ \A g \in FD : g # fd => events'[g] = events[g] /\ waiter'[g] = waiter[g]
      /\ waiter'[fd][ev] = w
      /\ \A e \in EventType : e # ev => waiter'[fd][e] = waiter[fd][e]
      /\ m_fiber_list' = m_fiber_list
  BY DEF AddEventOk, TypeOK
<1>2. ASSUME NEW p \in Armed', p # <<fd, ev>>
      PROVE  p \in Armed /\ WaiterOf(p)' = WaiterOf(p)
  <2>1. p[1] \in FD /\ p[2] \in EventType /\ p = <<p[1], p[2]>> /\ p[2] \in events'[p[1]]
    BY DEF Armed
  <2>2. p[1] # fd \/ p[2] # ev
    BY <1>2, <2>1
  <2> QED BY <1>1, <2>1, <2>2 DEF Armed, WaiterOf
<1>3. WaiterOf(<<fd, ev>>)' = w
  BY <1>1 DEF WaiterOf
<1>4. \A p \in Armed : WaiterOf(p) # w
  BY DEF MayWait, Waiting, WaiterOf
<1>5. \A i \in DOMAIN m_fiber_list : m_fiber_list[i] # w
  BY DEF MayWait, Scheduled
<1>6. ArmedOnce'
  <2> SUFFICES ASSUME NEW p \in Armed', NEW q \in Armed', WaiterOf(p)' = WaiterOf(q)'
               PROVE  p = q
    BY DEF ArmedOnce
  <2>1. CASE p = <<fd, ev>> /\ q # <<fd, ev>>
    BY <1>2, <1>3, <1>4, <2>1
  <2>2. CASE q = <<fd, ev>> /\ p # <<fd, ev>>
    BY <1>2, <1>3, <1>4, <2>2
  <2>3. CASE p # <<fd, ev>> /\ q # <<fd, ev>>
    BY <1>2, <2>3 DEF ArmedOnce
  <2> QED BY <2>1, <2>2, <2>3
<1>7. Apart'
  <2> SUFFICES ASSUME NEW p \in Armed', NEW i \in DOMAIN m_fiber_list'
               PROVE  WaiterOf(p)' # m_fiber_list'[i]
    BY DEF Apart
  <2>1. CASE p = <<fd, ev>>
    BY <1>1, <1>3, <1>5, <2>1
  <2>2. CASE p # <<fd, ev>>
    BY <1>1, <1>2, <2>2 DEF Apart
  <2> QED BY <2>1, <2>2
<1>8. ListOnce'
  BY <1>1 DEF ListOnce
<1>9. OustedOut'
  <2>1. w \notin ousted
    BY DEF MayWait
  <2>2. CASE ev \notin events[fd]
    <3>1. ousted' = ousted
      BY <2>2 DEF AddEventOk, Oust
    <3> QED BY <1>1, <1>2, <1>3, <2>1, <3>1 DEF OustedOut
  <2>3. CASE ev \in events[fd]
    <3>1. <<fd, ev>> \in Armed /\ WaiterOf(<<fd, ev>>) = waiter[fd][ev]
      BY <2>3 DEF Armed, WaiterOf
    <3>2. ousted' = ousted \cup {WaiterOf(<<fd, ev>>)}
      BY <2>3, <3>1 DEF AddEventOk, Oust
    <3>3. \A p \in Armed' : p # <<fd, ev>> => WaiterOf(p)' # WaiterOf(<<fd, ev>>)
      BY <1>2, <3>1 DEF ArmedOnce
    <3>4. WaiterOf(<<fd, ev>>)' # WaiterOf(<<fd, ev>>)
      BY <1>3, <1>4, <3>1
    <3>5. \A i \in DOMAIN m_fiber_list : m_fiber_list[i] # WaiterOf(<<fd, ev>>)
      BY <3>1 DEF Apart
    <3>6. \A p \in Armed' : WaiterOf(p)' \notin ousted
      BY <1>2, <1>3, <2>1 DEF OustedOut
    <3> QED BY <1>1, <3>2, <3>3, <3>4, <3>5, <3>6 DEF OustedOut
  <2> QED BY <2>2, <2>3
<1> QED BY <1>6, <1>7, <1>8, <1>9

-----------------------------------------------------------------------------
\* What a step does to the waiters: nothing, one event armed, some events
\* triggered, one dropped by del_event, or the first of the list resumed.
WaitersSame == UNCHANGED <<events, waiter, m_fiber_list, ousted>>
WaitersChange ==
  \/ WaitersSame
  \/ \E fd \in FD, ev \in EventType, w \in Waiter : MayWait(w) /\ AddEventOk(fd, ev, w)
  \/ \E fd \in FD, S \in SUBSET EventType : S \subseteq events[fd] /\ Trigger(fd, S)
  \/ \E fd \in FD, ev \in EventType : DelEvent(fd, ev)
  \/ Resume

\* Every step is one of these.
LEMMA StepKinds == TypeOK /\ [Next]_vars => WaitersChange
<1> SUFFICES ASSUME TypeOK, [Next]_vars PROVE WaitersChange
  OBVIOUS
<1>1. ASSUME NEW fd \in FD, NEW ev \in EventType, NEW w \in Waiter,
             MayWait(w), AddEvent(fd, ev, w)
      PROVE  WaitersChange
  <2>1. CASE AddEventOk(fd, ev, w)
    BY <1>1, <2>1 DEF WaitersChange
  <2>2. CASE UNCHANGED vars
    BY <2>2 DEF WaitersChange, WaitersSame, vars
  <2> QED BY <1>1, <2>1, <2>2 DEF AddEvent
<1>2. ASSUME NEW fd \in FD, NEW ev \in EventType, CancelEvent(fd, ev)
      PROVE  WaitersChange
  <2>1. CASE CancelEventOk(fd, ev)
    <3>1. {ev} \in SUBSET EventType /\ {ev} \subseteq events[fd] /\ Trigger(fd, {ev})
      BY <2>1 DEF CancelEventOk
    <3> QED BY <3>1 DEF WaitersChange
  <2>2. CASE UNCHANGED vars
    BY <2>2 DEF WaitersChange, WaitersSame, vars
  <2> QED BY <1>2, <2>1, <2>2 DEF CancelEvent
<1>3. ASSUME NEW fd \in FD, CancelAll(fd) PROVE WaitersChange
  <2>1. events[fd] \in SUBSET EventType /\ Trigger(fd, events[fd])
    BY <1>3 DEF CancelAll, TypeOK
  <2> QED BY <2>1 DEF WaitersChange
<1>4. ASSUME NEW fd \in FD, Close(fd) PROVE WaitersChange
  <2>1. CASE events[fd] # {} /\ fd \in registered
    <3>1. events[fd] \in SUBSET EventType /\ Trigger(fd, events[fd])
      BY <1>4, <2>1 DEF Close, TypeOK
    <3> QED BY <3>1 DEF WaitersChange
  <2>2. CASE ~(events[fd] # {} /\ fd \in registered)
    <3>1. WaitersSame
      BY <1>4, <2>2 DEF Close, WaitersSame, ctxVars
    <3> QED BY <3>1 DEF WaitersChange
  <2> QED BY <2>1, <2>2
<1>5. ASSUME NEW fd \in FD, Dispatch(fd) PROVE WaitersChange
  <2>1. CASE Served(fd) \subseteq events[fd] /\ Trigger(fd, Served(fd))
    <3>1. Served(fd) \in SUBSET EventType
      BY <2>1 DEF TypeOK
    <3> QED BY <2>1, <3>1 DEF WaitersChange
  <2>2. CASE UNCHANGED <<ctxVars, m_fiber_list>>
    BY <2>2 DEF WaitersChange, WaitersSame, ctxVars
  <2> QED BY <1>5, <2>1, <2>2 DEF Dispatch
<1>6. ASSUME NEW fd \in FD, NEW ev \in EventType, DelEvent(fd, ev) PROVE WaitersChange
  BY <1>6 DEF WaitersChange
<1>7. CASE Resume
  BY <1>7 DEF WaitersChange
<1>8. ASSUME NEW fd \in FD, NEW c \in Condition, Edge(fd, c) PROVE WaitersChange
  BY <1>8 DEF Edge, ctxVars, WaitersChange, WaitersSame
<1>9. ASSUME NEW fd \in FD, NEW ev \in EventType, Exhaust(fd, ev) PROVE WaitersChange
  BY <1>9 DEF Exhaust, ctxVars, WaitersChange, WaitersSame
<1>10. ASSUME NEW fd \in FD, Open(fd) PROVE WaitersChange
  BY <1>10 DEF Open, ctxVars, WaitersChange, WaitersSame
<1>11. ASSUME EpollWait(MaxEvents) PROVE WaitersChange
  BY <1>11 DEF EpollWait, ctxVars, WaitersChange, WaitersSame
<1>12. CASE UNCHANGED vars
  BY <1>12 DEF WaitersChange, WaitersSame, vars
<1> QED BY <1>1, <1>2, <1>3, <1>4, <1>5, <1>6, <1>7, <1>8, <1>9, <1>10, <1>11, <1>12
        DEF Next, Step

\* No step makes two of a waiter.
LEMMA OnceStep ==
  TypeOK /\ ContextMatch /\ ArmedOnce /\ Apart /\ ListOnce /\ OustedOut /\ [Next]_vars
    => ArmedOnce' /\ Apart' /\ ListOnce' /\ OustedOut'
<1> SUFFICES ASSUME TypeOK, ContextMatch, ArmedOnce, Apart, ListOnce, OustedOut, [Next]_vars
             PROVE  ArmedOnce' /\ Apart' /\ ListOnce' /\ OustedOut'
  OBVIOUS
<1>2. CASE WaitersSame
  BY <1>2 DEF WaitersSame, ArmedOnce, Apart, ListOnce, OustedOut, Armed, WaiterOf
<1>3. CASE \E fd \in FD, ev \in EventType, w \in Waiter :
             MayWait(w) /\ AddEventOk(fd, ev, w)
  BY <1>3, AddOnce
<1>4. CASE \E fd \in FD, S \in SUBSET EventType : S \subseteq events[fd] /\ Trigger(fd, S)
  BY <1>4, TriggerOnce
<1>5. CASE \E fd \in FD, ev \in EventType : DelEvent(fd, ev)
  <2>1. PICK fd \in FD, ev \in EventType : DelEvent(fd, ev)
    BY <1>5
  <2>2. Forget(fd, {ev}) /\ {ev} \in SUBSET EventType /\ m_fiber_list' = m_fiber_list
    BY <2>1 DEF DelEvent
  <2>3. Armed' \subseteq Armed /\ \A p \in Armed' : WaiterOf(p)' = WaiterOf(p)
    BY <2>2, ForgetArmed
  <2>4. ousted' = ousted
    BY <2>2, ForgetFacts
  <2> QED BY <2>2, <2>3, <2>4, FewerArmed
<1>6. CASE Resume
  <2>1. /\ m_fiber_list \in Seq(Waiter) /\ m_fiber_list # <<>>
        /\ m_fiber_list' = Tail(m_fiber_list)
        /\ UNCHANGED <<events, waiter, ousted>>
    BY <1>6 DEF Resume, ctxVars, TypeOK
  <2>2. \A i \in DOMAIN m_fiber_list' :
          i + 1 \in DOMAIN m_fiber_list /\ m_fiber_list'[i] = m_fiber_list[i + 1] /\ i \in Nat
    BY <2>1
  <2>3. Armed' = Armed /\ \A p \in Armed : WaiterOf(p)' = WaiterOf(p)
    BY <2>1 DEF Armed, WaiterOf
  <2>4. ArmedOnce' /\ Apart'
    BY <2>2, <2>3 DEF ArmedOnce, Apart
  <2>5. ListOnce'
    <3> SUFFICES ASSUME NEW i \in DOMAIN m_fiber_list', NEW j \in DOMAIN m_fiber_list',
                        m_fiber_list'[i] = m_fiber_list'[j]
                 PROVE  i = j
      BY DEF ListOnce
    <3>1. i + 1 = j + 1
      BY <2>2 DEF ListOnce
    <3> QED BY <2>2, <3>1
  <2>6. OustedOut'
    BY <2>1, <2>2, <2>3 DEF OustedOut
  <2> QED BY <2>4, <2>5, <2>6
<1> QED BY <1>2, <1>3, <1>4, <1>5, <1>6, StepKinds DEF WaitersChange

\* WInv is kept by every step.
LEMMA WaiterStep == WInv /\ [Next]_vars => WInv'
  BY StepInv, OnceStep, PendingStep DEF WInv, IInv

\* At first nobody waits and nobody is scheduled.
LEMMA WaiterInit == Init => WInv
<1> SUFFICES ASSUME Init PROVE WInv
  OBVIOUS
<1>1. IInv
  BY InitInv
<1>2. Armed = {} /\ m_fiber_list = <<>> /\ ousted = {} /\ m_pending_event_count = 0
  BY DEF Init, InitContexts, Armed
<1>3. Counted
  BY <1>2, FS_EmptySet DEF Counted, PendingExact
<1> QED BY <1>1, <1>2, <1>3 DEF WInv, ArmedOnce, Apart, ListOnce, OustedOut

\* m_pending_event_count is the number of armed events and of overwritten waits
\* after any sequence of add, delete, cancel, close and dispatch: two waiters on
\* one event make it too high for good, and nothing else makes it wrong.
THEOREM PendingCounted == Spec => []PendingExact
<1>1. WInv => PendingExact
  BY DEF WInv, Counted
<1> QED BY <1>1, WaiterInit, WaiterStep, PTL DEF Spec

\* No waiter is armed twice, scheduled twice, or armed and scheduled: nothing
\* add_event, del_event, cancel, close and idle do in any order resumes a
\* fiber out of a wait it began later.
THEOREM WaitersOnce == Spec => []WaiterOnce
<1>1. Spec => []WInv
  BY WaiterInit, WaiterStep, PTL DEF Spec
<1> QED BY <1>1, WaiterOnceParts, PTL

-----------------------------------------------------------------------------
\* The waiters of triggered events are on the list.
LEMMA TriggerKeeps ==
  ASSUME TypeOK, ContextMatch, ArmedOnce,
         NEW fd \in FD, NEW S \in SUBSET EventType, S \subseteq events[fd],
         Trigger(fd, S), NEW w \in Waiting \ Waiting'
  PROVE  w \in {m_fiber_list'[i] : i \in DOMAIN m_fiber_list'}
<1> DEFINE W == Woken(fd, S)
<1>1. PICK p \in Armed : w = WaiterOf(p)
  BY DEF Waiting, WaiterOf
<1>2. /\ Armed' = Armed \ {<<fd, ev>> : ev \in S}
      /\ \A q \in Armed' : WaiterOf(q)' = WaiterOf(q)
  BY ForgetArmed DEF Trigger
<1>3. p \notin Armed'
  <2> SUFFICES ASSUME p \in Armed' PROVE FALSE
    OBVIOUS
  <2>1. w = WaiterOf(p)'
    BY <1>1, <1>2
  <2> QED BY <2>1 DEF Waiting, WaiterOf
<1>4. PICK ev \in S : p = <<fd, ev>>
  BY <1>1, <1>2, <1>3
<1>5. PICK j \in DOMAIN W : W[j] = waiter[fd][ev]
  BY WokenElements
<1>6. w = W[j]
  BY <1>1, <1>4, <1>5 DEF WaiterOf
<1>7. W \in Seq(Waiter) /\ m_fiber_list \in Seq(Waiter) /\ m_fiber_list' = m_fiber_list \o W
  BY WokenType DEF TypeOK, Trigger
<1> HIDE DEF W
<1>8. Len(m_fiber_list) + j \in DOMAIN m_fiber_list'
      /\ m_fiber_list'[Len(m_fiber_list) + j] = W[j]
  BY <1>7, Behind
<1> QED BY <1>6, <1>8

\* What a call that ends waits does: entries are put behind those of the list,
\* each a waiter, and every waiter that no longer waits is one of them.
Moved ==
  /\ Armed' \subseteq Armed /\ \A p \in Armed' : WaiterOf(p)' = WaiterOf(p)
  /\ \A i \in DOMAIN m_fiber_list :
       i \in DOMAIN m_fiber_list' /\ m_fiber_list'[i] = m_fiber_list[i]
  /\ \A i \in DOMAIN m_fiber_list' \ DOMAIN m_fiber_list :
       m_fiber_list'[i] \in Waiting /\ \A j \in DOMAIN m_fiber_list : j < i
  /\ \A w \in Waiting \ Waiting' : w \in Scheduled'
  /\ ousted' = ousted

\* A step that leaves the waiters and the list alone moves nobody.
LEMMA SameMoves == TypeOK /\ WaitersSame => Moved
  BY DEF TypeOK, WaitersSame, Moved, Armed, WaiterOf, Waiting

\* trigger_event moves waiters from their contexts to the end of the list.
LEMMA TriggerMoves ==
  ASSUME TypeOK, ContextMatch, ArmedOnce,
         NEW fd \in FD, NEW S \in SUBSET EventType, S \subseteq events[fd],
         Trigger(fd, S)
  PROVE  Moved
<1> DEFINE W == Woken(fd, S)
<1>1. Armed' \subseteq Armed /\ \A p \in Armed' : WaiterOf(p)' = WaiterOf(p)
  BY ForgetArmed DEF Trigger
<1>2. W \in Seq(Waiter) /\ m_fiber_list \in Seq(Waiter) /\ m_fiber_list' = m_fiber_list \o W
  BY WokenType DEF TypeOK, Trigger
<1>3. \A i \in DOMAIN W : W[i] \in Waiting
  <2> SUFFICES ASSUME NEW i \in DOMAIN W PROVE W[i] \in Waiting
    OBVIOUS
  <2>1. PICK ev \in S : W[i] = waiter[fd][ev]
    BY WokenElements
  <2>2. <<fd, ev>> \in Armed
    BY DEF Armed
  <2> QED BY <2>1, <2>2 DEF Waiting
<1>4. \A w \in Waiting \ Waiting' : w \in Scheduled'
  BY TriggerKeeps DEF Scheduled
<1> HIDE DEF W
<1>5. \A i \in DOMAIN m_fiber_list :
        i \in DOMAIN m_fiber_list' /\ m_fiber_list'[i] = m_fiber_list[i]
  BY <1>2, Behind
<1>6. ASSUME NEW i \in DOMAIN m_fiber_list' \ DOMAIN m_fiber_list
      PROVE  m_fiber_list'[i] \in Waiting /\ \A j \in DOMAIN m_fiber_list : j < i
  <2>1. PICK k \in DOMAIN W : i = Len(m_fiber_list) + k /\ m_fiber_list'[i] = W[k]
    BY <1>2, Behind
  <2>2. k \in Nat /\ k > 0 /\ Len(m_fiber_list) \in Nat
        /\ DOMAIN m_fiber_list = 1 .. Len(m_fiber_list)
    BY <1>2
  <2>3. \A j \in DOMAIN m_fiber_list : j < i
    BY <2>1, <2>2
  <2> QED BY <1>3, <2>1, <2>3
<1>7. ousted' = ousted
  BY ForgetFacts DEF Trigger
<1> QED BY <1>1, <1>4, <1>5, <1>6, <1>7 DEF Moved

\* cancel_event, close and dispatch end waits in this way or not at all.
LEMMA CallMoves ==
  ASSUME TypeOK, ContextMatch, ArmedOnce, NEW fd \in FD,
         Close(fd) \/ Dispatch(fd) \/ \E ev \in EventType : CancelEvent(fd, ev)
  PROVE  Moved
<1>1. ASSUME NEW S \in SUBSET EventType, S \subseteq events[fd], Trigger(fd, S) PROVE Moved
  BY <1>1, TriggerMoves
<1>2. events[fd] \in SUBSET EventType
  BY DEF TypeOK
<1>3. CASE Close(fd)
  BY <1>1, <1>2, <1>3, SameMoves DEF Close, WaitersSame, ctxVars
<1>4. CASE Dispatch(fd)
  BY <1>1, <1>2, <1>4, SameMoves DEF Dispatch, WaitersSame, ctxVars
<1>5. ASSUME NEW ev \in EventType, CancelEvent(fd, ev) PROVE Moved
  <2>1. {ev} \in SUBSET EventType
    OBVIOUS
  <2> QED BY <1>1, <1>5, <2>1, SameMoves DEF CancelEvent, CancelEventOk, WaitersSame, vars
<1> QED BY <1>3, <1>4, <1>5

\* A waiter that stops waiting is scheduled in the same step, whichever of
\* cancel_event, cancel_all, close and idle ends the wait; only del_event drops
\* one, and only an add_event for the same event takes its place.
THEOREM NobodyForgotten == Spec => NoLostWaiter
<1> DEFINE
      Kept == \A w \in Waiting \ Waiting' :
        \/ w \in {m_fiber_list'[i] : i \in DOMAIN m_fiber_list'}
        \/ \E fd \in FD, ev \in EventType :
             /\ ev \in events[fd] /\ waiter[fd][ev] = w
             /\ DelEvent(fd, ev) \/ \E v \in Waiter : AddEventOk(fd, ev, v)
<1>1. WInv /\ [Next]_vars => Kept
  <2> SUFFICES ASSUME WInv, [Next]_vars, NEW w \in Waiting \ Waiting'
               PROVE  \/ w \in {m_fiber_list'[i] : i \in DOMAIN m_fiber_list'}
                      \/ \E fd \in FD, ev \in EventType :
                           /\ ev \in events[fd] /\ waiter[fd][ev] = w
                           /\ DelEvent(fd, ev) \/ \E v \in Waiter : AddEventOk(fd, ev, v)
    OBVIOUS
  <2>1. TypeOK /\ ContextMatch /\ ArmedOnce
    BY DEF WInv, IInv
  <2>2. PICK p \in Armed : w = WaiterOf(p)
    BY DEF Waiting, WaiterOf
  <2>3. \A q \in Armed' : w # WaiterOf(q)'
    BY DEF Waiting, WaiterOf
  <2>4. ASSUME Armed \subseteq Armed', \A q \in Armed : WaiterOf(q)' = WaiterOf(q)
        PROVE  FALSE
    BY <2>2, <2>3, <2>4
  <2>5. CASE WaitersSame
    BY <2>4, <2>5 DEF WaitersSame, Armed, WaiterOf
  <2>6. CASE Resume
    BY <2>4, <2>6 DEF Resume, ctxVars, Armed, WaiterOf
  <2>7. ASSUME NEW fd \in FD, NEW ev \in EventType, NEW v \in Waiter,
               AddEventOk(fd, ev, v)
        PROVE  ev \in events[fd] /\ waiter[fd][ev] = w
    <3> SUFFICES ASSUME <<fd, ev>> \notin Armed \/ WaiterOf(<<fd, ev>>) # w PROVE FALSE
      BY DEF Armed, WaiterOf
    <3>1. /\ events'[fd] = events[fd] \cup {ev}
          /\ \A g \in FD : g # fd => events'[g] = events[g] /\ waiter'[g] = waiter[g]
          /\ \A e \in EventType : e # ev => waiter'[fd][e] = waiter[fd][e]
      BY <2>1, <2>7 DEF AddEventOk, TypeOK
    <3>2. p # <<fd, ev>>
      BY <2>2
    <3>3. p[1] \in FD /\ p[2] \in EventType /\ p = <<p[1], p[2]>> /\ p[2] \in events[p[1]]
      BY DEF Armed
    <3>4. p \in Armed' /\ WaiterOf(p)' = WaiterOf(p)
      <4>1. p[1] = fd => p[2] # ev
        BY <3>2, <3>3
      <4> QED BY <3>1, <3>3, <4>1 DEF Armed, WaiterOf
    <3> QED BY <2>2, <2>3, <3>4
  <2>8. ASSUME NEW fd \in FD, NEW S \in SUBSET EventType, S \subseteq events[fd],
               Trigger(fd, S)
        PROVE  w \in {m_fiber_list'[i] : i \in DOMAIN m_fiber_list'}
    BY <2>1, <2>8, TriggerKeeps
  <2>9. ASSUME NEW fd \in FD, NEW ev \in EventType, DelEvent(fd, ev)
        PROVE  ev \in events[fd] /\ waiter[fd][ev] = w
    <3>1. Forget(fd, {ev}) /\ {ev} \in SUBSET EventType
      BY <2>9 DEF DelEvent
    <3>2. /\ Armed' = Armed \ {<<fd, e>> : e \in {ev}}
          /\ \A q \in Armed' : WaiterOf(q)' = WaiterOf(q)
      BY <2>1, <3>1, ForgetArmed
    <3>3. p = <<fd, ev>>
      BY <2>2, <2>3, <3>2
    <3> QED BY <2>2, <2>9, <3>3 DEF WaiterOf, DelEvent
  <2> QED BY <2>5, <2>6, <2>7, <2>8, <2>9, StepKinds, <2>1 DEF WaitersChange
<1>2. Spec => []WInv
  BY WaiterInit, WaiterStep, PTL DEF Spec
<1>3. [Next]_vars /\ WInv => [Kept]_vars
  BY <1>1
<1> HIDE DEF Kept
<1>4. Spec => [][Kept]_vars
  BY <1>2, <1>3, PTL DEF Spec
<1> QED BY <1>4 DEF NoLostWaiter, Kept
=============================================================================
