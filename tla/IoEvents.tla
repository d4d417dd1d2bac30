------------------------------ MODULE IoEvents ------------------------------
(***************************************************************************)
(* qff/io_manager.cpp: the descriptors an IOManager waits for, against the *)
(* edge-triggered epoll instance it keeps them in.                         *)
(*                                                                         *)
(* Each call is one step.  With one OS thread that is exact; this module   *)
(* also lets calls come between epoll_wait and the handling of what it     *)
(* returned, as they do when several workers share the IOManager and       *)
(* FdContext::mutex serialises them.                                       *)
(*                                                                         *)
(* A definition whose comment begins with "Fault" is a mistake one could   *)
(* make in the definition after it; the runs show that it is noticed.      *)
(***************************************************************************)
EXTENDS Integers, Sequences, FiniteSets

CONSTANTS FD,         \* descriptor numbers
          Waiter,     \* fibers (or callbacks) that wait for an event
          None,       \* an empty EventContext
          MaxEvents   \* MAX_EVENT_COUNT of idle()

ASSUME IoAssumption ==
  /\ IsFiniteSet(FD)
  /\ None \notin Waiter
  /\ MaxEvents \in Nat \ {0}

EventType == {"READ", "WRITE"}
Condition == EventType \cup {"ERR"}    \* ERR is EPOLLERR or EPOLLHUP

VARIABLES events,                 \* FdContext::events, a set of EventType
          waiter,                 \* the EventContexts read and write
          m_pending_event_count,
          m_fiber_list,           \* Scheduler::m_fiber_list
          batch,                  \* ep_events: what epoll_wait returned
          aborted,                \* an assertion has failed or ~Fiber has
                                  \* terminated the program
          ousted,                 \* history: whose wait a later one took over
          \* the kernel's side
          open, level, registered, interest, queued

ctxVars    == <<events, waiter, m_pending_event_count, ousted>>
kernelVars == <<open, level, registered, interest, queued>>
vars == <<events, waiter, m_pending_event_count, m_fiber_list, batch, aborted,
          ousted, open, level, registered, interest, queued>>

-----------------------------------------------------------------------------
\* epoll_ctl ADD or MOD polls the file at once and queues it if it is ready.
\* Error conditions are reported whether or not they were asked for.
Register(fd, S) ==
  /\ registered' = registered \cup {fd}
  /\ interest' = [interest EXCEPT ![fd] = S]
  /\ queued' = IF level[fd] \cap (S \cup {"ERR"}) # {}
               THEN queued \cup {fd} ELSE queued \ {fd}
  /\ UNCHANGED <<open, level>>

Deregister(fd) ==
  /\ registered' = registered \ {fd}
  /\ interest' = [interest EXCEPT ![fd] = {}]
  /\ queued' = queued \ {fd}
  /\ UNCHANGED <<open, level>>

\* Fault: the descriptor is always removed from the epoll instance.
ModifyDeletes(fd, left) == Deregister(fd)

\* EPOLL_CTL_MOD while some event is left, EPOLL_CTL_DEL otherwise.
Modify(fd, left) == IF left # {} THEN Register(fd, left) ELSE Deregister(fd)

Reported(fd) == level[fd] \cap (interest[fd] \cup {"ERR"})

Pollable == {fd \in queued : Reported(fd) # {}}

-----------------------------------------------------------------------------
InitContexts ==
  /\ events = [fd \in FD |-> {}]
  /\ waiter = [fd \in FD |-> [ev \in EventType |-> None]]
  /\ m_pending_event_count = 0
  /\ ousted = {}
  /\ batch = [fd \in FD |-> {}]
  /\ aborted = FALSE
  /\ open = FD
  /\ level = [fd \in FD |-> {}]
  /\ registered = {}
  /\ interest = [fd \in FD |-> {}]
  /\ queued = {}

Init == InitContexts /\ m_fiber_list = <<>>

\* Fault: the context is cleared before its waiter is scheduled.
WokenCleared(fd, S) == [i \in 1 .. Cardinality(S) |-> None]

\* Fault: cancel_all serves one of two armed events.
WokenOne(fd, S) == <<waiter[fd][IF "READ" \in S THEN "READ" ELSE "WRITE"]>>

\* The waiters trigger_event schedules, READ before WRITE.
Woken(fd, S) == (IF "READ" \in S THEN <<waiter[fd]["READ"]>> ELSE <<>>)
             \o (IF "WRITE" \in S THEN <<waiter[fd]["WRITE"]>> ELSE <<>>)

\* Fault: one event too few is taken off the count.
ForgetUncounted(fd, S) ==
  /\ events' = [events EXCEPT ![fd] = @ \ S]
  /\ waiter' = [waiter EXCEPT ![fd] =
                  [ev \in EventType |-> IF ev \in S THEN None ELSE @[ev]]]
  /\ m_pending_event_count' = m_pending_event_count - Cardinality(S) + 1
  /\ UNCHANGED ousted

\* Fault: the context is not cleared.
ForgetUncleared(fd, S) ==
  /\ events' = [events EXCEPT ![fd] = @ \ S]
  /\ m_pending_event_count' = m_pending_event_count - Cardinality(S)
  /\ UNCHANGED <<waiter, ousted>>

\* Events S of fd are no longer pending and their contexts are cleared.
Forget(fd, S) ==
  /\ events' = [events EXCEPT ![fd] = @ \ S]
  /\ waiter' = [waiter EXCEPT ![fd] =
                  [ev \in EventType |-> IF ev \in S THEN None ELSE @[ev]]]
  /\ m_pending_event_count' = m_pending_event_count - Cardinality(S)
  /\ UNCHANGED ousted

\* Fault: what is scheduled replaces the list.
TriggerReplaces(fd, S) == Forget(fd, S) /\ m_fiber_list' = Woken(fd, S)

\* FdContext::trigger_event for each event of S, each with its decrement.
Trigger(fd, S) ==
  /\ Forget(fd, S)
  /\ m_fiber_list' = m_fiber_list \o Woken(fd, S)

\* EPOLL_CTL_ADD fails on a registered descriptor, MOD on an unregistered one.
CanAdd(fd) == fd \in open /\ (events[fd] = {} <=> fd \notin registered)

\* An armed event is logged and armed again: it is counted once more, and its
\* waiter overwritten.  The waiter is never resumed, or the program terminates,
\* if the context held the last reference to the suspended fiber (~Fiber).
Oust(fd, ev) ==
  IF ev \in events[fd]
  THEN ousted' = ousted \cup {waiter[fd][ev]} /\ aborted' \in BOOLEAN
  ELSE UNCHANGED <<ousted, aborted>>

AddEventOk(fd, ev, w) ==
  /\ CanAdd(fd)
  /\ Register(fd, events[fd] \cup {ev})
  /\ m_pending_event_count' = m_pending_event_count + 1
  /\ events' = [events EXCEPT ![fd] = @ \cup {ev}]
  /\ waiter' = [waiter EXCEPT ![fd][ev] = w]
  /\ Oust(fd, ev)
  /\ UNCHANGED <<m_fiber_list, batch>>

\* add_event: 0 and the waiter is armed, or -1 and nothing has changed.
AddEvent(fd, ev, w) ==
  \/ AddEventOk(fd, ev, w)
  \/ ~CanAdd(fd) /\ UNCHANGED vars

\* del_event: the waiter is dropped without being scheduled, with the same
\* effect if this was the last reference to a suspended fiber.
DelEvent(fd, ev) ==
  /\ ev \in events[fd] /\ fd \in registered
  /\ Modify(fd, events[fd] \ {ev})
  /\ Forget(fd, {ev})
  /\ aborted' \in BOOLEAN
  /\ UNCHANGED <<m_fiber_list, batch>>

CancelEventOk(fd, ev) ==
  /\ ev \in events[fd] /\ fd \in registered
  /\ Modify(fd, events[fd] \ {ev})
  /\ Trigger(fd, {ev})
  /\ UNCHANGED <<batch, aborted>>

CancelEvent(fd, ev) ==
  \/ CancelEventOk(fd, ev)
  \/ (ev \notin events[fd] \/ fd \notin registered) /\ UNCHANGED vars

\* close(): cancel_all, and then the descriptor is gone from the kernel; a
\* registration nobody waits on is removed with it.
Close(fd) ==
  /\ fd \in open
  /\ IF events[fd] # {} /\ fd \in registered
     THEN Trigger(fd, events[fd])
     ELSE UNCHANGED <<ctxVars, m_fiber_list>>
  /\ registered' = registered \ {fd}
  /\ interest' = [interest EXCEPT ![fd] = {}]
  /\ queued' = queued \ {fd}
  /\ open' = open \ {fd}
  /\ level' = [level EXCEPT ![fd] = {}]
  /\ UNCHANGED <<batch, aborted>>

\* cancel_all alone (Socket::cancel_all).
CancelAll(fd) ==
  /\ events[fd] # {} /\ fd \in registered
  /\ Deregister(fd)
  /\ Trigger(fd, events[fd])
  /\ UNCHANGED <<batch, aborted>>

-----------------------------------------------------------------------------
\* epoll_wait: at most max of the queued descriptors that are ready.
EpollWait(max) ==
  /\ \E S \in SUBSET Pollable :
       /\ IF Cardinality(Pollable) <= max THEN S = Pollable ELSE Cardinality(S) = max
       /\ batch' = [fd \in FD |-> IF fd \in S THEN Reported(fd) ELSE {}]
       /\ queued' = Pollable \ S
  /\ UNCHANGED <<ctxVars, m_fiber_list, aborted, open, level, registered, interest>>

\* Fault: errors and hang-ups are not translated.
RealEventsPlain(fd) == batch[fd] \cap EventType

\* An error or hang-up counts as readable and writable.
RealEvents(fd) == IF "ERR" \in batch[fd] THEN EventType ELSE batch[fd]

\* Fault: READ is served like WRITE.
ServedAll(fd) == events[fd]

\* The events whose trigger_event is called: READ when it was reported,
\* WRITE whenever somebody waits for it.
Served(fd) == (RealEvents(fd) \cap {"READ"}) \cup (events[fd] \cap {"WRITE"})

\* One entry of ep_events.  The kernel is told what is left before the
\* waiters are woken; a failing epoll_ctl skips the entry; trigger_event
\* asserts that the event is armed.
Dispatch(fd) ==
  /\ batch[fd] # {}
  /\ batch' = [batch EXCEPT ![fd] = {}]
  /\ \/ /\ events[fd] \cap RealEvents(fd) = {} \/ fd \notin registered
        /\ UNCHANGED <<ctxVars, m_fiber_list, aborted, kernelVars>>
     \/ /\ events[fd] \cap RealEvents(fd) # {} /\ fd \in registered
        /\ Modify(fd, events[fd] \ RealEvents(fd))
        /\ IF Served(fd) \subseteq events[fd]
           THEN Trigger(fd, Served(fd)) /\ UNCHANGED aborted
           ELSE aborted' = TRUE /\ UNCHANGED <<ctxVars, m_fiber_list>>

-----------------------------------------------------------------------------
\* The kernel: a condition comes up on an open descriptor and, if it is
\* watched, queues it; the program reads or fills the buffer to the end.
Edge(fd, c) ==
  /\ fd \in open /\ c \notin level[fd]
  /\ level' = [level EXCEPT ![fd] = @ \cup {c}]
  /\ queued' = IF fd \in registered /\ c \in interest[fd] \cup {"ERR"}
               THEN queued \cup {fd} ELSE queued
  /\ UNCHANGED <<ctxVars, m_fiber_list, batch, aborted, open, registered, interest>>

Exhaust(fd, ev) ==
  /\ ev \in level[fd]
  /\ level' = [level EXCEPT ![fd] = @ \ {ev}]
  /\ UNCHANGED <<ctxVars, m_fiber_list, batch, aborted, open, registered, interest, queued>>

\* socket() or accept() returns a descriptor number that was free.
Open(fd) ==
  /\ fd \notin open
  /\ open' = open \cup {fd}
  /\ UNCHANGED <<ctxVars, m_fiber_list, batch, aborted, level, registered, interest, queued>>

\* A worker takes the first scheduled waiter and resumes it.
Resume ==
  /\ m_fiber_list # <<>>
  /\ m_fiber_list' = Tail(m_fiber_list)
  /\ UNCHANGED <<ctxVars, batch, aborted, kernelVars>>

Armed == {p \in FD \X EventType : p[2] \in events[p[1]]}
Scheduled == {m_fiber_list[i] : i \in DOMAIN m_fiber_list}
Waiting == {waiter[p[1]][p[2]] : p \in Armed}

\* How the hooks use it: a fiber waits for one event at a time, and is
\* suspended until it is resumed (and each callback is a waiter of its own).
\* Several fibers may wait for one event.
MayWait(w) == w \notin Scheduled \cup Waiting \cup ousted

Step ==
  \/ \E fd \in FD, ev \in EventType, w \in Waiter :
       MayWait(w) /\ AddEvent(fd, ev, w)
  \/ \E fd \in FD, ev \in EventType : DelEvent(fd, ev)
  \/ \E fd \in FD, ev \in EventType : CancelEvent(fd, ev)
  \/ \E fd \in FD : CancelAll(fd)
  \/ \E fd \in FD : Close(fd)
  \/ \E fd \in FD : Open(fd)
  \/ Resume
  \/ batch = [fd \in FD |-> {}] /\ Pollable # {} /\ EpollWait(MaxEvents)
  \/ \E fd \in FD : Dispatch(fd)
  \/ \E fd \in FD, c \in Condition : Edge(fd, c)
  \/ \E fd \in FD, ev \in EventType : Exhaust(fd, ev)

Next == ~aborted /\ Step

Spec == Init /\ [][Next]_vars

-----------------------------------------------------------------------------
\* The fields of FdContext, EventContext and the kernel keep their types.
TypeOK ==
  /\ events \in [FD -> SUBSET EventType]
  /\ waiter \in [FD -> [EventType -> Waiter \cup {None}]]
  /\ m_pending_event_count \in Int
  /\ m_fiber_list \in Seq(Waiter)
  /\ batch \in [FD -> SUBSET Condition]
  /\ aborted \in BOOLEAN
  /\ ousted \subseteq Waiter
  /\ open \subseteq FD
  /\ level \in [FD -> SUBSET Condition]
  /\ registered \subseteq FD
  /\ interest \in [FD -> SUBSET EventType]
  /\ queued \subseteq FD

\* m_pending_event_count is the number of armed events and of the waits that
\* were overwritten, whatever mixture of add, delete, cancel, close and
\* dispatch came before.  stopping() waits for it to be zero: one decrement too
\* many ends the loop under a waiting fiber, one too few hangs the destructor,
\* and a second waiter on one event is the only thing that brings that about.
PendingExact == m_pending_event_count = Cardinality(Armed) + Cardinality(ousted)

\* The kernel watches exactly the armed events of a descriptor.  The one
\* exception is a WRITE interest left behind when dispatch woke a writer that
\* was not ready; then nothing is armed on the descriptor.
KernelCovers ==
  ~aborted => \A fd \in FD :
     /\ events[fd] # {} => fd \in registered /\ interest[fd] = events[fd]
     /\ events[fd] = {} => interest[fd] \subseteq {"WRITE"}

\* An armed event that is ready will be seen: its descriptor is queued for
\* epoll_wait or already in the batch with that condition.  Edges come at any
\* time, between epoll_wait and dispatch as well.
NoMissedEdge ==
  ~aborted => \A fd \in FD, ev \in EventType :
     ev \in events[fd] /\ level[fd] \cap {ev, "ERR"} # {}
       => fd \in queued \/ batch[fd] \cap {ev, "ERR"} # {}

\* An event is armed exactly when its context holds a waiter, and no waiter is
\* in two contexts, or both armed and scheduled, or scheduled twice: a fiber
\* resumed a second time would leave another wait it has since begun.  One that
\* was overwritten is in no context and on no list, ever again.
WaiterOnce ==
  /\ \A fd \in FD, ev \in EventType : ev \in events[fd] <=> waiter[fd][ev] # None
  /\ \A p, q \in Armed : waiter[p[1]][p[2]] = waiter[q[1]][q[2]] => p = q
  /\ Waiting \cap Scheduled = {}
  /\ ousted \cap (Waiting \cup Scheduled) = {}
  /\ \A i, j \in DOMAIN m_fiber_list : m_fiber_list[i] = m_fiber_list[j] => i = j

\* A waiter that stops waiting is scheduled, unless del_event dropped it or
\* add_event put another one in its place.
NoLostWaiter ==
  [][\A w \in Waiting \ Waiting' :
        \/ w \in {m_fiber_list'[i] : i \in DOMAIN m_fiber_list'}
        \/ \E fd \in FD, ev \in EventType :
             /\ ev \in events[fd] /\ waiter[fd][ev] = w
             /\ DelEvent(fd, ev) \/ \E v \in Waiter : AddEventOk(fd, ev, v)]_vars

\* Event ev of fd stops waiting in a dispatch step only if it was reported.
WokenWhenReported(ev) ==
  \A fd \in FD :
    batch'[fd] # batch[fd] /\ ev \in events[fd] \ events'[fd]
      => batch[fd] \cap {ev, "ERR"} # {}

\* Dispatch wakes a reader only if the kernel reported its descriptor readable
\* or failed.
ReaderWokenWhenReady == [][WokenWhenReported("READ")]_vars

\* The same for a writer, as the comment after the wait in do_io has it: the
\* fiber goes on because of a timeout or because its event was triggered.
WriterWokenWhenReady == [][WokenWhenReported("WRITE")]_vars

\* assert(event & events) in trigger_event holds whenever idle() serves an
\* entry of ep_events.
TriggeredEventIsArmed == [][\A fd \in FD : Dispatch(fd) => ~aborted']_vars
=============================================================================
