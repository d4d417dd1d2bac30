---------------------------- MODULE SocketsProofs ----------------------------
(***************************************************************************)
(* Proofs about the descriptor table and the sockets, for any callers with *)
(* and without hooks, any size of the table, any time limits and any       *)
(* number of descriptors, files and operations.                            *)
(***************************************************************************)
EXTENDS Sockets, FiniteSetTheorems, SequenceTheorems, WellFoundedInduction, TLAPS

CallOp == {"none", "socket", "accept", "connect", "io", "close", "get",
           "set_timeout", "set_flags", "ioctl", "fionbio"}
CallAt == {"idle", "look", "make", "use", "try", "system", "drop",
           "park", "parked", "woken", "done"}
Want == Limits \cup ConnectLimits \cup {NoLimit, 0}
Call == [op : CallOp, at : CallAt, fd : Number \cup {-1}, want : Want,
         ctx : ContextId \cup {NoContext}, limit : Want, cancelled : BOOLEAN,
         rt : {-1, 0, 1}]
Ctx == [is_init : BOOLEAN, is_socket : BOOLEAN, sys_non_block : BOOLEAN,
        recv_timeout : Want, of : Nat]
File == [socket : BOOLEAN, nonblock : BOOLEAN, limit : Want]

\* What the variables hold,
FdType ==
  /\ fdtable \in [Number -> Nat] /\ registered \in [Number -> Nat]
  /\ files \in Seq(File) /\ \A n \in Number : fdtable[n] <= Len(files)
  /\ waiter \in [Number \X Event -> Caller \cup {Nobody}]
  /\ slots \in Nat
  /\ m_datas \in [Number -> ContextId \cup {NoContext}]
  /\ contexts \in [ContextId -> Ctx]
  /\ call \in [Caller -> Call]

SocketType ==
  /\ m_sock \in [Socket -> Number \cup {-1}]
  /\ m_is_connected \in [Socket -> BOOLEAN] /\ own \in [Socket -> Nat]
  /\ step \in [Caller -> [op : {"none", "connect", "bind", "close", "accept", "io", "set"},
                         on : Socket \cup {Nobody},
                         wait : {"none", "socket", "connect", "close", "accept", "create", "io"}]]
  /\ \A c \in Caller : step[c].wait # "none" => step[c].on \in Socket

TypeOK == FdType /\ SocketType

\* and how a call's fields depend on each other.
Shape(r) ==
  /\ r.op \notin {"none", "socket"} => r.fd \in Number
  /\ r.rt = 1 \/ r.ctx # NoContext => r.fd \in Number
  /\ r.at \notin {"idle", "done"} => r.op # "none"
  /\ r.at = "drop" => r.op = "close" /\ r.ctx # NoContext
  /\ r.at \in {"try", "park", "parked", "woken"} => r.op \in {"io", "accept", "connect"}
  /\ r.op = "socket" /\ r.at \notin {"system", "done"} => r.rt = 1
  /\ r.at = "make" => r.ctx = NoContext

Shaped == \A c \in Caller : Shape(call[c])

\* The table has what it was given at first, entries lie within it, and so does
\* the number of a call that is about to fill one.
TableInv ==
  /\ FirstSlots <= slots
  /\ \A n \in Number : m_datas[n] # NoContext => n < slots
  /\ \A c \in Caller : call[c].at = "make" => call[c].fd < slots

\* Who is parked is the waiter; what is waited for is open and watched; and
\* past its cancel_all a close finds nobody waiting.
WaitInv ==
  /\ \A c \in Caller :
       call[c].at = "parked" /\ call[c].fd \notin undercut =>
         waiter[<<call[c].fd, EventOf(c)>>] = c
  /\ \A n \in Number \ undercut :
       Waits(n) # {} => IsOpen(n) /\ registered[n] = fdtable[n]
  /\ \A c \in Caller :
       /\ call[c].op = "close" /\ call[c].at \in {"drop", "system"}
       /\ HasContext(c) /\ call[c].fd \notin undercut
       => Waits(call[c].fd) = {}

-----------------------------------------------------------------------------
\* The least of some natural numbers is one of them.
LEMMA MinIn ==
  ASSUME NEW S, S \subseteq Nat, S # {}
  PROVE  Min(S) \in S /\ \A x \in S : Min(S) <= x
<1>1. PICK least \in S : \A y \in S : ~(<<y, least>> \in OpToRel(<, Nat))
  BY WFMin, NatLessThanWellFounded
<1>2. \A y \in S : least <= y
  <2> SUFFICES ASSUME NEW y \in S, y < least PROVE FALSE
    OBVIOUS
  <2>1. <<y, least>> \in OpToRel(<, Nat)
    BY DEF OpToRel
  <2> QED BY <1>1, <2>1
<1> QED BY <1>1, <1>2 DEF Min

\* The number the kernel gives a new file is free.
LEMMA NewNumberFree ==
  ASSUME CanOpen
  PROVE  NewNumber \in Number /\ fdtable[NewNumber] = NoFile
<1>1. {n \in Number : fdtable[n] = NoFile} \subseteq Nat
  BY BoundsAssumption DEF Number
<1>2. {n \in Number : fdtable[n] = NoFile} # {}
  BY DEF CanOpen
<1> QED BY <1>1, <1>2, MinIn DEF NewNumber

\* A caller that has no context yet finds one that is not in use.
LEMMA FreshContext ==
  ASSUME FdType, NEW c \in Caller, call[c].ctx = NoContext
  PROVE  Min(ContextId \ Referred) \in ContextId \ Referred
<1> DEFINE A == {m_datas[n] : n \in Number}
           B == {call[d].ctx : d \in Caller}
           f == [d \in Caller |-> call[d].ctx]
<1>1. IsFiniteSet(Number) /\ Cardinality(Number) = MaxFd + 1
  BY FS_Interval, BoundsAssumption DEF Number
<1>2. IsFiniteSet(Caller) /\ Cardinality(Caller) \in Nat
  BY CallerAssumption, FS_CardinalityType
<1>3. IsFiniteSet(A) /\ Cardinality(A) <= MaxFd + 1
  <2>1. m_datas \in Surjection(Number, A)
    BY DEF FdType, Surjection
  <2> QED BY <1>1, <2>1, FS_Surjection
<1>4. IsFiniteSet(B) /\ Cardinality(B) <= Cardinality(Caller)
  <2>1. f \in Surjection(Caller, B)
    BY DEF Surjection
  <2> QED BY <1>2, <2>1, FS_Surjection
<1>5. IsFiniteSet(Referred) /\ Cardinality(Referred) <= MaxFd + 1 + Cardinality(Caller)
  <2>1. Referred = A \cup B
    BY DEF Referred
  <2>2. /\ Cardinality(A) \in Nat /\ Cardinality(B) \in Nat /\ IsFiniteSet(A \cap B)
        /\ Cardinality(A \cap B) \in Nat
    BY <1>3, <1>4, FS_CardinalityType, FS_Intersection
  <2>3. /\ IsFiniteSet(A \cup B)
        /\ Cardinality(A \cup B) = Cardinality(A) + Cardinality(B) - Cardinality(A \cap B)
    BY <1>3, <1>4, FS_Union
  <2> HIDE DEF A, B
  <2> QED BY <1>2, <1>3, <1>4, <2>1, <2>2, <2>3, BoundsAssumption
<1>6. IsFiniteSet(ContextId) /\ Cardinality(ContextId) = MaxFd + 1 + Cardinality(Caller)
  <2> DEFINE k == MaxFd + 1 + Cardinality(Caller)
  <2>1. k \in Int /\ k >= 1
    BY <1>2, BoundsAssumption
  <2>2. IsFiniteSet(1 .. k) /\ Cardinality(1 .. k) = IF 1 > k THEN 0 ELSE k - 1 + 1
    BY <2>1, FS_Interval
  <2> HIDE DEF k
  <2>3. Cardinality(1 .. k) = k
    BY <2>1, <2>2
  <2> QED BY <2>2, <2>3 DEF ContextId, k
<1>7. 0 \in Referred /\ 0 \notin ContextId
  BY <1>2, BoundsAssumption DEF Referred, ContextId, NoContext
<1>8. ContextId \ Referred # {}
  <2> SUFFICES ASSUME ContextId \subseteq Referred PROVE FALSE
    OBVIOUS
  <2>1. ContextId \cup {0} \in SUBSET Referred
    BY <1>7
  <2>2. Cardinality(ContextId \cup {0}) = MaxFd + 1 + Cardinality(Caller) + 1
    BY <1>6, <1>7, FS_AddElement
  <2>3. Cardinality(ContextId \cup {0}) <= Cardinality(Referred)
    BY <1>5, <2>1, FS_Subset
  <2>4. Cardinality(Referred) \in Nat
    BY <1>5, FS_CardinalityType
  <2> QED BY <1>2, <1>5, <2>2, <2>3, <2>4, BoundsAssumption
<1>9. ContextId \ Referred \subseteq Nat
  BY <1>2, BoundsAssumption DEF ContextId
<1> QED BY <1>8, <1>9, MinIn

-----------------------------------------------------------------------------
\* What an operation on an object does to the descriptors: it begins a call,
\* ends one that has returned, or leaves them alone.
AtRest(c) == failure = "none" /\ (call[c] = Idle \/ HasReturned(c))

FdBegins(c) ==
  /\ AtRest(c)
  /\ \E op \in CallOp \ {"none"} : \E n \in Number \cup {-1} : \E want \in Want :
       /\ op # "socket" => n \in Number
       /\ Begin(c, op, n, want)

FdRests(c) ==
  /\ AtRest(c)
  /\ \E r \in {Idle, [Idle EXCEPT !.at = "done"]} : call' = [call EXCEPT ![c] = r]
  /\ UNCHANGED <<kernelVars, waiter, tableVars, failure, ghostVars>>

FdNext ==
  \/ \E n \in Number : Ready(n)
  \/ \E c \in Caller : Step(c) \/ OpenOther(c) \/ FdBegins(c) \/ FdRests(c)
  \/ UNCHANGED fdVars

\* A call that ends, or begins on a number or to get one.
LEMMA LeaveRests ==
  ASSUME NEW c \in Caller, AtRest(c), Leave(c)
  PROVE  FdRests(c)
BY DEF Leave, FdRests

\* A call that begins is on a number, or to get one.
LEMMA BeginBegins ==
  ASSUME NEW c \in Caller, AtRest(c), NEW op \in CallOp \ {"none"}, NEW n \in Number \cup {-1},
         NEW want \in Want, op # "socket" => n \in Number, Begin(c, op, n, want)
  PROVE  FdBegins(c)
BY DEF FdBegins

\* An operation of an object is one of these steps.
LEMMA FdSteps ==
  ASSUME TypeOK, Shaped, [Next]_vars
  PROVE  FdNext
<1>1. CASE UNCHANGED vars
  BY <1>1 DEF vars, FdNext
<1>2. CASE \E n \in Number : Ready(n)
  BY <1>2 DEF FdNext
<1>3. ASSUME NEW c \in Caller, Acts(c)
      PROVE  FdNext
  <2> USE DEF CallOp
  <2>a. NoLimit \in Want /\ 0 \in Want /\ Limits \subseteq Want /\ ConnectLimits \subseteq Want
    BY DEF Want
  <2>b. ASSUME HasReturned(c), failure = "none"
        PROVE  AtRest(c) /\ (call[c].rt = 1 => call[c].fd \in Number)
               /\ call[c].want \in Want
    BY <2>b DEF AtRest, Shaped, Shape, TypeOK, FdType, Call
  <2>c. \A s \in Socket : m_sock[s] \in Number \cup {-1}
    BY DEF TypeOK, SocketType
  <2>1. CASE Step(c)
    BY <2>1 DEF FdNext
  <2>2. CASE CreateSock(c)
    <3>1. HasReturned(c) /\ failure = "none"
      BY <2>2 DEF CreateSock, Back
    <3>2. Leave(c) \/ (call[c].rt = 1 /\ Begin(c, "connect", call[c].fd, call[c].want))
      BY <2>2 DEF CreateSock, Then
    <3> QED BY <3>1, <3>2, <2>b, LeaveRests, BeginBegins DEF FdNext
  <2>3. CASE Connected(c) \/ Closed(c) \/ CreateSockFromSockfd(c) \/ Finished(c)
    <3>1. HasReturned(c) /\ failure = "none" /\ Leave(c)
      BY <2>3 DEF Connected, Closed, CreateSockFromSockfd, Finished, Back
    <3> QED BY <3>1, <2>b, LeaveRests DEF FdNext
  <2>4. CASE ConnectFailed(c)
    <3>1. HasReturned(c) /\ failure = "none" /\ step[c].wait = "connect"
      BY <2>4 DEF ConnectFailed, Back
    <3>2. step[c].on \in Socket
      BY <3>1 DEF TypeOK, SocketType
    <3>3. Leave(c) \/ (/\ m_sock[step[c].on] # -1
                      /\ Begin(c, "close", m_sock[step[c].on], NoLimit))
      BY <2>4 DEF ConnectFailed, Then
    <3> QED BY <3>1, <3>2, <3>3, <2>a, <2>b, <2>c, LeaveRests, BeginBegins DEF FdNext
  <2>5. CASE Accepts(c)
    <3>1. HasReturned(c) /\ failure = "none"
      BY <2>5 DEF Accepts, Back
    <3>2. Leave(c) \/ (call[c].rt = 1 /\ Begin(c, "get", call[c].fd, NoLimit))
      BY <2>5 DEF Accepts, Then
    <3> QED BY <3>1, <3>2, <2>a, <2>b, LeaveRests, BeginBegins DEF FdNext
  <2>6. CASE Begins(c)
    <3>1. AtRest(c)
      BY <2>6 DEF Begins, Free, AtRest
    <3>2. CASE Other(c)
      BY <3>2 DEF Other, FdNext
    <3>3. ASSUME NEW s \in Socket, Close(c, s)
          PROVE  FdNext
      <4>1. CASE m_sock[s] # -1
        <5>1. Begin(c, "close", m_sock[s], NoLimit)
          BY <3>3, <4>1 DEF Close
        <5> QED BY <5>1, <3>1, <4>1, <2>a, <2>c, BeginBegins DEF FdNext
      <4>2. CASE m_sock[s] = -1
        <5>1. /\ call' = [call EXCEPT ![c].at = "done"]
              /\ UNCHANGED <<kernelVars, waiter, tableVars, failure, ghostVars>>
          BY <3>3, <4>2 DEF Close
        <5>2. call[c] = Idle
          BY <2>6 DEF Begins, Free
        <5>3. call' = [call EXCEPT ![c] = [Idle EXCEPT !.at = "done"]]
          BY <5>1, <5>2
        <5> QED BY <3>1, <5>1, <5>3 DEF FdRests, FdNext
      <4> QED BY <4>1, <4>2
    <3>4. ASSUME NEW s \in Socket, NEW limit \in Want, Connect(c, s, limit)
          PROVE  FdNext
      <4>1. \/ Begin(c, "socket", -1, limit)
            \/ m_sock[s] # -1 /\ Begin(c, "connect", m_sock[s], limit)
        BY <3>4 DEF Connect
      <4> QED BY <4>1, <3>1, <2>c, BeginBegins DEF FdNext
    <3>5. ASSUME NEW s \in Socket, Bind(c, s)
          PROVE  FdNext
      <4>1. Begin(c, "socket", -1, NoLimit)
        BY <3>5 DEF Bind
      <4> QED BY <4>1, <3>1, <2>a, BeginBegins DEF FdNext
    <3>6. ASSUME NEW s \in Socket, NEW op \in CallOp \ {"none"}, NEW want \in Want,
                 m_sock[s] # -1, Begin(c, op, m_sock[s], want)
          PROVE  FdNext
      BY <3>6, <3>1, <2>c, BeginBegins DEF FdNext
    <3>7. ASSUME NEW s \in Socket, Accept(c, s) \/ Transfer(c, s)
          PROVE  FdNext
      BY <3>7, <3>6, <2>a DEF Accept, Transfer
    <3>8. ASSUME NEW s \in Socket, NEW limit \in Limits, SetRecvTimeout(c, s, limit)
          PROVE  FdNext
      BY <3>8, <3>6, <2>a DEF SetRecvTimeout
    <3>9. ASSUME NEW s \in Socket, NEW op \in {"set_flags", "ioctl", "fionbio"}, Direct(c, s, op, 0)
          PROVE  FdNext
      BY <3>9, <3>6, <2>a DEF Direct
    <3> QED BY <2>6, <2>a, <3>2, <3>3, <3>4, <3>5, <3>7, <3>8, <3>9 DEF Begins
  <2> QED BY <1>3, <2>1, <2>2, <2>3, <2>4, <2>5, <2>6 DEF Acts
<1> QED BY <1>1, <1>2, <1>3 DEF Next

\* Objects hold numbers, and operations are on objects.
LEMMA SocketTypeStep ==
  ASSUME TypeOK, Shaped, [Next]_vars
  PROVE  SocketType'
<1> USE DEF SocketType
<1>1. CASE UNCHANGED <<objectVars, step>>
  BY <1>1 DEF TypeOK, objectVars
<1>2. ASSUME NEW c \in Caller, Acts(c)
      PROVE  SocketType'
  <2>1. /\ call[c].fd \in Number \cup {-1}
        /\ call[c].rt = 1 \/ HasContext(c) => call[c].fd \in Number
        /\ call[c].fd \in Number => fdtable[call[c].fd] \in Nat
    BY DEF TypeOK, FdType, Call, Shaped, Shape, HasContext
  <2>2. CASE Step(c) /\ UNCHANGED <<objectVars, step, calls, clash>>
    BY <2>2, <1>1 DEF objectVars
  <2>3. CASE CreateSock(c)
    <3>1. own' \in [Socket -> Nat] /\ m_sock' \in [Socket -> Number \cup {-1}]
      BY <2>1, <2>3 DEF CreateSock, TypeOK
    <3>2. step[c].wait = "socket" /\ m_is_connected' = m_is_connected
      BY <2>3 DEF CreateSock, Back
    <3>3. \/ step' = [step EXCEPT ![c] = Resting]
          \/ step' = [step EXCEPT ![c].wait = "connect"]
      BY <2>3 DEF CreateSock, Then, Leave
    <3> QED BY <3>1, <3>2, <3>3 DEF Resting, TypeOK
  <2>4. CASE Connected(c) \/ Closed(c) \/ Finished(c)
    <3>1. /\ m_is_connected' \in [Socket -> BOOLEAN] /\ own' = own
          /\ m_sock' \in [Socket -> Number \cup {-1}]
      BY <2>4 DEF Connected, Closed, Finished, TypeOK, objectVars
    <3>2. step' = [step EXCEPT ![c] = Resting]
      BY <2>4 DEF Connected, Closed, Finished, Leave
    <3> QED BY <3>1, <3>2 DEF Resting, TypeOK
  <2>5. CASE ConnectFailed(c)
    BY <2>5 DEF ConnectFailed, Back, Then, Leave, Resting, TypeOK
  <2>6. CASE Accepts(c)
    BY <2>6 DEF Accepts, Back, Then, Leave, Resting, TypeOK, objectVars
  <2>7. CASE CreateSockFromSockfd(c)
    BY <2>1, <2>7 DEF CreateSockFromSockfd, Leave, Resting, TypeOK, objectVars
  <2>8. ASSUME NEW s \in Socket, NEW op \in {"connect", "bind", "close", "accept", "io", "set"},
               NEW wait \in {"socket", "connect", "close", "accept", "create", "io"},
               Enter(c, op, s, wait), UNCHANGED <<m_sock, own>>,
               m_is_connected' \in [Socket -> BOOLEAN]
        PROVE  SocketType'
    BY <2>8 DEF Enter, TypeOK
  <2>9. CASE Begins(c)
    <3>1. CASE Other(c)
      BY <3>1, <1>1 DEF Other, objectVars
    <3>2. ASSUME NEW s \in Socket, NEW limit, Connect(c, s, limit)
          PROVE  SocketType'
      BY <3>2, <2>8 DEF Connect, objectVars, TypeOK
    <3>3. ASSUME NEW s \in Socket, Bind(c, s) \/ Close(c, s) \/ Accept(c, s) \/ Transfer(c, s)
          PROVE  SocketType'
      BY <3>3, <2>8 DEF Bind, Close, Accept, Transfer, objectVars, TypeOK
    <3>4. ASSUME NEW s \in Socket, NEW limit, SetRecvTimeout(c, s, limit)
          PROVE  SocketType'
      BY <3>4, <2>8 DEF SetRecvTimeout, objectVars, TypeOK
    <3>5. ASSUME NEW s \in Socket, NEW op, Direct(c, s, op, 0)
          PROVE  SocketType'
      BY <3>5, <2>8 DEF Direct, objectVars, TypeOK
    <3> QED BY <2>9, <3>1, <3>2, <3>3, <3>4, <3>5 DEF Begins
  <2> QED BY <1>2, <2>2, <2>3, <2>4, <2>5, <2>6, <2>7, <2>9 DEF Acts
<1> QED BY <1>1, <1>2 DEF Next, vars, objectVars

-----------------------------------------------------------------------------
\* A step that gives one call another record.
LEMMA CallKept ==
  ASSUME FdType, Shaped, NEW c \in Caller, NEW r \in Call, Shape(r),
         call' = [call EXCEPT ![c] = r]
  PROVE  /\ call' \in [Caller -> Call] /\ Shaped'
         /\ call'[c] = r /\ \A d \in Caller \ {c} : call'[d] = call[d]
BY DEF FdType, Shaped, Shape

\* What is left of a record when the call goes on.
LEMMA CallFields ==
  ASSUME NEW r \in Call, NEW at \in CallAt
  PROVE  /\ [r EXCEPT !.at = at] \in Call /\ [r EXCEPT !.at = at].at = at
         /\ [r EXCEPT !.at = at].op = r.op /\ [r EXCEPT !.at = at].fd = r.fd
         /\ [r EXCEPT !.at = at].ctx = r.ctx /\ [r EXCEPT !.at = at].rt = r.rt
BY DEF Call

\* And what when its time is up.
LEMMA LimitFields ==
  ASSUME NEW r \in Call
  PROVE  /\ [r EXCEPT !.cancelled = TRUE].at = r.at /\ [r EXCEPT !.cancelled = TRUE].op = r.op
         /\ [r EXCEPT !.cancelled = TRUE].fd = r.fd /\ [r EXCEPT !.cancelled = TRUE].ctx = r.ctx
BY DEF Call

\* The record of a call that goes on, has returned, rests or begins.
LEMMA CallRecords ==
  ASSUME FdType, Shaped, NEW c \in Caller
  PROVE  /\ \A at \in CallAt : [call[c] EXCEPT !.at = at] \in Call
         /\ \A rt \in {-1, 0, 1} :
              [Idle EXCEPT !.op = call[c].op, !.fd = call[c].fd, !.at = "done", !.rt = rt] \in Call
         /\ Idle \in Call /\ [Idle EXCEPT !.at = "done"] \in Call
         /\ Shape(Idle) /\ Shape([Idle EXCEPT !.at = "done"])
         /\ \A rt \in {-1, 0} :
              Shape([Idle EXCEPT !.op = call[c].op, !.fd = call[c].fd, !.at = "done", !.rt = rt])
<1>1. call[c] \in Call /\ Shape(call[c])
  BY DEF FdType, Shaped
<1>2. NoLimit \in Want
  BY DEF Want
<1>3. ASSUME NEW at \in CallAt
      PROVE  [call[c] EXCEPT !.at = at] \in Call
  BY <1>1 DEF Call
<1>4. Idle \in Call /\ [Idle EXCEPT !.at = "done"] \in Call
  BY <1>2 DEF Call, CallOp, CallAt, Idle
<1>5. Shape(Idle) /\ Shape([Idle EXCEPT !.at = "done"])
  BY DEF Shape, Idle
<1>6. ASSUME NEW rt \in {-1, 0, 1}
      PROVE  [Idle EXCEPT !.op = call[c].op, !.fd = call[c].fd, !.at = "done", !.rt = rt] \in Call
  BY <1>1, <1>4 DEF Call, CallAt
<1>7. ASSUME NEW rt \in {-1, 0}
      PROVE  Shape([Idle EXCEPT !.op = call[c].op, !.fd = call[c].fd, !.at = "done", !.rt = rt])
  BY <1>1 DEF Shape, Idle
<1> QED BY <1>3, <1>4, <1>5, <1>6, <1>7

-----------------------------------------------------------------------------
\* What waking the waiters of some events of n does to calls, waits and epoll.
Woken(n, events, then) ==
  /\ call' \in [Caller -> Call]
  /\ \A c \in Caller :
       \/ call'[c] = then[c]
       \/ then[c].at = "parked" /\ call'[c] = [then[c] EXCEPT !.at = "woken"]
  /\ waiter' \in [Number \X Event -> Caller \cup {Nobody}]
  /\ registered' \in [Number -> Nat]
  /\ \A m \in Number : \A e \in Event :
       \/ waiter'[<<m, e>>] = waiter[<<m, e>>]
       \/ /\ m = n /\ e \in events /\ waiter'[<<m, e>>] = Nobody
          /\ \A c \in Caller : waiter[<<m, e>>] = c => call'[c].at # "parked"
  /\ \A m \in Number :
       registered'[m] # registered[m] =>
         m = n /\ \A e \in Event : waiter'[<<m, e>>] = Nobody
  /\ registered[n] # NoFile => \A e \in events : waiter'[<<n, e>>] = Nobody

\* Wakes does just that.
LEMMA WakesFacts ==
  ASSUME FdType, NEW n \in Number, NEW events \in SUBSET Event,
         NEW then \in [Caller -> Call], Wakes(n, events, then)
  PROVE  Woken(n, events, then)
<1> USE DEF Woken
<1> DEFINE hit == events \cap Waits(n)
           woken == {waiter[<<n, e>>] : e \in hit}
<1>1. CASE hit = {} \/ registered[n] = NoFile
  <2>1. call' = then /\ waiter' = waiter /\ registered' = registered
    BY <1>1 DEF Wakes
  <2>2. registered[n] # NoFile => \A e \in events : waiter[<<n, e>>] = Nobody
    BY <1>1 DEF Waits
  <2> HIDE DEF hit
  <2> QED BY <2>1, <2>2 DEF FdType
<1>2. CASE hit # {} /\ registered[n] # NoFile
  <2>1. /\ call' = [c \in Caller |-> IF c \in woken /\ then[c].at = "parked"
                                   THEN [then[c] EXCEPT !.at = "woken"] ELSE then[c]]
        /\ waiter' = [w \in Number \X Event |->
                        IF w[1] = n /\ w[2] \in hit THEN Nobody ELSE waiter[w]]
        /\ registered' = IF hit = Waits(n) THEN [registered EXCEPT ![n] = NoFile]
                         ELSE registered
    BY <1>2 DEF Wakes
  <2>2. hit \subseteq events /\ hit \subseteq Event /\ \A e \in hit : waiter[<<n, e>>] \in woken
    BY DEF Waits
  <2>3. \A e \in Event : e \notin Waits(n) => waiter[<<n, e>>] = Nobody
    BY DEF Waits
  <2>3a. \A e \in events : e \notin hit => waiter[<<n, e>>] = Nobody
    BY DEF Waits
  <2> HIDE DEF hit, woken
  <2>4. \A c \in Caller :
          /\ call'[c] \in Call
          /\ c \in woken => call'[c].at # "parked"
          /\ \/ call'[c] = then[c]
             \/ then[c].at = "parked" /\ call'[c] = [then[c] EXCEPT !.at = "woken"]
    <3> SUFFICES ASSUME NEW c \in Caller
                 PROVE  /\ call'[c] \in Call
                        /\ c \in woken => call'[c].at # "parked"
                        /\ \/ call'[c] = then[c]
                           \/ then[c].at = "parked" /\ call'[c] = [then[c] EXCEPT !.at = "woken"]
      OBVIOUS
    <3>1. call'[c] = IF c \in woken /\ then[c].at = "parked"
                     THEN [then[c] EXCEPT !.at = "woken"] ELSE then[c]
      BY <2>1
    <3>2. /\ then[c] \in Call /\ [then[c] EXCEPT !.at = "woken"] \in Call
          /\ [then[c] EXCEPT !.at = "woken"].at = "woken"
      BY CallFields DEF CallAt
    <3> QED BY <3>1, <3>2
  <2>5. call' \in [Caller -> Call]
    BY <2>1, <2>4
  <2>6. \A m \in Number : \A e \in Event :
          waiter'[<<m, e>>] = IF m = n /\ e \in hit THEN Nobody ELSE waiter[<<m, e>>]
    BY <2>1
  <2>7. waiter' \in [Number \X Event -> Caller \cup {Nobody}]
    BY <2>1 DEF FdType
  <2>8. registered' \in [Number -> Nat]
    BY <2>1 DEF FdType, NoFile
  <2>9. \A m \in Number : registered'[m] # registered[m] => m = n /\ hit = Waits(n)
    BY <2>1 DEF FdType
  <2> QED BY <2>2, <2>3, <2>3a, <2>4, <2>5, <2>6, <2>7, <2>8, <2>9
<1> QED BY <1>1, <1>2

\* A call goes on to its next step, or returns.
LEMMA GoesTyped ==
  ASSUME FdType, Shaped, NEW c \in Caller, NEW at \in CallAt,
         Shape([call[c] EXCEPT !.at = at]), Goes(c, at)
  PROVE  /\ call' \in [Caller -> Call] /\ Shaped'
         /\ call'[c] = [call[c] EXCEPT !.at = at]
         /\ \A d \in Caller \ {c} : call'[d] = call[d]
<1>1. call' = [call EXCEPT ![c] = [call[c] EXCEPT !.at = at]]
  BY DEF Goes
<1>2. [call[c] EXCEPT !.at = at] \in Call
  BY CallRecords
<1> QED BY <1>1, <1>2, CallKept

\* A call that returns.
LEMMA ReturnsTyped ==
  ASSUME FdType, Shaped, NEW c \in Caller, NEW rt \in {-1, 0}, Returns(c, rt)
  PROVE  /\ call' \in [Caller -> Call] /\ Shaped'
         /\ call'[c].at = "done" /\ call'[c].ctx = NoContext
         /\ call'[c].op = call[c].op /\ call'[c].fd = call[c].fd /\ call'[c].rt = rt
         /\ \A d \in Caller \ {c} : call'[d] = call[d]
<1> DEFINE r == [Idle EXCEPT !.op = call[c].op, !.fd = call[c].fd, !.at = "done", !.rt = rt]
<1>1. r \in Call /\ Shape(r)
  BY CallRecords
<1>2. call' = [call EXCEPT ![c] = r]
  BY DEF Returns
<1>3. r.at = "done" /\ r.op = call[c].op /\ r.fd = call[c].fd /\ r.rt = rt /\ r.ctx = NoContext
  BY DEF Idle
<1> HIDE DEF r
<1> QED BY <1>1, <1>2, <1>3, CallKept

\* The look into the table, and the making of a context.
LEMMA LookUpTyped ==
  ASSUME FdType, Shaped, NEW c \in Caller, LookUp(c)
  PROVE  FdType' /\ Shaped'
<1> DEFINE n == call[c].fd
           r == [call[c] EXCEPT !.at = IF m_datas[n] = NoContext THEN "make" ELSE "use",
                                !.ctx = m_datas[n]]
<1>1. call[c] \in Call /\ Shape(call[c]) /\ call[c].at = "look" /\ n \in Number
  BY DEF FdType, Shaped, LookUp, Shape
<1>2. slots' \in Nat
  <2>1. (slots * 3) \div 2 \in Nat
    BY DEF FdType
  <2> QED BY <2>1 DEF LookUp, Grown, FdType
<1>3. call' \in [Caller -> Call] /\ Shaped'
  <2>1. CASE call' = call
    BY <2>1 DEF FdType, Shaped
  <2>2. CASE Goes(c, "use")
    BY <1>1, <2>2, GoesTyped DEF CallAt, Shape, Call
  <2>3. CASE call' = [call EXCEPT ![c] = r]
    <3>1. r \in Call /\ Shape(r)
      BY <1>1 DEF FdType, Call, CallAt, Shape
    <3> HIDE DEF r
    <3> QED BY <2>3, <3>1, CallKept
  <2>4. call' = call \/ Goes(c, "use") \/ call' = [call EXCEPT ![c] = r]
    BY DEF LookUp
  <2> QED BY <2>1, <2>2, <2>3, <2>4
<1> QED BY <1>2, <1>3 DEF LookUp, FdType, kernelVars

\* A context is made.
LEMMA MakeTyped ==
  ASSUME FdType, Shaped, NEW c \in Caller, MakeContext(c)
  PROVE  FdType' /\ Shaped'
<1> DEFINE n == call[c].fd
           k == Min(ContextId \ Referred)
           r == [call[c] EXCEPT !.at = "use", !.ctx = k]
<1>1. call[c] \in Call /\ Shape(call[c]) /\ call[c].at = "make" /\ n \in Number
      /\ call[c].ctx = NoContext
  BY DEF FdType, Shaped, MakeContext, Shape
<1>2. k \in ContextId \ Referred
  BY <1>1, FreshContext
<1>3. IsOpen(n) => FileOf(n) \in File /\ fdtable[n] \in 1 .. Len(files)
  BY <1>1 DEF IsOpen, FileOf, FdType, NoFile
<1>4. FdContext(n) \in Ctx
  <2> DEFINE open == IsOpen(n)
             socket == IsOpen(n) /\ FileOf(n).socket
  <2>1. open \in BOOLEAN /\ socket \in BOOLEAN
    BY DEF IsOpen
  <2>2. FdContext(n) = [is_init |-> open, is_socket |-> socket, sys_non_block |-> socket,
                        recv_timeout |-> NoLimit, of |-> fdtable[n]]
    BY DEF FdContext
  <2>3. NoLimit \in Want /\ fdtable[n] \in Nat
    BY <1>1 DEF Want, FdType
  <2> HIDE DEF open, socket
  <2> QED BY <2>1, <2>2, <2>3 DEF Ctx
<1>5. NoLimit \in Want /\ Blank \in Ctx
  BY DEF Blank, Ctx, Want, NoFile
<1>6. contexts' \in [ContextId -> Ctx]
  BY <1>4, <1>5 DEF MakeContext, FdType
<1>7. r \in Call /\ Shape(r) /\ call' = [call EXCEPT ![c] = r]
  BY <1>1, <1>2 DEF Call, CallAt, Shape, MakeContext
<1>8. files' \in Seq(File) /\ Len(files') = Len(files)
  <2> DEFINE f == fdtable[n]
             e == [files[f] EXCEPT !.nonblock = TRUE]
  <2>1. CASE files' = files
    BY <2>1 DEF FdType
  <2>2. CASE IsOpen(n) /\ files' = [files EXCEPT ![f].nonblock = TRUE]
    <3>1. e \in File /\ f \in 1 .. Len(files)
      BY <1>3, <2>2 DEF File, FileOf
    <3>2. files' = [files EXCEPT ![f] = e]
      BY <2>2
    <3> HIDE DEF e, f
    <3> QED BY <3>1, <3>2, ExceptSeq DEF FdType
  <2> QED BY <2>1, <2>2 DEF MakeContext
<1>9. m_datas' \in [Number -> ContextId \cup {NoContext}]
  BY <1>2 DEF MakeContext, FdType
<1>10. fdtable' = fdtable /\ registered' = registered /\ waiter' = waiter /\ slots' = slots
  BY DEF MakeContext
<1>11. call' \in [Caller -> Call] /\ Shaped'
  <2> HIDE DEF r
  <2> QED BY <1>7, CallKept
<1> QED BY <1>6, <1>8, <1>9, <1>10, <1>11 DEF FdType

\* Steps of a call that leave kernel and table as they are.
LEMMA UseTyped ==
  ASSUME FdType, Shaped, NEW c \in Caller, UseInCall(c)
  PROVE  FdType' /\ Shaped'
<1> DEFINE limit == IF call[c].op = "connect" THEN call[c].want ELSE Context(c).recv_timeout
           r == [call[c] EXCEPT !.at = "try", !.limit = limit]
<1>1. call[c] \in Call /\ Shape(call[c]) /\ call[c].op \in {"io", "connect", "accept"}
  BY DEF FdType, Shaped, UseInCall, Within
<1>2. call' \in [Caller -> Call] /\ Shaped'
  <2>1. CASE Returns(c, -1)
    BY <2>1, ReturnsTyped
  <2>2. CASE Goes(c, "system")
    BY <1>1, <2>2, GoesTyped DEF CallAt, Shape, Call
  <2>3. CASE HasContext(c) /\ call' = [call EXCEPT ![c].at = "try", ![c].limit = limit]
    <3>1. limit \in Want
      <4>1. call[c].ctx \in ContextId
        BY <1>1, <2>3 DEF HasContext, Call
      <4> QED BY <1>1, <4>1 DEF Context, FdType, Ctx, Call
    <3>2. r \in Call /\ Shape(r)
      BY <1>1, <3>1 DEF Call, CallAt, Shape
    <3>3. call' = [call EXCEPT ![c] = r]
      BY <2>3
    <3> HIDE DEF r
    <3> QED BY <3>2, <3>3, CallKept
  <2> QED BY <2>1, <2>2, <2>3 DEF UseInCall
<1> QED BY <1>2 DEF UseInCall, FdType, kernelVars, tableVars

\* A fiber goes on after its wait.
LEMMA ResumeTyped ==
  ASSUME FdType, Shaped, NEW c \in Caller, Resume(c)
  PROVE  FdType' /\ Shaped'
<1>1. call[c] \in Call /\ Shape(call[c]) /\ call[c].at = "woken"
  BY DEF FdType, Shaped, Resume
<1>2. call' \in [Caller -> Call] /\ Shaped'
  <2>1. CASE \E rt \in {-1, 0} : Returns(c, rt)
    BY <2>1, ReturnsTyped
  <2>2. CASE Goes(c, "try")
    BY <1>1, <2>2, GoesTyped DEF CallAt, Shape, Call
  <2> QED BY <2>1, <2>2 DEF Resume
<1> QED BY <1>2 DEF Resume, FdType, kernelVars, tableVars

\* Writing a setting into a context.
LEMMA SettingTyped ==
  ASSUME FdType, Shaped, NEW c \in Caller, UseInSetting(c)
  PROVE  FdType' /\ Shaped'
<1>1. call[c] \in Call /\ Shape(call[c]) /\ call[c].op \in {"set_timeout", "set_flags", "ioctl"}
  BY DEF FdType, Shaped, UseInSetting
<1>2. call' \in [Caller -> Call] /\ Shaped'
  BY <1>1, GoesTyped DEF UseInSetting, CallAt, Shape, Call
<1>3. \A x \in Ctx : Recorded(c, x) \in Ctx
  <2> DEFINE on == call[c].want = 1
  <2>1. on \in BOOLEAN /\ call[c].want \in Want
    BY <1>1 DEF Call
  <2>2. \A x \in Ctx : Recorded(c, x) \in
          {x, [x EXCEPT !.recv_timeout = call[c].want], [x EXCEPT !.sys_non_block = on]}
    BY <1>1 DEF Recorded
  <2> HIDE DEF on
  <2> QED BY <2>1, <2>2 DEF Ctx
<1>4. contexts' \in [ContextId -> Ctx]
  BY <1>3 DEF UseInSetting, FdType
<1> QED BY <1>2, <1>4 DEF UseInSetting, FdType, kernelVars

\* The three steps of close.
LEMMA CloseTyped ==
  ASSUME FdType, Shaped, NEW c \in Caller, CancelAll(c) \/ DelFdctx(c) \/ CloseDescriptor(c)
  PROVE  FdType' /\ Shaped'
<1>1. call[c] \in Call /\ Shape(call[c]) /\ call[c].op = "close" /\ call[c].fd \in Number
  BY DEF FdType, Shaped, Shape, CancelAll, DelFdctx, CloseDescriptor, Within
<1>2. CASE CancelAll(c)
  <2>1. CASE HasContext(c)
    <3> DEFINE r == [call[c] EXCEPT !.at = "drop"]
               then == [call EXCEPT ![c] = r]
    <3>1. r \in Call /\ Shape(r)
      BY <1>1, <2>1 DEF Call, CallAt, Shape, HasContext
    <3>2. then \in [Caller -> Call] /\ \A d \in Caller : Shape(then[d])
      <4>1. call \in [Caller -> Call] /\ \A d \in Caller : Shape(call[d])
        BY DEF FdType, Shaped
      <4>2. \A d \in Caller : then[d] = IF d = c THEN r ELSE call[d]
        BY <4>1
      <4> HIDE DEF r
      <4> QED BY <3>1, <4>1, <4>2
    <3>3. Wakes(call[c].fd, Event, then)
      BY <1>2, <2>1 DEF CancelAll
    <3> HIDE DEF then
    <3>4. /\ call' \in [Caller -> Call]
          /\ \A d \in Caller :
               \/ call'[d] = then[d]
               \/ then[d].at = "parked" /\ call'[d] = [then[d] EXCEPT !.at = "woken"]
          /\ waiter' \in [Number \X Event -> Caller \cup {Nobody}]
          /\ registered' \in [Number -> Nat]
      <4>1. Event \in SUBSET Event /\ call[c].fd \in Number
        BY <1>1
      <4>2. Woken(call[c].fd, Event, then)
        BY <3>2, <3>3, <4>1, WakesFacts
      <4> QED BY <4>2 DEF Woken
    <3>5. ASSUME NEW d \in Caller
          PROVE  Shape(call'[d])
      <4>1. then[d] \in Call /\ Shape(then[d])
        BY <3>2
      <4>2. CASE call'[d] = then[d]
        BY <4>1, <4>2
      <4>3. CASE then[d].at = "parked" /\ call'[d] = [then[d] EXCEPT !.at = "woken"]
        <5>1. /\ call'[d].at = "woken" /\ call'[d].op = then[d].op /\ call'[d].fd = then[d].fd
              /\ call'[d].ctx = then[d].ctx /\ call'[d].rt = then[d].rt
          BY <4>1, <4>3, CallFields DEF CallAt
        <5> QED BY <4>1, <4>3, <5>1 DEF Shape
      <4> QED BY <3>4, <4>2, <4>3
    <3> QED BY <1>2, <3>4, <3>5 DEF CancelAll, FdType, Shaped, tableVars
  <2>2. CASE ~HasContext(c)
    <3>1. call' \in [Caller -> Call] /\ Shaped'
      BY <1>1, <1>2, <2>2, GoesTyped DEF CancelAll, CallAt, Shape, Call
    <3> QED BY <1>2, <2>2, <3>1 DEF CancelAll, FdType, tableVars
  <2> QED BY <2>1, <2>2
<1>3. CASE DelFdctx(c)
  <2>1. call' \in [Caller -> Call] /\ Shaped'
    BY <1>1, <1>3, GoesTyped DEF DelFdctx, CallAt, Shape, Call
  <2> QED BY <1>1, <1>3, <2>1 DEF DelFdctx, FdType, kernelVars
<1>4. CASE CloseDescriptor(c)
  <2> DEFINE f == fdtable[call[c].fd]
  <2>1. call' \in [Caller -> Call] /\ Shaped'
    BY <1>4, ReturnsTyped DEF CloseDescriptor
  <2>2. files' \in Seq(File) /\ Len(files') = Len(files)
    <3>1. CASE files' = files
      BY <3>1 DEF FdType
    <3>2. CASE IsOpen(call[c].fd) /\ files' = [files EXCEPT ![f] = NewFile(FALSE)]
      <4>1. f \in 1 .. Len(files) /\ NewFile(FALSE) \in File
        BY <1>1, <3>2 DEF FdType, IsOpen, NoFile, NewFile, File, Want
      <4> DEFINE e == NewFile(FALSE)
      <4>2. e \in File /\ files' = [files EXCEPT ![f] = e] /\ files \in Seq(File)
        BY <3>2, <4>1 DEF FdType
      <4> HIDE DEF e, f
      <4> QED BY <4>1, <4>2, ExceptSeq
    <3> QED BY <1>4, <3>1, <3>2 DEF CloseDescriptor
  <2>3. /\ fdtable' \in [Number -> Nat] /\ registered' \in [Number -> Nat]
        /\ \A n \in Number : fdtable'[n] <= Len(files)
    BY <1>1, <1>4 DEF CloseDescriptor, FdType, NoFile
  <2> QED BY <1>4, <2>1, <2>2, <2>3 DEF CloseDescriptor, FdType, tableVars
<1> QED BY <1>2, <1>3, <1>4

\* The kernel opens a file.
LEMMA OpensTyped ==
  ASSUME FdType, NEW socket \in BOOLEAN, Opens(socket)
  PROVE  /\ NewNumber \in Number /\ fdtable[NewNumber] = NoFile
         /\ fdtable' = [fdtable EXCEPT ![NewNumber] = Len(files) + 1]
         /\ fdtable' \in [Number -> Nat] /\ files' \in Seq(File)
         /\ \A n \in Number : fdtable'[n] <= Len(files')
<1>1. NewNumber \in Number /\ fdtable[NewNumber] = NoFile
  BY NewNumberFree DEF Opens
<1>2. files' \in Seq(File) /\ Len(files') = Len(files) + 1 /\ Len(files) \in Nat
  <2> DEFINE e == NewFile(socket)
  <2>1. e \in File /\ files' = Append(files, e) /\ files \in Seq(File)
    BY DEF NewFile, File, Want, Opens, FdType
  <2> HIDE DEF e
  <2> QED BY <2>1, AppendProperties
<1>3. fdtable' = [fdtable EXCEPT ![NewNumber] = Len(files) + 1]
  BY DEF Opens
<1>4. fdtable' \in [Number -> Nat] /\ \A n \in Number : fdtable'[n] <= Len(files')
  <2> HIDE DEF Opens
  <2> DEFINE new == NewNumber
  <2>1. new \in Number /\ fdtable' = [fdtable EXCEPT ![new] = Len(files) + 1]
    BY <1>1, <1>3
  <2> HIDE DEF new
  <2> QED BY <1>2, <2>1 DEF FdType
<1> QED BY <1>1, <1>2, <1>3, <1>4

\* socket(), and a file opened past the hooks.
LEMMA OpenTyped ==
  ASSUME FdType, Shaped, NEW c \in Caller, OpenSocket(c) \/ OpenOther(c)
  PROVE  FdType' /\ Shaped'
<1>1. call[c] \in Call /\ Shape(call[c])
  BY DEF FdType, Shaped
<1>2. CASE OpenOther(c)
  BY <1>2, OpensTyped DEF OpenOther, FdType, Shaped, tableVars
<1>3. CASE OpenSocket(c)
  <2>1. CASE Opens(TRUE) /\ call' = [call EXCEPT ![c].fd = NewNumber, ![c].rt = 1,
                                      ![c].at = IF c \in Hooked THEN "look" ELSE "done"]
    <3> DEFINE new == NewNumber
               r == [call[c] EXCEPT !.fd = new, !.rt = 1,
                                    !.at = IF c \in Hooked THEN "look" ELSE "done"]
    <3>1. new \in Number
      BY <2>1, OpensTyped
    <3>2. call[c].op = "socket"
      BY <1>3 DEF OpenSocket, Within
    <3>3. call' = [call EXCEPT ![c] = r]
      BY <2>1
    <3>4. r \in Call /\ Shape(r)
      <4> HIDE DEF new
      <4> QED BY <1>1, <3>1, <3>2 DEF Call, CallAt, Shape
    <3>5. call' \in [Caller -> Call] /\ Shaped'
      <4> HIDE DEF r
      <4> QED BY <3>3, <3>4, CallKept
    <3> QED BY <1>3, <2>1, <3>5, OpensTyped DEF OpenSocket, FdType, tableVars
  <2>2. CASE Returns(c, -1) /\ UNCHANGED <<files, fdtable, ghostVars>>
    BY <1>3, <2>2, ReturnsTyped DEF OpenSocket, FdType, tableVars
  <2> QED BY <1>3, <2>1, <2>2 DEF OpenSocket
<1> QED BY <1>2, <1>3

\* The system call of a transfer, an accept or a connect.
LEMMA SystemTyped ==
  ASSUME FdType, Shaped, NEW c \in Caller, SystemCall(c)
  PROVE  FdType' /\ Shaped'
<1>1. call[c] \in Call /\ Shape(call[c]) /\ call[c].op \in {"io", "accept", "connect"}
  BY DEF FdType, Shaped, SystemCall
<1>2. CASE Ends(c)
  <2>1. \E rt \in {-1, 0} : Returns(c, rt)
    BY <1>2 DEF Ends
  <2> QED BY <1>2, <2>1, ReturnsTyped DEF Ends, SystemCall, FdType, kernelVars, tableVars
<1>3. CASE Accepted(c)
  <2> DEFINE new == NewNumber
             r == [call[c] EXCEPT !.fd = new, !.rt = 1, !.at = "look"]
  <2>1. new \in Number
    BY <1>3, OpensTyped DEF Accepted
  <2>2. call' = [call EXCEPT ![c] = r]
    BY <1>3 DEF Accepted
  <2>3. r \in Call /\ Shape(r)
    <3> HIDE DEF new
    <3> QED BY <1>1, <2>1 DEF Call, CallAt, Shape
  <2>4. call' \in [Caller -> Call] /\ Shaped'
    <3> HIDE DEF r
    <3> QED BY <2>2, <2>3, CallKept
  <2> QED BY <1>3, <2>4, OpensTyped DEF Accepted, SystemCall, FdType, tableVars
<1>4. CASE MustWait(c)
  <2>1. call' \in [Caller -> Call] /\ Shaped'
    BY <1>1, <1>4, GoesTyped DEF MustWait, CallAt, Shape, Call
  <2> QED BY <1>4, <2>1 DEF MustWait, SystemCall, FdType, kernelVars, tableVars
<1> QED BY <1>2, <1>3, <1>4 DEF SystemCall

\* A setting is passed on to the kernel.
LEMMA SetTyped ==
  ASSUME FdType, Shaped, NEW c \in Caller, SetInKernel(c)
  PROVE  FdType' /\ Shaped'
<1> DEFINE n == call[c].fd
           f == fdtable[n]
           on == call[c].want = 1
<1>1. call[c] \in Call /\ Shape(call[c]) /\ n \in Number
  BY DEF FdType, Shaped, Shape, SetInKernel
<1>2. call' \in [Caller -> Call] /\ Shaped'
  BY ReturnsTyped DEF SetInKernel
<1>3. files' \in Seq(File) /\ Len(files') = Len(files)
  <2>1. CASE files' = files
    BY <2>1 DEF FdType
  <2>2. ASSUME IsOpen(n)
        PROVE  /\ f \in 1 .. Len(files)
               /\ [files[f] EXCEPT !.limit = call[c].want] \in File
               /\ [files[f] EXCEPT !.nonblock = on] \in File
    <3>1. f \in 1 .. Len(files) /\ files[f] \in File
      BY <1>1, <2>2 DEF FdType, IsOpen, NoFile
    <3>2. on \in BOOLEAN /\ call[c].want \in Want
      BY <1>1 DEF Call
    <3> HIDE DEF on, f
    <3> QED BY <3>1, <3>2 DEF File
  <2>3. ASSUME NEW e \in File, IsOpen(n), files' = [files EXCEPT ![f] = e]
        PROVE  files' \in Seq(File) /\ Len(files') = Len(files)
    <3>1. files \in Seq(File) /\ f \in 1 .. Len(files)
      BY <2>2, <2>3 DEF FdType
    <3> HIDE DEF f
    <3> QED BY <2>3, <3>1, ExceptSeq
  <2>4. \/ files' = files
        \/ IsOpen(n) /\ files' = [files EXCEPT ![f] = [files[f] EXCEPT !.limit = call[c].want]]
        \/ IsOpen(n) /\ files' = [files EXCEPT ![f] = [files[f] EXCEPT !.nonblock = on]]
    BY DEF SetInKernel
  <2> HIDE DEF n, f, on
  <2> QED BY <2>1, <2>2, <2>3, <2>4
<1> QED BY <1>2, <1>3 DEF SetInKernel, FdType, tableVars

\* A fiber waits, or learns that it cannot.
LEMMA ParkTyped ==
  ASSUME FdType, Shaped, NEW c \in Caller, Park(c)
  PROVE  FdType' /\ Shaped'
<1> DEFINE r == [call[c] EXCEPT !.at = "parked", !.limit = NoLimit]
<1>1. /\ call[c] \in Call /\ Shape(call[c]) /\ call[c].at = "park"
      /\ call[c].fd \in Number /\ EventOf(c) \in Event
  BY DEF FdType, Shaped, Shape, Park, EventOf, Event
<1>2. call' \in [Caller -> Call] /\ Shaped'
  <2>1. CASE Goes(c, "parked")
    BY <1>1, <2>1, GoesTyped DEF CallAt, Shape, Call
  <2>2. CASE call' = [call EXCEPT ![c] = r]
    <3>1. r \in Call /\ Shape(r)
      BY <1>1 DEF Call, CallAt, Want, Shape
    <3> HIDE DEF r
    <3> QED BY <2>2, <3>1, CallKept
  <2>3. CASE Returns(c, -1)
    BY <2>3, ReturnsTyped
  <2>4. CASE call' = call
    BY <2>4 DEF FdType, Shaped
  <2> QED BY <2>1, <2>2, <2>3, <2>4 DEF Park
<1>3. waiter' \in [Number \X Event -> Caller \cup {Nobody}] /\ registered' \in [Number -> Nat]
  BY <1>1 DEF Park, FdType
<1> QED BY <1>2, <1>3 DEF Park, FdType, tableVars

\* Waking keeps the records of calls well formed.
LEMMA WokenTyped ==
  ASSUME FdType, NEW n, NEW events, NEW then \in [Caller -> Call],
         \A c \in Caller : Shape(then[c]), Woken(n, events, then),
         UNCHANGED <<fdtable, files, tableVars>>
  PROVE  FdType' /\ Shaped'
<1>1. Shaped'
  BY DEF Woken, Shaped, Shape, Call
<1> QED BY <1>1 DEF Woken, FdType, tableVars

\* What the kernel reports and a time limit that has passed are both a waking.
LEMMA ReadyWakes ==
  ASSUME FdType, NEW n \in Number, Ready(n)
  PROVE  \E events \in SUBSET Event : Woken(n, events, call)
<1>1. PICK events \in SUBSET Waits(n) \ {{}} : Wakes(n, events, call)
  BY DEF Ready
<1>2. events \in SUBSET Event /\ call \in [Caller -> Call]
  BY DEF Waits, FdType
<1> QED BY <1>1, <1>2, WakesFacts

\* A time limit marks its call and wakes who waits for the event.
LEMMA LimitWakes ==
  ASSUME FdType, Shaped, NEW c \in Caller, TimeLimit(c)
  PROVE  LET then == [call EXCEPT ![c].cancelled = TRUE]
         IN  /\ then \in [Caller -> Call] /\ \A d \in Caller : Shape(then[d])
             /\ \A d \in Caller : then[d] = IF d = c THEN [call[c] EXCEPT !.cancelled = TRUE]
                                            ELSE call[d]
             /\ call[c].fd \in Number /\ EventOf(c) \in Event
             /\ Woken(call[c].fd, {EventOf(c)}, then)
<1> DEFINE r == [call[c] EXCEPT !.cancelled = TRUE]
           then == [call EXCEPT ![c] = r]
<1>1. /\ call[c] \in Call /\ Shape(call[c]) /\ call[c].at \in {"parked", "woken"}
      /\ call[c].fd \in Number /\ EventOf(c) \in Event
  BY DEF FdType, Shaped, Shape, TimeLimit, EventOf, Event
<1>2. r \in Call /\ Shape(r)
  BY <1>1 DEF Call, Shape
<1>3. then = [call EXCEPT ![c].cancelled = TRUE]
  OBVIOUS
<1>4. \A d \in Caller : then[d] = IF d = c THEN r ELSE call[d]
  BY DEF FdType
<1>5. then \in [Caller -> Call] /\ \A d \in Caller : Shape(then[d])
  <2>1. call \in [Caller -> Call] /\ \A d \in Caller : Shape(call[d])
    BY DEF FdType, Shaped
  <2> HIDE DEF r
  <2> QED BY <1>2, <1>4, <2>1
<1>6. Wakes(call[c].fd, {EventOf(c)}, then)
  BY <1>3 DEF TimeLimit
<1> HIDE DEF r, then
<1>7. {EventOf(c)} \in SUBSET Event
  BY <1>1
<1>8. Woken(call[c].fd, {EventOf(c)}, then)
  BY <1>1, <1>5, <1>6, <1>7, WakesFacts
<1> USE DEF r
<1> QED BY <1>1, <1>3, <1>4, <1>5, <1>8

-----------------------------------------------------------------------------
\* A caller begins a call, or ends one.
LEMMA BeginTyped ==
  ASSUME FdType, Shaped, NEW c \in Caller, FdBegins(c)
  PROVE  FdType' /\ Shaped'
<1>1. PICK op \in CallOp \ {"none"}, n \in Number \cup {-1}, want \in Want :
        /\ op # "socket" => n \in Number
        /\ Begin(c, op, n, want)
  BY DEF FdBegins
<1> DEFINE r == [Idle EXCEPT !.op = op, !.fd = n, !.want = want,
                             !.at = IF Straight(c, op) THEN "system" ELSE "look"]
<1>2. r \in Call
  <2>1. Idle \in Call
    BY CallRecords
  <2>2. PICK at \in CallAt : at = IF Straight(c, op) THEN "system" ELSE "look"
    BY DEF CallAt
  <2>3. [Idle EXCEPT !.op = op, !.fd = n, !.want = want, !.at = at] \in Call
    BY <2>1 DEF Call
  <2> QED BY <2>2, <2>3
<1>3. Shape(r)
  BY <1>1 DEF Shape, Idle, Straight
<1>4. call' = [call EXCEPT ![c] = r]
  BY <1>1 DEF Begin
<1>5. call' \in [Caller -> Call] /\ Shaped'
  <2> HIDE DEF r
  <2> QED BY <1>2, <1>3, <1>4, CallKept
<1> QED BY <1>1, <1>5 DEF Begin, FdType, kernelVars, tableVars

\* A call that ends.
LEMMA RestTyped ==
  ASSUME FdType, Shaped, NEW c \in Caller, FdRests(c)
  PROVE  FdType' /\ Shaped'
<1>1. PICK r \in {Idle, [Idle EXCEPT !.at = "done"]} : call' = [call EXCEPT ![c] = r]
  BY DEF FdRests
<1>2. r \in Call /\ Shape(r)
  BY CallRecords
<1>3. call' \in [Caller -> Call] /\ Shaped'
  BY <1>1, <1>2, CallKept
<1> QED BY <1>3 DEF FdRests, FdType, kernelVars, tableVars

\* Every step keeps the types.
LEMMA TypeStep ==
  ASSUME FdType, Shaped, FdNext
  PROVE  FdType' /\ Shaped'
<1>1. ASSUME NEW c \in Caller, TimeLimit(c)
      PROVE  FdType' /\ Shaped'
  <2> DEFINE then == [call EXCEPT ![c].cancelled = TRUE]
  <2>1. /\ then \in [Caller -> Call] /\ \A d \in Caller : Shape(then[d])
        /\ Woken(call[c].fd, {EventOf(c)}, then)
    BY <1>1, LimitWakes
  <2> HIDE DEF then
  <2> QED BY <1>1, <2>1, WokenTyped DEF TimeLimit
<1>2. ASSUME NEW n \in Number, Ready(n)
      PROVE  FdType' /\ Shaped'
  <2>1. PICK events \in SUBSET Event : Woken(n, events, call)
    BY <1>2, ReadyWakes
  <2>2. call \in [Caller -> Call] /\ \A c \in Caller : Shape(call[c])
    BY DEF FdType, Shaped
  <2> QED BY <1>2, <2>1, <2>2, WokenTyped DEF Ready
<1>3. ASSUME NEW c \in Caller, Step(c)
      PROVE  FdType' /\ Shaped'
  BY <1>3, <1>1, LookUpTyped, MakeTyped, UseTyped, SettingTyped, CloseTyped, OpenTyped,
     SystemTyped, SetTyped, ParkTyped, ResumeTyped DEF Step
<1>4. CASE UNCHANGED fdVars
  BY <1>4 DEF fdVars, kernelVars, tableVars, FdType, Shaped
<1> QED BY <1>2, <1>3, <1>4, OpenTyped, BeginTyped, RestTyped DEF FdNext

\* At first nothing is in use.
LEMMA InitTyped == Init => TypeOK /\ Shaped
<1> SUFFICES ASSUME Init PROVE TypeOK /\ Shaped
  OBVIOUS
<1> USE DEF Init, InitDescriptors
<1>1. \A c \in Caller : call[c] = Idle /\ Idle \in Call /\ Shape(Idle)
  BY DEF Idle, Call, CallOp, CallAt, Want, Shape
<1>2. files \in Seq(File) /\ Len(files) = Inherited
  <2> DEFINE e == NewFile(FALSE)
             k == Inherited
  <2>1. e \in File
    BY DEF NewFile, File, Want
  <2>2. files = [f \in 1 .. k |-> e] /\ k \in Nat
    BY BoundsAssumption
  <2> HIDE DEF Init, InitDescriptors, e, k
  <2>3. files \in Seq(File) /\ Len(files) = k
    BY <2>1, <2>2
  <2> QED BY <2>3 DEF k
<1>3. fdtable \in [Number -> Nat] /\ \A n \in Number : fdtable[n] <= Inherited
  BY BoundsAssumption DEF Number, NoFile
<1>4. Blank \in Ctx
  BY DEF Blank, Ctx, Want, NoFile
<1>5. FdType
  BY <1>1, <1>2, <1>3, <1>4, SlotsAssumption DEF FdType, NoFile
<1>6. SocketType
  BY DEF SocketType, Resting, NoFile
<1> QED BY <1>1, <1>5, <1>6 DEF TypeOK, Shaped

\* Types hold throughout, and every step is one on descriptors.
LEMMA TypesKept == Spec => [](TypeOK /\ Shaped) /\ [][FdNext]_fdVars
<1>1. TypeOK /\ Shaped /\ [Next]_vars => TypeOK' /\ Shaped' /\ FdNext
  BY FdSteps, TypeStep, SocketTypeStep DEF TypeOK
<1>2. FdNext => [FdNext]_fdVars
  OBVIOUS
<1> QED BY InitTyped, <1>1, <1>2, PTL DEF Spec

-----------------------------------------------------------------------------
\* What a look-up does: it may let the table grow, and finds that its number is
\* past the end, that the entry is empty, or a context.
LEMMA LookUpFacts ==
  ASSUME FdType, Shaped, NEW c \in Caller, LookUp(c)
  PROVE  LET n == call[c].fd
         IN  /\ n \in Number /\ call[c] \in Call /\ call[c].at = "look"
             /\ slots' \in Nat /\ slots <= slots'
             /\ n >= slots /\ Opened(c) => slots' = (slots * 3) \div 2
             /\ \A d \in Caller \ {c} : call'[d] = call[d]
             /\ \/ n >= slots' /\ Opened(c) /\ call' = call /\ failure' = "out_of_range"
                \/ /\ n >= slots' /\ ~Opened(c) /\ failure' = failure
                   /\ call'[c] = [call[c] EXCEPT !.at = "use"]
                \/ /\ ~(n >= slots') /\ failure' = failure
                   /\ call'[c] = [call[c] EXCEPT
                        !.at = IF m_datas[n] = NoContext THEN "make" ELSE "use",
                        !.ctx = m_datas[n]]
<1> DEFINE n == call[c].fd
           size == IF n >= slots /\ Opened(c) THEN Grown(n) ELSE slots
<1>1. n \in Number /\ call[c] \in Call /\ call[c].at = "look" /\ slots \in Nat
  BY DEF FdType, Shaped, Shape, LookUp
<1>2. Grown(n) \in Nat /\ slots <= Grown(n) /\ Grown(n) = (slots * 3) \div 2
  BY <1>1 DEF Grown
<1>3. slots' = size
  BY DEF LookUp
<1>4. size \in Nat /\ slots <= size
  BY <1>1, <1>2
<1>5. n >= slots /\ Opened(c) => slots' = (slots * 3) \div 2
  BY <1>2, <1>3
<1>6. /\ n >= size => \/ Opened(c) /\ failure' = "out_of_range" /\ call' = call
                      \/ ~Opened(c) /\ Goes(c, "use") /\ failure' = failure
      /\ ~(n >= size) =>
           /\ failure' = failure
           /\ call' = [call EXCEPT
                ![c].at = IF m_datas[n] = NoContext THEN "make" ELSE "use",
                ![c].ctx = m_datas[n]]
  BY DEF LookUp
<1>7. call \in [Caller -> Call]
  BY DEF FdType
<1> HIDE DEF size, n
<1> QED BY <1>1, <1>3, <1>4, <1>5, <1>6, <1>7 DEF Goes, n

\* Steps other than a look-up and the making of a context leave the table's
\* size alone, and none of them fills an entry or gets to the point of it.
LEMMA TableAside ==
  ASSUME FdType, Shaped, TableInv, NEW c \in Caller, slots' = slots,
         \A n \in Number : m_datas'[n] \in {m_datas[n], NoContext},
         \A d \in Caller : call'[d].at = "make" => call[d].at = "make" /\ call'[d].fd = call[d].fd
  PROVE  TableInv'
BY DEF TableInv

\* Every step keeps the entries within the table.
LEMMA TableStep ==
  ASSUME FdType, Shaped, TableInv, FdNext
  PROVE  TableInv'
<1>1. ASSUME NEW c \in Caller, LookUp(c)
      PROVE  TableInv'
  <2> DEFINE n == call[c].fd
  <2>1. n \in Number /\ slots \in Nat /\ slots' \in Nat /\ slots <= slots'
    BY <1>1, LookUpFacts DEF FdType
  <2>2. FirstSlots \in Nat /\ \A m \in Number : m \in Nat
    BY BoundsAssumption, SlotsAssumption DEF Number
  <2>3. \A d \in Caller \ {c} : call'[d] = call[d] /\ (call[d].at = "make" => call[d].fd \in Number)
    BY <1>1, LookUpFacts DEF Shaped, Shape
  <2>4. call'[c].at = "make" => call'[c].fd = n /\ ~(n >= slots')
    BY <1>1, LookUpFacts DEF Call
  <2>5. m_datas' = m_datas
    BY <1>1 DEF LookUp
  <2> HIDE DEF n
  <2>6. ASSUME NEW d \in Caller, call'[d].at = "make" PROVE call'[d].fd < slots'
    <3>1. CASE d = c
      BY <2>1, <2>2, <2>4, <2>6, <3>1
    <3>2. CASE d # c
      BY <2>1, <2>2, <2>3, <2>6, <3>2 DEF TableInv
    <3> QED BY <3>1, <3>2
  <2>7. FirstSlots <= slots'
    BY <2>1, <2>2 DEF TableInv
  <2>8. \A m \in Number : m_datas'[m] # NoContext => m < slots'
    BY <2>1, <2>2, <2>5 DEF TableInv
  <2> QED BY <2>6, <2>7, <2>8 DEF TableInv
<1>2. ASSUME NEW c \in Caller, MakeContext(c)
      PROVE  TableInv'
  <2>1. call' = [call EXCEPT ![c] = [call[c] EXCEPT !.at = "use", !.ctx = Min(ContextId \ Referred)]]
    BY <1>2 DEF MakeContext
  <2>2. call'[c].at = "use" /\ \A d \in Caller \ {c} : call'[d] = call[d]
    BY <2>1 DEF FdType, Call
  <2>3. slots' = slots /\ call[c].at = "make"
        /\ \A n \in Number : n # call[c].fd => m_datas'[n] = m_datas[n]
    BY <1>2 DEF MakeContext, FdType
  <2> QED BY <2>2, <2>3 DEF TableInv
<1>3. ASSUME NEW c \in Caller, \/ UseInCall(c) \/ UseInSetting(c) \/ CloseDescriptor(c) \/ OpenSocket(c)
                               \/ SystemCall(c) \/ SetInKernel(c) \/ Park(c) \/ Resume(c) \/ DelFdctx(c)
      PROVE  TableInv'
  <2>1. /\ slots' = slots
        /\ \A n \in Number : m_datas'[n] \in {m_datas[n], NoContext}
    BY <1>3 DEF UseInCall, UseInSetting, CloseDescriptor, OpenSocket, SystemCall, SetInKernel,
       Park, Resume, DelFdctx, tableVars, FdType
  <2>2. call[c] \in Call /\ call \in [Caller -> Call]
    BY DEF FdType
  <2>3. \A d \in Caller : call'[d].at = "make" => call[d].at = "make" /\ call'[d].fd = call[d].fd
    <3>1. ASSUME NEW at \in CallAt \ {"make"}, Goes(c, at)
          PROVE  call'[c].at # "make" /\ \A d \in Caller \ {c} : call'[d] = call[d]
      BY <2>2, <3>1 DEF Goes, Call
    <3>2. ASSUME NEW rt, Returns(c, rt)
          PROVE  call'[c].at # "make" /\ \A d \in Caller \ {c} : call'[d] = call[d]
      BY <2>2, <3>2 DEF Returns, Idle
    <3>3. CASE UseInCall(c)
      BY <2>2, <3>1, <3>2, <3>3 DEF UseInCall, CallAt, Call
    <3>4. CASE UseInSetting(c) \/ DelFdctx(c)
      BY <3>1, <3>4 DEF UseInSetting, DelFdctx, CallAt
    <3>5. CASE CloseDescriptor(c) \/ SetInKernel(c)
      BY <3>2, <3>5 DEF CloseDescriptor, SetInKernel
    <3>6. CASE OpenSocket(c)
      <4>1. CASE Opens(TRUE) /\ call' = [call EXCEPT ![c].fd = NewNumber, ![c].rt = 1,
                                          ![c].at = IF c \in Hooked THEN "look" ELSE "done"]
        <5>n. PICK new, at : new = NewNumber /\ at = IF c \in Hooked THEN "look" ELSE "done"
          OBVIOUS
        <5>1. call' = [call EXCEPT ![c] = [call[c] EXCEPT !.fd = new, !.rt = 1, !.at = at]]
          BY <4>1, <5>n
        <5>2. call'[c].at = at /\ \A d \in Caller \ {c} : call'[d] = call[d]
          BY <2>2, <5>1 DEF Call
        <5>3. call'[c].at # "make"
          BY <5>n, <5>2
        <5> QED BY <5>2, <5>3
      <4>2. CASE Returns(c, -1)
        BY <3>2, <4>2
      <4> QED BY <3>6, <4>1, <4>2 DEF OpenSocket
    <3>7. CASE SystemCall(c)
      <4>1. CASE Ends(c)
        BY <3>2, <4>1 DEF Ends
      <4>2. CASE MustWait(c)
        BY <3>1, <4>2 DEF MustWait, CallAt
      <4>3. CASE Accepted(c)
        <5>1. PICK new : new = NewNumber
          OBVIOUS
        <5>2. call' = [call EXCEPT ![c] = [call[c] EXCEPT !.fd = new, !.rt = 1, !.at = "look"]]
          BY <4>3, <5>1 DEF Accepted
        <5>3. call'[c].at = "look" /\ \A d \in Caller \ {c} : call'[d] = call[d]
          BY <2>2, <5>2 DEF Call
        <5> QED BY <5>3
      <4> QED BY <3>7, <4>1, <4>2, <4>3 DEF SystemCall
    <3>8. CASE Park(c)
      BY <2>2, <3>1, <3>2, <3>8 DEF Park, Call, CallAt
    <3>9. CASE Resume(c)
      BY <3>1, <3>2, <3>9 DEF Resume, CallAt
    <3> QED BY <1>3, <3>3, <3>4, <3>5, <3>6, <3>7, <3>8, <3>9
  <2> QED BY <2>1, <2>3, TableAside
<1>4. ASSUME NEW n, NEW events, NEW then \in [Caller -> Call], Woken(n, events, then),
             \A d \in Caller : then[d].at = "make" => call[d].at = "make" /\ then[d].fd = call[d].fd,
             UNCHANGED tableVars
      PROVE  TableInv'
  <2>1. \A d \in Caller : call'[d].at = "make" => then[d].at = "make" /\ call'[d] = then[d]
    BY <1>4 DEF Woken, Call
  <2> QED BY <1>4, <2>1 DEF TableInv, tableVars
<1>5. ASSUME NEW n \in Number, Ready(n)
      PROVE  TableInv'
  <2>1. PICK events \in SUBSET Event : Woken(n, events, call)
    BY <1>5, ReadyWakes
  <2> QED BY <1>5, <2>1, <1>4 DEF Ready, FdType
<1>6. ASSUME NEW c \in Caller, TimeLimit(c)
      PROVE  TableInv'
  <2> DEFINE then == [call EXCEPT ![c].cancelled = TRUE]
  <2>1. /\ then \in [Caller -> Call]
        /\ \A d \in Caller : then[d] = IF d = c THEN [call[c] EXCEPT !.cancelled = TRUE] ELSE call[d]
        /\ Woken(call[c].fd, {EventOf(c)}, then)
    BY <1>6, LimitWakes
  <2> HIDE DEF then
  <2>2. \A d \in Caller : then[d].at = "make" => call[d].at = "make" /\ then[d].fd = call[d].fd
    <3>0. call[c] \in Call
      BY DEF FdType
    <3>1. then[c].at = call[c].at /\ then[c].fd = call[c].fd
      BY <2>1, <3>0, LimitFields
    <3> QED BY <2>1, <3>1
  <2> QED BY <1>6, <2>1, <2>2, <1>4 DEF TimeLimit
<1>7. ASSUME NEW c \in Caller, CancelAll(c)
      PROVE  TableInv'
  <2>1. call[c] \in Call /\ call[c].fd \in Number /\ UNCHANGED tableVars
    BY <1>7 DEF FdType, Shaped, Shape, CancelAll, Within
  <2>2. CASE HasContext(c)
    <3> DEFINE then == [call EXCEPT ![c].at = "drop"]
    <3>a. [call[c] EXCEPT !.at = "drop"] \in Call /\ [call[c] EXCEPT !.at = "drop"].at = "drop"
      BY <2>1, CallFields DEF CallAt
    <3>1. /\ then \in [Caller -> Call]
          /\ \A d \in Caller : then[d] = IF d = c THEN [call[c] EXCEPT !.at = "drop"] ELSE call[d]
      BY <3>a DEF FdType
    <3>2. Wakes(call[c].fd, Event, then)
      BY <1>7, <2>2 DEF CancelAll
    <3> HIDE DEF then
    <3>3. Woken(call[c].fd, Event, then)
      <4>1. Event \in SUBSET Event
        OBVIOUS
      <4> QED BY <2>1, <3>1, <3>2, <4>1, WakesFacts
    <3>4. \A d \in Caller : then[d].at = "make" => call[d].at = "make" /\ then[d].fd = call[d].fd
      BY <3>a, <3>1
    <3> QED BY <2>1, <3>1, <3>3, <3>4, <1>4
  <2>3. CASE ~HasContext(c)
    <3>1. call' = [call EXCEPT ![c] = [call[c] EXCEPT !.at = "system"]] /\ call \in [Caller -> Call]
      BY <1>7, <2>3 DEF CancelAll, Goes, FdType
    <3>2. call'[c].at = "system" /\ \A d \in Caller \ {c} : call'[d] = call[d]
      BY <2>1, <3>1, CallFields DEF CallAt
    <3> QED BY <2>1, <3>2 DEF TableInv, tableVars
  <2> QED BY <2>2, <2>3
<1>8. ASSUME NEW c \in Caller, OpenOther(c)
      PROVE  TableInv'
  BY <1>8 DEF OpenOther, TableInv, tableVars
<1>9. ASSUME NEW c \in Caller, FdBegins(c) \/ FdRests(c)
      PROVE  TableInv'
  <2>1. \A d \in Caller : call'[d].at = "make" => call'[d] = call[d]
    <3>1. CASE FdRests(c)
      BY <3>1 DEF FdRests, Idle, FdType
    <3>2. CASE FdBegins(c)
      <4>1. PICK op, n, want : Begin(c, op, n, want)
        BY <3>2 DEF FdBegins
      <4> QED BY <4>1 DEF Begin, Idle, FdType
    <3> QED BY <1>9, <3>1, <3>2
  <2>2. UNCHANGED tableVars
    BY <1>9 DEF FdBegins, Begin, FdRests
  <2> QED BY <2>1, <2>2 DEF TableInv, tableVars
<1>10. CASE UNCHANGED fdVars
  BY <1>10 DEF fdVars, tableVars, TableInv
<1>11. ASSUME NEW c \in Caller, Step(c)
       PROVE  TableInv'
  BY <1>11, <1>1, <1>2, <1>3, <1>6, <1>7, <1>8 DEF Step
<1> QED BY <1>5, <1>8, <1>9, <1>10, <1>11 DEF FdNext

\* Nothing follows a failure, and only a look-up runs out of range.
LEMMA FailureStops ==
  ASSUME FdNext, failure # "none"
  PROVE  UNCHANGED fdVars
<1>1. ASSUME NEW c \in Caller, Step(c)
      PROVE  FALSE
  <2>1. ~(UseInCall(c) \/ CancelAll(c) \/ DelFdctx(c) \/ CloseDescriptor(c) \/ OpenSocket(c))
    BY DEF UseInCall, CancelAll, DelFdctx, CloseDescriptor, OpenSocket, Within
  <2>2. ~(LookUp(c) \/ MakeContext(c) \/ UseInSetting(c) \/ SystemCall(c))
    BY DEF LookUp, MakeContext, UseInSetting, SystemCall
  <2>3. ~(SetInKernel(c) \/ Park(c) \/ TimeLimit(c) \/ Resume(c))
    BY DEF SetInKernel, Park, TimeLimit, Resume
  <2> QED BY <1>1, <2>1, <2>2, <2>3 DEF Step
<1>2. ASSUME NEW c \in Caller
      PROVE  ~(OpenOther(c) \/ FdBegins(c) \/ FdRests(c))
  BY DEF OpenOther, FdBegins, FdRests, AtRest
<1>3. \A n : ~Ready(n)
  BY DEF Ready
<1> QED BY <1>1, <1>2, <1>3 DEF FdNext

\* The failure is that of a look-up.
LEMMA OutOfRangeIsLookUp ==
  ASSUME FdNext, failure = "none", failure' = "out_of_range"
  PROVE  \E c \in Caller : LookUp(c)
<1>1. ASSUME NEW c \in Caller, Step(c)
      PROVE  LookUp(c)
  BY <1>1 DEF Step, MakeContext, UseInCall, UseInSetting, CancelAll, DelFdctx, CloseDescriptor,
     OpenSocket, SystemCall, SetInKernel, Park, TimeLimit, Resume
<1> QED BY <1>1 DEF FdNext, Ready, OpenOther, FdBegins, Begin, FdRests, fdVars

\* Half of two slots or more is one at least.
LEMMA GrowsByOne ==
  ASSUME NEW k \in Nat, k > 1
  PROVE  k + 1 <= (k * 3) \div 2 /\ (k * 3) \div 2 \in Nat
OBVIOUS

\* The table is only accessed past its end when a smaller number beyond the
\* first slots has no entry: growing by half once is enough in order.
LEMMA RangeStep ==
  ASSUME FdType, Shaped, TableInv, TableInRange, FdNext
  PROVE  TableInRange'
<1>1. CASE failure # "none"
  <2>1. UNCHANGED <<failure, call, m_datas>>
    BY <1>1, FailureStops DEF fdVars, tableVars
  <2> QED BY <2>1 DEF TableInRange, Opened
<1>2. CASE failure = "none"
  <2> SUFFICES ASSUME failure' = "out_of_range" PROVE TableInRange'
    BY DEF TableInRange
  <2>1. PICK c \in Caller : LookUp(c)
    BY <1>2, OutOfRangeIsLookUp
  <2> DEFINE n == call[c].fd
  <2>2. slots \in Nat /\ n \in Nat /\ n \in 0 .. MaxFd
    <3>1. n \in Number
      BY <2>1, LookUpFacts
    <3> HIDE DEF n
    <3>2. slots \in Nat
      BY DEF FdType
    <3> QED BY <3>1, <3>2, BoundsAssumption DEF Number
  <2>3. n >= slots' /\ Opened(c) /\ call' = call /\ slots' \in Nat /\ slots <= slots'
        /\ call[c].at = "look" /\ (n >= slots /\ Opened(c) => slots' = (slots * 3) \div 2)
    BY <1>2, <2>1, LookUpFacts
  <2>4. FirstSlots \in Nat /\ FirstSlots <= slots /\ slots > 1
    BY <2>2, SlotsAssumption DEF TableInv
  <2>5. slots + 1 <= (slots * 3) \div 2 /\ (slots * 3) \div 2 \in Nat
    BY <2>2, <2>4, GrowsByOne
  <2> HIDE DEF n
  <2>6. slots' = (slots * 3) \div 2
    BY <2>2, <2>3
  <2>7. slots + 1 <= n
    <3> DEFINE g == (slots * 3) \div 2
    <3>1. slots + 1 <= g /\ g \in Nat /\ n >= g
      BY <2>3, <2>5, <2>6
    <3> HIDE DEF g
    <3> QED BY <2>2, <3>1
  <2>8. slots \in FirstSlots .. (n - 1) /\ slots \in Number
    BY <2>2, <2>4, <2>7, BoundsAssumption DEF Number
  <2>9. m_datas[slots] = NoContext
    BY <2>2, <2>8 DEF TableInv
  <2>10. m_datas' = m_datas
    BY <2>1 DEF LookUp
  <2> QED BY <2>3, <2>8, <2>9, <2>10 DEF TableInRange, Opened, n
<1> QED BY <1>1, <1>2

\* Spec => []TableInRange: whatever callers do in whatever order, the table's
\* end is only run past if a smaller number past the first slots has no entry
\* (fd_manager.cpp:49).
THEOREM EndInReach == Spec => []TableInRange
<1>1. Init => TableInv /\ TableInRange
  BY SlotsAssumption DEF Init, InitDescriptors, TableInv, TableInRange, Idle
<1>2. TypeOK /\ Shaped /\ TableInv /\ TableInRange /\ [FdNext]_fdVars => TableInv' /\ TableInRange'
  <2> SUFFICES ASSUME TypeOK, Shaped, TableInv, TableInRange, FdNext PROVE TableInv' /\ TableInRange'
    BY DEF FdNext
  <2> QED BY TableStep, RangeStep DEF TypeOK
<1> QED BY <1>1, <1>2, TypesKept, PTL DEF Spec

\* Spec => []TypeOK: the types of the table, the calls and the sockets.
THEOREM SocketsTypeCorrect == Spec => []TypeOK
BY TypesKept, PTL

-----------------------------------------------------------------------------
\* A close that is past its cancel_all and had a context.
Ending(r) == r.op = "close" /\ r.at \in {"drop", "system"} /\ r.ctx # NoContext

\* A step of c alone after which c is neither parked nor, unless it was so
\* before, at the end of a close.
Harmless(c) ==
  /\ \A d \in Caller \ {c} : call'[d] = call[d]
  /\ call'[c].at # "parked"
  /\ Ending(call'[c]) => Ending(call[c]) /\ call'[c].fd = call[c].fd

\* A harmless step that leaves waits and epoll alone keeps the invariant.
LEMMA WaitAside ==
  ASSUME WaitInv, NEW c \in Caller, Harmless(c), undercut \subseteq undercut',
         UNCHANGED <<waiter, registered, fdtable>>
  PROVE  WaitInv'
<1>1. ASSUME NEW d \in Caller, call'[d].at = "parked", call'[d].fd \notin undercut'
      PROVE  waiter'[<<call'[d].fd, EventOf(d)'>>] = d
  <2>1. d # c /\ call'[d] = call[d]
    BY <1>1 DEF Harmless
  <2> QED BY <1>1, <2>1 DEF WaitInv, EventOf
<1>2. ASSUME NEW n \in Number \ undercut', Waits(n)' # {}
      PROVE  IsOpen(n)' /\ registered'[n] = fdtable'[n]
  BY <1>2 DEF WaitInv, Waits, IsOpen
<1>3. ASSUME NEW d \in Caller, Ending(call'[d]), call'[d].fd \notin undercut'
      PROVE  Waits(call[d].fd)' = {}
  <2>1. Ending(call[d]) /\ call'[d].fd = call[d].fd
    BY <1>3 DEF Harmless
  <2>2. Waits(call[d].fd) = {}
    BY <1>3, <2>1 DEF WaitInv, Ending, HasContext
  <2> QED BY <2>1, <2>2 DEF Waits
<1> QED BY <1>1, <1>2, <1>3 DEF WaitInv, Ending, HasContext

\* Most steps are of that kind.
LEMMA HarmlessSteps ==
  ASSUME FdType, Shaped, NEW c \in Caller,
         \/ LookUp(c) \/ MakeContext(c) \/ UseInCall(c) \/ UseInSetting(c) \/ DelFdctx(c)
         \/ CancelAll(c) /\ ~HasContext(c)
         \/ CloseDescriptor(c)
         \/ SystemCall(c) /\ ~Accepted(c)
         \/ SetInKernel(c) \/ Resume(c) \/ FdBegins(c) \/ FdRests(c)
  PROVE  Harmless(c)
<1>a. call \in [Caller -> Call] /\ call[c] \in Call /\ Shape(call[c])
  BY DEF FdType, Shaped
<1>b. ASSUME NEW rt \in {-1, 0}, Returns(c, rt)
      PROVE  Harmless(c)
  BY <1>b, ReturnsTyped DEF Harmless, Ending
<1>c. ASSUME NEW at \in CallAt \ {"parked"}, Goes(c, at), Ending([call[c] EXCEPT !.at = at]) => Ending(call[c])
      PROVE  Harmless(c)
  <2>1. call'[c] = [call[c] EXCEPT !.at = at] /\ \A d \in Caller \ {c} : call'[d] = call[d]
    BY <1>a, <1>c DEF Goes
  <2> QED BY <1>a, <1>c, <2>1 DEF Harmless, Call
<1>1. CASE LookUp(c)
  <2>1. /\ \A d \in Caller \ {c} : call'[d] = call[d]
        /\ call'[c].at \in {"look", "use", "make"}
    BY <1>1, <1>a DEF LookUp, Goes, Call
  <2> QED BY <2>1 DEF Harmless, Ending
<1>2. CASE MakeContext(c)
  <2> DEFINE k == Min(ContextId \ Referred)
  <2>1. call' = [call EXCEPT ![c] = [call[c] EXCEPT !.at = "use", !.ctx = k]]
    BY <1>2 DEF MakeContext
  <2> HIDE DEF k
  <2>2. call'[c].at = "use" /\ \A d \in Caller \ {c} : call'[d] = call[d]
    BY <1>a, <2>1 DEF Call
  <2> QED BY <2>2 DEF Harmless, Ending
<1>3. CASE UseInCall(c)
  <2>1. CASE Returns(c, -1)
    BY <2>1, <1>b
  <2>2. CASE Goes(c, "system")
    BY <1>3, <1>a, <1>c, <2>2 DEF UseInCall, Within, Ending, Call, CallAt
  <2>3. ASSUME NEW limit, call' = [call EXCEPT ![c] = [call[c] EXCEPT !.at = "try", !.limit = limit]]
        PROVE  Harmless(c)
    <3>1. call'[c].at = "try" /\ \A d \in Caller \ {c} : call'[d] = call[d]
      BY <1>a, <2>3 DEF Call
    <3> QED BY <3>1 DEF Harmless, Ending
  <2> QED BY <1>3, <2>1, <2>2, <2>3 DEF UseInCall
<1>4. CASE UseInSetting(c) \/ DelFdctx(c)
  <2>1. Goes(c, "system") /\ (Ending([call[c] EXCEPT !.at = "system"]) => Ending(call[c]))
    BY <1>4, <1>a DEF UseInSetting, DelFdctx, Within, Ending, Call
  <2> QED BY <1>c, <2>1 DEF CallAt
<1>5. CASE CancelAll(c) /\ ~HasContext(c)
  <2>1. Goes(c, "system") /\ ~Ending([call[c] EXCEPT !.at = "system"])
    BY <1>5, <1>a DEF CancelAll, HasContext, Ending, Call
  <2> QED BY <1>c, <2>1 DEF CallAt
<1>6. CASE CloseDescriptor(c) \/ SetInKernel(c)
  BY <1>6, <1>b DEF CloseDescriptor, SetInKernel
<1>7. CASE SystemCall(c) /\ ~Accepted(c)
  <2>1. CASE Ends(c)
    BY <2>1, <1>b DEF Ends
  <2>2. CASE MustWait(c)
    <3>1. Goes(c, "park") /\ ~Ending([call[c] EXCEPT !.at = "park"])
      BY <2>2, <1>a DEF MustWait, Ending, Call
    <3> QED BY <1>c, <3>1 DEF CallAt
  <2> QED BY <1>7, <2>1, <2>2 DEF SystemCall
<1>8. CASE Resume(c)
  <2>1. CASE Goes(c, "try")
    <3>1. ~Ending([call[c] EXCEPT !.at = "try"])
      BY <1>a DEF Ending, Call
    <3> QED BY <1>c, <2>1, <3>1 DEF CallAt
  <2> QED BY <1>8, <2>1, <1>b DEF Resume
<1>9. CASE FdBegins(c)
  <2>1. PICK op, n, want : Begin(c, op, n, want)
    BY <1>9 DEF FdBegins
  <2>2. /\ \A d \in Caller \ {c} : call'[d] = call[d]
        /\ call'[c].at \in {"look", "system"} /\ call'[c].ctx = NoContext
    BY <1>a, <2>1 DEF Begin, Idle
  <2> QED BY <2>2 DEF Harmless, Ending
<1>10. CASE FdRests(c)
  BY <1>10, <1>a DEF FdRests, Harmless, Ending, Idle
<1> QED BY <1>1, <1>2, <1>3, <1>4, <1>5, <1>6, <1>7, <1>8, <1>9, <1>10

\* The kernel closes the descriptor: nobody waits for it, or it is undercut.
LEMMA WaitClose ==
  ASSUME FdType, Shaped, WaitInv, NEW c \in Caller, CloseDescriptor(c)
  PROVE  WaitInv'
<1> DEFINE n == call[c].fd
<1>1. Harmless(c)
  BY HarmlessSteps
<1>2. /\ n \in Number /\ call[c].op = "close" /\ call[c].at = "system"
      /\ undercut \subseteq undercut'
      /\ Waits(n) # {} /\ ~HasContext(c) => n \in undercut'
      /\ waiter' = waiter
      /\ \A m \in Number \ {n} : fdtable'[m] = fdtable[m] /\ registered'[m] = registered[m]
  BY DEF FdType, Shaped, Shape, CloseDescriptor, Within
<1>3. n \notin undercut' => Waits(n) = {}
  BY <1>2 DEF WaitInv
<1>4. ASSUME NEW d \in Caller, call'[d].at = "parked", call'[d].fd \notin undercut'
      PROVE  waiter'[<<call'[d].fd, EventOf(d)'>>] = d
  BY <1>1, <1>2, <1>4 DEF WaitInv, EventOf, Harmless
<1>5. ASSUME NEW m \in Number \ undercut', Waits(m)' # {}
      PROVE  IsOpen(m)' /\ registered'[m] = fdtable'[m]
  <2>1. Waits(m) # {} /\ m # n
    BY <1>2, <1>3, <1>5 DEF Waits
  <2> QED BY <1>2, <1>5, <2>1 DEF WaitInv, IsOpen
<1>6. ASSUME NEW d \in Caller, Ending(call'[d]), call'[d].fd \notin undercut'
      PROVE  Waits(call[d].fd)' = {} /\ call'[d].fd = call[d].fd
  <2>1. Ending(call[d]) /\ call'[d].fd = call[d].fd
    BY <1>1, <1>6 DEF Harmless
  <2>2. Waits(call[d].fd) = {}
    BY <1>2, <1>6, <2>1 DEF WaitInv, Ending, HasContext
  <2> QED BY <1>2, <2>1, <2>2 DEF Waits
<1> QED BY <1>4, <1>5, <1>6 DEF WaitInv, Ending, HasContext, Waits

\* The kernel opens a file, under a number that nobody waits for or that stays
\* undercut.
LEMMA WaitOpen ==
  ASSUME FdType, Shaped, WaitInv, NEW c \in Caller, NEW socket \in BOOLEAN, Opens(socket),
         UNCHANGED <<waiter, registered>>,
         \A d \in Caller \ {c} : call'[d] = call[d],
         call'[c] = call[c] \/ call'[c].at \in {"look", "done"}
  PROVE  WaitInv'
<1> DEFINE n == NewNumber
<1>1. n \in Number /\ fdtable[n] = NoFile
      /\ \A m \in Number \ {n} : fdtable'[m] = fdtable[m]
  BY OpensTyped DEF FdType
<1>2. /\ undercut \ {n} \subseteq undercut'
      /\ n \in undercut \ undercut' => Waits(n) = {} /\ \A d \in Caller : call[d].fd # n
  BY DEF Opens
<1>3. n \notin undercut' => Waits(n) = {}
  BY <1>1, <1>2 DEF WaitInv, IsOpen
<1>4. ASSUME NEW d \in Caller, call'[d].at = "parked", call'[d].fd \notin undercut'
      PROVE  waiter'[<<call'[d].fd, EventOf(d)'>>] = d
  <2>1. call'[d] = call[d]
    BY <1>4
  <2>2. call[d].fd \notin undercut
    BY <1>2, <1>4, <2>1
  <2> QED BY <1>4, <2>1, <2>2 DEF WaitInv, EventOf
<1>5. ASSUME NEW m \in Number \ undercut', Waits(m)' # {}
      PROVE  IsOpen(m)' /\ registered'[m] = fdtable'[m]
  <2>1. Waits(m) # {} /\ m # n
    BY <1>3, <1>5 DEF Waits
  <2> QED BY <1>1, <1>2, <1>5, <2>1 DEF WaitInv, IsOpen
<1>6. ASSUME NEW d \in Caller, Ending(call'[d]), call'[d].fd \notin undercut'
      PROVE  Waits(call[d].fd)' = {} /\ call'[d].fd = call[d].fd
  <2>1. call'[d] = call[d]
    BY <1>6 DEF Ending
  <2>2. call[d].fd \notin undercut
    BY <1>2, <1>6, <2>1
  <2> QED BY <1>6, <2>1, <2>2 DEF WaitInv, Waits, Ending, HasContext
<1> QED BY <1>4, <1>5, <1>6 DEF WaitInv, Ending, HasContext, Waits

\* Waking: who stays parked keeps its wait.
LEMMA WaitWoken ==
  ASSUME FdType, Shaped, WaitInv, NEW n \in Number, NEW events \in SUBSET Event,
         NEW then \in [Caller -> Call], Woken(n, events, then),
         UNCHANGED <<fdtable, undercut>>,
         \A d \in Caller :
           /\ then[d].op = call[d].op /\ then[d].fd = call[d].fd
           /\ then[d].at = "parked" => call[d].at = "parked"
           /\ Ending(then[d]) => Ending(call[d]) \/ (then[d].fd = n /\ events = Event)
  PROVE  WaitInv'
<1>1. \A d \in Caller :
        /\ call'[d].op = call[d].op /\ call'[d].fd = call[d].fd
        /\ call'[d].at = "parked" => call[d].at = "parked" /\ call'[d] = then[d]
        /\ Ending(call'[d]) => Ending(then[d])
  BY DEF Woken, Ending, Call
<1>2. \A m \in Number : \A e \in Event :
        waiter[<<m, e>>] = Nobody => waiter'[<<m, e>>] = Nobody
  BY DEF Woken
<1>3. \A m \in Number : Waits(m) = {} => Waits(m)' = {}
  BY <1>2 DEF Waits
<1>4. ASSUME NEW d \in Caller, call'[d].at = "parked", call'[d].fd \notin undercut'
      PROVE  waiter'[<<call'[d].fd, EventOf(d)'>>] = d
  <2>1. waiter[<<call[d].fd, EventOf(d)>>] = d
    BY <1>1, <1>4 DEF WaitInv
  <2>2. EventOf(d)' = EventOf(d) /\ EventOf(d) \in Event
    BY <1>1 DEF EventOf, Event
  <2>3. call[d].fd \in Number
    BY <1>1, <1>4 DEF Shaped, Shape
  <2>4. waiter'[<<call[d].fd, EventOf(d)>>] = waiter[<<call[d].fd, EventOf(d)>>]
    BY <1>4, <2>1, <2>2, <2>3 DEF Woken
  <2> QED BY <1>1, <2>1, <2>2, <2>4
<1>5. ASSUME NEW m \in Number \ undercut', Waits(m)' # {}
      PROVE  IsOpen(m)' /\ registered'[m] = fdtable'[m]
  <2>1. Waits(m) # {}
    BY <1>3, <1>5
  <2>2. IsOpen(m) /\ registered[m] = fdtable[m]
    BY <1>5, <2>1 DEF WaitInv
  <2>3. registered'[m] = registered[m]
    BY <1>5 DEF Woken, Waits
  <2> QED BY <2>2, <2>3 DEF IsOpen
<1>6. ASSUME NEW d \in Caller, Ending(call'[d]), call'[d].fd \notin undercut'
      PROVE  Waits(call[d].fd)' = {} /\ call'[d].fd = call[d].fd
  <2>1. call'[d].fd = call[d].fd /\ Ending(then[d]) /\ call[d].fd \in Number
    BY <1>1, <1>6 DEF Shaped, Shape, Ending
  <2>2. CASE Ending(call[d])
    <3>1. Waits(call[d].fd) = {}
      BY <1>6, <2>1, <2>2 DEF WaitInv, Ending, HasContext
    <3> QED BY <1>3, <2>1, <3>1
  <2>3. CASE call[d].fd = n /\ events = Event
    <3>1. CASE registered[n] # NoFile
      BY <2>1, <2>3, <3>1 DEF Woken, Waits
    <3>2. CASE registered[n] = NoFile
      <4>1. Waits(n) = {}
        BY <1>6, <2>1, <2>3, <3>2 DEF WaitInv, IsOpen
      <4> QED BY <1>3, <2>1, <2>3, <4>1
    <3> QED BY <3>1, <3>2
  <2> QED BY <2>1, <2>2, <2>3
<1> QED BY <1>4, <1>5, <1>6 DEF WaitInv, Ending, HasContext, Waits

\* A fiber parks: as the waiter of an open number, or on one that is undercut.
LEMMA WaitPark ==
  ASSUME FdType, Shaped, WaitInv, NEW c \in Caller, Park(c)
  PROVE  WaitInv'
<1> DEFINE n == call[c].fd
           e == EventOf(c)
<1>1. /\ call[c] \in Call /\ call[c].at = "park" /\ call[c].op \in {"io", "accept", "connect"}
      /\ n \in Number /\ e \in Event /\ call \in [Caller -> Call]
  BY DEF FdType, Shaped, Shape, Park, EventOf, Event
<1>2. /\ \A d \in Caller \ {c} : call'[d] = call[d]
      /\ call'[c].op = call[c].op /\ call'[c].fd = n /\ ~Ending(call'[c])
  <2>1. CASE Goes(c, "parked")
    BY <1>1, <2>1 DEF Goes, Ending, Call
  <2>2. CASE call' = [call EXCEPT ![c].at = "parked", ![c].limit = NoLimit]
    BY <1>1, <2>2 DEF Ending, Call
  <2>3. CASE Returns(c, -1)
    BY <1>1, <2>3, ReturnsTyped DEF Ending
  <2>4. CASE call' = call
    BY <1>1, <2>4 DEF Ending
  <2> QED BY <2>1, <2>2, <2>3, <2>4 DEF Park
<1>3. /\ undercut \subseteq undercut' /\ fdtable' = fdtable
      /\ n \notin undercut' => ~BeingClosed(c, n) /\ EventAdded(n) /\ e \notin Waits(n)
  BY DEF Park
<1>4. CASE n \notin undercut'
  <2>1. /\ waiter' = [waiter EXCEPT ![<<n, e>>] = c]
        /\ registered' = [registered EXCEPT ![n] = fdtable[n]]
    BY <1>3, <1>4 DEF Park
  <2>2. IsOpen(n)
    <3>1. CASE Waits(n) = {}
      BY <1>3, <1>4, <3>1 DEF EventAdded
    <3>2. CASE Waits(n) # {}
      BY <1>1, <1>3, <1>4, <3>2 DEF WaitInv
    <3> QED BY <3>1, <3>2
  <2>3. /\ waiter'[<<n, e>>] = c /\ waiter[<<n, e>>] = Nobody
        /\ \A m \in Number : \A f \in Event :
             ~(m = n /\ f = e) => waiter'[<<m, f>>] = waiter[<<m, f>>]
    BY <1>1, <1>3, <1>4, <2>1 DEF FdType, Waits
  <2>4. registered'[n] = fdtable[n] /\ \A m \in Number \ {n} : registered'[m] = registered[m]
    BY <1>1, <2>1 DEF FdType
  <2>5. c # Nobody
    BY CallerAssumption DEF Nobody
  <2>6. ASSUME NEW d \in Caller, call'[d].at = "parked", call'[d].fd \notin undercut'
        PROVE  waiter'[<<call'[d].fd, EventOf(d)'>>] = d
    <3>1. CASE d = c
      BY <1>2, <2>3, <3>1 DEF EventOf
    <3>2. CASE d # c
      <4>1. call'[d] = call[d] /\ EventOf(d)' = EventOf(d)
        BY <1>2, <3>2 DEF EventOf
      <4>2. waiter[<<call[d].fd, EventOf(d)>>] = d
        BY <1>3, <2>6, <4>1 DEF WaitInv
      <4>3. call[d].fd \in Number /\ EventOf(d) \in Event /\ d # Nobody
        BY <2>6, <4>1, CallerAssumption DEF Shaped, Shape, EventOf, Event, Nobody
      <4> QED BY <2>3, <4>1, <4>2, <4>3
    <3> QED BY <3>1, <3>2
  <2>7. ASSUME NEW m \in Number \ undercut', Waits(m)' # {}
        PROVE  IsOpen(m)' /\ registered'[m] = fdtable'[m]
    <3>1. CASE m = n
      BY <1>3, <2>2, <2>4, <3>1 DEF IsOpen
    <3>2. CASE m # n
      <4>1. Waits(m) # {}
        BY <2>3, <2>7, <3>2 DEF Waits
      <4> QED BY <1>3, <2>4, <2>7, <3>2, <4>1 DEF WaitInv, IsOpen
    <3> QED BY <3>1, <3>2
  <2>8. ASSUME NEW d \in Caller, Ending(call'[d]), call'[d].fd \notin undercut'
        PROVE  Waits(call[d].fd)' = {} /\ call'[d].fd = call[d].fd
    <3>1. d # c /\ call'[d] = call[d]
      BY <1>2, <2>8
    <3>2. call[d].fd # n /\ call[d].fd \in Number
      BY <1>3, <1>4, <2>8, <3>1 DEF BeingClosed, Ending, Shaped, Shape
    <3>3. Waits(call[d].fd) = {}
      BY <1>3, <2>8, <3>1 DEF WaitInv, Ending, HasContext
    <3> QED BY <2>3, <3>1, <3>2, <3>3 DEF Waits
  <2> QED BY <2>6, <2>7, <2>8 DEF WaitInv, Ending, HasContext, Waits
<1>5. CASE n \in undercut'
  <2>1. /\ \A m \in Number \ {n} : registered'[m] = registered[m]
        /\ \A m \in Number \ {n} : \A f \in Event : waiter'[<<m, f>>] = waiter[<<m, f>>]
    BY <1>1 DEF Park, FdType
  <2>2. ASSUME NEW d \in Caller, call'[d].at = "parked", call'[d].fd \notin undercut'
        PROVE  waiter'[<<call'[d].fd, EventOf(d)'>>] = d
    <3>1. d # c /\ call'[d] = call[d] /\ EventOf(d)' = EventOf(d)
      BY <1>2, <1>5, <2>2 DEF EventOf
    <3>2. waiter[<<call[d].fd, EventOf(d)>>] = d
      BY <1>3, <2>2, <3>1 DEF WaitInv
    <3>3. call[d].fd \in Number \ {n} /\ EventOf(d) \in Event
      BY <1>5, <2>2, <3>1 DEF Shaped, Shape, EventOf, Event
    <3> QED BY <2>1, <3>1, <3>2, <3>3
  <2>3. ASSUME NEW m \in Number \ undercut', Waits(m)' # {}
        PROVE  IsOpen(m)' /\ registered'[m] = fdtable'[m]
    <3>1. m # n /\ Waits(m) # {}
      BY <1>5, <2>1, <2>3 DEF Waits
    <3> QED BY <1>3, <2>1, <2>3, <3>1 DEF WaitInv, IsOpen
  <2>4. ASSUME NEW d \in Caller, Ending(call'[d]), call'[d].fd \notin undercut'
        PROVE  Waits(call[d].fd)' = {} /\ call'[d].fd = call[d].fd
    <3>1. d # c /\ call'[d] = call[d] /\ call[d].fd \in Number \ {n}
      BY <1>2, <1>5, <2>4 DEF Shaped, Shape, Ending
    <3>2. Waits(call[d].fd) = {}
      BY <1>3, <2>4, <3>1 DEF WaitInv, Ending, HasContext
    <3> QED BY <2>1, <3>1, <3>2 DEF Waits
  <2> QED BY <2>2, <2>3, <2>4 DEF WaitInv, Ending, HasContext, Waits
<1> QED BY <1>4, <1>5

\* No step loses a wait, but of a number that is undercut.
LEMMA WaitStep ==
  ASSUME FdType, Shaped, WaitInv, FdNext
  PROVE  WaitInv'
<1>1. ASSUME NEW c \in Caller,
             \/ LookUp(c) \/ MakeContext(c) \/ UseInCall(c) \/ UseInSetting(c) \/ DelFdctx(c)
             \/ CancelAll(c) /\ ~HasContext(c)
             \/ SystemCall(c) /\ ~Accepted(c)
             \/ SetInKernel(c) \/ Resume(c) \/ FdBegins(c) \/ FdRests(c)
      PROVE  WaitInv'
  <2>1. Harmless(c)
    BY <1>1, HarmlessSteps
  <2>2. undercut \subseteq undercut' /\ UNCHANGED <<waiter, registered, fdtable>>
    BY <1>1 DEF LookUp, MakeContext, UseInCall, UseInSetting, DelFdctx, CancelAll, SystemCall,
       Ends, MustWait, Treads, SetInKernel, Resume, FdBegins, Begin, FdRests, kernelVars, ghostVars
  <2> QED BY <2>1, <2>2, WaitAside
<1>2. ASSUME NEW c \in Caller, SystemCall(c), Accepted(c)
      PROVE  WaitInv'
  <2> DEFINE r == [call[c] EXCEPT !.fd = NewNumber, !.rt = 1, !.at = "look"]
  <2>1. call' = [call EXCEPT ![c] = r]
    BY <1>2 DEF Accepted
  <2>2. r.at = "look"
    BY DEF FdType, Call
  <2> HIDE DEF r
  <2>3. call'[c].at = "look" /\ \A d \in Caller \ {c} : call'[d] = call[d]
    BY <2>1, <2>2 DEF FdType
  <2> QED BY <1>2, <2>3, WaitOpen DEF Accepted, SystemCall
<1>3. ASSUME NEW c \in Caller, OpenOther(c)
      PROVE  WaitInv'
  BY <1>3, WaitOpen DEF OpenOther
<1>4. ASSUME NEW c \in Caller, OpenSocket(c)
      PROVE  WaitInv'
  <2>1. CASE Opens(TRUE) /\ call' = [call EXCEPT ![c].fd = NewNumber, ![c].rt = 1,
                                      ![c].at = IF c \in Hooked THEN "look" ELSE "done"]
    <3> DEFINE r == [call[c] EXCEPT !.fd = NewNumber, !.rt = 1,
                                    !.at = IF c \in Hooked THEN "look" ELSE "done"]
    <3>1. call' = [call EXCEPT ![c] = r]
      BY <2>1
    <3>2. r.at \in {"look", "done"}
      BY DEF FdType, Call
    <3> HIDE DEF r
    <3>3. call'[c].at \in {"look", "done"} /\ \A d \in Caller \ {c} : call'[d] = call[d]
      BY <3>1, <3>2 DEF FdType
    <3> QED BY <1>4, <2>1, <3>3, WaitOpen DEF OpenSocket
  <2>2. CASE Returns(c, -1) /\ UNCHANGED <<files, fdtable, ghostVars>>
    <3>1. Harmless(c)
      BY <2>2, ReturnsTyped DEF Harmless, Ending
    <3> QED BY <1>4, <2>2, <3>1, WaitAside DEF OpenSocket, ghostVars
  <2> QED BY <1>4, <2>1, <2>2 DEF OpenSocket
<1>5. ASSUME NEW n \in Number, Ready(n)
      PROVE  WaitInv'
  <2>1. PICK events \in SUBSET Event : Woken(n, events, call)
    BY <1>5, ReadyWakes
  <2>2. call \in [Caller -> Call] /\ UNCHANGED <<fdtable, undercut>>
    BY <1>5 DEF FdType, Ready, ghostVars
  <2> QED BY <2>1, <2>2, WaitWoken
<1>6. ASSUME NEW c \in Caller, TimeLimit(c)
      PROVE  WaitInv'
  <2> DEFINE then == [call EXCEPT ![c].cancelled = TRUE]
  <2>1. /\ then \in [Caller -> Call]
        /\ \A d \in Caller : then[d] = IF d = c THEN [call[c] EXCEPT !.cancelled = TRUE] ELSE call[d]
        /\ call[c].fd \in Number /\ {EventOf(c)} \in SUBSET Event
        /\ Woken(call[c].fd, {EventOf(c)}, then)
    BY <1>6, LimitWakes
  <2> HIDE DEF then
  <2>2. \A d \in Caller :
          /\ then[d].op = call[d].op /\ then[d].fd = call[d].fd
          /\ then[d].at = "parked" => call[d].at = "parked"
          /\ Ending(then[d]) => Ending(call[d])
    <3>0. call[c] \in Call
      BY DEF FdType
    <3>1. /\ then[c].at = call[c].at /\ then[c].op = call[c].op /\ then[c].fd = call[c].fd
          /\ then[c].ctx = call[c].ctx
      BY <2>1, <3>0, LimitFields
    <3> QED BY <2>1, <3>1 DEF Ending
  <2>3. UNCHANGED <<fdtable, undercut>>
    BY <1>6 DEF TimeLimit, ghostVars
  <2> QED BY <2>1, <2>2, <2>3, WaitWoken
<1>7. ASSUME NEW c \in Caller, CancelAll(c), HasContext(c)
      PROVE  WaitInv'
  <2> DEFINE then == [call EXCEPT ![c].at = "drop"]
  <2>1. call[c] \in Call /\ call[c].fd \in Number /\ UNCHANGED <<fdtable, undercut>>
    BY <1>7 DEF FdType, Shaped, Shape, CancelAll, Within, ghostVars
  <2>2. /\ then \in [Caller -> Call]
        /\ \A d \in Caller : then[d] = IF d = c THEN [call[c] EXCEPT !.at = "drop"] ELSE call[d]
    <3>1. [call[c] EXCEPT !.at = "drop"] \in Call /\ call \in [Caller -> Call]
      BY <2>1, CallFields DEF CallAt, FdType
    <3> QED BY <3>1
  <2>3. Wakes(call[c].fd, Event, then)
    BY <1>7 DEF CancelAll
  <2> HIDE DEF then
  <2>4. Event \in SUBSET Event
    OBVIOUS
  <2>5. Woken(call[c].fd, Event, then)
    BY <2>1, <2>2, <2>3, <2>4, WakesFacts
  <2>6. \A d \in Caller :
          /\ then[d].op = call[d].op /\ then[d].fd = call[d].fd
          /\ then[d].at = "parked" => call[d].at = "parked"
          /\ Ending(then[d]) => Ending(call[d]) \/ then[d].fd = call[c].fd
    BY <2>1, <2>2 DEF Call
  <2> QED BY <2>1, <2>2, <2>4, <2>5, <2>6, WaitWoken
<1>8. CASE UNCHANGED fdVars
  BY <1>8 DEF fdVars, kernelVars, ghostVars, WaitInv, Waits, IsOpen, HasContext, EventOf
<1> QED BY <1>1, <1>2, <1>3, <1>4, <1>5, <1>6, <1>7, <1>8, WaitClose, WaitPark DEF FdNext, Step

\* Spec => []NobodyForgotten: a fiber parked in a hooked call is the waiter of a
\* number that is open and watched, unless the number was closed behind the
\* table or under another's call (hook.cpp:107, hook.cpp:335).
THEOREM ParkedIsWatched == Spec => []NobodyForgotten
<1>1. Init => WaitInv
  <2> SUFFICES ASSUME Init PROVE WaitInv
    OBVIOUS
  <2>1. \A c \in Caller : call[c].at = "idle"
    BY DEF Init, InitDescriptors, Idle
  <2>2. \A n \in Number : \A e \in Event : waiter[<<n, e>>] = Nobody
    BY DEF Init, InitDescriptors
  <2>3. \A n \in Number : Waits(n) = {}
    BY <2>2 DEF Waits
  <2> QED BY <2>1, <2>3 DEF WaitInv
<1>2. TypeOK /\ Shaped /\ WaitInv /\ [FdNext]_fdVars => WaitInv'
  <2> SUFFICES ASSUME TypeOK, Shaped, WaitInv, FdNext PROVE WaitInv'
    BY DEF FdNext
  <2> QED BY WaitStep DEF TypeOK
<1>3. TypeOK /\ Shaped /\ WaitInv => NobodyForgotten
  <2> SUFFICES ASSUME TypeOK, Shaped, WaitInv,
                      NEW c \in Caller, call[c].at = "parked", call[c].fd \notin undercut
               PROVE  /\ waiter[<<call[c].fd, EventOf(c)>>] = c
                      /\ IsOpen(call[c].fd) /\ registered[call[c].fd] = fdtable[call[c].fd]
    BY DEF NobodyForgotten
  <2>1. waiter[<<call[c].fd, EventOf(c)>>] = c
    BY DEF WaitInv
  <2>2. call[c].fd \in Number /\ EventOf(c) \in Event /\ c # Nobody
    BY CallerAssumption DEF Shaped, Shape, EventOf, Event, Nobody
  <2>3. Waits(call[c].fd) # {}
    BY <2>1, <2>2 DEF Waits
  <2> QED BY <2>1, <2>2, <2>3 DEF WaitInv
<1> QED BY <1>1, <1>2, <1>3, TypesKept, PTL DEF Spec
=============================================================================
