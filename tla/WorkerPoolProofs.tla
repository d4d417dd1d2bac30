--------------------------- MODULE WorkerPoolProofs ---------------------------
(***************************************************************************)
(* Proofs about the workers of a scheduler, for any finite number of       *)
(* threads and any number of fibers and yields, with and without the       *)
(* caller's thread in the loop.                                            *)
(***************************************************************************)
EXTENDS WorkerPool, FiniteSetTheorems, SequenceTheorems, TLAPS

Place == {"start", "none", "born", "named", "sem", "user", "join", "done",
          "pick", "picked", "swap", "fiber", "armed", "leaving", "back",
          "put", "putted", "scoped", "check", "sign", "idle", "wait", "yield", "over", "exit",
          "ended"}
FiberState == {"INIT", "EXEC", "HOLD", "READY"} \cup Over

\* What the local variables of a thread hold at each place.
Shape ==
  /\ pc \in [Thread -> Place]
  /\ ft \in [Thread -> Fiber \cup {None}]
  /\ put \in [Thread -> Worker \cup Fiber \cup {None}]
  /\ back \in [Thread -> {"none", "user", "fiber", "pick", "yield"}]
  /\ m_fiber_list \in Seq(Fiber)
  /\ m_state \in [Fiber -> FiberState]
  /\ armed \subseteq Fiber /\ given \subseteq Fiber
  /\ late \subseteq Fiber /\ doubled \subseteq Fiber
  /\ \A t \in Thread :
       /\ pc[t] \in {"swap", "fiber", "armed", "leaving", "back"} => ft[t] \in Fiber
       /\ pc[t] = "put" => put[t] \in Fiber
       /\ pc[t] \in {"put", "putted", "scoped"} =>
            back[t] # "none" /\ (back[t] = "fiber" => ft[t] \in Fiber)

\* The rest of a list after one entry has been taken out.
LEMMA RemoveFacts ==
  ASSUME NEW A, NEW s \in Seq(A), NEW i \in DOMAIN s
  PROVE  /\ RemoveAt(s, i) \in Seq(A)
         /\ \A j \in DOMAIN RemoveAt(s, i) :
              /\ j \in Nat
              /\ j < i => j \in DOMAIN s /\ RemoveAt(s, i)[j] = s[j]
              /\ ~(j < i) => j + 1 \in DOMAIN s /\ RemoveAt(s, i)[j] = s[j + 1]
         /\ \A k \in DOMAIN s :
              /\ k < i => k \in DOMAIN RemoveAt(s, i) /\ RemoveAt(s, i)[k] = s[k]
              /\ k > i => k - 1 \in DOMAIN RemoveAt(s, i) /\ RemoveAt(s, i)[k - 1] = s[k]
<1> DEFINE a == SubSeq(s, 1, i - 1)
           b == SubSeq(s, i + 1, Len(s))
<1>1. Len(s) \in Nat /\ i \in 1 .. Len(s) /\ DOMAIN s = 1 .. Len(s)
  OBVIOUS
<1>2. a \in Seq(A) /\ Len(a) = i - 1 /\ \A k \in 1 .. i - 1 : a[k] = s[k]
  <2>1. \A k \in 1 .. i - 1 : s[k] \in A
    BY <1>1
  <2>2. /\ a \in Seq(A)
        /\ Len(a) = IF 1 <= i - 1 THEN (i - 1) - 1 + 1 ELSE 0
        /\ \A k \in 1 .. (i - 1) - 1 + 1 : a[k] = s[1 + k - 1]
    BY <1>1, <2>1, SubSeqProperties
  <2> HIDE DEF a
  <2> QED BY <1>1, <2>2
<1>3. b \in Seq(A) /\ Len(b) = Len(s) - i /\ \A k \in 1 .. Len(s) - i : b[k] = s[i + k]
  <2>1. \A k \in i + 1 .. Len(s) : s[k] \in A
    BY <1>1
  <2>2. i + 1 \in Int /\ Len(s) \in Int
    BY <1>1
  <2>3. /\ b \in Seq(A)
        /\ Len(b) = IF i + 1 <= Len(s) THEN Len(s) - (i + 1) + 1 ELSE 0
        /\ \A k \in 1 .. Len(s) - (i + 1) + 1 : b[k] = s[(i + 1) + k - 1]
    BY <2>1, <2>2, SubSeqProperties
  <2> HIDE DEF b
  <2>4. Len(b) = Len(s) - i /\ Len(s) - (i + 1) + 1 = Len(s) - i
    BY <1>1, <2>3
  <2>5. ASSUME NEW k \in 1 .. Len(s) - i PROVE b[k] = s[i + k]
    <3>1. (i + 1) + k - 1 = i + k
      BY <1>1
    <3>2. b[k] = s[(i + 1) + k - 1]
      BY <2>3, <2>4
    <3> QED BY <3>1, <3>2
  <2> QED BY <2>3, <2>4, <2>5
<1> DEFINE c == a \o b
<1>4. RemoveAt(s, i) = c
  BY DEF RemoveAt
<1> HIDE DEF a, b
<1>5. c \in Seq(A) /\ Len(c) = Len(a) + Len(b)
      /\ \A k \in 1 .. Len(a) + Len(b) : c[k] = IF k <= Len(a) THEN a[k] ELSE b[k - Len(a)]
  BY <1>2, <1>3, ConcatProperties
<1> HIDE DEF c
<1>6. DOMAIN c = 1 .. Len(s) - 1
      /\ \A k \in 1 .. Len(s) - 1 : c[k] = IF k <= i - 1 THEN a[k] ELSE b[k - (i - 1)]
  BY <1>1, <1>2, <1>3, <1>5
<1>7. ASSUME NEW j \in 1 .. Len(s) - 1, j < i PROVE c[j] = s[j]
  BY <1>1, <1>2, <1>6, <1>7
<1>8. ASSUME NEW j \in 1 .. Len(s) - 1, ~(j < i) PROVE c[j] = s[j + 1]
  <2>1. j - (i - 1) \in 1 .. Len(s) - i /\ i + (j - (i - 1)) = j + 1
    BY <1>1, <1>8
  <2>2. c[j] = b[j - (i - 1)]
    BY <1>1, <1>6, <1>8
  <2>3. b[j - (i - 1)] = s[i + (j - (i - 1))]
    BY <1>3, <2>1
  <2> QED BY <2>1, <2>2, <2>3, Zenon
<1>9. ASSUME NEW j \in DOMAIN c
      PROVE  /\ j \in Nat
             /\ j < i => j \in DOMAIN s /\ c[j] = s[j]
             /\ ~(j < i) => j + 1 \in DOMAIN s /\ c[j] = s[j + 1]
  BY <1>1, <1>6, <1>7, <1>8
<1>10. ASSUME NEW k \in DOMAIN s
       PROVE  /\ k < i => k \in DOMAIN c /\ c[k] = s[k]
              /\ k > i => k - 1 \in DOMAIN c /\ c[k - 1] = s[k]
  <2>1. k < i => k \in DOMAIN c /\ c[k] = s[k]
    BY <1>1, <1>6, <1>7
  <2>2. ASSUME k > i PROVE k - 1 \in DOMAIN c /\ c[k - 1] = s[k]
    <3>1. k - 1 \in 1 .. Len(s) - 1 /\ ~(k - 1 < i) /\ (k - 1) + 1 = k
      BY <1>1, <2>2
    <3>2. c[k - 1] = s[(k - 1) + 1]
      BY <1>8, <3>1
    <3> QED BY <1>6, <3>1, <3>2
  <2> QED BY <2>1, <2>2
<1> QED BY <1>4, <1>5, <1>9, <1>10

-----------------------------------------------------------------------------
\* Every step keeps the shape.
LEMMA ShapeStep == Shape /\ [Next]_vars => Shape'
<1> SUFFICES ASSUME Shape, [Next]_vars PROVE Shape'
  OBVIOUS
<1> USE DEF Shape, Goto, Place
<1> USE PoolAssumption DEF PoolAssumption
<1>1. CASE UNCHANGED vars
  BY <1>1 DEF vars, fiberVars, localVars, ghostVars
<1>2. ASSUME NEW w \in Worker, Create(w) PROVE Shape'
  BY <1>2 DEF Create, fiberVars, ghostVars, Thread
<1>3. ASSUME NEW w \in Worker, SetId(w) \/ Notify(w) PROVE Shape'
  BY <1>3 DEF SetId, Notify, fiberVars, localVars, ghostVars, Thread
<1>4. CASE Created
  BY <1>4 DEF Created, fiberVars, ghostVars, Thread
<1>5. CASE Stop \/ Join
  BY <1>5 DEF Stop, Join, fiberVars, localVars, ghostVars, Thread
<1>6. ASSUME NEW f \in Fiber, Give(f) PROVE Shape'
  BY <1>6 DEF Give, CallSchedule, fiberVars, Thread
<1>7. ASSUME NEW t \in Thread, Run(t) PROVE Shape'
  <2>1. CASE StepLock(t) \/ StepUnlock(t)
    BY <2>1 DEF StepLock, StepUnlock, fiberVars, localVars, ghostVars
  <2>2. CASE Emplace(t)
    BY <2>2 DEF Emplace, fiberVars, ghostVars
  <2>3. CASE Scheduled(t) \/ Return(t)
    <3>1. CASE Scheduled(t)
      BY <3>1 DEF Scheduled, fiberVars, ghostVars
    <3>2. CASE Return(t)
      <4>1. /\ pc[t] = "scoped" /\ pc' = [pc EXCEPT ![t] = back[t]]
            /\ back[t] \in {"user", "fiber", "pick", "yield"}
            /\ back[t] = "fiber" => ft[t] \in Fiber
        BY <3>2 DEF Return
      <4> QED BY <3>2, <4>1 DEF Return, fiberVars, localVars, ghostVars
    <3> QED BY <2>3, <3>1, <3>2
  <2>4. CASE Scan(t)
    <3>1. ASSUME NEW i \in Takable(t)
          PROVE  m_fiber_list[i] \in Fiber /\ RemoveAt(m_fiber_list, i) \in Seq(Fiber)
      BY RemoveFacts DEF Takable
    <3>2. m_fiber_list' \in Seq(Fiber) /\ ft' \in [Thread -> Fiber \cup {None}]
      BY <2>4, <3>1 DEF Scan
    <3>3. /\ pc' = [pc EXCEPT ![t] = "picked"] /\ pc[t] = "pick"
          /\ \A u \in Thread \ {t} : ft'[u] = ft[u]
      BY <2>4 DEF Scan
    <3> QED BY <2>4, <3>2, <3>3 DEF Scan, fiberVars, ghostVars
  <2>5. CASE Picked(t)
    BY <2>5 DEF Picked, fiberVars, localVars, ghostVars
  <2>6. CASE SwapIn(t)
    BY <2>6 DEF SwapIn, SetState, FiberState, localVars, ghostVars
  <2>7. CASE Arm(t)
    BY <2>7 DEF Arm, localVars
  <2>8. CASE YieldToHold(t) \/ YieldToReady(t)
    BY <2>8 DEF YieldToHold, YieldToReady, SetState, FiberState, localVars, ghostVars
  <2>9. CASE Finish(t)
    BY <2>9 DEF Finish, SetState, FiberState, localVars, ghostVars
  <2>10. CASE SwapOut(t)
    BY <2>10 DEF SwapOut, fiberVars, localVars, ghostVars
  <2>11. CASE Back(t)
    BY <2>11 DEF Back, CallSchedule, fiberVars
  <2>12. CASE Check(t) \/ Sign(t) \/ Idle(t) \/ Wake(t) \/ Yield(t) \/ End(t) \/ Exit(t)
    BY <2>12 DEF Check, Sign, Idle, Wake, Yield, End, Exit, fiberVars, localVars, ghostVars
  <2>13. ASSUME NEW f \in Fiber, Spawn(t, f) PROVE Shape'
    BY <2>13 DEF Spawn, CallSchedule, fiberVars
  <2>14. ASSUME NEW f \in Fiber, Dispatch(t, f) PROVE Shape'
    BY <2>14 DEF Dispatch, CallSchedule, ghostVars
  <2> QED BY <1>7, <2>1, <2>2, <2>3, <2>4, <2>5, <2>6, <2>7, <2>8, <2>9, <2>10, <2>11,
             <2>12, <2>13, <2>14 DEF Run
<1> QED BY <1>1, <1>2, <1>3, <1>4, <1>5, <1>6, <1>7 DEF Next

\* At first every thread is at its place with empty hands.
LEMMA ShapeInit == Init => Shape
  BY PoolAssumption
     DEF PoolAssumption, Init, Shape, Place, FiberState, Thread

-----------------------------------------------------------------------------
\* The decision to stop and the events armed after it.
LateInv ==
  /\ m_is_stopping \/ (\E t \in Thread : pc[t] = "sign") => armed \subseteq late
  /\ \A t \in Thread : pc[t] \in {"over", "exit", "ended"} => m_is_stopping
  /\ UseCaller /\ pc[Main] = "join" => m_is_stopping
  /\ pc[Main] = "done" => m_is_stopping
  /\ Worker = {} => pc[Main] = "start"

\* Once the workers have decided to stop, what is armed is counted as late.
LEMMA LateStep == Shape /\ LateInv /\ [Next]_vars => LateInv'
<1> SUFFICES ASSUME Shape, LateInv, [Next]_vars PROVE LateInv'
  OBVIOUS
<1>0. Main \in Thread /\ \A w \in Worker : w \in Thread /\ w # Main
  BY PoolAssumption DEF PoolAssumption, Thread
<1>a. pc \in [Thread -> Place]
  BY DEF Shape
<1> USE DEF LateInv, Goto
<1>1. CASE UNCHANGED vars
  BY <1>1 DEF vars, fiberVars, signVars, ghostVars
<1>2. ASSUME NEW w \in Worker, Create(w) PROVE LateInv'
  BY <1>0, <1>a, <1>2 DEF Create, fiberVars, ghostVars
<1>3. ASSUME NEW w \in Worker, SetId(w) \/ Notify(w) PROVE LateInv'
  BY <1>0, <1>a, <1>3 DEF SetId, Notify, fiberVars, signVars, ghostVars
<1>4. CASE Created
  <2>1. Worker # {}
    BY <1>4 DEF Created
  <2> QED BY <1>0, <1>a, <1>4, <2>1 DEF Created, fiberVars, signVars, ghostVars
<1>5. CASE Stop
  <2>1. Worker # {}
    BY <1>5 DEF Stop
  <2> QED BY <1>0, <1>a, <1>5, <2>1 DEF Stop, fiberVars, ghostVars
<1>6. CASE Join
  <2>1. PICK w \in Worker : pc[w] = "ended"
    BY <1>6 DEF Join
  <2>2. m_is_stopping
    BY <1>0, <2>1
  <2> QED BY <1>0, <1>a, <1>6, <2>1, <2>2 DEF Join, fiberVars, ghostVars
<1>7. ASSUME NEW f \in Fiber, Give(f) PROVE LateInv'
  BY <1>0, <1>a, <1>7 DEF Give, CallSchedule, fiberVars, signVars
<1>8. ASSUME NEW t \in Thread, Run(t) PROVE LateInv'
  <2>0. Worker = {} => t = Main
    BY DEF Thread
  <2>1. CASE StepLock(t) \/ StepUnlock(t)
    BY <2>1 DEF StepLock, StepUnlock, fiberVars, signVars, localVars, ghostVars
  <2>2. CASE Emplace(t) \/ Scheduled(t) \/ Return(t)
    BY <1>0, <1>a, <2>0, <2>2 DEF Emplace, Scheduled, Return, fiberVars, signVars, ghostVars, Shape
  <2>4. CASE Scan(t)
    BY <1>0, <1>a, <2>0, <2>4 DEF Scan, fiberVars, signVars, ghostVars
  <2>5. CASE Picked(t)
    BY <1>0, <1>a, <2>0, <2>5 DEF Picked, fiberVars, signVars, ghostVars
  <2>6. CASE SwapIn(t)
    BY <1>0, <1>a, <2>0, <2>6 DEF SwapIn, signVars, ghostVars
  <2>7. CASE Arm(t)
    BY <1>0, <1>a, <2>0, <2>7 DEF Arm, signVars
  <2>8. CASE YieldToHold(t) \/ YieldToReady(t) \/ Finish(t)
    BY <1>0, <1>a, <2>0, <2>8 DEF YieldToHold, YieldToReady, Finish, signVars, ghostVars
  <2>9. CASE SwapOut(t)
    BY <1>0, <1>a, <2>0, <2>9 DEF SwapOut, fiberVars, signVars, ghostVars
  <2>10. CASE Back(t)
    BY <1>0, <1>a, <2>0, <2>10 DEF Back, CallSchedule, fiberVars, signVars
  <2>11. CASE Check(t)
    BY <1>0, <1>a, <2>0, <2>11 DEF Check, Quiet, fiberVars, signVars, ghostVars
  <2>12. CASE Sign(t)
    BY <1>0, <1>a, <2>0, <2>12 DEF Sign, fiberVars, ghostVars
  <2>13. CASE Idle(t)
    BY <1>0, <1>a, <2>0, <2>13 DEF Idle, fiberVars, signVars, ghostVars
  <2>14. CASE Wake(t) \/ Yield(t)
    BY <1>0, <1>a, <2>0, <2>14 DEF Wake, Yield, fiberVars, signVars, ghostVars
  <2>15. CASE End(t) \/ Exit(t)
    BY <1>0, <1>a, <2>0, <2>15 DEF End, Exit, fiberVars, signVars, ghostVars
  <2>16. ASSUME NEW f \in Fiber, Spawn(t, f) PROVE LateInv'
    BY <1>0, <1>a, <2>0, <2>16 DEF Spawn, CallSchedule, fiberVars, signVars
  <2>17. ASSUME NEW f \in Fiber, Dispatch(t, f) PROVE LateInv'
    BY <1>0, <1>a, <2>0, <2>17 DEF Dispatch, CallSchedule, signVars, ghostVars
  <2> QED BY <1>8, <2>1, <2>2, <2>4, <2>5, <2>6, <2>7, <2>8, <2>9, <2>10, <2>11,
             <2>12, <2>13, <2>14, <2>15, <2>16, <2>17 DEF Run
<1> QED BY <1>1, <1>2, <1>3, <1>4, <1>5, <1>6, <1>7, <1>8 DEF Next

\* At first nothing is armed.
LEMMA LateInit == Init => LateInv
  BY PoolAssumption DEF PoolAssumption, Init, LateInv, Thread

\* When stop() has returned, every event still armed was armed by a fiber that
\* was running while the workers had already decided to stop.
THEOREM OnlyLateLeft == Spec => []LeftArmedLate
<1>1. Shape /\ LateInv => LeftArmedLate
  BY DEF LateInv, LeftArmedLate
<1> QED BY <1>1, ShapeInit, ShapeStep, LateInit, LateStep, PTL DEF Spec

-----------------------------------------------------------------------------
\* Who has a fiber.

\* The model goes no further from a state with a fiber on two threads.
LEMMA Alone ==
  ASSUME ~Undefined, NEW t \in Thread, NEW u \in Thread, NEW f \in Fiber,
         OnProcessor(t, f), OnProcessor(u, f)
  PROVE  t = u
<1> SUFFICES ASSUME t # u PROVE FALSE
  OBVIOUS
<1> DEFINE S == {v \in Thread : OnProcessor(v, f)}
<1>1. IsFiniteSet(Thread)
  BY PoolAssumption, FS_AddElement DEF PoolAssumption, Thread
<1>2. IsFiniteSet(S)
  BY <1>1, FS_Subset
<1>3. {t, u} \subseteq S
  OBVIOUS
<1>4. IsFiniteSet({t}) /\ Cardinality({t}) = 1
  BY FS_Singleton
<1>5. {t, u} = {t} \cup {u} /\ u \notin {t}
  OBVIOUS
<1>6. IsFiniteSet({t, u}) /\ Cardinality({t, u}) = 2
  BY <1>4, <1>5, FS_AddElement
<1>7. Cardinality({t, u}) <= Cardinality(S) /\ Cardinality(S) \in Nat
  BY <1>2, <1>3, FS_Subset, FS_CardinalityType
<1>8. Cardinality(S) > 1
  BY <1>6, <1>7
<1> QED BY <1>8 DEF Undefined

InList(f) == \E i \in DOMAIN m_fiber_list : m_fiber_list[i] = f
HasOther(t, f) == \E u \in Thread \ {t} : Has(u, f)
Elsewhere(t, f) == InList(f) \/ f \in armed \/ HasOther(t, f)
Shared(t, f) == \E u \in Thread \ {t} : OnProcessor(u, f)

\* t executes its fiber: the fiber is not on its way out.
Executing(t) == pc[t] \in {"fiber", "armed"} \/ (pc[t] \in {"put", "putted", "scoped"} /\ back[t] = "fiber")

\* A fiber that is not over is in the list, armed or had by a thread, or has
\* just yielded READY; one that waits is so even when its own thread is not
\* counted, from add_event on.
Placed(f) ==
  \/ m_state[f] \in Over \/ InList(f) \/ f \in armed
  \/ \E t \in Thread : Has(t, f)
  \/ m_state[f] = "READY" /\ \E t \in Thread : pc[t] = "back" /\ ft[t] = f

OwnFiber(t) ==
  /\ Executing(t) => m_state[ft[t]] = "EXEC" \/ Shared(t, ft[t])
  /\ pc[t] = "armed" => Elsewhere(t, ft[t])
  /\ pc[t] = "leaving" =>
       \/ Shared(t, ft[t])
       \/ m_state[ft[t]] \in Over \cup {"READY"}
       \/ m_state[ft[t]] = "HOLD" /\ Elsewhere(t, ft[t])

CustodyInv ==
  /\ \A f \in given : Placed(f)
  /\ \A t \in Thread : OwnFiber(t)

-----------------------------------------------------------------------------
\* A step keeps CustodyInv if it is a move of one thread: the others play the
\* role they did, a fiber that thread had is had still or placed elsewhere,
\* and it changes the state of no fiber but its own.
SameRole(u) ==
  /\ ft'[u] = ft[u]
  /\ \A f \in Fiber : (Has(u, f)' <=> Has(u, f)) /\ (OnProcessor(u, f)' <=> OnProcessor(u, f))
  /\ Executing(u)' => Executing(u)
  /\ \A p \in {"armed", "leaving", "back"} : pc'[u] = p <=> pc[u] = p

Move(t) ==
  /\ \A u \in Thread \ {t} : SameRole(u)
  /\ \A f \in Fiber :
       /\ ~OnProcessor(t, f) /\ ~OnProcessor(t, f)' => m_state'[f] = m_state[f]
       /\ ~OnProcessor(t, f) /\ m_state[f] \notin Over /\ (InList(f) \/ f \in armed \/ Has(t, f))
            => InList(f)' \/ f \in armed' \/ Has(t, f)'
       /\ OnProcessor(t, f) => Placed(f)'
       /\ pc[t] = "back" /\ ft[t] = f /\ m_state[f] = "READY" => Placed(f)'
  /\ \A f \in given' : f \in given \/ Has(t, f)'
  /\ OwnFiber(t)'

\* A thread that has a fiber on its processor has it.
LEMMA OnHas ==
  ASSUME NEW t \in Thread, NEW f \in Fiber, OnProcessor(t, f)
  PROVE  Has(t, f)
  BY DEF Has

\* What a thread that executes its fiber, or is on the way out, has.
LEMMA OwnOn ==
  ASSUME Shape, NEW t \in Thread, Executing(t) \/ pc[t] = "leaving"
  PROVE  ft[t] \in Fiber /\ OnProcessor(t, ft[t])
  BY DEF Shape, Executing, OnProcessor

\* Whatever thread moves, each fiber stays in the hands that had it or goes to
\* those of the step: custody is kept.
LEMMA MoveKeeps ==
  ASSUME Shape, Shape', CustodyInv, ~Undefined, NEW t \in Thread, Move(t)
  PROVE  CustodyInv'
<1>1. ASSUME NEW u \in Thread \ {t}, NEW f \in Fiber, OnProcessor(u, f)
      PROVE  ~OnProcessor(t, f) /\ ~Shared(u, f)
  <2>1. \A v \in Thread : OnProcessor(v, f) => v = u
    BY <1>1, Alone
  <2> QED BY <2>1 DEF Shared
<1>2. ASSUME NEW u \in Thread \ {t}, NEW f \in Fiber, OnProcessor(u, f),
             m_state[f] \notin Over, Elsewhere(u, f)
      PROVE  Elsewhere(u, f)'
  <2>1. CASE InList(f) \/ f \in armed \/ Has(t, f)
    <3>1. InList(f)' \/ f \in armed' \/ Has(t, f)'
      BY <1>1, <1>2, <2>1 DEF Move
    <3> QED BY <3>1 DEF Elsewhere, HasOther
  <2>2. CASE \E v \in Thread \ {u, t} : Has(v, f)
    BY <2>2 DEF Move, SameRole, Elsewhere, HasOther
  <2> QED BY <1>2, <2>1, <2>2 DEF Elsewhere, HasOther
<1>3. ASSUME NEW u \in Thread \ {t}, NEW f \in Fiber, OnProcessor(u, f),
             OnProcessor(t, f)'
      PROVE  Shared(u, f)' /\ Elsewhere(u, f)'
  <2>1. Has(t, f)'
    BY <1>3 DEF Has
  <2> QED BY <1>3, <2>1 DEF Shared, Elsewhere, HasOther
<1>4. ASSUME NEW u \in Thread \ {t}, NEW f, f = ft[u] PROVE OwnFiber(u)'
  <2>0. ft'[u] = f /\ ft[u] = f /\ SameRole(u) /\ OwnFiber(u)
    BY <1>4 DEF Move, SameRole, CustodyInv
  <2>1. ASSUME Executing(u)' PROVE m_state'[f] = "EXEC" \/ Shared(u, f)'
    <3>1. f \in Fiber /\ OnProcessor(u, f) /\ Executing(u)
      BY <2>0, <2>1, OwnOn DEF SameRole
    <3>2. CASE OnProcessor(t, f)'
      BY <1>3, <3>1, <3>2
    <3>3. CASE ~OnProcessor(t, f)'
      <4>1. m_state'[f] = m_state[f] /\ ~Shared(u, f)
        BY <1>1, <3>1, <3>3 DEF Move
      <4> QED BY <2>0, <3>1, <4>1 DEF OwnFiber
    <3> QED BY <3>2, <3>3
  <2>2. ASSUME pc'[u] = "armed" PROVE Elsewhere(u, f)'
    <3>1. pc[u] = "armed" /\ Executing(u)
      BY <2>0, <2>2 DEF SameRole, Executing
    <3>2. f \in Fiber /\ OnProcessor(u, f)
      BY <2>0, <3>1, OwnOn
    <3>3. Elsewhere(u, f) /\ m_state[f] = "EXEC"
      BY <1>1, <2>0, <3>1, <3>2 DEF OwnFiber
    <3> QED BY <1>2, <3>2, <3>3 DEF Over
  <2>3. ASSUME pc'[u] = "leaving"
        PROVE  \/ Shared(u, f)'
               \/ m_state'[f] \in Over \cup {"READY"}
               \/ m_state'[f] = "HOLD" /\ Elsewhere(u, f)'
    <3>1. pc[u] = "leaving"
      BY <2>0, <2>3 DEF SameRole
    <3>2. f \in Fiber /\ OnProcessor(u, f)
      BY <2>0, <3>1, OwnOn
    <3>3. CASE OnProcessor(t, f)'
      BY <1>3, <3>2, <3>3
    <3>4. CASE ~OnProcessor(t, f)'
      <4>1. m_state'[f] = m_state[f] /\ ~Shared(u, f)
        BY <1>1, <3>2, <3>4 DEF Move
      <4>2. \/ m_state[f] \in Over \cup {"READY"}
            \/ m_state[f] = "HOLD" /\ Elsewhere(u, f)
        BY <2>0, <3>1, <4>1 DEF OwnFiber
      <4>3. m_state[f] = "HOLD" => m_state[f] \notin Over
        BY DEF Over
      <4> QED BY <1>2, <3>2, <4>1, <4>2, <4>3
    <3> QED BY <3>3, <3>4
  <2> QED BY <2>0, <2>1, <2>2, <2>3 DEF OwnFiber
<1>5. ASSUME NEW f \in given' PROVE Placed(f)'
  <2>0. f \in Fiber
    BY DEF Shape
  <2>1. CASE Has(t, f)' \/ OnProcessor(t, f)
    BY <2>0, <2>1 DEF Move, Placed
  <2>2. CASE ~Has(t, f)' /\ ~OnProcessor(t, f)
    <3>1. f \in given /\ Placed(f)
      BY <2>2 DEF Move, CustodyInv
    <3>2. ~OnProcessor(t, f)'
      BY <2>2 DEF Has
    <3>3. m_state'[f] = m_state[f]
      BY <2>0, <2>2, <3>2 DEF Move
    <3>4. CASE m_state[f] \in Over
      BY <3>3, <3>4 DEF Placed
    <3>5. CASE m_state[f] \notin Over /\ (InList(f) \/ f \in armed \/ Has(t, f))
      BY <2>0, <2>2, <3>5 DEF Move, Placed
    <3>6. CASE \E u \in Thread \ {t} : Has(u, f)
      BY <2>0, <3>6 DEF Move, SameRole, Placed
    <3>7. CASE m_state[f] = "READY" /\ pc[t] = "back" /\ ft[t] = f
      BY <2>0, <3>7 DEF Move
    <3>8. CASE m_state[f] = "READY" /\ \E u \in Thread \ {t} : pc[u] = "back" /\ ft[u] = f
      BY <3>3, <3>8 DEF Move, SameRole, Placed
    <3> QED BY <3>1, <3>4, <3>5, <3>6, <3>7, <3>8 DEF Placed
  <2> QED BY <2>1, <2>2
<1> QED BY <1>4, <1>5 DEF CustodyInv, Move

\* A thread whose variables and place are as they were plays the same role.
LEMMA SameRoleRules ==
  ASSUME NEW u \in Thread,
         ft'[u] = ft[u], put'[u] = put[u], back'[u] = back[u], pc'[u] = pc[u]
  PROVE  SameRole(u)
  BY DEF SameRole, Has, OnProcessor, Executing

\* Moves that change no fiber and no role.
LEMMA NoMove ==
  ASSUME Shape, CustodyInv, ~Undefined, NEW t \in Thread,
         \A u \in Thread : SameRole(u),
         UNCHANGED <<m_fiber_list, m_state, armed, given>>
  PROVE  Move(t)
<1>1. \A f \in Fiber : (InList(f)' <=> InList(f))
  BY DEF InList
<1>2. ASSUME NEW f \in Fiber PROVE Placed(f)' <=> Placed(f)
  BY <1>1 DEF Placed, SameRole
<1>3. ASSUME NEW u \in Thread, NEW f \in Fiber
      PROVE  (Shared(u, f)' <=> Shared(u, f)) /\ (Elsewhere(u, f)' <=> Elsewhere(u, f))
  BY <1>1 DEF Shared, Elsewhere, HasOther, SameRole
<1>4. OwnFiber(t)'
  <2>1. ft'[t] = ft[t] /\ OwnFiber(t) /\ SameRole(t)
    BY DEF SameRole, CustodyInv
  <2>2. Executing(t)' \/ pc'[t] = "leaving" \/ pc'[t] = "armed" => ft[t] \in Fiber
    BY <2>1, OwnOn DEF SameRole, Executing
  <2> QED BY <1>3, <2>1, <2>2 DEF OwnFiber, SameRole
<1>5. ASSUME NEW f \in Fiber, OnProcessor(t, f) PROVE Placed(f)'
  BY <1>5 DEF Placed, SameRole, Has
<1>6. ASSUME NEW f \in Fiber, pc[t] = "back", ft[t] = f, m_state[f] = "READY" PROVE Placed(f)'
  BY <1>6 DEF Placed, SameRole
<1> QED BY <1>1, <1>4, <1>5, <1>6 DEF Move, SameRole

-----------------------------------------------------------------------------
\* Each action is a move.

\* Steps in which nobody gets or loses a fiber.
LEMMA QuietMoves ==
  ASSUME Shape, CustodyInv, ~Undefined,
         \/ \E w \in Worker : Create(w) \/ SetId(w) \/ Notify(w)
         \/ Created \/ Stop \/ Join
         \/ \E t \in Thread :
              \/ StepLock(t) \/ StepUnlock(t) \/ Scheduled(t) \/ Return(t)
              \/ Check(t) \/ Sign(t) \/ Idle(t) \/ Wake(t) \/ Yield(t) \/ End(t) \/ Exit(t)
  PROVE  \E t \in Thread : Move(t)
<1>0. Main \in Thread /\ pc \in [Thread -> Place] /\ \A w \in Worker : w \in Thread /\ w # Main
  BY PoolAssumption DEF PoolAssumption, Thread, Shape
<1>1. put \in [Thread -> Worker \cup Fiber \cup {None}]
  BY DEF Shape
<1> DEFINE Bare == {"picked", "swap", "fiber", "armed", "leaving", "back", "put", "putted", "scoped"}
           Rule(u) == /\ ft'[u] = ft[u] /\ back'[u] = back[u]
                      /\ \/ pc'[u] = pc[u] /\ put'[u] = put[u]
                         \/ {pc[u], pc'[u]} \cap Bare = {}
                         \/ pc[u] = "putted" /\ pc'[u] = "scoped"
                         \/ pc[u] = "scoped" /\ pc'[u] = back[u]
<1>2. (\A u \in Thread : Rule(u)) /\ UNCHANGED <<m_fiber_list, m_state, armed, given>>
  <2> USE DEF Goto, fiberVars, localVars, ghostVars
  <2>1. CASE \E w \in Worker : Create(w) \/ SetId(w) \/ Notify(w)
    BY <1>0, <1>1, <2>1 DEF Create, SetId, Notify
  <2>2. CASE Created \/ Stop \/ Join
    BY <1>0, <1>1, <2>2 DEF Created, Stop, Join
  <2>3. CASE \E t \in Thread : StepLock(t) \/ StepUnlock(t)
    BY <2>3 DEF StepLock, StepUnlock
  <2>4. CASE \E t \in Thread : Scheduled(t) \/ Return(t)
    BY <1>0, <1>1, <2>4 DEF Scheduled, Return
  <2>5. CASE \E t \in Thread : Check(t) \/ Sign(t) \/ Idle(t)
    BY <1>0, <2>5 DEF Check, Sign, Idle
  <2>6. CASE \E t \in Thread : Wake(t) \/ Yield(t) \/ End(t) \/ Exit(t)
    BY <1>0, <2>6 DEF Wake, Yield, End, Exit
  <2> QED BY <2>1, <2>2, <2>3, <2>4, <2>5, <2>6
<1>3. ASSUME NEW u \in Thread PROVE SameRole(u)
  <2>1. Rule(u)
    BY <1>2
  <2>2. CASE {pc[u], pc'[u]} \cap Bare = {}
    BY <2>1, <2>2 DEF SameRole, Has, OnProcessor, Executing
  <2>3. CASE pc[u] = "scoped" /\ pc'[u] = back[u]
    <3>1. back[u] \in {"user", "fiber", "pick", "yield"}
      BY <2>3 DEF Shape
    <3> QED BY <2>1, <2>3, <3>1 DEF SameRole, Has, OnProcessor, Executing
  <2>4. CASE pc'[u] = pc[u] /\ put'[u] = put[u]
    BY <2>1, <2>4, SameRoleRules
  <2>5. CASE pc[u] = "putted" /\ pc'[u] = "scoped"
    BY <2>1, <2>5 DEF SameRole, Has, OnProcessor, Executing
  <2> QED BY <2>1, <2>2, <2>3, <2>4, <2>5
<1>4. Move(Main)
  BY <1>0, <1>2, <1>3, NoMove
<1> QED BY <1>0, <1>4

\* A thread's own variables after a step that is its own.
OwnStep(t) ==
  \A u \in Thread \ {t} :
    pc'[u] = pc[u] /\ ft'[u] = ft[u] /\ put'[u] = put[u] /\ back'[u] = back[u]

\* A step of one thread leaves the role of every other as it is.
LEMMA OthersSame ==
  ASSUME Shape, NEW t \in Thread, OwnStep(t), NEW u \in Thread \ {t}
  PROVE  SameRole(u)
  BY SameRoleRules DEF OwnStep

\* schedule() puts the fiber at the end of the list.
LEMMA EmplaceMove ==
  ASSUME Shape, CustodyInv, ~Undefined, NEW t \in Thread, Emplace(t)
  PROVE  Move(t)
<1>1. /\ pc[t] = "put" /\ pc' = [pc EXCEPT ![t] = "putted"] /\ put[t] \in Fiber
      /\ m_fiber_list' = Append(m_fiber_list, put[t])
      /\ UNCHANGED <<m_state, armed, given, ft, put, back>>
  BY DEF Emplace, Goto, fiberVars, ghostVars, Shape
<1>2. pc \in [Thread -> Place] /\ m_fiber_list \in Seq(Fiber)
  BY DEF Shape
<1>3. pc'[t] = "putted" /\ OwnStep(t)
  BY <1>1, <1>2 DEF OwnStep
<1>4. \A f \in Fiber : InList(f) \/ f = put[t] => InList(f)'
  <2>1. /\ \A i \in DOMAIN m_fiber_list : i \in DOMAIN m_fiber_list'
                                          /\ m_fiber_list'[i] = m_fiber_list[i]
        /\ Len(m_fiber_list) + 1 \in DOMAIN m_fiber_list'
        /\ m_fiber_list'[Len(m_fiber_list) + 1] = put[t]
    BY <1>1, <1>2
  <2> QED BY <2>1 DEF InList
<1>5. \A u \in Thread \ {t} : SameRole(u)
  BY <1>3, OthersSame
<1>6. \A f \in Fiber : OnProcessor(t, f)' <=> OnProcessor(t, f)
  BY <1>1, <1>3 DEF OnProcessor
<1>7. \A f \in Fiber : Has(t, f) => InList(f)' \/ Has(t, f)'
  BY <1>1, <1>3, <1>4, <1>6 DEF Has
<1>8. OwnFiber(t)'
  <2>1. Executing(t)' => Executing(t)
    BY <1>1, <1>3 DEF Executing
  <2>2. OwnFiber(t)
    BY DEF CustodyInv
  <2>3. Executing(t) => (Shared(t, ft[t]) => Shared(t, ft[t])')
    BY <1>1, <1>5, OwnOn DEF Shared, SameRole
  <2> QED BY <1>1, <1>3, <2>1, <2>2, <2>3 DEF OwnFiber
<1>9. \A f \in Fiber : OnProcessor(t, f) => Placed(f)'
  BY <1>6 DEF Placed, Has
<1> QED BY <1>1, <1>4, <1>5, <1>7, <1>8, <1>9 DEF Move

\* The scan takes one entry out of the list.
LEMMA ScanMove ==
  ASSUME Shape, CustodyInv, ~Undefined, NEW t \in Thread, Scan(t)
  PROVE  Move(t)
<1>1. /\ pc[t] = "pick" /\ pc' = [pc EXCEPT ![t] = "picked"]
      /\ UNCHANGED <<m_state, armed, given, put, back>>
  BY DEF Scan, Goto, fiberVars, ghostVars
<1>2. pc \in [Thread -> Place] /\ m_fiber_list \in Seq(Fiber)
      /\ ft \in [Thread -> Fiber \cup {None}]
  BY DEF Shape
<1>3. pc'[t] = "picked" /\ OwnStep(t)
  BY <1>1, <1>2 DEF Scan, OwnStep
<1>4. \A f \in Fiber : InList(f) => InList(f)' \/ ft'[t] = f
  <2>1. CASE UNCHANGED m_fiber_list
    BY <2>1 DEF InList
  <2>2. ASSUME NEW i \in Takable(t), ft'[t] = m_fiber_list[i],
               m_fiber_list' = RemoveAt(m_fiber_list, i), NEW f \in Fiber, InList(f)
        PROVE  InList(f)' \/ ft'[t] = f
    <3>1. PICK k \in DOMAIN m_fiber_list : m_fiber_list[k] = f
      BY <2>2 DEF InList
    <3>2. i \in DOMAIN m_fiber_list /\ i \in Nat /\ k \in Nat
      BY <1>2 DEF Takable
    <3>3. k < i => k \in DOMAIN m_fiber_list' /\ m_fiber_list'[k] = f
      BY <1>2, <2>2, <3>1, <3>2, RemoveFacts
    <3>4. k > i => k - 1 \in DOMAIN m_fiber_list' /\ m_fiber_list'[k - 1] = f
      BY <1>2, <2>2, <3>1, <3>2, RemoveFacts
    <3>5. k = i \/ k < i \/ k > i
      BY <3>2
    <3> QED BY <2>2, <3>1, <3>3, <3>4, <3>5 DEF InList
  <2> QED BY <1>2, <2>1, <2>2 DEF Scan
<1>5. \A u \in Thread \ {t} : SameRole(u)
  BY <1>3, OthersSame
<1>6. \A f \in Fiber : ~OnProcessor(t, f) /\ ~OnProcessor(t, f)' /\ ~Has(t, f)
  BY <1>1, <1>3 DEF OnProcessor, Has
<1>7. OwnFiber(t)'
  BY <1>3 DEF OwnFiber, Executing
<1>8. \A f \in Fiber : InList(f) => InList(f)' \/ Has(t, f)'
  BY <1>3, <1>4 DEF Has
<1> QED BY <1>1, <1>5, <1>6, <1>7, <1>8 DEF Move

\* The fiber picked is swapped in, or dropped because it is over.
LEMMA PickedMove ==
  ASSUME Shape, CustodyInv, ~Undefined, NEW t \in Thread, Picked(t)
  PROVE  Move(t)
<1>1. /\ pc[t] = "picked" /\ pc \in [Thread -> Place]
      /\ UNCHANGED <<m_fiber_list, m_state, armed, given, ft, put, back>>
      /\ OwnStep(t)
      /\ IF ft[t] # None /\ m_state[ft[t]] \notin Over THEN pc'[t] = "swap" ELSE pc'[t] = "check"
  BY DEF Picked, Goto, fiberVars, localVars, ghostVars, Shape, OwnStep
<1>2. \A u \in Thread \ {t} : SameRole(u)
  BY <1>1, OthersSame
<1>3. \A f \in Fiber : ~OnProcessor(t, f) /\ ~OnProcessor(t, f)' /\ (InList(f) <=> InList(f)')
  BY <1>1 DEF OnProcessor, InList
<1>4. \A f \in Fiber : f # None
  BY PoolAssumption DEF PoolAssumption
<1>5. \A f \in Fiber : Has(t, f) /\ m_state[f] \notin Over => Has(t, f)'
  BY <1>1, <1>3, <1>4 DEF Has
<1>6. OwnFiber(t)'
  BY <1>1 DEF OwnFiber, Executing
<1> QED BY <1>1, <1>2, <1>3, <1>5, <1>6 DEF Move

\* swap_in moves the fiber of its own thread onto the processor.
LEMMA SwapInMove ==
  ASSUME Shape, CustodyInv, ~Undefined, NEW t \in Thread, SwapIn(t)
  PROVE  Move(t)
<1>1. /\ pc[t] = "swap" /\ pc \in [Thread -> Place] /\ ft[t] \in Fiber
      /\ m_state' = [m_state EXCEPT ![ft[t]] = "EXEC"] /\ m_state \in [Fiber -> FiberState]
      /\ UNCHANGED <<m_fiber_list, armed, given, ft, put, back>>
      /\ OwnStep(t) /\ pc'[t] = "fiber"
  BY DEF SwapIn, SetState, Goto, localVars, ghostVars, Shape, OwnStep
<1>2. \A u \in Thread \ {t} : SameRole(u)
  BY <1>1, OthersSame
<1>3. \A f \in Fiber : /\ ~OnProcessor(t, f) /\ (OnProcessor(t, f)' <=> f = ft[t])
                       /\ (InList(f) <=> InList(f)')
                       /\ (Has(t, f) => Has(t, f)')
  BY <1>1 DEF OnProcessor, InList, Has
<1>4. OwnFiber(t)'
  BY <1>1 DEF OwnFiber
<1>5. \A f \in Fiber : ~OnProcessor(t, f)' => m_state'[f] = m_state[f]
  BY <1>1, <1>3
<1> QED BY <1>1, <1>2, <1>3, <1>4, <1>5 DEF Move

\* schedule() is called, by the user or by the fiber on the processor.
LEMMA SpawnMove ==
  ASSUME Shape, CustodyInv, ~Undefined, NEW t \in Thread, NEW f \in Fiber,
         CallSchedule(t, "fiber", f, "fiber") \/ CallSchedule(t, "user", f, "user"),
         UNCHANGED <<m_fiber_list, m_state, armed, ft>>, given' = given \cup {f}
  PROVE  Move(t)
<1>1. /\ pc \in [Thread -> Place] /\ put \in [Thread -> Worker \cup Fiber \cup {None}]
      /\ back \in [Thread -> {"none", "user", "fiber", "pick", "yield"}]
  BY DEF Shape
<1>2. /\ OwnStep(t) /\ pc'[t] = "put" /\ put'[t] = f
      /\ \/ pc[t] = "fiber" /\ back'[t] = "fiber"
         \/ pc[t] = "user" /\ back'[t] = "user"
  BY <1>1 DEF CallSchedule, Goto, OwnStep
<1>3. \A u \in Thread \ {t} : SameRole(u)
  BY <1>2, OthersSame
<1>4. Has(t, f)'
  BY <1>2 DEF Has
<1>5. \A g \in Fiber : /\ OnProcessor(t, g)' <=> OnProcessor(t, g)
                       /\ InList(g)' <=> InList(g)
                       /\ Has(t, g) => Has(t, g)'
  BY <1>2 DEF OnProcessor, Has, InList
<1>6. OwnFiber(t)'
  <2>1. Executing(t)' => Executing(t)
    BY <1>2 DEF Executing
  <2>2. OwnFiber(t)
    BY DEF CustodyInv
  <2>3. Executing(t) => (Shared(t, ft[t]) => Shared(t, ft[t])')
    BY <1>3, OwnOn DEF Shared, SameRole
  <2> QED BY <1>2, <2>1, <2>2, <2>3 DEF OwnFiber
<1>7. \A g \in Fiber : OnProcessor(t, g) => Placed(g)'
  BY <1>5 DEF Placed, Has
<1> QED BY <1>2, <1>3, <1>4, <1>5, <1>6, <1>7 DEF Move

\* The fiber on the processor arms an event, and gets off.
LEMMA ArmMove ==
  ASSUME Shape, CustodyInv, ~Undefined, NEW t \in Thread, Arm(t)
  PROVE  Move(t)
<1>1. /\ pc[t] = "fiber" /\ pc \in [Thread -> Place] /\ ft[t] \in Fiber
      /\ UNCHANGED <<m_fiber_list, m_state, given, ft, put, back>>
      /\ OwnStep(t) /\ pc'[t] = "armed" /\ armed' = armed \cup {ft[t]}
  BY DEF Arm, Goto, localVars, Shape, OwnStep
<1>2. \A u \in Thread \ {t} : SameRole(u)
  BY <1>1, OthersSame
<1>3. \A f \in Fiber : /\ OnProcessor(t, f)' <=> OnProcessor(t, f)
                       /\ InList(f)' <=> InList(f)
                       /\ Has(t, f) => Has(t, f)'
  BY <1>1 DEF OnProcessor, Has, InList
<1>4. OwnFiber(t)'
  <2>1. m_state[ft[t]] = "EXEC" \/ Shared(t, ft[t])
    BY <1>1 DEF CustodyInv, OwnFiber, Executing
  <2>2. Shared(t, ft[t]) => Shared(t, ft[t])'
    BY <1>1, <1>2 DEF Shared, SameRole
  <2>3. Elsewhere(t, ft[t])'
    BY <1>1 DEF Elsewhere
  <2> QED BY <1>1, <2>1, <2>2, <2>3 DEF OwnFiber
<1>5. \A f \in Fiber : OnProcessor(t, f) => Placed(f)'
  BY <1>3 DEF Placed, Has
<1> QED BY <1>1, <1>2, <1>3, <1>4, <1>5 DEF Move

\* A yield and the end of a fiber leave it in the hands of the thread that ran it.
LEMMA LeaveMove ==
  ASSUME Shape, CustodyInv, ~Undefined, NEW t \in Thread,
         YieldToHold(t) \/ YieldToReady(t) \/ Finish(t)
  PROVE  Move(t)
<1>1. /\ pc[t] \in {"fiber", "armed"} /\ pc \in [Thread -> Place] /\ ft[t] \in Fiber
      /\ UNCHANGED <<m_fiber_list, armed, given, ft, put, back>>
      /\ OwnStep(t) /\ pc'[t] = "leaving"
      /\ \A f \in Fiber \ {ft[t]} : m_state'[f] = m_state[f]
      /\ m_state'[ft[t]] \in Over \cup {"READY"} \/ (m_state'[ft[t]] = "HOLD" /\ pc[t] = "armed")
  BY DEF YieldToHold, YieldToReady, Finish, SetState, Goto, localVars, ghostVars, Shape, OwnStep
<1>2. \A u \in Thread \ {t} : SameRole(u)
  BY <1>1, OthersSame
<1>3. \A f \in Fiber : /\ OnProcessor(t, f)' <=> OnProcessor(t, f)
                       /\ OnProcessor(t, f) <=> f = ft[t]
                       /\ InList(f)' <=> InList(f)
                       /\ Has(t, f) => Has(t, f)'
  BY <1>1 DEF OnProcessor, Has, InList
<1>4. OwnFiber(t)'
  <2>1. pc[t] = "armed" => Elsewhere(t, ft[t])
    BY <1>1 DEF CustodyInv, OwnFiber
  <2>2. Elsewhere(t, ft[t]) => Elsewhere(t, ft[t])'
    BY <1>1, <1>2, <1>3 DEF Elsewhere, HasOther, SameRole
  <2> QED BY <1>1, <2>1, <2>2 DEF OwnFiber, Executing
<1>5. \A f \in Fiber : OnProcessor(t, f) => Placed(f)'
  BY <1>3 DEF Placed, Has
<1> QED BY <1>1, <1>2, <1>3, <1>4, <1>5 DEF Move

\* swapcontext: whoever has the fiber now, its last worker does not.
LEMMA SwapOutMove ==
  ASSUME Shape, CustodyInv, ~Undefined, NEW t \in Thread, SwapOut(t)
  PROVE  Move(t)
<1>1. /\ pc[t] = "leaving" /\ pc \in [Thread -> Place] /\ ft[t] \in Fiber
      /\ UNCHANGED <<m_fiber_list, m_state, armed, given, ft, put, back>>
      /\ OwnStep(t) /\ pc'[t] = "back"
  BY DEF SwapOut, Goto, fiberVars, localVars, ghostVars, Shape, OwnStep
<1>2. \A u \in Thread \ {t} : SameRole(u)
  BY <1>1, OthersSame
<1>3. \A f \in Fiber : /\ ~OnProcessor(t, f)' /\ (OnProcessor(t, f) <=> f = ft[t])
                       /\ InList(f)' <=> InList(f)
                       /\ Has(t, f) => f = ft[t]
  BY <1>1 DEF OnProcessor, Has, InList
<1>4. OwnFiber(t)'
  BY <1>1 DEF OwnFiber, Executing
<1>5. Placed(ft[t])'
  <2>1. ~Shared(t, ft[t])
    <3>1. \A u \in Thread : OnProcessor(u, ft[t]) => u = t
      BY <1>1, <1>3, Alone
    <3> QED BY <3>1 DEF Shared
  <2>2. \/ m_state[ft[t]] \in Over \cup {"READY"}
        \/ m_state[ft[t]] = "HOLD" /\ Elsewhere(t, ft[t])
    BY <1>1, <2>1 DEF CustodyInv, OwnFiber
  <2>3. Elsewhere(t, ft[t]) => Placed(ft[t])'
    BY <1>1, <1>2, <1>3 DEF Elsewhere, HasOther, SameRole, Placed
  <2>4. m_state[ft[t]] \in Over \cup {"READY"} => Placed(ft[t])'
    BY <1>1 DEF Placed
  <2> QED BY <2>2, <2>3, <2>4
<1>6. \A f \in Fiber : OnProcessor(t, f) => Placed(f)'
  BY <1>1, <1>3, <1>5
<1> QED BY <1>1, <1>2, <1>3, <1>4, <1>6 DEF Move

\* Back in run(): a READY fiber goes to schedule().
LEMMA BackMove ==
  ASSUME Shape, CustodyInv, ~Undefined, NEW t \in Thread, Back(t)
  PROVE  Move(t)
<1>1. /\ pc \in [Thread -> Place] /\ put \in [Thread -> Worker \cup Fiber \cup {None}]
      /\ back \in [Thread -> {"none", "user", "fiber", "pick", "yield"}]
      /\ ft \in [Thread -> Fiber \cup {None}]
  BY DEF Shape
<1>2. /\ pc[t] = "back" /\ OwnStep(t)
      /\ UNCHANGED <<m_fiber_list, m_state, armed, given>>
      /\ IF m_state[ft[t]] = "READY"
         THEN pc'[t] = "put" /\ put'[t] = ft[t] /\ back'[t] = "pick"
         ELSE pc'[t] = "pick"
  <2>1. CASE m_state[ft[t]] = "READY"
    BY <1>1, <2>1 DEF Back, ReadyAgain, CallSchedule, Goto, OwnStep, fiberVars
  <2>2. CASE m_state[ft[t]] # "READY"
    BY <1>1, <2>2 DEF Back, ReadyAgain, Goto, OwnStep, fiberVars
  <2> QED BY <2>1, <2>2
<1>3. \A u \in Thread \ {t} : SameRole(u)
  BY <1>2, OthersSame
<1>4. \A f \in Fiber : /\ ~OnProcessor(t, f)' /\ ~OnProcessor(t, f) /\ ~Has(t, f)
                       /\ InList(f)' <=> InList(f)
  BY <1>2 DEF OnProcessor, Has, InList
<1>5. OwnFiber(t)'
  BY <1>2 DEF OwnFiber, Executing
<1>6. \A f \in Fiber : ft[t] = f /\ m_state[f] = "READY" => Placed(f)'
  BY <1>2 DEF Placed, Has
<1> QED BY <1>2, <1>3, <1>4, <1>5, <1>6 DEF Move

\* An armed fiber's event: it goes to schedule().
LEMMA DispatchMove ==
  ASSUME Shape, CustodyInv, ~Undefined, NEW t \in Thread, NEW f \in Fiber, Dispatch(t, f)
  PROVE  Move(t)
<1>1. /\ pc \in [Thread -> Place] /\ put \in [Thread -> Worker \cup Fiber \cup {None}]
      /\ back \in [Thread -> {"none", "user", "fiber", "pick", "yield"}]
  BY DEF Shape
<1>2. /\ pc[t] = "wait" /\ OwnStep(t) /\ pc'[t] = "put" /\ put'[t] = f /\ back'[t] = "yield"
      /\ armed' = armed \ {f}
      /\ UNCHANGED <<m_fiber_list, m_state, given>>
  BY <1>1 DEF Dispatch, CallSchedule, Goto, OwnStep, ghostVars
<1>3. \A u \in Thread \ {t} : SameRole(u)
  BY <1>2, OthersSame
<1>4. \A g \in Fiber : /\ ~OnProcessor(t, g)' /\ ~OnProcessor(t, g) /\ ~Has(t, g)
                       /\ InList(g)' <=> InList(g)
  BY <1>2 DEF OnProcessor, Has, InList
<1>5. OwnFiber(t)'
  BY <1>2 DEF OwnFiber, Executing
<1>6. Has(t, f)'
  BY <1>2 DEF Has
<1>7. \A g \in Fiber : g \in armed => g \in armed' \/ Has(t, g)'
  BY <1>2, <1>6
<1> QED BY <1>2, <1>3, <1>4, <1>5, <1>7 DEF Move

\* Every step is a move of some thread.
LEMMA NextMove ==
  ASSUME Shape, CustodyInv, Next
  PROVE  \E t \in Thread : Move(t)
<1>0. ~Undefined /\ Main \in Thread
  BY DEF Next, Thread
<1>1. CASE (\E w \in Worker : Create(w) \/ SetId(w) \/ Notify(w)) \/ Created \/ Stop \/ Join
  BY <1>0, <1>1, QuietMoves
<1>2. ASSUME NEW f \in Fiber, Give(f) PROVE Move(Main)
  BY <1>0, <1>2, SpawnMove DEF Give, fiberVars
<1>3. ASSUME NEW t \in Thread, Run(t) PROVE \E u \in Thread : Move(u)
  <2>1. CASE \/ StepLock(t) \/ StepUnlock(t) \/ Scheduled(t) \/ Return(t)
             \/ Check(t) \/ Sign(t) \/ Idle(t) \/ Wake(t) \/ Yield(t) \/ End(t) \/ Exit(t)
    BY <1>0, <2>1, QuietMoves
  <2>2. CASE Emplace(t) \/ Scan(t) \/ Picked(t) \/ SwapIn(t)
    BY <1>0, <2>2, EmplaceMove, ScanMove, PickedMove, SwapInMove
  <2>3. CASE Arm(t) \/ YieldToHold(t) \/ YieldToReady(t) \/ Finish(t)
    BY <1>0, <2>3, ArmMove, LeaveMove
  <2>4. CASE SwapOut(t) \/ Back(t)
    BY <1>0, <2>4, SwapOutMove, BackMove
  <2>5. ASSUME NEW f \in Fiber, Spawn(t, f) PROVE Move(t)
    BY <1>0, <2>5, SpawnMove DEF Spawn, fiberVars
  <2>6. ASSUME NEW f \in Fiber, Dispatch(t, f) PROVE Move(t)
    BY <1>0, <2>6, DispatchMove
  <2> QED BY <1>3, <2>1, <2>2, <2>3, <2>4, <2>5, <2>6 DEF Run
<1> QED BY <1>0, <1>1, <1>2, <1>3 DEF Next

\* At first no thread has a fiber.
LEMMA CustodyInit == Init => CustodyInv
  BY DEF Init, CustodyInv, OwnFiber, Executing

\* Custody is kept by every step up to the first undefined state.
LEMMA CustodyStep == Shape /\ CustodyInv /\ [Next]_vars => CustodyInv'
<1> SUFFICES ASSUME Shape, CustodyInv, [Next]_vars PROVE CustodyInv'
  OBVIOUS
<1>1. CASE Next
  <2>1. ~Undefined /\ Shape'
    BY <1>1, ShapeStep DEF Next
  <2>2. PICK t \in Thread : Move(t)
    BY <1>1, NextMove
  <2> QED BY <2>1, <2>2, MoveKeeps
<1>2. CASE UNCHANGED vars
  BY <1>2 DEF vars, fiberVars, localVars, ghostVars, CustodyInv, OwnFiber, Executing, Placed,
              Elsewhere, Shared, HasOther, Has, OnProcessor, InList
<1> QED BY <1>1, <1>2

\* No scheduled fiber is lost between the list, the workers and the events it
\* waits for, at any point of schedule(), run() and idle(): however the worker
\* that resumes it and the one that last had it overtake each other.
THEOREM NobodyLost == Spec => []NothingLost
<1>1. CustodyInv => NothingLost
  BY DEF CustodyInv, Placed, NothingLost, InList, ToSet
<1> QED BY <1>1, ShapeInit, ShapeStep, CustodyInit, CustodyStep, PTL DEF Spec

-----------------------------------------------------------------------------
\* No fiber is scheduled twice, but for those run() reschedules when they are
\* no longer the worker's.

\* t is about to append f to the list, or has taken it out to run it.
Holds(t, f) == (put[t] = f /\ pc[t] = "put") \/ (ft[t] = f /\ pc[t] \in {"picked", "swap"})

\* t executes its fiber, which has no event armed yet.
Running(t) == pc[t] = "fiber" \/ (pc[t] \in {"put", "putted", "scoped"} /\ back[t] = "fiber")

ListOne(f) ==
  \A i, j \in DOMAIN m_fiber_list : m_fiber_list[i] = f /\ m_fiber_list[j] = f => i = j

Nowhere(f) == ~InList(f) /\ f \notin armed /\ \A t \in Thread : ~Holds(t, f)

\* f is in the list once, armed, held by one thread, or none of these; it is
\* none while a thread executes it.
OnceAt(f) ==
  /\ ListOne(f)
  /\ InList(f) => f \notin armed
  /\ InList(f) \/ f \in armed => \A t \in Thread : ~Holds(t, f)
  /\ \A t, u \in Thread : Holds(t, f) /\ Holds(u, f) => t = u
  /\ m_state[f] = "READY" => f \notin armed
  /\ \A t \in Thread : ft[t] = f /\ pc[t] \in {"picked", "swap"} => m_state[f] # "EXEC"
  /\ \A t \in Thread : ft[t] = f /\ Running(t) => Nowhere(f)

OnceInv ==
  /\ \A f \in Fiber \ given : Nowhere(f) /\ \A t \in Thread : ~OnProcessor(t, f)
  /\ \A f \in Fiber \ doubled : OnceAt(f)

\* A fiber a worker gets back was scheduled.
BackGiven == \A t \in Thread : pc[t] = "back" => ft[t] \in given

\* What the steps of one thread leave of the others.
SameHold(u) ==
  /\ ft'[u] = ft[u]
  /\ \A f \in Fiber : (Holds(u, f)' <=> Holds(u, f)) /\ (OnProcessor(u, f)' <=> OnProcessor(u, f))
  /\ pc'[u] \in {"picked", "swap"} <=> pc[u] \in {"picked", "swap"}
  /\ Running(u)' => Running(u)

\* A step of one thread leaves what the others hold.
LEMMA OthersHold ==
  ASSUME NEW t \in Thread, OwnStep(t), NEW u \in Thread \ {t}
  PROVE  SameHold(u)
  BY DEF OwnStep, SameHold, Holds, OnProcessor, Running

\* Steps in which nothing moves.
LEMMA NoMoveOnce ==
  ASSUME Shape, OnceInv, \A u \in Thread : SameHold(u),
         UNCHANGED <<m_fiber_list, m_state, armed, given, doubled>>
  PROVE  OnceInv'
<1>1. ASSUME NEW f \in Fiber
      PROVE  /\ InList(f)' <=> InList(f)
             /\ ListOne(f)' <=> ListOne(f)
             /\ Nowhere(f)' <=> Nowhere(f)
  BY DEF InList, ListOne, Nowhere, SameHold
<1>2. ASSUME NEW f \in Fiber, OnceAt(f) PROVE OnceAt(f)'
  BY <1>1, <1>2 DEF OnceAt, SameHold
<1>3. ASSUME NEW f \in Fiber \ given
      PROVE  Nowhere(f)' /\ \A t \in Thread : ~OnProcessor(t, f)'
  BY <1>1, <1>3 DEF OnceInv, SameHold
<1> QED BY <1>2, <1>3 DEF OnceInv

\* The lock, the start of threads, stopping and idling move no fiber.
LEMMA QuietHolds ==
  ASSUME Shape,
         \/ \E w \in Worker : Create(w) \/ SetId(w) \/ Notify(w)
         \/ Created \/ Stop \/ Join
         \/ \E t \in Thread :
              \/ StepLock(t) \/ StepUnlock(t) \/ Scheduled(t) \/ Return(t)
              \/ Check(t) \/ Sign(t) \/ Idle(t) \/ Wake(t) \/ Yield(t) \/ End(t) \/ Exit(t)
  PROVE  /\ \A u \in Thread : SameHold(u)
         /\ UNCHANGED <<m_fiber_list, m_state, armed, given, doubled>>
<1>0. Main \in Thread /\ pc \in [Thread -> Place] /\ \A w \in Worker : w \in Thread /\ w # Main
  BY PoolAssumption DEF PoolAssumption, Thread, Shape
<1>1. put \in [Thread -> Worker \cup Fiber \cup {None}]
  BY DEF Shape
<1> DEFINE Bare == {"picked", "swap", "fiber", "armed", "leaving", "back", "put", "putted", "scoped"}
           Rule(u) == /\ ft'[u] = ft[u] /\ back'[u] = back[u]
                      /\ \/ pc'[u] = pc[u] /\ put'[u] = put[u]
                         \/ {pc[u], pc'[u]} \cap Bare = {}
                         \/ pc[u] = "putted" /\ pc'[u] = "scoped"
                         \/ pc[u] = "scoped" /\ pc'[u] = back[u]
<1>2. (\A u \in Thread : Rule(u)) /\ UNCHANGED <<m_fiber_list, m_state, armed, given, doubled>>
  <2> USE DEF Goto, fiberVars, localVars, ghostVars
  <2>1. CASE \E w \in Worker : Create(w) \/ SetId(w) \/ Notify(w)
    BY <1>0, <1>1, <2>1 DEF Create, SetId, Notify
  <2>2. CASE Created \/ Stop \/ Join
    BY <1>0, <1>1, <2>2 DEF Created, Stop, Join
  <2>3. CASE \E t \in Thread : StepLock(t) \/ StepUnlock(t)
    BY <2>3 DEF StepLock, StepUnlock
  <2>4. CASE \E t \in Thread : Scheduled(t) \/ Return(t)
    BY <1>0, <1>1, <2>4 DEF Scheduled, Return
  <2>5. CASE \E t \in Thread : Check(t) \/ Sign(t) \/ Idle(t)
    BY <1>0, <2>5 DEF Check, Sign, Idle
  <2>6. CASE \E t \in Thread : Wake(t) \/ Yield(t) \/ End(t) \/ Exit(t)
    BY <1>0, <2>6 DEF Wake, Yield, End, Exit
  <2> QED BY <2>1, <2>2, <2>3, <2>4, <2>5, <2>6
<1>3. ASSUME NEW u \in Thread PROVE SameHold(u)
  <2>1. Rule(u)
    BY <1>2
  <2>2. CASE {pc[u], pc'[u]} \cap Bare = {}
    BY <2>1, <2>2 DEF SameHold, Holds, OnProcessor, Running
  <2>3. CASE pc[u] = "scoped" /\ pc'[u] = back[u]
    <3>1. back[u] \in {"user", "fiber", "pick", "yield"}
      BY <2>3 DEF Shape
    <3> QED BY <2>1, <2>3, <3>1 DEF SameHold, Holds, OnProcessor, Running
  <2>4. CASE pc'[u] = pc[u] /\ put'[u] = put[u]
    BY <2>1, <2>4 DEF SameHold, Holds, OnProcessor, Running
  <2>5. CASE pc[u] = "putted" /\ pc'[u] = "scoped"
    BY <2>1, <2>5 DEF SameHold, Holds, OnProcessor, Running
  <2> QED BY <2>1, <2>2, <2>3, <2>4, <2>5
<1> QED BY <1>2, <1>3

\* So they keep every fiber in its one place.
LEMMA QuietOnce ==
  ASSUME Shape, OnceInv,
         \/ \E w \in Worker : Create(w) \/ SetId(w) \/ Notify(w)
         \/ Created \/ Stop \/ Join
         \/ \E t \in Thread :
              \/ StepLock(t) \/ StepUnlock(t) \/ Scheduled(t) \/ Return(t)
              \/ Check(t) \/ Sign(t) \/ Idle(t) \/ Wake(t) \/ Yield(t) \/ End(t) \/ Exit(t)
  PROVE  OnceInv'
<1> QED BY QuietHolds, NoMoveOnce

-----------------------------------------------------------------------------
\* schedule() puts a fiber from its thread's hands into the list.
LEMMA EmplaceOnce ==
  ASSUME Shape, OnceInv, NEW t \in Thread, Emplace(t)
  PROVE  OnceInv'
<1>1. /\ pc[t] = "put" /\ pc' = [pc EXCEPT ![t] = "putted"] /\ put[t] \in Fiber
      /\ m_fiber_list' = Append(m_fiber_list, put[t])
      /\ UNCHANGED <<m_state, armed, given, doubled, ft, put, back>>
      /\ pc \in [Thread -> Place] /\ m_fiber_list \in Seq(Fiber)
  BY DEF Emplace, Goto, fiberVars, ghostVars, Shape
<1>2. pc'[t] = "putted" /\ \A u \in Thread \ {t} : SameHold(u)
  BY <1>1, OthersHold DEF OwnStep
<1>3. /\ \A f \in Fiber : ~Holds(t, f)' /\ (Holds(t, f) <=> f = put[t])
      /\ \A f \in Fiber : OnProcessor(t, f)' <=> OnProcessor(t, f)
      /\ Running(t)' => Running(t)
  BY <1>1, <1>2 DEF Holds, Running, OnProcessor
<1>4. /\ DOMAIN m_fiber_list' = DOMAIN m_fiber_list \cup {Len(m_fiber_list) + 1}
      /\ Len(m_fiber_list) + 1 \notin DOMAIN m_fiber_list
      /\ \A i \in DOMAIN m_fiber_list : m_fiber_list'[i] = m_fiber_list[i]
      /\ m_fiber_list'[Len(m_fiber_list) + 1] = put[t]
  BY <1>1
<1>5. \A f \in Fiber : InList(f)' <=> InList(f) \/ f = put[t]
  BY <1>4 DEF InList
<1>6. \A f \in Fiber : ListOne(f) /\ ~(InList(f) /\ f = put[t]) => ListOne(f)'
  BY <1>4 DEF ListOne, InList
<1>7. \A f \in Fiber \ given : Nowhere(f)' /\ \A u \in Thread : ~OnProcessor(u, f)'
  BY <1>1, <1>2, <1>3, <1>5 DEF OnceInv, Nowhere, SameHold
<1>8. ASSUME NEW f \in Fiber, OnceAt(f) PROVE OnceAt(f)'
  <2>1. CASE f = put[t]
    <3>1. ~InList(f) /\ f \notin armed /\ \A u \in Thread \ {t} : ~Holds(u, f)
      BY <1>3, <1>8, <2>1 DEF OnceAt
    <3>2. \A u \in Thread : ~Holds(u, f)'
      BY <1>2, <1>3, <3>1 DEF SameHold
    <3>3. \A u \in Thread : ~(ft[u] = f /\ Running(u))
      BY <1>3, <1>8, <2>1 DEF OnceAt, Nowhere
    <3>4. \A u \in Thread : ~(ft'[u] = f /\ Running(u)')
      BY <1>1, <1>2, <1>3, <3>3 DEF SameHold
    <3>5. \A u \in Thread : ft'[u] = f /\ pc'[u] \in {"picked", "swap"} => FALSE
      BY <3>2 DEF Holds
    <3> QED BY <1>1, <1>6, <1>8, <3>1, <3>2, <3>4, <3>5 DEF OnceAt
  <2>2. CASE f # put[t]
    <3>1. (InList(f)' <=> InList(f)) /\ \A u \in Thread : Holds(u, f)' <=> Holds(u, f)
      BY <1>2, <1>3, <1>5, <2>2 DEF SameHold
    <3>2. Nowhere(f)' <=> Nowhere(f)
      BY <1>1, <3>1 DEF Nowhere
    <3>3. \A u \in Thread : Running(u)' => Running(u)
      BY <1>2, <1>3 DEF SameHold
    <3>4. \A u \in Thread : pc'[u] \in {"picked", "swap"} => pc[u] \in {"picked", "swap"}
      BY <1>2 DEF SameHold
    <3> QED BY <1>1, <1>6, <1>8, <2>2, <3>1, <3>2, <3>3, <3>4 DEF OnceAt
  <2> QED BY <2>1, <2>2
<1> QED BY <1>1, <1>7, <1>8 DEF OnceInv

\* run() takes at most one entry from the list into its hands.
LEMMA ScanOnce ==
  ASSUME Shape, OnceInv, NEW t \in Thread, Scan(t)
  PROVE  OnceInv'
<1>1. /\ pc[t] = "pick" /\ pc' = [pc EXCEPT ![t] = "picked"]
      /\ UNCHANGED <<m_state, armed, given, doubled, put, back>>
      /\ pc \in [Thread -> Place] /\ m_fiber_list \in Seq(Fiber)
      /\ ft \in [Thread -> Fiber \cup {None}]
  BY DEF Scan, Goto, fiberVars, ghostVars, Shape
<1>2. pc'[t] = "picked" /\ \A u \in Thread \ {t} : SameHold(u)
  BY <1>1, OthersHold DEF Scan, OwnStep
<1>3. /\ \A f \in Fiber : ~Holds(t, f) /\ (Holds(t, f)' <=> ft'[t] = f)
      /\ \A f \in Fiber : ~OnProcessor(t, f)' /\ ~OnProcessor(t, f)
      /\ ~Running(t)'
  BY <1>1, <1>2 DEF Holds, Running, OnProcessor
<1>4. ASSUME NEW f \in Fiber
      PROVE  /\ InList(f)' => InList(f)
             /\ ListOne(f) => ListOne(f)'
             /\ ft'[t] = f => InList(f) /\ m_state[f] # "EXEC" /\ (ListOne(f) => ~InList(f)')
  <2>1. CASE ft' = [ft EXCEPT ![t] = None] /\ UNCHANGED m_fiber_list
    <3>1. ft'[t] = None /\ None \notin Fiber
      BY <1>1, <2>1, PoolAssumption DEF PoolAssumption
    <3> QED BY <2>1, <3>1 DEF InList, ListOne
  <2>2. ASSUME NEW i \in Takable(t), ft'[t] = m_fiber_list[i],
               m_fiber_list' = RemoveAt(m_fiber_list, i)
        PROVE  /\ InList(f)' => InList(f)
               /\ ListOne(f) => ListOne(f)'
               /\ ft'[t] = f => InList(f) /\ m_state[f] # "EXEC" /\ (ListOne(f) => ~InList(f)')
    <3> DEFINE from(j) == IF j < i THEN j ELSE j + 1
    <3>1. i \in DOMAIN m_fiber_list /\ i \in Nat /\ m_state[m_fiber_list[i]] # "EXEC"
      BY <1>1 DEF Takable
    <3>2. \A j \in DOMAIN m_fiber_list' :
            /\ j \in Nat /\ from(j) \in DOMAIN m_fiber_list
            /\ m_fiber_list'[j] = m_fiber_list[from(j)]
      BY <1>1, <2>2, <3>1, RemoveFacts
    <3>3. \A j, k \in Nat : from(j) # i /\ (from(j) = from(k) => j = k)
      BY <3>1
    <3> HIDE DEF from
    <3>4. InList(f)' => InList(f)
      BY <3>2 DEF InList
    <3>5. ListOne(f) => ListOne(f)'
      <4> SUFFICES ASSUME ListOne(f), NEW j \in DOMAIN m_fiber_list',
                          NEW k \in DOMAIN m_fiber_list',
                          m_fiber_list'[j] = f, m_fiber_list'[k] = f
                   PROVE  j = k
        BY DEF ListOne
      <4>1. from(j) = from(k)
        BY <3>2 DEF ListOne
      <4> QED BY <3>2, <3>3, <4>1
    <3>6. ASSUME ft'[t] = f, ListOne(f), InList(f)' PROVE FALSE
      <4>1. PICK j \in DOMAIN m_fiber_list' : m_fiber_list'[j] = f
        BY <3>6 DEF InList
      <4>2. from(j) = i
        BY <2>2, <3>1, <3>2, <3>6, <4>1 DEF ListOne
      <4> QED BY <3>2, <3>3, <4>2
    <3>7. ft'[t] = f => InList(f) /\ m_state[f] # "EXEC"
      BY <2>2, <3>1 DEF InList
    <3> QED BY <3>4, <3>5, <3>6, <3>7
  <2>3. \/ ft' = [ft EXCEPT ![t] = None] /\ UNCHANGED m_fiber_list
        \/ \E i \in Takable(t) :
             ft'[t] = m_fiber_list[i] /\ m_fiber_list' = RemoveAt(m_fiber_list, i)
    BY <1>1 DEF Scan
  <2> QED BY <2>1, <2>2, <2>3
<1>5. \A f \in Fiber \ given : Nowhere(f)' /\ \A u \in Thread : ~OnProcessor(u, f)'
  BY <1>1, <1>2, <1>3, <1>4 DEF OnceInv, Nowhere, SameHold
<1>6. ASSUME NEW f \in Fiber, OnceAt(f) PROVE OnceAt(f)'
  <2>0. ListOne(f)' /\ (InList(f)' => InList(f))
    BY <1>4, <1>6 DEF OnceAt
  <2>1. CASE ft'[t] = f
    <3>1. /\ InList(f) /\ ~InList(f)' /\ f \notin armed /\ m_state[f] # "EXEC"
          /\ \A u \in Thread : ~Holds(u, f)
      BY <1>4, <1>6, <2>1 DEF OnceAt
    <3>2. \A u \in Thread : Holds(u, f)' => u = t
      BY <1>2, <3>1 DEF SameHold
    <3>3. \A u \in Thread : ~(ft[u] = f /\ Running(u))
      BY <1>6, <3>1 DEF OnceAt, Nowhere
    <3>4. \A u \in Thread : ~(ft'[u] = f /\ Running(u)')
      BY <1>2, <1>3, <3>3 DEF SameHold
    <3> QED BY <1>1, <2>0, <3>1, <3>2, <3>4 DEF OnceAt
  <2>2. CASE ft'[t] # f
    <3>1. \A u \in Thread : Holds(u, f)' <=> Holds(u, f)
      BY <1>2, <1>3, <2>2 DEF SameHold
    <3>2. Nowhere(f) => Nowhere(f)'
      BY <1>1, <2>0, <3>1 DEF Nowhere
    <3>3. \A u \in Thread : ft'[u] = f /\ Running(u)' => ft[u] = f /\ Running(u)
      BY <1>2, <2>2 DEF SameHold
    <3>4. \A u \in Thread : ft'[u] = f /\ pc'[u] \in {"picked", "swap"}
                              => ft[u] = f /\ pc[u] \in {"picked", "swap"}
      BY <1>2, <2>2 DEF SameHold
    <3> QED BY <1>1, <1>6, <2>0, <3>1, <3>2, <3>3, <3>4 DEF OnceAt
  <2> QED BY <2>1, <2>2
<1> QED BY <1>1, <1>5, <1>6 DEF OnceInv

\* Leaving the critical section keeps what was taken from the list.
LEMMA PickedOnce ==
  ASSUME Shape, OnceInv, NEW t \in Thread, Picked(t)
  PROVE  OnceInv'
<1>1. /\ pc[t] = "picked" /\ pc'[t] \in {"swap", "check"}
      /\ UNCHANGED <<m_fiber_list, m_state, armed, given, doubled, ft>>
      /\ OwnStep(t)
  BY DEF Picked, Goto, fiberVars, localVars, ghostVars, Shape, OwnStep
<1>2. \A u \in Thread \ {t} : SameHold(u)
  BY <1>1, OthersHold
<1>3. /\ \A f \in Fiber : Holds(t, f)' => Holds(t, f)
      /\ \A f \in Fiber : ~OnProcessor(t, f)'
      /\ ~Running(t)'
  BY <1>1 DEF Holds, Running, OnProcessor
<1>4. ASSUME NEW f \in Fiber
      PROVE  /\ InList(f)' <=> InList(f)
             /\ ListOne(f)' <=> ListOne(f)
             /\ Nowhere(f) => Nowhere(f)'
  BY <1>1, <1>2, <1>3 DEF InList, ListOne, Nowhere, SameHold
<1>5. \A f \in Fiber \ given : Nowhere(f)' /\ \A u \in Thread : ~OnProcessor(u, f)'
  BY <1>2, <1>3, <1>4 DEF OnceInv, SameHold
<1>6. ASSUME NEW f \in Fiber, OnceAt(f) PROVE OnceAt(f)'
  <2>1. \A u \in Thread : /\ Holds(u, f)' => Holds(u, f)
                          /\ Running(u)' => Running(u)
                          /\ pc'[u] \in {"picked", "swap"} => pc[u] \in {"picked", "swap"}
    BY <1>1, <1>2, <1>3 DEF SameHold
  <2> QED BY <1>1, <1>4, <1>6, <2>1 DEF OnceAt
<1> QED BY <1>1, <1>5, <1>6 DEF OnceInv

\* swap_in keeps its fiber: it was ready and now executes.
LEMMA SwapInOnce ==
  ASSUME Shape, OnceInv, NEW t \in Thread, SwapIn(t)
  PROVE  OnceInv'
<1>1. /\ pc[t] = "swap" /\ ft[t] \in Fiber /\ pc'[t] = "fiber"
      /\ m_state' = [m_state EXCEPT ![ft[t]] = "EXEC"] /\ m_state \in [Fiber -> FiberState]
      /\ UNCHANGED <<m_fiber_list, armed, given, doubled, ft>>
      /\ OwnStep(t)
  BY DEF SwapIn, SetState, Goto, localVars, ghostVars, Shape, OwnStep
<1>2. \A u \in Thread \ {t} : SameHold(u)
  BY <1>1, OthersHold
<1>3. /\ \A f \in Fiber : ~Holds(t, f)' /\ (Holds(t, f) <=> f = ft[t])
      /\ \A f \in Fiber : OnProcessor(t, f)' <=> f = ft[t]
  BY <1>1 DEF Holds, OnProcessor
<1>4. ASSUME NEW f \in Fiber
      PROVE  /\ InList(f)' <=> InList(f)
             /\ ListOne(f)' <=> ListOne(f)
             /\ Nowhere(f) => Nowhere(f)'
  BY <1>1, <1>2, <1>3 DEF InList, ListOne, Nowhere, SameHold
<1>5. \A f \in Fiber \ given : Nowhere(f)' /\ \A u \in Thread : ~OnProcessor(u, f)'
  <2> SUFFICES ASSUME NEW f \in Fiber \ given
               PROVE  Nowhere(f)' /\ \A u \in Thread : ~OnProcessor(u, f)'
    OBVIOUS
  <2>1. Nowhere(f) /\ f # ft[t]
    BY <1>3 DEF OnceInv, Nowhere
  <2> QED BY <1>2, <1>3, <1>4, <2>1 DEF OnceInv, SameHold
<1>6. ASSUME NEW f \in Fiber, OnceAt(f) PROVE OnceAt(f)'
  <2>1. CASE f = ft[t]
    <3>1. ~InList(f) /\ f \notin armed /\ \A u \in Thread \ {t} : ~Holds(u, f)
      BY <1>3, <1>6, <2>1 DEF OnceAt
    <3>2. Nowhere(f)'
      BY <1>1, <1>2, <1>3, <1>4, <3>1 DEF Nowhere, SameHold
    <3>3. \A u \in Thread : ft'[u] = f /\ pc'[u] \in {"picked", "swap"} => FALSE
      BY <3>2 DEF Nowhere, Holds
    <3> QED BY <1>4, <1>6, <3>2, <3>3 DEF OnceAt, Nowhere
  <2>2. CASE f # ft[t]
    <3>1. \A u \in Thread : Holds(u, f)' <=> Holds(u, f)
      BY <1>2, <1>3, <2>2 DEF SameHold
    <3>2. \A u \in Thread : ft'[u] = f /\ Running(u)' => ft[u] = f /\ Running(u)
      BY <1>1, <1>2, <2>2 DEF SameHold
    <3>3. \A u \in Thread : ft'[u] = f /\ pc'[u] \in {"picked", "swap"}
                              => ft[u] = f /\ pc[u] \in {"picked", "swap"}
      BY <1>1, <1>2 DEF SameHold
    <3>4. m_state'[f] = m_state[f]
      BY <1>1, <2>2
    <3> QED BY <1>1, <1>4, <1>6, <3>1, <3>2, <3>3, <3>4 DEF OnceAt
  <2> QED BY <2>1, <2>2
<1> QED BY <1>1, <1>5, <1>6 DEF OnceInv

\* A fiber that is scheduled for the first time was nowhere before.
LEMMA SpawnOnce ==
  ASSUME Shape, OnceInv, NEW t \in Thread, NEW f \in Fiber,
         CallSchedule(t, "fiber", f, "fiber") \/ CallSchedule(t, "user", f, "user"),
         f \notin given, given' = given \cup {f},
         UNCHANGED <<m_fiber_list, m_state, armed, ft, doubled>>
  PROVE  OnceInv'
<1>1. /\ pc \in [Thread -> Place] /\ put \in [Thread -> Worker \cup Fiber \cup {None}]
      /\ back \in [Thread -> {"none", "user", "fiber", "pick", "yield"}]
  BY DEF Shape
<1>2. /\ OwnStep(t) /\ pc'[t] = "put" /\ put'[t] = f
      /\ \/ pc[t] = "fiber" /\ back'[t] = "fiber"
         \/ pc[t] = "user" /\ back'[t] = "user"
  BY <1>1 DEF CallSchedule, Goto, OwnStep
<1>3. \A u \in Thread \ {t} : SameHold(u)
  BY <1>2, OthersHold
<1>4. /\ \A g \in Fiber : ~Holds(t, g) /\ (Holds(t, g)' <=> g = f)
      /\ \A g \in Fiber : OnProcessor(t, g)' <=> OnProcessor(t, g)
      /\ Running(t)' => Running(t)
  BY <1>2 DEF Holds, OnProcessor, Running
<1>5. ASSUME NEW g \in Fiber
      PROVE  /\ InList(g)' <=> InList(g)
             /\ ListOne(g)' <=> ListOne(g)
             /\ g # f => (Nowhere(g) => Nowhere(g)')
  BY <1>3, <1>4 DEF InList, ListOne, Nowhere, SameHold
<1>6. \A g \in Fiber \ given' : Nowhere(g)' /\ \A u \in Thread : ~OnProcessor(u, g)'
  BY <1>3, <1>4, <1>5 DEF OnceInv, SameHold
<1>7. ASSUME NEW g \in Fiber, OnceAt(g) PROVE OnceAt(g)'
  <2>1. CASE g = f
    <3>1. Nowhere(f) /\ \A u \in Thread : ~OnProcessor(u, f)
      BY DEF OnceInv
    <3>2. \A u \in Thread : Holds(u, f)' => u = t
      BY <1>3, <3>1 DEF SameHold, Nowhere
    <3>3. \A u \in Thread : ~OnProcessor(u, f)'
      BY <1>3, <1>4, <3>1 DEF SameHold
    <3>4. \A u \in Thread : ~(ft'[u] = f /\ Running(u)')
      BY <3>3 DEF Running, OnProcessor
    <3>5. \A u \in Thread : ft'[u] = f /\ pc'[u] \in {"picked", "swap"} => FALSE
      BY <1>2, <3>2 DEF Holds
    <3> QED BY <1>5, <1>7, <2>1, <3>1, <3>2, <3>4, <3>5 DEF OnceAt, Nowhere
  <2>2. CASE g # f
    <3>1. \A u \in Thread : Holds(u, g)' <=> Holds(u, g)
      BY <1>3, <1>4, <2>2 DEF SameHold
    <3>2. \A u \in Thread : Running(u)' => Running(u)
      BY <1>3, <1>4 DEF SameHold
    <3>3. \A u \in Thread : pc'[u] \in {"picked", "swap"} => pc[u] \in {"picked", "swap"}
      BY <1>2, <1>3 DEF SameHold
    <3> QED BY <1>5, <1>7, <2>2, <3>1, <3>2, <3>3 DEF OnceAt
  <2> QED BY <2>1, <2>2
<1> QED BY <1>6, <1>7 DEF OnceInv

\* A fiber that arms an event is on a processor and was not armed.
LEMMA ArmOnce ==
  ASSUME Shape, CustodyInv, OnceInv, ~Undefined, NEW t \in Thread, Arm(t)
  PROVE  OnceInv'
<1>1. /\ pc[t] = "fiber" /\ ft[t] \in Fiber /\ pc'[t] = "armed"
      /\ armed' = armed \cup {ft[t]}
      /\ UNCHANGED <<m_fiber_list, m_state, given, doubled, ft>>
      /\ OwnStep(t)
  BY DEF Arm, Goto, localVars, Shape, OwnStep
<1>2. \A u \in Thread \ {t} : SameHold(u)
  BY <1>1, OthersHold
<1>3. /\ \A f \in Fiber : ~Holds(t, f)' /\ ~Holds(t, f)
      /\ \A f \in Fiber : OnProcessor(t, f)' <=> OnProcessor(t, f)
      /\ OnProcessor(t, ft[t]) /\ Running(t) /\ ~Running(t)'
  BY <1>1 DEF Holds, OnProcessor, Running
<1>4. \A u \in Thread \ {t} : ~OnProcessor(u, ft[t])
  BY <1>1, <1>3, Alone
<1>5. m_state[ft[t]] = "EXEC"
  BY <1>1, <1>4 DEF CustodyInv, OwnFiber, Executing, Shared
<1>6. ASSUME NEW f \in Fiber
      PROVE  /\ InList(f)' <=> InList(f)
             /\ ListOne(f)' <=> ListOne(f)
             /\ \A u \in Thread : Holds(u, f)' <=> Holds(u, f)
             /\ f # ft[t] => (Nowhere(f) => Nowhere(f)')
  BY <1>1, <1>2, <1>3 DEF InList, ListOne, Nowhere, SameHold
<1>7. \A f \in Fiber \ given' : Nowhere(f)' /\ \A u \in Thread : ~OnProcessor(u, f)'
  <2> SUFFICES ASSUME NEW f \in Fiber \ given
               PROVE  Nowhere(f)' /\ \A u \in Thread : ~OnProcessor(u, f)'
    BY <1>1
  <2>1. f # ft[t]
    BY <1>3 DEF OnceInv
  <2> QED BY <1>2, <1>3, <1>6, <2>1 DEF OnceInv, SameHold
<1>8. ASSUME NEW f \in Fiber, OnceAt(f) PROVE OnceAt(f)'
  <2>1. CASE f = ft[t]
    <3>1. Nowhere(f)
      BY <1>3, <1>8, <2>1 DEF OnceAt
    <3>2. \A u \in Thread : ~(ft'[u] = f /\ Running(u)')
      <4>1. \A u \in Thread : Running(u) /\ ft[u] = f => OnProcessor(u, f)
        BY DEF Running, OnProcessor
      <4> QED BY <1>1, <1>2, <1>3, <1>4, <2>1, <4>1 DEF SameHold
    <3>3. \A u \in Thread : ~Holds(u, f)'
      BY <1>6, <3>1 DEF Nowhere
    <3>4. \A u \in Thread : ft'[u] = f /\ pc'[u] \in {"picked", "swap"} => FALSE
      BY <3>3 DEF Holds
    <3> QED BY <1>1, <1>5, <1>6, <1>8, <2>1, <3>1, <3>2, <3>3, <3>4 DEF OnceAt, Nowhere
  <2>2. CASE f # ft[t]
    <3>1. \A u \in Thread : Running(u)' => Running(u)
      BY <1>2, <1>3 DEF SameHold
    <3>2. \A u \in Thread : pc'[u] \in {"picked", "swap"} => pc[u] \in {"picked", "swap"}
      BY <1>1, <1>2 DEF SameHold
    <3>3. f \in armed' <=> f \in armed
      BY <1>1, <2>2
    <3> QED BY <1>1, <1>6, <1>8, <2>2, <3>1, <3>2, <3>3 DEF OnceAt
  <2> QED BY <2>1, <2>2
<1> QED BY <1>1, <1>7, <1>8 DEF OnceInv

\* A yield and the end of a fiber keep it where it is.
LEMMA LeaveOnce ==
  ASSUME Shape, OnceInv, NEW t \in Thread,
         YieldToHold(t) \/ YieldToReady(t) \/ Finish(t)
  PROVE  OnceInv'
<1>1. /\ pc[t] \in {"fiber", "armed"} /\ ft[t] \in Fiber /\ pc'[t] = "leaving"
      /\ UNCHANGED <<m_fiber_list, armed, given, doubled, ft>>
      /\ OwnStep(t)
      /\ \A f \in Fiber \ {ft[t]} : m_state'[f] = m_state[f]
      /\ m_state'[ft[t]] # "EXEC"
      /\ m_state'[ft[t]] = "READY" => pc[t] = "fiber"
  BY DEF YieldToHold, YieldToReady, Finish, SetState, Goto, localVars, ghostVars, Shape,
         OwnStep, Over
<1>2. \A u \in Thread \ {t} : SameHold(u)
  BY <1>1, OthersHold
<1>3. /\ \A f \in Fiber : ~Holds(t, f)' /\ ~Holds(t, f)
      /\ \A f \in Fiber : OnProcessor(t, f)' <=> OnProcessor(t, f)
      /\ ~Running(t)' /\ (pc[t] = "fiber" => Running(t))
  BY <1>1 DEF Holds, OnProcessor, Running
<1>4. ASSUME NEW f \in Fiber
      PROVE  /\ InList(f)' <=> InList(f)
             /\ ListOne(f)' <=> ListOne(f)
             /\ \A u \in Thread : Holds(u, f)' <=> Holds(u, f)
             /\ Nowhere(f) => Nowhere(f)'
  BY <1>1, <1>2, <1>3 DEF InList, ListOne, Nowhere, SameHold
<1>5. \A f \in Fiber \ given : Nowhere(f)' /\ \A u \in Thread : ~OnProcessor(u, f)'
  BY <1>2, <1>3, <1>4 DEF OnceInv, SameHold
<1>6. ASSUME NEW f \in Fiber, OnceAt(f) PROVE OnceAt(f)'
  <2>1. \A u \in Thread : Running(u)' => Running(u)
    BY <1>2, <1>3 DEF SameHold
  <2>2. \A u \in Thread : pc'[u] \in {"picked", "swap"} => pc[u] \in {"picked", "swap"}
    BY <1>1, <1>2 DEF SameHold
  <2>3. m_state'[f] = "READY" => f \notin armed
    BY <1>1, <1>3, <1>6 DEF OnceAt, Nowhere
  <2>4. \A u \in Thread : ft[u] = f /\ pc[u] \in {"picked", "swap"} => m_state'[f] # "EXEC"
    BY <1>1, <1>6 DEF OnceAt
  <2> QED BY <1>1, <1>4, <1>6, <2>1, <2>2, <2>3, <2>4 DEF OnceAt
<1> QED BY <1>1, <1>5, <1>6 DEF OnceInv

\* After the swap the thread no longer has its fiber on the processor.
LEMMA SwapOutOnce ==
  ASSUME Shape, OnceInv, NEW t \in Thread, SwapOut(t)
  PROVE  OnceInv'
<1>1. /\ pc[t] = "leaving" /\ pc'[t] = "back"
      /\ UNCHANGED <<m_fiber_list, m_state, armed, given, doubled, ft>>
      /\ OwnStep(t)
  BY DEF SwapOut, Goto, fiberVars, localVars, ghostVars, Shape, OwnStep
<1>2. \A u \in Thread \ {t} : SameHold(u)
  BY <1>1, OthersHold
<1>3. /\ \A f \in Fiber : ~Holds(t, f)' /\ ~Holds(t, f) /\ ~OnProcessor(t, f)'
      /\ ~Running(t)'
  BY <1>1 DEF Holds, OnProcessor, Running
<1>4. ASSUME NEW f \in Fiber
      PROVE  /\ InList(f)' <=> InList(f)
             /\ ListOne(f)' <=> ListOne(f)
             /\ \A u \in Thread : Holds(u, f)' <=> Holds(u, f)
             /\ Nowhere(f) => Nowhere(f)'
  BY <1>1, <1>2, <1>3 DEF InList, ListOne, Nowhere, SameHold
<1>5. \A f \in Fiber \ given : Nowhere(f)' /\ \A u \in Thread : ~OnProcessor(u, f)'
  BY <1>2, <1>3, <1>4 DEF OnceInv, SameHold
<1>6. ASSUME NEW f \in Fiber, OnceAt(f) PROVE OnceAt(f)'
  <2>1. \A u \in Thread : Running(u)' => Running(u)
    BY <1>2, <1>3 DEF SameHold
  <2>2. \A u \in Thread : pc'[u] \in {"picked", "swap"} => pc[u] \in {"picked", "swap"}
    BY <1>1, <1>2 DEF SameHold
  <2> QED BY <1>1, <1>4, <1>6, <2>1, <2>2 DEF OnceAt
<1> QED BY <1>1, <1>5, <1>6 DEF OnceInv

\* The worker schedules a READY fiber: once, unless another had it already.
LEMMA BackOnce ==
  ASSUME Shape, OnceInv, BackGiven, NEW t \in Thread, Back(t)
  PROVE  OnceInv'
<1>1. /\ pc \in [Thread -> Place] /\ put \in [Thread -> Worker \cup Fiber \cup {None}]
      /\ back \in [Thread -> {"none", "user", "fiber", "pick", "yield"}]
      /\ ft \in [Thread -> Fiber \cup {None}] /\ doubled \subseteq Fiber
      /\ pc[t] = "back" /\ ft[t] \in Fiber
  BY DEF Shape, Back
<1>2. /\ UNCHANGED <<m_fiber_list, m_state, armed, given>>
      /\ OwnStep(t) /\ ft'[t] = None /\ pc'[t] \in {"put", "pick"}
  <2>1. CASE m_state[ft[t]] = "READY"
    BY <1>1, <2>1 DEF Back, ReadyAgain, CallSchedule, Goto, OwnStep, fiberVars
  <2>2. CASE m_state[ft[t]] # "READY"
    BY <1>1, <2>2 DEF Back, ReadyAgain, Goto, OwnStep, fiberVars
  <2> QED BY <2>1, <2>2
<1>3. \A u \in Thread \ {t} : SameHold(u)
  BY <1>2, OthersHold
<1>4. None \notin Fiber
  BY PoolAssumption DEF PoolAssumption
<1>5. \A f \in Fiber : ~Holds(t, f) /\ ~OnProcessor(t, f)' /\ ~(ft'[t] = f)
  BY <1>1, <1>2, <1>4 DEF Holds, OnProcessor
<1>6. CASE m_state[ft[t]] # "READY"
  <2>1. pc'[t] = "pick" /\ UNCHANGED doubled
    BY <1>1, <1>6 DEF Back, ReadyAgain, Goto
  <2>2. \A f \in Fiber : ~Holds(t, f)'
    BY <2>1 DEF Holds
  <2>3. ASSUME NEW f \in Fiber
        PROVE  /\ InList(f)' <=> InList(f)
               /\ ListOne(f)' <=> ListOne(f)
               /\ \A u \in Thread : Holds(u, f)' <=> Holds(u, f)
               /\ Nowhere(f) => Nowhere(f)'
    BY <1>2, <1>3, <1>5, <2>2 DEF InList, ListOne, Nowhere, SameHold
  <2>4. \A f \in Fiber \ given : Nowhere(f)' /\ \A u \in Thread : ~OnProcessor(u, f)'
    BY <1>3, <1>5, <2>3 DEF OnceInv, SameHold
  <2>5. ASSUME NEW f \in Fiber, OnceAt(f) PROVE OnceAt(f)'
    <3>1. \A u \in Thread : ft'[u] = f /\ Running(u)' => ft[u] = f /\ Running(u)
      BY <1>3, <1>5 DEF SameHold
    <3>2. \A u \in Thread : ft'[u] = f /\ pc'[u] \in {"picked", "swap"}
                              => ft[u] = f /\ pc[u] \in {"picked", "swap"}
      BY <1>3, <1>5 DEF SameHold
    <3> QED BY <1>2, <2>3, <2>5, <3>1, <3>2 DEF OnceAt
  <2> QED BY <1>2, <2>1, <2>4, <2>5 DEF OnceInv
<1>7. CASE m_state[ft[t]] = "READY"
  <2>1. /\ pc'[t] = "put" /\ put'[t] = ft[t]
        /\ doubled' = doubled \cup
             {g \in {ft[t]} : g \in ToSet(m_fiber_list) \/ \E u \in Thread \ {t} : Has(u, g)}
    BY <1>1, <1>7 DEF Back, ReadyAgain, CallSchedule, Goto
  <2>2. \A f \in Fiber : Holds(t, f)' <=> f = ft[t]
    BY <1>2, <2>1 DEF Holds
  <2>3. ASSUME NEW f \in Fiber
        PROVE  /\ InList(f)' <=> InList(f)
               /\ ListOne(f)' <=> ListOne(f)
               /\ f # ft[t] => \A u \in Thread : Holds(u, f)' <=> Holds(u, f)
               /\ f # ft[t] => (Nowhere(f) => Nowhere(f)')
    BY <1>2, <1>3, <1>5, <2>2 DEF InList, ListOne, Nowhere, SameHold
  <2>4. ft[t] \in doubled' \/ OnceAt(ft[t])
    BY <1>1, <2>1 DEF OnceInv
  <2>5. ft[t] \notin doubled' =>
          ~InList(ft[t]) /\ \A u \in Thread \ {t} : ~Has(u, ft[t])
    BY <2>1 DEF InList, ToSet
  <2>6. ASSUME NEW f \in Fiber \ doubled' PROVE OnceAt(f)'
    <3>0. OnceAt(f)
      BY <2>1, <2>6 DEF OnceInv
    <3>1. \A u \in Thread : ft'[u] = f /\ Running(u)' => ft[u] = f /\ Running(u) /\ u # t
      BY <1>3, <1>5 DEF SameHold
    <3>2. \A u \in Thread : ft'[u] = f /\ pc'[u] \in {"picked", "swap"}
                              => ft[u] = f /\ pc[u] \in {"picked", "swap"}
      BY <1>3, <1>5 DEF SameHold
    <3>3. CASE f = ft[t]
      <4>1. ~InList(f) /\ \A u \in Thread \ {t} : ~Has(u, f)
        BY <2>5, <3>3
      <4>2. f \notin armed
        BY <1>7, <3>0, <3>3 DEF OnceAt
      <4>3. \A u \in Thread : ~(ft'[u] = f /\ Running(u)')
        BY <3>1, <4>1 DEF Running, OnProcessor, Has
      <4>4. \A u \in Thread : Holds(u, f)' => u = t
        <5>1. \A u \in Thread \ {t} : ~Holds(u, f)
          BY <4>1 DEF Has, Holds
        <5> QED BY <1>3, <5>1 DEF SameHold
      <4> QED BY <1>2, <2>3, <3>0, <3>2, <4>1, <4>2, <4>3, <4>4 DEF OnceAt
    <3>4. CASE f # ft[t]
      BY <1>2, <2>3, <3>0, <3>1, <3>2, <3>4 DEF OnceAt
    <3> QED BY <3>3, <3>4
  <2>7. \A f \in Fiber \ given : Nowhere(f)' /\ \A u \in Thread : ~OnProcessor(u, f)'
    <3>1. ft[t] \in given
      BY <1>1 DEF BackGiven
    <3> QED BY <1>3, <1>5, <2>3, <3>1 DEF OnceInv, SameHold
  <2> QED BY <1>2, <2>6, <2>7 DEF OnceInv
<1> QED BY <1>6, <1>7

\* An event that comes hands its fiber to the thread that saw it, to be scheduled.
LEMMA DispatchOnce ==
  ASSUME Shape, OnceInv, NEW t \in Thread, NEW f \in Fiber, Dispatch(t, f)
  PROVE  OnceInv'
<1>1. /\ pc \in [Thread -> Place] /\ put \in [Thread -> Worker \cup Fiber \cup {None}]
      /\ back \in [Thread -> {"none", "user", "fiber", "pick", "yield"}]
  BY DEF Shape
<1>2. /\ pc[t] = "wait" /\ OwnStep(t) /\ pc'[t] = "put" /\ put'[t] = f /\ back'[t] = "yield"
      /\ f \in armed /\ armed' = armed \ {f}
      /\ UNCHANGED <<m_fiber_list, m_state, given, doubled, ft>>
  BY <1>1 DEF Dispatch, CallSchedule, Goto, OwnStep, ghostVars
<1>3. \A u \in Thread \ {t} : SameHold(u)
  BY <1>2, OthersHold
<1>4. /\ \A g \in Fiber : ~Holds(t, g) /\ (Holds(t, g)' <=> g = f)
      /\ \A g \in Fiber : ~OnProcessor(t, g)'
      /\ ~Running(t)'
  BY <1>2 DEF Holds, OnProcessor, Running
<1>5. ASSUME NEW g \in Fiber
      PROVE  /\ InList(g)' <=> InList(g)
             /\ ListOne(g)' <=> ListOne(g)
             /\ g # f => \A u \in Thread : Holds(u, g)' <=> Holds(u, g)
             /\ g # f => (Nowhere(g) => Nowhere(g)')
  BY <1>2, <1>3, <1>4 DEF InList, ListOne, Nowhere, SameHold
<1>6. \A g \in Fiber \ given : Nowhere(g)' /\ \A u \in Thread : ~OnProcessor(u, g)'
  <2>1. f \in given
    BY <1>2 DEF OnceInv, Nowhere
  <2> QED BY <1>3, <1>4, <1>5, <2>1 DEF OnceInv, SameHold
<1>7. ASSUME NEW g \in Fiber, OnceAt(g) PROVE OnceAt(g)'
  <2>1. \A u \in Thread : Running(u)' => Running(u)
    BY <1>3, <1>4 DEF SameHold
  <2>2. \A u \in Thread : pc'[u] \in {"picked", "swap"} => pc[u] \in {"picked", "swap"}
    BY <1>2, <1>3 DEF SameHold
  <2>3. CASE g = f
    <3>1. ~InList(f) /\ \A u \in Thread : ~Holds(u, f)
      BY <1>2, <1>7, <2>3 DEF OnceAt
    <3>2. \A u \in Thread : Holds(u, f)' => u = t
      BY <1>3, <3>1 DEF SameHold
    <3>3. \A u \in Thread : ~(ft'[u] = f /\ Running(u)')
      BY <1>2, <1>7, <2>1, <2>3 DEF OnceAt, Nowhere
    <3> QED BY <1>2, <1>5, <1>7, <2>2, <2>3, <3>1, <3>2, <3>3 DEF OnceAt
  <2>4. CASE g # f
    BY <1>2, <1>5, <1>7, <2>1, <2>2, <2>4 DEF OnceAt
  <2> QED BY <2>3, <2>4
<1> QED BY <1>2, <1>6, <1>7 DEF OnceInv

\* Only swap_out brings a worker back, with a fiber it was executing.
LEMMA BackGivenStep ==
  ASSUME Shape, OnceInv, BackGiven, Next
  PROVE  BackGiven'
<1>0. Main \in Thread /\ pc \in [Thread -> Place] /\ \A w \in Worker : w \in Thread /\ w # Main
  BY PoolAssumption DEF PoolAssumption, Thread, Shape
<1>1. /\ ft \in [Thread -> Fiber \cup {None}]
      /\ back \in [Thread -> {"none", "user", "fiber", "pick", "yield"}]
      /\ \A t \in Thread : pc[t] \in {"put", "putted", "scoped"} => back[t] # "none"
      /\ \A t \in Thread : pc[t] = "leaving" => ft[t] \in Fiber
  BY DEF Shape
<1> USE DEF BackGiven, Goto
<1>2. CASE \E w \in Worker : Create(w) \/ SetId(w) \/ Notify(w)
  BY <1>0, <1>2 DEF Create, SetId, Notify, localVars, ghostVars
<1>3. CASE Created \/ Stop \/ Join
  BY <1>0, <1>3 DEF Created, Stop, Join, localVars, ghostVars
<1>4. ASSUME NEW f \in Fiber, Give(f) PROVE BackGiven'
  BY <1>0, <1>4 DEF Give, CallSchedule
<1>5. ASSUME NEW t \in Thread, Run(t) PROVE BackGiven'
  <2>1. CASE StepLock(t) \/ StepUnlock(t)
    BY <2>1 DEF StepLock, StepUnlock, localVars, ghostVars
  <2>2. CASE Emplace(t) \/ Scheduled(t) \/ Return(t)
    <3>1. pc[t] = "scoped" => back[t] # "back"
      BY <1>1
    <3> QED BY <1>0, <2>2, <3>1 DEF Emplace, Scheduled, Return, localVars, ghostVars
  <2>3. CASE Scan(t)
    <3>1. pc' = [pc EXCEPT ![t] = "picked"] /\ given' = given
          /\ \A u \in Thread \ {t} : ft'[u] = ft[u]
      BY <1>1, <2>3 DEF Scan, ghostVars
    <3> QED BY <1>0, <3>1
  <2>4. CASE Picked(t) \/ SwapIn(t) \/ Arm(t)
    BY <1>0, <2>4 DEF Picked, SwapIn, Arm, localVars, ghostVars
  <2>5. CASE YieldToHold(t) \/ YieldToReady(t) \/ Finish(t)
    BY <1>0, <2>5 DEF YieldToHold, YieldToReady, Finish, localVars, ghostVars
  <2>6. CASE SwapOut(t)
    <3>1. /\ pc[t] = "leaving" /\ pc' = [pc EXCEPT ![t] = "back"]
          /\ UNCHANGED <<ft, given>>
      BY <2>6 DEF SwapOut, localVars, ghostVars
    <3>2. ft[t] \in given
      BY <1>1, <3>1 DEF OnceInv, OnProcessor
    <3> QED BY <1>0, <3>1, <3>2
  <2>7. CASE Back(t)
    <3>1. pc'[t] # "back" /\ OwnStep(t) /\ given' = given
      <4>1. CASE ReadyAgain(ft[t])
        BY <1>0, <1>1, <2>7, <4>1 DEF Back, CallSchedule, OwnStep, Shape
      <4>2. CASE ~ReadyAgain(ft[t])
        BY <1>0, <1>1, <2>7, <4>2 DEF Back, OwnStep
      <4> QED BY <4>1, <4>2
    <3> QED BY <3>1 DEF OwnStep
  <2>8. CASE Check(t) \/ Sign(t) \/ Idle(t)
    BY <1>0, <2>8 DEF Check, Sign, Idle, localVars, ghostVars
  <2>9. CASE Wake(t) \/ Yield(t) \/ End(t) \/ Exit(t)
    BY <1>0, <2>9 DEF Wake, Yield, End, Exit, localVars, ghostVars
  <2>10. ASSUME NEW f \in Fiber, Spawn(t, f) \/ Dispatch(t, f) PROVE BackGiven'
    BY <1>0, <2>10 DEF Spawn, Dispatch, CallSchedule, ghostVars
  <2> QED BY <1>5, <2>1, <2>2, <2>3, <2>4, <2>5, <2>6, <2>7, <2>8, <2>9, <2>10 DEF Run
<1> QED BY <1>2, <1>3, <1>4, <1>5 DEF Next

Custody == Shape /\ CustodyInv /\ OnceInv /\ BackGiven

\* At first no fiber is anywhere.
LEMMA OnceInit == Init => OnceInv /\ BackGiven
  BY DEF Init, OnceInv, BackGiven, OnceAt, Nowhere, ListOne, InList, Holds, Running, OnProcessor

\* No step puts a fiber in two places, but where run() reads a state it lost.
LEMMA OnceStep == Custody /\ [Next]_vars => OnceInv' /\ BackGiven'
<1> SUFFICES ASSUME Custody, [Next]_vars PROVE OnceInv' /\ BackGiven'
  OBVIOUS
<1> USE DEF Custody
<1>1. CASE UNCHANGED vars
  BY <1>1 DEF vars, fiberVars, localVars, ghostVars, OnceInv, BackGiven, OnceAt, Nowhere,
              ListOne, InList, Holds, Running, OnProcessor
<1>2. CASE Next
  <2>0. ~Undefined /\ BackGiven' /\ Main \in Thread
    BY <1>2, BackGivenStep DEF Next, Thread
  <2>1. CASE (\E w \in Worker : Create(w) \/ SetId(w) \/ Notify(w)) \/ Created \/ Stop \/ Join
    BY <2>0, <2>1, QuietOnce
  <2>2. ASSUME NEW f \in Fiber, Give(f) PROVE OnceInv'
    BY <2>0, <2>2, SpawnOnce DEF Give, fiberVars
  <2>3. ASSUME NEW t \in Thread, Run(t) PROVE OnceInv'
    <3>1. CASE \/ StepLock(t) \/ StepUnlock(t) \/ Scheduled(t) \/ Return(t)
               \/ Check(t) \/ Sign(t) \/ Idle(t) \/ Wake(t) \/ Yield(t) \/ End(t) \/ Exit(t)
      BY <3>1, QuietOnce
    <3>2. CASE Emplace(t) \/ Scan(t) \/ Picked(t) \/ SwapIn(t)
      BY <3>2, EmplaceOnce, ScanOnce, PickedOnce, SwapInOnce
    <3>3. CASE Arm(t) \/ YieldToHold(t) \/ YieldToReady(t) \/ Finish(t)
      BY <2>0, <3>3, ArmOnce, LeaveOnce
    <3>4. CASE SwapOut(t) \/ Back(t)
      BY <3>4, SwapOutOnce, BackOnce
    <3>5. ASSUME NEW f \in Fiber, Spawn(t, f) PROVE OnceInv'
      BY <3>5, SpawnOnce DEF Spawn, fiberVars
    <3>6. ASSUME NEW f \in Fiber, Dispatch(t, f) PROVE OnceInv'
      BY <3>6, DispatchOnce
    <3> QED BY <2>3, <3>1, <3>2, <3>3, <3>4, <3>5, <3>6 DEF Run
  <2> QED BY <1>2, <2>0, <2>1, <2>2, <2>3 DEF Next
<1> QED BY <1>1, <1>2

\* assert(m_state != EXEC) in swap_in can fail only for a fiber that run() put
\* back on the list although it was no longer that worker's.
THEOREM SwapInSafe == Spec => []SwapInAssert
<1>1. Custody => SwapInAssert
  BY DEF Custody, OnceInv, OnceAt, SwapInAssert, Shape
<1>2. Init => Custody
  BY ShapeInit, CustodyInit, OnceInit DEF Custody
<1>3. Custody /\ [Next]_vars => Custody'
  BY ShapeStep, CustodyStep, OnceStep DEF Custody
<1> QED BY <1>1, <1>2, <1>3, PTL DEF Spec
-----------------------------------------------------------------------------
(* stop() leaves no entry behind that its caller could have run, as long   *)
(* as no fiber was scheduled twice: whatever is in the list, some thread   *)
(* will look at the list again.                                            *)

\* A fiber that is over is nowhere, and one that executes does so somewhere.
OverInv ==
  /\ \A f \in Fiber \ given : m_state[f] \notin Over
  /\ \A f \in Fiber \ doubled : m_state[f] \in Over => Nowhere(f)
  /\ \A f \in Fiber : m_state[f] = "EXEC" => \E u \in Thread : OnProcessor(u, f)

\* t will look at the list again before it can end.
Returns(t) ==
  \/ pc[t] \in {"start", "sem", "user", "put", "putted", "scoped", "pick", "swap", "fiber",
                "armed", "leaving", "back", "yield"}
  \/ pc[t] = "picked" /\ ft[t] # None

\* Somebody will look at an entry that any thread may take.
ListWatched ==
  UseCaller /\ doubled = {} =>
    \A f \in Fiber \ Pinned : InList(f) => \E t \in Thread : Returns(t)

\* The caller's joins wait for all workers.
Joined == pc[Main] = "done" => \A w \in Worker : pc[w] = "ended"

-----------------------------------------------------------------------------
\* A step that changes no state keeps OverInv if it moves nothing that is over
\* and takes nothing off a processor that executes.
LEMMA OverKept ==
  ASSUME OverInv, m_state' = m_state, given \subseteq given', doubled \subseteq doubled',
         \A f \in Fiber \ doubled : m_state[f] \in Over /\ Nowhere(f) => Nowhere(f)',
         \A f \in Fiber : \A u \in Thread :
           m_state[f] = "EXEC" /\ OnProcessor(u, f) => OnProcessor(u, f)'
  PROVE  OverInv'
<1>1. \A f \in Fiber \ given' : m_state'[f] \notin Over
  BY DEF OverInv
<1>2. \A f \in Fiber \ doubled' : m_state'[f] \in Over => Nowhere(f)'
  BY DEF OverInv
<1>3. \A f \in Fiber : m_state'[f] = "EXEC" => \E u \in Thread : OnProcessor(u, f)'
  BY DEF OverInv
<1> QED BY <1>1, <1>2, <1>3 DEF OverInv

\* Entering and leaving schedule() and run()'s critical section.
LEMMA OverInList ==
  ASSUME Custody, OverInv, ~Undefined, NEW t \in Thread, Emplace(t) \/ Scan(t) \/ Picked(t)
  PROVE  OverInv'
<1>0. /\ pc \in [Thread -> Place] /\ m_fiber_list \in Seq(Fiber)
      /\ ft \in [Thread -> Fiber \cup {None}]
      /\ put \in [Thread -> Worker \cup Fiber \cup {None}]
  BY DEF Custody, Shape
<1>1. /\ UNCHANGED <<m_state, given, doubled, armed, put, back>> /\ OwnStep(t)
      /\ \A f \in Fiber : OnProcessor(t, f) => OnProcessor(t, f)'
  <2>1. CASE Emplace(t)
    BY <1>0, <2>1 DEF Emplace, Goto, fiberVars, ghostVars, OwnStep, OnProcessor
  <2>2. CASE Scan(t)
    BY <1>0, <2>2 DEF Scan, Goto, fiberVars, ghostVars, OwnStep, OnProcessor
  <2>3. CASE Picked(t)
    BY <1>0, <2>3 DEF Picked, Goto, fiberVars, localVars, ghostVars, OwnStep, OnProcessor
  <2> QED BY <2>1, <2>2, <2>3
<1>2. \A u \in Thread \ {t} : SameHold(u)
  BY <1>1, OthersHold
<1>3. \A f \in Fiber : (InList(f)' => InList(f) \/ Holds(t, f))
                       /\ (Holds(t, f)' => InList(f) \/ Holds(t, f))
  <2>1. CASE Emplace(t)
    <3>1. /\ pc[t] = "put" /\ pc'[t] = "putted" /\ put[t] \in Fiber
          /\ m_fiber_list' = Append(m_fiber_list, put[t])
      BY <1>0, <2>1 DEF Emplace, Goto, Custody, Shape
    <3>2. \A i \in DOMAIN m_fiber_list' :
            \/ i \in DOMAIN m_fiber_list /\ m_fiber_list'[i] = m_fiber_list[i]
            \/ m_fiber_list'[i] = put[t]
      BY <1>0, <3>1
    <3> QED BY <3>1, <3>2 DEF InList, Holds
  <2>2. CASE Scan(t)
    <3>1. pc[t] = "pick" /\ pc'[t] = "picked"
      BY <1>0, <2>2 DEF Scan, Goto
    <3>2. CASE ft'[t] = None /\ m_fiber_list' = m_fiber_list
      BY <3>1, <3>2, PoolAssumption DEF PoolAssumption, InList, Holds
    <3>3. ASSUME NEW i \in Takable(t), ft' = [ft EXCEPT ![t] = m_fiber_list[i]],
                 m_fiber_list' = RemoveAt(m_fiber_list, i)
          PROVE  \A f \in Fiber : (InList(f)' => InList(f)) /\ (Holds(t, f)' => InList(f))
      <4>1. i \in DOMAIN m_fiber_list
        BY <3>3 DEF Takable
      <4>2. \A j \in DOMAIN m_fiber_list' : \E k \in DOMAIN m_fiber_list :
              m_fiber_list'[j] = m_fiber_list[k]
        BY <1>0, <3>3, <4>1, RemoveFacts
      <4>3. ft'[t] = m_fiber_list[i]
        BY <1>0, <3>3
      <4> QED BY <3>1, <4>1, <4>2, <4>3 DEF InList, Holds
    <3> QED BY <1>0, <2>2, <3>2, <3>3 DEF Scan
  <2>3. CASE Picked(t)
    BY <1>0, <1>1, <2>3 DEF Picked, Goto, localVars, Holds, InList
  <2> QED BY <2>1, <2>2, <2>3
<1>4. \A f \in Fiber : Nowhere(f) => Nowhere(f)'
  BY <1>1, <1>2, <1>3 DEF Nowhere, SameHold
<1>5. \A f \in Fiber, u \in Thread : OnProcessor(u, f) => OnProcessor(u, f)'
  BY <1>1, <1>2 DEF SameHold
<1> QED BY <1>1, <1>4, <1>5, OverKept DEF Custody

\* A thread that takes up its fiber, yields or ends it: the only steps that
\* change a state.
LEMMA OverState ==
  ASSUME Custody, OverInv, ~Undefined, NEW t \in Thread,
         SwapIn(t) \/ YieldToHold(t) \/ YieldToReady(t) \/ Finish(t)
  PROVE  OverInv'
<1> DEFINE g == ft[t]
<1>1. /\ g \in Fiber /\ UNCHANGED <<m_fiber_list, armed, given, doubled, ft>>
      /\ OwnStep(t) /\ pc'[t] \in {"fiber", "leaving"}
      /\ \A f \in Fiber \ {g} : m_state'[f] = m_state[f]
      /\ m_state'[g] \in Over => pc[t] = "fiber"
      /\ pc[t] \in {"swap", "fiber", "armed"}
  BY DEF SwapIn, YieldToHold, YieldToReady, Finish, SetState, Goto, localVars, ghostVars,
         Custody, Shape, OwnStep, Over
<1>2. \A u \in Thread \ {t} : SameHold(u)
  BY <1>1, OthersHold
<1>3. /\ \A f \in Fiber : ~Holds(t, f)' /\ (OnProcessor(t, f) => f = g) /\ OnProcessor(t, g)'
  BY <1>1 DEF Holds, OnProcessor
<1>4. \A f \in Fiber : Nowhere(f) => Nowhere(f)'
  BY <1>1, <1>2, <1>3 DEF Nowhere, InList, SameHold
<1>5. g \in given
  BY <1>1 DEF Custody, OnceInv, Nowhere, Holds, OnProcessor
<1>6. m_state'[g] \in Over /\ g \notin doubled => Nowhere(g)
  BY <1>1 DEF Custody, OnceInv, OnceAt, Running
<1>7. \A f \in Fiber \ given' : m_state'[f] \notin Over
  BY <1>1, <1>5 DEF OverInv
<1>8. \A f \in Fiber \ doubled' : m_state'[f] \in Over => Nowhere(f)'
  BY <1>1, <1>4, <1>6 DEF OverInv
<1>9. ASSUME NEW f \in Fiber, m_state'[f] = "EXEC"
      PROVE  \E u \in Thread : OnProcessor(u, f)'
  <2>1. CASE f = g
    BY <1>1, <1>3, <2>1 DEF OnProcessor
  <2>2. CASE f # g
    <3>1. PICK u \in Thread : OnProcessor(u, f)
      BY <1>1, <1>9, <2>2 DEF OverInv
    <3> QED BY <1>2, <1>3, <2>2, <3>1 DEF SameHold
  <2> QED BY <2>1, <2>2
<1> QED BY <1>7, <1>8, <1>9 DEF OverInv

\* What a fiber does that is not over: it arms an event, leaves the processor,
\* is scheduled again by its worker.
LEMMA OverOwn ==
  ASSUME Custody, OverInv, ~Undefined, NEW t \in Thread, Arm(t) \/ SwapOut(t) \/ Back(t)
  PROVE  OverInv'
<1> DEFINE g == ft[t]
<1>1. /\ pc \in [Thread -> Place] /\ ft \in [Thread -> Fiber \cup {None}]
      /\ put \in [Thread -> Worker \cup Fiber \cup {None}] /\ None \notin Fiber
      /\ back \in [Thread -> {"none", "user", "fiber", "pick", "yield"}]
  BY PoolAssumption DEF PoolAssumption, Custody, Shape
<1>2. /\ g \in Fiber /\ UNCHANGED <<m_fiber_list, m_state, given>>
      /\ OwnStep(t) /\ doubled \subseteq doubled'
  <2>1. CASE Arm(t)
    BY <1>1, <2>1 DEF Arm, Goto, localVars, Custody, Shape, OwnStep
  <2>2. CASE SwapOut(t)
    BY <1>1, <2>2 DEF SwapOut, Goto, localVars, fiberVars, ghostVars, Custody, Shape, OwnStep
  <2>3. CASE Back(t) /\ ReadyAgain(g)
    BY <1>1, <2>3 DEF Back, CallSchedule, Goto, fiberVars, Custody, Shape, OwnStep
  <2>4. CASE Back(t) /\ ~ReadyAgain(g)
    BY <1>1, <2>4 DEF Back, Goto, fiberVars, Custody, Shape, OwnStep
  <2> QED BY <2>1, <2>2, <2>3, <2>4
<1>3. \A u \in Thread \ {t} : SameHold(u)
  BY <1>2, OthersHold
<1>4. /\ armed' \subseteq armed \cup {f \in {g} : m_state[f] \notin Over}
      /\ \A f \in Fiber : Holds(t, f)' => Holds(t, f) \/ (f = g /\ m_state[f] \notin Over)
      /\ \A f \in Fiber : m_state[f] = "EXEC" /\ OnProcessor(t, f) => OnProcessor(t, f)'
  <2>1. CASE Arm(t)
    <3>1. pc[t] = "fiber" /\ pc'[t] = "armed" /\ armed' = armed \cup {g} /\ UNCHANGED <<ft, put>>
      BY <1>1, <2>1 DEF Arm, Goto, localVars
    <3>2. OnProcessor(t, g) /\ Executing(t)
      BY <3>1 DEF OnProcessor, Executing
    <3>3. ~Shared(t, g)
      BY <1>2, <3>2, Alone DEF Shared
    <3>4. m_state[g] \notin Over
      BY <3>2, <3>3 DEF Custody, CustodyInv, OwnFiber, Over
    <3> QED BY <3>1, <3>4 DEF Holds, OnProcessor
  <2>2. CASE SwapOut(t)
    <3>1. pc[t] = "leaving" /\ pc'[t] = "back" /\ UNCHANGED <<armed, ft, put>>
      BY <1>1, <2>2 DEF SwapOut, Goto, localVars, fiberVars
    <3>2. OnProcessor(t, g)
      BY <3>1 DEF OnProcessor
    <3>3. ~Shared(t, g)
      BY <1>2, <3>2, Alone DEF Shared
    <3>4. m_state[g] # "EXEC"
      BY <3>1, <3>3 DEF Custody, CustodyInv, OwnFiber, Over
    <3> QED BY <3>1, <3>4 DEF Holds, OnProcessor
  <2>3. CASE Back(t) /\ m_state[g] = "READY"
    BY <1>1, <2>3 DEF Back, ReadyAgain, CallSchedule, Goto, fiberVars, Holds, OnProcessor, Over
  <2>4. CASE Back(t) /\ m_state[g] # "READY"
    BY <1>1, <2>4 DEF Back, ReadyAgain, Goto, fiberVars, Holds, OnProcessor
  <2> QED BY <2>1, <2>2, <2>3, <2>4
<1>5. \A f \in Fiber : m_state[f] \in Over /\ Nowhere(f) => Nowhere(f)'
  BY <1>2, <1>3, <1>4 DEF Nowhere, InList, SameHold
<1>6. \A f \in Fiber, u \in Thread :
        m_state[f] = "EXEC" /\ OnProcessor(u, f) => OnProcessor(u, f)'
  BY <1>3, <1>4 DEF SameHold
<1> QED BY <1>2, <1>5, <1>6, OverKept

\* A fiber scheduled for the first time, and one whose event has come, is not
\* over.
LEMMA OverGiven ==
  ASSUME Custody, OverInv, NEW t \in Thread, NEW f \in Fiber,
         \/ f \notin given /\ armed' = armed /\ given' = given \cup {f}
            /\ (CallSchedule(t, "user", f, "user") \/ CallSchedule(t, "fiber", f, "fiber"))
         \/ f \in armed /\ armed' = armed \ {f} /\ given' = given
            /\ CallSchedule(t, "wait", f, "yield"),
         UNCHANGED <<m_fiber_list, m_state, ft, doubled>>
  PROVE  OverInv'
<1>1. /\ pc \in [Thread -> Place] /\ put \in [Thread -> Worker \cup Fiber \cup {None}]
      /\ back \in [Thread -> {"none", "user", "fiber", "pick", "yield"}]
  BY DEF Custody, Shape
<1>2. /\ OwnStep(t) /\ pc'[t] = "put" /\ put'[t] = f /\ pc[t] \in {"user", "fiber", "wait"}
      /\ pc[t] = "fiber" => back'[t] = "fiber"
      /\ armed' \subseteq armed
  BY <1>1 DEF CallSchedule, Goto, OwnStep
<1>3. \A u \in Thread \ {t} : SameHold(u)
  BY <1>2, OthersHold
<1>4. \A g \in Fiber : (Holds(t, g)' => g = f) /\ (OnProcessor(t, g) => OnProcessor(t, g)')
  BY <1>2 DEF Holds, OnProcessor
<1>5. m_state[f] \notin Over \/ ~Nowhere(f)
  BY DEF OverInv, Nowhere
<1>6. \A g \in Fiber : m_state[g] \in Over /\ Nowhere(g) => Nowhere(g)'
  BY <1>2, <1>3, <1>4, <1>5 DEF Nowhere, InList, SameHold
<1>7. \A g \in Fiber, u \in Thread : OnProcessor(u, g) => OnProcessor(u, g)'
  BY <1>3, <1>4 DEF SameHold
<1>8. given \subseteq given'
  OBVIOUS
<1> QED BY <1>6, <1>7, <1>8, OverKept

-----------------------------------------------------------------------------
\* Every step keeps OverInv.
LEMMA OverStep == Custody /\ OverInv /\ [Next]_vars => OverInv'
<1> SUFFICES ASSUME Custody, OverInv, [Next]_vars PROVE OverInv'
  OBVIOUS
<1>1. CASE UNCHANGED vars
  BY <1>1 DEF vars, fiberVars, localVars, ghostVars, OverInv, Nowhere, InList, Holds, OnProcessor
<1>2. CASE Next
  <2>0. ~Undefined /\ Shape /\ Main \in Thread
    BY <1>2 DEF Next, Thread, Custody
  <2>1. ASSUME \A u \in Thread : SameHold(u),
               UNCHANGED <<m_fiber_list, m_state, armed, given, doubled>>
        PROVE  OverInv'
    <3>1. \A f \in Fiber : Nowhere(f) => Nowhere(f)'
      BY <2>1 DEF Nowhere, InList, SameHold
    <3>2. \A f \in Fiber, u \in Thread : OnProcessor(u, f) => OnProcessor(u, f)'
      BY <2>1 DEF SameHold
    <3> QED BY <2>1, <3>1, <3>2, OverKept
  <2>2. CASE (\E w \in Worker : Create(w) \/ SetId(w) \/ Notify(w)) \/ Created \/ Stop \/ Join
    BY <2>0, <2>1, <2>2, QuietHolds
  <2>3. ASSUME NEW f \in Fiber, Give(f) PROVE OverInv'
    BY <2>0, <2>3, OverGiven DEF Give, fiberVars
  <2>4. ASSUME NEW t \in Thread, Run(t) PROVE OverInv'
    <3>1. CASE \/ StepLock(t) \/ StepUnlock(t) \/ Scheduled(t) \/ Return(t)
               \/ Check(t) \/ Sign(t) \/ Idle(t) \/ Wake(t) \/ Yield(t) \/ End(t) \/ Exit(t)
      BY <2>0, <2>1, <3>1, QuietHolds
    <3>2. CASE Emplace(t) \/ Scan(t) \/ Picked(t)
      BY <2>0, <3>2, OverInList
    <3>3. CASE SwapIn(t) \/ YieldToHold(t) \/ YieldToReady(t) \/ Finish(t)
      BY <2>0, <3>3, OverState
    <3>4. CASE Arm(t) \/ SwapOut(t) \/ Back(t)
      BY <2>0, <3>4, OverOwn
    <3>5. ASSUME NEW f \in Fiber, Spawn(t, f) PROVE OverInv'
      BY <3>5, OverGiven DEF Spawn, fiberVars
    <3>6. ASSUME NEW f \in Fiber, Dispatch(t, f) PROVE OverInv'
      BY <3>6, OverGiven DEF Dispatch, ghostVars
    <3> QED BY <2>4, <3>1, <3>2, <3>3, <3>4, <3>5, <3>6 DEF Run
  <2> QED BY <1>2, <2>2, <2>3, <2>4 DEF Next
<1> QED BY <1>1, <1>2

\* At first no fiber is over or executes.
LEMMA OverInit == Init => OverInv
  BY DEF Init, OverInv, Over

-----------------------------------------------------------------------------
\* A thread that returns to the list goes on doing so, unless its look at the
\* list finds nothing to take; what is taken is not over and is run.
LEMMA KeepsReturning ==
  ASSUME Custody, OverInv, UseCaller, doubled = {}, Next, NEW u \in Thread, Returns(u)
  PROVE  Returns(u)' \/ (Scan(u) /\ Takable(u) = {})
<1>0. /\ pc \in [Thread -> Place] /\ ft \in [Thread -> Fiber \cup {None}] /\ None \notin Fiber
      /\ m_fiber_list \in Seq(Fiber)
      /\ Main \in Thread /\ \A w \in Worker : w \in Thread /\ w # Main
  BY PoolAssumption DEF PoolAssumption, Thread, Custody, Shape
<1>1. CASE \E w \in Worker : Create(w) \/ SetId(w) \/ Notify(w)
  BY <1>0, <1>1 DEF Create, SetId, Notify, Goto, localVars, Returns
<1>2. CASE Created \/ Stop \/ Join
  BY <1>0, <1>2 DEF Created, Stop, Join, Goto, localVars, Returns
<1>3. CASE \E f \in Fiber : Give(f)
  BY <1>0, <1>3 DEF Give, CallSchedule, Goto, Returns
<1>4. ASSUME NEW t \in Thread, Run(t)
      PROVE  Returns(u)' \/ (Scan(u) /\ Takable(u) = {})
  <2>1. CASE StepLock(t) \/ StepUnlock(t)
    BY <2>1 DEF StepLock, StepUnlock, localVars, Returns
  <2>2. CASE Scheduled(t) \/ Return(t)
    <3>1. pc[t] = "scoped" => back[t] \in {"user", "fiber", "pick", "yield"}
      BY DEF Custody, Shape
    <3>2. \A v \in Thread \ {t} : pc'[v] = pc[v]
      BY <1>0, <2>2 DEF Scheduled, Return, Goto
    <3>3. Returns(t)' /\ UNCHANGED ft
      BY <1>0, <2>2, <3>1 DEF Scheduled, Return, Goto, localVars, Returns
    <3> QED BY <3>2, <3>3 DEF Returns
  <2>3. CASE Emplace(t) \/ Wake(t) \/ Yield(t)
    BY <1>0, <2>3 DEF Emplace, Wake, Yield, Goto, localVars, Returns
  <2>4. CASE Check(t) \/ Sign(t) \/ Idle(t) \/ End(t) \/ Exit(t)
    BY <1>0, <2>4 DEF Check, Sign, Idle, End, Exit, Goto, localVars, Returns
  <2>5. CASE Scan(t)
    <3>1. pc[t] = "pick" /\ pc' = [pc EXCEPT ![t] = "picked"]
      BY <2>5 DEF Scan, Goto
    <3>2. CASE u # t
      BY <1>0, <2>5, <3>1, <3>2 DEF Scan, Returns
    <3>3. CASE u = t /\ Takable(t) # {}
      <4>1. PICK i \in Takable(t) : ft' = [ft EXCEPT ![t] = m_fiber_list[i]]
        BY <2>5, <3>3 DEF Scan
      <4>2. m_fiber_list[i] \in Fiber
        BY <1>0 DEF Takable
      <4> QED BY <1>0, <3>1, <3>3, <4>1, <4>2 DEF Returns
    <3> QED BY <2>5, <3>2, <3>3
  <2>6. CASE Picked(t)
    <3>1. pc[t] = "picked" /\ ft' = ft
      BY <2>6 DEF Picked, Goto, localVars
    <3>2. CASE u # t
      BY <1>0, <2>6, <3>1, <3>2 DEF Picked, Goto, Returns
    <3>3. CASE u = t
      <4>1. ft[t] \in Fiber /\ ft[t] # None
        BY <1>0, <3>1, <3>3 DEF Returns
      <4>2. Holds(t, ft[t])
        BY <3>1 DEF Holds
      <4>3. m_state[ft[t]] \notin Over
        BY <4>1, <4>2 DEF OverInv, Nowhere
      <4> QED BY <1>0, <2>6, <3>1, <3>3, <4>1, <4>3 DEF Picked, Goto, Returns
    <3> QED BY <3>2, <3>3
  <2>7. CASE SwapIn(t) \/ Arm(t) \/ YieldToHold(t) \/ YieldToReady(t) \/ Finish(t) \/ SwapOut(t)
    BY <1>0, <2>7 DEF SwapIn, Arm, YieldToHold, YieldToReady, Finish, SwapOut, Goto, localVars,
                      Returns
  <2>8. CASE Back(t)
    BY <1>0, <2>8 DEF Back, ReadyAgain, CallSchedule, Goto, Returns
  <2>9. CASE \E f \in Fiber : Spawn(t, f) \/ Dispatch(t, f)
    BY <1>0, <2>9 DEF Spawn, Dispatch, CallSchedule, Goto, Returns
  <2> QED BY <1>4, <2>1, <2>2, <2>3, <2>4, <2>5, <2>6, <2>7, <2>8, <2>9 DEF Run
<1> QED BY <1>1, <1>2, <1>3, <1>4 DEF Next

\* An entry that is new was put there by a thread that returns; and a fiber
\* that was scheduled twice stays one.
LEMMA NewEntry ==
  ASSUME Custody, Next
  PROVE  /\ \A f \in Fiber : InList(f)' => InList(f) \/ \E t \in Thread : pc'[t] = "putted"
         /\ doubled \subseteq doubled'
<1>0. pc \in [Thread -> Place] /\ m_fiber_list \in Seq(Fiber)
  BY DEF Custody, Shape
<1>1. CASE \E w \in Worker : Create(w) \/ SetId(w) \/ Notify(w)
  BY <1>1 DEF Create, SetId, Notify, ghostVars, InList
<1>2. CASE Created \/ Stop \/ Join
  BY <1>2 DEF Created, Stop, Join, ghostVars, InList
<1>3. CASE \E f \in Fiber : Give(f)
  BY <1>3 DEF Give, InList
<1>4. ASSUME NEW t \in Thread, Run(t)
      PROVE  /\ \A f \in Fiber : InList(f)' => InList(f) \/ pc'[t] = "putted"
             /\ doubled \subseteq doubled'
  <2>1. CASE StepLock(t) \/ StepUnlock(t) \/ Scheduled(t) \/ Return(t) \/ Picked(t)
    BY <2>1 DEF StepLock, StepUnlock, Scheduled, Return, Picked, ghostVars, InList
  <2>2. CASE Check(t) \/ Sign(t) \/ Idle(t) \/ Wake(t) \/ Yield(t) \/ End(t) \/ Exit(t)
    BY <2>2 DEF Check, Sign, Idle, Wake, Yield, End, Exit, ghostVars, InList
  <2>3. CASE Emplace(t)
    BY <1>0, <2>3 DEF Emplace, Goto, ghostVars
  <2>4. CASE Scan(t)
    <3>1. doubled' = doubled
      BY <2>4 DEF Scan, ghostVars
    <3>2. CASE m_fiber_list' = m_fiber_list
      BY <3>1, <3>2 DEF InList
    <3>3. ASSUME NEW i \in Takable(t), m_fiber_list' = RemoveAt(m_fiber_list, i)
          PROVE  \A f \in Fiber : InList(f)' => InList(f)
      <4>1. i \in DOMAIN m_fiber_list
        BY DEF Takable
      <4>2. \A j \in DOMAIN m_fiber_list' : \E k \in DOMAIN m_fiber_list :
              m_fiber_list'[j] = m_fiber_list[k]
        BY <1>0, <3>3, <4>1, RemoveFacts
      <4> QED BY <4>2 DEF InList
    <3> QED BY <2>4, <3>1, <3>2, <3>3 DEF Scan
  <2>5. CASE SwapIn(t) \/ YieldToHold(t) \/ YieldToReady(t) \/ Finish(t)
    BY <2>5 DEF SwapIn, YieldToHold, YieldToReady, Finish, ghostVars, InList
  <2>6. CASE Arm(t) \/ SwapOut(t)
    BY <2>6 DEF Arm, SwapOut, ghostVars, InList
  <2>7. CASE Back(t)
    BY <2>7 DEF Back, InList
  <2>8. CASE \E f \in Fiber : Spawn(t, f) \/ Dispatch(t, f)
    BY <2>8 DEF Spawn, Dispatch, ghostVars, InList
  <2> QED BY <1>4, <2>1, <2>2, <2>3, <2>4, <2>5, <2>6, <2>7, <2>8 DEF Run
<1> QED BY <1>1, <1>2, <1>3, <1>4 DEF Next

\* Whoever leaves an entry that it might take finds it executing, and whoever
\* executes it returns.
LEMMA WatchStep == Custody /\ OverInv /\ ListWatched /\ [Next]_vars => ListWatched'
<1> SUFFICES ASSUME Custody, OverInv, ListWatched, [Next]_vars PROVE ListWatched'
  OBVIOUS
<1>1. CASE UNCHANGED vars
  BY <1>1 DEF vars, localVars, ghostVars, ListWatched, InList, Returns
<1>2. CASE Next
  <2> SUFFICES ASSUME UseCaller, doubled' = {}, NEW f \in Fiber \ Pinned, InList(f)'
               PROVE  \E t \in Thread : Returns(t)'
    BY DEF ListWatched
  <2>1. doubled = {} /\ (InList(f) \/ \E t \in Thread : pc'[t] = "putted")
    BY <1>2, NewEntry
  <2>2. CASE \E t \in Thread : pc'[t] = "putted"
    BY <2>2 DEF Returns
  <2>3. CASE InList(f)
    <3>1. PICK u \in Thread : Returns(u)
      BY <2>1, <2>3 DEF ListWatched
    <3>2. CASE Returns(u)'
      BY <3>2
    <3>3. CASE Scan(u) /\ Takable(u) = {}
      <4>1. pc[u] = "pick" /\ pc' = [pc EXCEPT ![u] = "picked"]
        BY <3>3 DEF Scan, Goto
      <4>2. m_state[f] = "EXEC"
        BY <2>3, <3>3 DEF InList, Takable, MayRunOn
      <4>3. PICK v \in Thread : OnProcessor(v, f)
        BY <4>2 DEF OverInv
      <4>4. v # u /\ pc[v] \in {"fiber", "armed", "leaving", "put", "putted", "scoped"}
        BY <4>1, <4>3 DEF OnProcessor
      <4>5. pc'[v] = pc[v]
        BY <4>1, <4>4 DEF Custody, Shape
      <4> QED BY <4>4, <4>5 DEF Returns
    <3> QED BY <1>2, <2>1, <3>1, <3>2, <3>3, KeepsReturning
  <2> QED BY <2>1, <2>2, <2>3
<1> QED BY <1>1, <1>2

\* Nobody leaves the end of run() or of stop().
LEMMA JoinedStep == Shape /\ Joined /\ [Next]_vars => Joined'
<1> SUFFICES ASSUME Shape, Joined, [Next]_vars PROVE Joined'
  OBVIOUS
<1>0. pc \in [Thread -> Place] /\ Main \in Thread /\ \A w \in Worker : w \in Thread /\ w # Main
  BY PoolAssumption DEF PoolAssumption, Thread, Shape
<1>1. CASE UNCHANGED vars
  BY <1>1 DEF vars, Joined
<1>2. CASE \E w \in Worker : Create(w) \/ SetId(w) \/ Notify(w)
  BY <1>0, <1>2 DEF Create, SetId, Notify, Goto, Joined
<1>3. CASE Created \/ Stop \/ Join
  BY <1>0, <1>3 DEF Created, Stop, Join, Goto, Joined
<1>4. CASE \E f \in Fiber : Give(f)
  BY <1>0, <1>4 DEF Give, CallSchedule, Goto, Joined
<1>5. ASSUME NEW t \in Thread, Run(t) PROVE Joined'
  <2>1. /\ pc[t] \notin {"done", "ended"} \/ pc' = pc
        /\ pc'[t] # "done"
        /\ \A u \in Thread \ {t} : pc'[u] = pc[u]
    <3>1. CASE StepLock(t) \/ StepUnlock(t)
      BY <3>1 DEF StepLock, StepUnlock
    <3>2. CASE Scheduled(t) \/ Return(t)
      <4>1. pc[t] = "scoped" => back[t] \in {"user", "fiber", "pick", "yield"}
        BY DEF Shape
      <4> QED BY <1>0, <3>2, <4>1 DEF Scheduled, Return, Goto
    <3>3. CASE Emplace(t) \/ Scan(t) \/ Picked(t) \/ SwapIn(t) \/ Arm(t)
      BY <1>0, <3>3 DEF Emplace, Scan, Picked, SwapIn, Arm, Goto
    <3>4. CASE YieldToHold(t) \/ YieldToReady(t) \/ Finish(t) \/ SwapOut(t)
      BY <1>0, <3>4 DEF YieldToHold, YieldToReady, Finish, SwapOut, Goto
    <3>5. CASE Check(t) \/ Sign(t) \/ Idle(t) \/ Wake(t) \/ Yield(t) \/ End(t) \/ Exit(t)
      BY <1>0, <3>5 DEF Check, Sign, Idle, Wake, Yield, End, Exit, Goto
    <3>6. CASE Back(t)
      BY <1>0, <3>6 DEF Back, CallSchedule, Goto
    <3>7. CASE \E f \in Fiber : Spawn(t, f) \/ Dispatch(t, f)
      BY <1>0, <3>7 DEF Spawn, Dispatch, CallSchedule, Goto
    <3> QED BY <1>5, <3>1, <3>2, <3>3, <3>4, <3>5, <3>6, <3>7 DEF Run
  <2> QED BY <1>0, <2>1 DEF Joined
<1> QED BY <1>1, <1>2, <1>3, <1>4, <1>5 DEF Next

-----------------------------------------------------------------------------
\* When stop() returns, the caller having run the loop too, nothing is left in
\* the list that was not scheduled for one thread alone, unless run() had
\* scheduled some fiber twice.
THEOREM NoEntryLeft == Spec => []ListDrained
<1> DEFINE Watch == Custody /\ OverInv /\ ListWatched /\ Joined
<1>1. Init => Watch
  <2>1. Init => Custody
    BY ShapeInit, CustodyInit, OnceInit DEF Custody
  <2>2. Init => ListWatched /\ Joined
    BY PoolAssumption DEF PoolAssumption, Thread, Init, ListWatched, Joined, InList
  <2> QED BY <2>1, <2>2, OverInit
<1>2. Watch /\ [Next]_vars => Watch'
  <2>1. Custody /\ [Next]_vars => Custody'
    BY ShapeStep, CustodyStep, OnceStep DEF Custody
  <2>2. Custody /\ Joined /\ [Next]_vars => Joined'
    BY JoinedStep DEF Custody
  <2> QED BY <2>1, <2>2, OverStep, WatchStep
<1>3. Watch => ListDrained
  <2> SUFFICES ASSUME Watch, pc[Main] = "done", UseCaller, doubled = {},
                      NEW i \in DOMAIN m_fiber_list, m_fiber_list[i] \notin Pinned
               PROVE  FALSE
    BY DEF ListDrained, ToSet
  <2>1. m_fiber_list[i] \in Fiber \ Pinned /\ InList(m_fiber_list[i])
    BY DEF Custody, Shape, InList
  <2>2. \A t \in Thread : ~Returns(t)
    BY DEF Joined, Thread, Returns
  <2> QED BY <2>1, <2>2 DEF ListWatched
<1> QED BY <1>1, <1>2, <1>3, PTL DEF Spec
=============================================================================
