------------------------------ MODULE FlagLock ------------------------------
(***************************************************************************)
(* Mutex and SpinLock of thread.cpp: a pthread lock behind a plain bool.   *)
(* lock() returns at once when it finds the flag set, whoever set it, and  *)
(* unlock() when it finds it clear; so a thread can be inside without the  *)
(* pthread lock, can release another's, and can leave its own locked.      *)
(* A ScopeLockImpl (thread.h) calls unlock() at the end of its scope,      *)
(* whether or not its owner has done so before: the flag and the lock it   *)
(* finds then may be those of a thread that is inside.                     *)
(***************************************************************************)
CONSTANTS Thread, Free
VARIABLES m_is_locked,  \* the flag
          m_mutex,      \* who has the pthread lock, or Free
          at            \* how far each thread is in lock() or unlock()

InitLock == m_is_locked = FALSE /\ m_mutex = Free /\ at = [t \in Thread |-> "out"]

Go(t, phase) == at' = [at EXCEPT ![t] = phase]

\* if(m_is_locked) return;
TestFlag(t) ==
  /\ at[t] = "out"
  /\ Go(t, IF m_is_locked THEN "in" ELSE "set")
  /\ UNCHANGED <<m_is_locked, m_mutex>>

\* m_is_locked = true;
SetFlag(t) ==
  /\ at[t] = "set"
  /\ m_is_locked' = TRUE
  /\ Go(t, "acquire")
  /\ UNCHANGED m_mutex

\* pthread_mutex_lock
Acquire(t) ==
  /\ at[t] = "acquire" /\ m_mutex = Free
  /\ m_mutex' = t
  /\ Go(t, "in")
  /\ UNCHANGED m_is_locked

\* lock(), one step of it.
Lock(t) == TestFlag(t) \/ SetFlag(t) \/ Acquire(t)

\* ~ScopeLockImpl of a guard whose owner has unlocked already: unlock() again.
EndOfScope(t) ==
  /\ at[t] = "out"
  /\ Go(t, "guard")
  /\ UNCHANGED <<m_is_locked, m_mutex>>

\* if(!m_is_locked) return;
TestLocked(t) ==
  /\ at[t] \in {"in", "guard"}
  /\ Go(t, IF m_is_locked THEN "clear" ELSE "out")
  /\ UNCHANGED <<m_is_locked, m_mutex>>

\* m_is_locked = false;
ClearFlag(t) ==
  /\ at[t] = "clear"
  /\ m_is_locked' = FALSE
  /\ Go(t, "release")
  /\ UNCHANGED m_mutex

\* pthread_mutex_unlock, of whoever's lock it is.
Release(t) ==
  /\ at[t] = "release"
  /\ m_mutex' = Free
  /\ Go(t, "out")
  /\ UNCHANGED m_is_locked

\* unlock(), one step of it.
Unlock(t) == TestLocked(t) \/ ClearFlag(t) \/ Release(t)

Inside == {t \in Thread : at[t] = "in"}
=============================================================================
