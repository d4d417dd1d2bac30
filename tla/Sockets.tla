------------------------------- MODULE Sockets -------------------------------
(***************************************************************************)
(* socket.cpp: Socket objects over the hooked calls of Descriptors.  A     *)
(* caller that is in an operation of an object makes one hooked call after *)
(* the other; step[c] is the operation, the object, and what its return is *)
(* waited for.                                                             *)
(*                                                                         *)
(* The addresses an object caches, and the options it sets at creation,    *)
(* are left out; bind without the probe of a UNIX path.                    *)
(***************************************************************************)
EXTENDS Descriptors

CONSTANTS Socket,       \* the objects
          ConnectLimits,\* time limits of connect; -1, none, is the default
          MaxCalls      \* bound: operations begun

VARIABLES
  m_sock,           \* object -> its descriptor, or -1
  m_is_connected,   \* object -> connect succeeded, or accept made it
  step,             \* caller -> the operation it is in
  calls             \* operations begun

\* Ghosts: the file an object opened; two callers changed one object at once.
VARIABLES own, clash

objectVars == <<m_sock, m_is_connected, own>>
vars == <<fdVars, objectVars, step, calls, clash>>

Resting == [op |-> "none", on |-> Nobody, wait |-> "none"]

Init ==
  /\ InitDescriptors
  /\ m_sock = [s \in Socket |-> -1] /\ m_is_connected = [s \in Socket |-> FALSE]
  /\ own = [s \in Socket |-> NoFile]
  /\ step = [c \in Caller |-> Resting] /\ calls = 0 /\ clash = FALSE

-----------------------------------------------------------------------------
Free(c) == step[c] = Resting /\ call[c] = Idle /\ calls < MaxCalls /\ failure = "none"

\* Operations that change an object, of which one at least replaces or closes
\* its descriptor: two callers at once in them are a clash.
Replacing == {"connect", "bind", "close"}
Clashes(c, op, s) ==
  \E d \in Caller \ {c} :
    /\ step[d].on = s /\ {op, step[d].op} \subseteq Replacing \union {"set"}
    /\ {op, step[d].op} # {"set"}

Enter(c, op, s, wait) ==
  /\ calls' = calls + 1
  /\ step' = [step EXCEPT ![c] = [op |-> op, on |-> s, wait |-> wait]]
  /\ clash' = (clash \/ Clashes(c, op, s))

\* The operation is over; its hooked call leaves no trace.
Leave(c) ==
  /\ step' = [step EXCEPT ![c] = Resting]
  /\ call' = [call EXCEPT ![c] = Idle]
  /\ UNCHANGED <<kernelVars, waiter, tableVars, failure, ghostVars, calls>>

\* The next hooked call of the same operation.
Then(c, wait, op, n, want) ==
  /\ step' = [step EXCEPT ![c].wait = wait]
  /\ Begin(c, op, n, want)
  /\ UNCHANGED calls

Back(c, op, wait) ==
  /\ step[c].op = op /\ step[c].wait = wait
  /\ HasReturned(c) /\ failure = "none"

-----------------------------------------------------------------------------
\* connect() and bind() make the descriptor if the object has none.
Connect(c, s, limit) ==
  /\ IF m_sock[s] = -1
     THEN Enter(c, "connect", s, "socket") /\ Begin(c, "socket", -1, limit)
     ELSE Enter(c, "connect", s, "connect") /\ Begin(c, "connect", m_sock[s], limit)
  /\ UNCHANGED objectVars

Bind(c, s) ==
  /\ m_sock[s] = -1
  /\ Enter(c, "bind", s, "socket") /\ Begin(c, "socket", -1, NoLimit)
  /\ UNCHANGED objectVars

\* create_sock.  An object without a descriptor gives up.
CreateSock(c) ==
  LET s == step[c].on
      n == call[c].fd
  IN  /\ Back(c, step[c].op, "socket")
      /\ IF call[c].rt = 1
         THEN /\ m_sock' = [m_sock EXCEPT ![s] = n]
              /\ own' = [own EXCEPT ![s] = fdtable[n]]
         ELSE UNCHANGED <<m_sock, own>>
      /\ IF step[c].op = "connect" /\ call[c].rt = 1
         THEN Then(c, "connect", "connect", n, call[c].want) ELSE Leave(c)
      /\ UNCHANGED <<m_is_connected, clash>>

Connected(c) ==
  /\ Back(c, "connect", "connect") /\ call[c].rt = 0
  /\ m_is_connected' = [m_is_connected EXCEPT ![step[c].on] = TRUE]
  /\ Leave(c)
  /\ UNCHANGED <<m_sock, own, clash>>

\* Fault: the descriptor is forgotten without being closed.
ConnectGivesUp(c) ==
  /\ Back(c, "connect", "connect") /\ call[c].rt = -1
  /\ m_sock' = [m_sock EXCEPT ![step[c].on] = -1]
  /\ m_is_connected' = [m_is_connected EXCEPT ![step[c].on] = FALSE]
  /\ Leave(c)
  /\ UNCHANGED <<own, clash>>

\* connect() closes the object when it fails.
ConnectFailed(c) ==
  LET s == step[c].on
  IN  /\ Back(c, "connect", "connect") /\ call[c].rt = -1
      /\ m_is_connected' = [m_is_connected EXCEPT ![s] = FALSE]
      /\ IF m_sock[s] = -1 THEN Leave(c)
         ELSE Then(c, "close", "close", m_sock[s], NoLimit)
      /\ UNCHANGED <<m_sock, own, clash>>

\* close(), and the destructor: idempotent for one caller at a time, for m_sock
\* is cleared only after ::close has come back.
Close(c, s) ==
  /\ (m_is_connected[s] \/ m_sock[s] # -1)
  /\ m_is_connected' = [m_is_connected EXCEPT ![s] = FALSE]
  /\ Enter(c, "close", s, "close")
  /\ IF m_sock[s] # -1 THEN Begin(c, "close", m_sock[s], NoLimit)
     ELSE /\ call' = [call EXCEPT ![c].at = "done"]
          /\ UNCHANGED <<kernelVars, waiter, tableVars, failure, ghostVars>>
  /\ UNCHANGED <<m_sock, own>>

\* Fault: the number stays in the object.
ClosedKept(c) ==
  /\ \E op \in {"connect", "close"} : Back(c, op, "close")
  /\ Leave(c)
  /\ UNCHANGED <<m_sock, m_is_connected, own, clash>>

Closed(c) ==
  /\ \E op \in {"connect", "close"} : Back(c, op, "close")
  /\ m_sock' = [m_sock EXCEPT ![step[c].on] = -1]
  /\ Leave(c)
  /\ UNCHANGED <<m_is_connected, own, clash>>

-----------------------------------------------------------------------------
\* An object that has never done anything: as good as not constructed yet.
Unused(s) == own[s] = NoFile /\ \A c \in Caller : step[c].on # s

\* accept() makes the new object first and fills it if the descriptor has the
\* context of an open socket; else the descriptor is left to nobody.
Accept(c, s) ==
  /\ m_sock[s] # -1
  /\ Enter(c, "accept", s, "accept") /\ Begin(c, "accept", m_sock[s], NoLimit)
  /\ UNCHANGED objectVars

Accepts(c) ==
  /\ Back(c, "accept", "accept")
  /\ IF call[c].rt = 1 THEN Then(c, "create", "get", call[c].fd, NoLimit) ELSE Leave(c)
  /\ UNCHANGED <<objectVars, clash>>

CreateSockFromSockfd(c) ==
  /\ Back(c, "accept", "create")
  /\ IF HasContext(c) /\ Context(c).is_socket /\ Context(c).is_init
     THEN \E s \in Socket :
            /\ Unused(s)
            /\ m_sock' = [m_sock EXCEPT ![s] = call[c].fd]
            /\ own' = [own EXCEPT ![s] = fdtable[call[c].fd]]
            /\ m_is_connected' = [m_is_connected EXCEPT ![s] = TRUE]
     ELSE UNCHANGED objectVars
  /\ Leave(c)
  /\ UNCHANGED clash

\* send, recv and the like, for a connected object; without hooks they are
\* system calls and nothing else.
Transfer(c, s) ==
  /\ c \in Hooked /\ m_is_connected[s] /\ m_sock[s] # -1
  /\ Enter(c, "io", s, "io") /\ Begin(c, "io", m_sock[s], NoLimit)
  /\ UNCHANGED objectVars

SetRecvTimeout(c, s, limit) ==
  /\ m_sock[s] # -1
  /\ Enter(c, "set", s, "io") /\ Begin(c, "set_timeout", m_sock[s], limit)
  /\ UNCHANGED objectVars

\* Calls on the descriptor itself, which get_socket() gives away.
Direct(c, s, op, want) ==
  /\ m_sock[s] # -1
  /\ Enter(c, "set", s, "io") /\ Begin(c, op, m_sock[s], want)
  /\ UNCHANGED objectVars

Other(c) ==
  /\ OpenOther(c)
  /\ calls' = calls + 1
  /\ UNCHANGED <<objectVars, step, clash>>

Finished(c) ==
  /\ Back(c, "io", "io") \/ Back(c, "set", "io")
  /\ Leave(c)
  /\ UNCHANGED <<objectVars, clash>>

\* A caller at rest begins an operation.
Begins(c) ==
  /\ Free(c)
  /\ \/ \E s \in Socket :
          \/ Bind(c, s) \/ Close(c, s) \/ Accept(c, s) \/ Transfer(c, s)
          \/ \E limit \in ConnectLimits : Connect(c, s, limit)
          \/ \E limit \in Limits : SetRecvTimeout(c, s, limit)
          \/ \E op \in {"set_flags", "ioctl", "fionbio"} : Direct(c, s, op, 0)
     \/ c \notin Hooked /\ Other(c)

Acts(c) ==
  \/ Step(c) /\ UNCHANGED <<objectVars, step, calls, clash>>
  \/ CreateSock(c) \/ Connected(c) \/ ConnectFailed(c) \/ Closed(c)
  \/ Accepts(c) \/ CreateSockFromSockfd(c) \/ Finished(c)
  \/ Begins(c)

\* Nothing is modelled of what follows a clash.
Next ==
  /\ ~clash
  /\ \/ \E n \in Number : Ready(n) /\ UNCHANGED <<objectVars, step, calls, clash>>
     \/ \E c \in Caller : Acts(c)

Spec == Init /\ [][Next]_vars

-----------------------------------------------------------------------------
\* A call that has just made or closed the descriptor n.
InHand(n) ==
  \E c \in Caller : call[c].fd = n /\ step[c].wait \in {"socket", "accept", "create"}
Closing(s) ==
  \E c \in Caller : step[c].on = s /\ step[c].wait = "close" /\ call[c].at = "done"

\* Objects and open sockets belong together one to one: the number an object
\* holds stands for the file the object opened and is held by no other object,
\* and an open socket has an object or is on its way to one.  A second close, a
\* failed connect, an accept whose look-up fails could break it; excepted are
\* objects changed by two callers at once and, for accept, numbers whose
\* context was spoilt before.
HandlesExact ==
  ~clash =>
    /\ \A s \in Socket :
         m_sock[s] # -1 /\ ~Closing(s) =>
           /\ fdtable[m_sock[s]] = own[s]
           /\ \A t \in Socket \ {s} : m_sock[t] = m_sock[s] => Closing(t)
    /\ \A n \in Number :
         IsOpen(n) /\ FileOf(n).socket =>
           (\E s \in Socket : m_sock[s] = n /\ own[s] = fdtable[n]) \/ InHand(n) \/ n \in undercut
=============================================================================
