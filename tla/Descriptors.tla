----------------------------- MODULE Descriptors -----------------------------
(***************************************************************************)
(* fd_manager.cpp and the hooked calls on descriptors of hook.cpp: a table *)
(* of contexts by descriptor number beside the kernel's own table, which   *)
(* several callers (fibers, each on whatever worker runs it, and threads   *)
(* without hooks) use at once.  A call is a record that goes from step to  *)
(* step; a step is one access to the table, or one system call.            *)
(*                                                                         *)
(* Only the receive side is here: send_timeout and WRITE are alike.        *)
(***************************************************************************)
EXTENDS Integers, Sequences, FiniteSets, FiniteSetsExt

CONSTANTS Caller,       \* who makes calls
          Hooked,       \* the callers with t_hook_enable set
          FirstSlots,   \* size of a new table; 64 in the code
          Inherited,    \* files open before: standard input, the epoll instance
          Limits,       \* time limits callers set, in milliseconds
          MaxFd,        \* bound: the largest number the kernel hands out
          MaxFiles      \* bound: files opened

ASSUME CallerAssumption ==
  Hooked \subseteq Caller /\ IsFiniteSet(Caller) /\ "nobody" \notin Caller
ASSUME SlotsAssumption == FirstSlots \in Nat /\ FirstSlots > 1
ASSUME BoundsAssumption == Inherited \in Nat /\ MaxFd \in Nat

VARIABLES
  fdtable,    \* the kernel: number -> file, or NoFile
  files,      \* the kernel: what each file ever opened is
  registered, \* epoll: number -> the file it watches there, or NoFile
  waiter,     \* IOManager: number and event -> who waits for it, or Nobody
  slots,      \* m_datas.size()
  m_datas,    \* number -> the context there, or NoContext
  contexts,   \* the contexts in use: m_datas and calls share them
  call,       \* caller -> the hooked call it is in
  failure     \* "none", or what undefined behaviour was met

\* What callers did that the table could not know of, or two at once:
VARIABLES
  undercut,   \* numbers closed past the hooks or the table's end, used while
              \* or after another closed them, or waited for by two
  crossed     \* numbers whose settings were changed past it, or by two

kernelVars == <<fdtable, files, registered>>
tableVars == <<slots, m_datas, contexts>>
ghostVars == <<undercut, crossed>>
fdVars == <<kernelVars, waiter, tableVars, call, failure, ghostVars>>

Number == 0 .. MaxFd
NoFile == 0
NoContext == 0
NoLimit == -1
Nobody == "nobody"
Event == {"READ", "WRITE"}
Idle == [op |-> "none", at |-> "idle", fd |-> -1, want |-> NoLimit,
         ctx |-> NoContext, limit |-> NoLimit, cancelled |-> FALSE, rt |-> 0]

\* As many contexts as the table and the calls can refer to.
ContextId == 1 .. (MaxFd + 1 + Cardinality(Caller))
Blank == [is_init |-> FALSE, is_socket |-> FALSE, sys_non_block |-> FALSE,
          recv_timeout |-> NoLimit, of |-> NoFile]
Referred == {m_datas[n] : n \in Number} \union {call[c].ctx : c \in Caller}

NewFile(socket) == [socket |-> socket, nonblock |-> FALSE, limit |-> NoLimit]

InitDescriptors ==
  /\ fdtable = [n \in Number |-> IF n < Inherited THEN n + 1 ELSE NoFile]
  /\ files = [f \in 1 .. Inherited |-> NewFile(FALSE)]
  /\ registered = [n \in Number |-> NoFile] /\ waiter = [w \in Number \X Event |-> Nobody]
  /\ slots = FirstSlots
  /\ m_datas = [n \in Number |-> NoContext]
  /\ contexts = [k \in ContextId |-> Blank]
  /\ call = [c \in Caller |-> Idle] /\ failure = "none"
  /\ undercut = {} /\ crossed = {}

-----------------------------------------------------------------------------
\* The events somebody waits for, and the one a call waits for.
Waits(n) == {e \in Event : waiter[<<n, e>>] # Nobody}
EventOf(c) == IF call[c].op = "connect" THEN "WRITE" ELSE "READ"

\* The kernel's part: the lowest free number, a file that blocks.
CanOpen == Len(files) < MaxFiles /\ \E n \in Number : fdtable[n] = NoFile
NewNumber == Min({n \in Number : fdtable[n] = NoFile})

Opens(socket) ==
  /\ CanOpen
  /\ files' = Append(files, NewFile(socket))
  /\ fdtable' = [fdtable EXCEPT ![NewNumber] = Len(files) + 1]
  /\ LET untouched == /\ m_datas[NewNumber] = NoContext /\ Waits(NewNumber) = {}
                       /\ \A c \in Caller : call[c].fd # NewNumber
     IN  /\ undercut' = IF untouched THEN undercut \ {NewNumber} ELSE undercut
         /\ crossed' = IF untouched THEN crossed \ {NewNumber} ELSE crossed

IsOpen(n) == n \in Number /\ fdtable[n] # NoFile
FileOf(n) == files[fdtable[n]]
Context(c) == contexts[call[c].ctx]
HasContext(c) == call[c].ctx # NoContext

Goes(c, step) == call' = [call EXCEPT ![c].at = step]
\* Only what the call returned is left of it.
Returns(c, rt) ==
  call' = [call EXCEPT ![c] = [Idle EXCEPT !.op = call[c].op, !.fd = call[c].fd,
                                           !.at = "done", !.rt = rt]]
Within(c, op, step) == failure = "none" /\ call[c].op = op /\ call[c].at = step

\* Another caller is inside close(n), past its cancel_all.
BeingClosed(c, n) ==
  \E d \in Caller \ {c} : /\ call[d].op = "close" /\ call[d].fd = n
                          /\ call[d].at \in {"drop", "system"}
\* A step on a number that another is closing or has closed.
Treads(c, n) ==
  undercut' = IF BeingClosed(c, n) \/ (n \in Number /\ ~IsOpen(n))
              THEN undercut \union {n} ELSE undercut

Changing == {"close", "set_timeout", "set_flags", "ioctl"}
Collides(c, op, n) ==
  \E d \in Caller \ {c} : /\ call[d].fd = n /\ call[d].op \in Changing
                          /\ call[d].at \notin {"idle", "done"} /\ op \in Changing

\* A call begins.  fcntl looks the context up with hooks off too, and so does
\* who asks for the context itself; the others go straight to the system then,
\* and ioctl(FIONBIO) always.
Straight(c, op) ==
  (c \notin Hooked /\ op \notin {"set_flags", "get"}) \/ op \in {"socket", "fionbio"}
Begin(c, op, n, want) ==
  /\ call' = [call EXCEPT ![c] = [Idle EXCEPT
       !.op = op, !.fd = n, !.want = want,
       !.at = IF Straight(c, op) THEN "system" ELSE "look"]]
  /\ crossed' = IF Collides(c, op, n) THEN crossed \union {n} ELSE crossed
  /\ UNCHANGED <<kernelVars, waiter, tableVars, failure, undercut>>

-----------------------------------------------------------------------------
\* add_or_get_fdctx, with auto_create for a descriptor just opened.
Opened(c) == call[c].op \in {"socket", "accept"} /\ call[c].rt # 0

\* Fault: the table is left as it is.
GrownToo(n) == slots

\* m_datas.resize(m_datas.size() * 1.5), once and whatever fd is.
Grown(n) == (slots * 3) \div 2

\* The first look: no slot, a slot out of range, an empty entry, or a context.
LookUp(c) ==
  LET n == call[c].fd
      size == IF n >= slots /\ Opened(c) THEN Grown(n) ELSE slots
  IN  /\ failure = "none" /\ call[c].at = "look"
      /\ slots' = size
      /\ IF n >= size
         THEN IF Opened(c)
              THEN failure' = "out_of_range" /\ UNCHANGED call
              ELSE Goes(c, "use") /\ UNCHANGED failure
         ELSE /\ UNCHANGED failure
              /\ call' = [call EXCEPT
                   ![c].at = IF m_datas[n] = NoContext THEN "make" ELSE "use",
                   ![c].ctx = m_datas[n]]
      /\ Treads(c, n)
      /\ UNCHANGED <<kernelVars, waiter, m_datas, contexts, crossed>>

\* Fault: the descriptor is left blocking.
FdContextBlocking(n) ==
  [is_init |-> IsOpen(n), is_socket |-> IsOpen(n) /\ FileOf(n).socket,
   sys_non_block |-> FALSE, recv_timeout |-> NoLimit, of |-> fdtable[n]]

\* The constructor of FdContext; "of" is a ghost, the file it looked at.
FdContext(n) ==
  LET socket == IsOpen(n) /\ FileOf(n).socket
  IN  [is_init |-> IsOpen(n), is_socket |-> socket, sys_non_block |-> socket,
       recv_timeout |-> NoLimit, of |-> fdtable[n]]

\* The entry was empty: a context is made, the socket set to non-blocking, and
\* the entry overwritten even if another caller has filled it meanwhile.
MakeContext(c) ==
  LET n == call[c].fd
      k == Min(ContextId \ Referred)
  IN  /\ failure = "none" /\ call[c].at = "make"
      /\ contexts' = [j \in ContextId |-> CASE j = k -> FdContext(n)
                                           [] j \in Referred -> contexts[j]
                                           [] OTHER -> Blank]
      /\ m_datas' = [m_datas EXCEPT ![n] = k]
      /\ files' = IF IsOpen(n) /\ FileOf(n).socket
                  THEN [files EXCEPT ![fdtable[n]].nonblock = TRUE] ELSE files
      /\ call' = [call EXCEPT ![c].at = "use", ![c].ctx = k]
      /\ Treads(c, n)
      /\ crossed' = IF m_datas[n] # NoContext THEN crossed \union {n} ELSE crossed
      /\ UNCHANGED <<fdtable, registered, waiter, slots, failure>>

-----------------------------------------------------------------------------
\* do_io and connect_with_timeout on the context: refuse a descriptor that is
\* not one, pass through what is no socket or blocks, else try.
UseInCall(c) ==
  /\ \/ Within(c, "io", "use") \/ Within(c, "connect", "use")
     \/ Within(c, "accept", "use") /\ ~Opened(c)
  /\ \/ /\ IF HasContext(c) THEN ~Context(c).is_init ELSE call[c].op = "connect"
        /\ Returns(c, -1)
     \/ /\ IF HasContext(c)
           THEN Context(c).is_init /\ ~(Context(c).is_socket /\ Context(c).sys_non_block)
           ELSE call[c].op # "connect"
        /\ Goes(c, "system")
     \/ /\ HasContext(c)
        /\ Context(c).is_init /\ Context(c).is_socket /\ Context(c).sys_non_block
        /\ call' = [call EXCEPT ![c].at = "try",
             ![c].limit = IF call[c].op = "connect" THEN call[c].want
                          ELSE Context(c).recv_timeout]
  /\ UNCHANGED <<kernelVars, waiter, tableVars, failure, ghostVars>>

\* A call is over when it has returned, or as soon as the context it looked up
\* is in its hands: socket() and accept() have then entered the descriptor.
HasReturned(c) ==
  call[c].at = "done" \/ (call[c].at = "use" /\ (Opened(c) \/ call[c].op = "get"))

\* Fault: the user's flags are not remembered.
RecordedNot(c, ctx) == ctx

\* What fcntl(F_SETFL), ioctl and setsockopt write into the context.  ioctl
\* tests its request the wrong way round, so this is any but FIONBIO.
Recorded(c, ctx) ==
  CASE call[c].op = "set_timeout" -> [ctx EXCEPT !.recv_timeout = call[c].want]
    [] call[c].op \in {"set_flags", "ioctl"} /\ ctx.is_socket ->
         [ctx EXCEPT !.sys_non_block = (call[c].want = 1)]
    [] OTHER -> ctx

UseInSetting(c) ==
  /\ failure = "none" /\ call[c].at = "use"
  /\ call[c].op \in {"set_timeout", "set_flags", "ioctl"}
  /\ contexts' = IF HasContext(c)
                 THEN [contexts EXCEPT ![call[c].ctx] = Recorded(c, @)] ELSE contexts
  /\ Goes(c, "system")
  /\ UNCHANGED <<kernelVars, waiter, slots, m_datas, failure, ghostVars>>

-----------------------------------------------------------------------------
\* The waiters of n for some events are scheduled and the events disarmed; not
\* when epoll does not know the number any more.
Wakes(n, events, then) ==
  LET hit == events \intersect Waits(n)
      woken == {waiter[<<n, e>>] : e \in hit}
  IN  IF hit # {} /\ registered[n] # NoFile
      THEN /\ call' = [c \in Caller |->
                        IF c \in woken /\ then[c].at = "parked"
                        THEN [then[c] EXCEPT !.at = "woken"] ELSE then[c]]
           /\ waiter' = [w \in Number \X Event |->
                           IF w[1] = n /\ w[2] \in hit THEN Nobody ELSE waiter[w]]
           /\ registered' = IF hit = Waits(n) THEN [registered EXCEPT ![n] = NoFile]
                            ELSE registered
      ELSE call' = then /\ UNCHANGED <<waiter, registered>>

\* Fault: the waits of the descriptor stay armed.
CancelAllNot(c) ==
  /\ Within(c, "close", "use")
  /\ Goes(c, IF HasContext(c) THEN "drop" ELSE "system")
  /\ UNCHANGED <<kernelVars, waiter, tableVars, failure, ghostVars>>

\* close(): first every wait on the number is cancelled,
CancelAll(c) ==
  /\ Within(c, "close", "use")
  /\ IF HasContext(c)
     THEN Wakes(call[c].fd, Event, [call EXCEPT ![c].at = "drop"])
     ELSE Goes(c, "system") /\ UNCHANGED <<waiter, registered>>
  /\ UNCHANGED <<fdtable, files, tableVars, failure, ghostVars>>

\* Fault: the context stays in the table.
DropNothing(c) ==
  /\ Within(c, "close", "drop")
  /\ Goes(c, "system")
  /\ UNCHANGED <<kernelVars, waiter, tableVars, failure, ghostVars>>

\* del_fdctx: then the context leaves the table,
DelFdctx(c) ==
  /\ Within(c, "close", "drop")
  /\ m_datas' = [m_datas EXCEPT ![call[c].fd] = NoContext]
  /\ Goes(c, "system")
  /\ UNCHANGED <<kernelVars, waiter, slots, contexts, failure, ghostVars>>

\* and then the kernel closes the descriptor.  A caller without hooks comes
\* here at once, and one whose look-up was past the end of the table does
\* without cancelling; they leave behind what context and waits there are.
CloseDescriptor(c) ==
  LET n == call[c].fd
  IN  /\ Within(c, "close", "system")
      /\ Returns(c, 0)
      /\ fdtable' = [fdtable EXCEPT ![n] = NoFile]
      /\ files' = IF IsOpen(n) THEN [files EXCEPT ![fdtable[n]] = NewFile(FALSE)] ELSE files
      /\ registered' = [registered EXCEPT ![n] = NoFile]
      /\ undercut' = IF m_datas[n] # NoContext \/ Waits(n) # {}
                     THEN IF HasContext(c) THEN undercut ELSE undercut \union {n}
                     ELSE undercut
      /\ UNCHANGED <<waiter, tableVars, failure, crossed>>

-----------------------------------------------------------------------------
\* socket(), and open() or pipe(), which are not hooked.
OpenSocket(c) ==
  /\ Within(c, "socket", "system")
  /\ \/ /\ Opens(TRUE)
        /\ call' = [call EXCEPT ![c].fd = NewNumber, ![c].rt = 1,
                                ![c].at = IF c \in Hooked THEN "look" ELSE "done"]
     \/ /\ ~CanOpen /\ Returns(c, -1)
        /\ UNCHANGED <<files, fdtable, ghostVars>>
  /\ UNCHANGED <<registered, waiter, tableVars, failure>>

OpenOther(c) ==
  /\ call[c].at = "idle" /\ failure = "none"
  /\ Opens(FALSE)
  /\ UNCHANGED <<registered, waiter, tableVars, failure, call>>

\* The system call of read, recv, connect, accept: fails on a number that is
\* not open; else it ends (how, only matters of connect) or, for accept, gives a
\* new descriptor that is looked up with hooks on or off; on a non-blocking file
\* that is not ready a hooked call is told so.
Ends(c) ==
  /\ \E rt \in {-1} \union (IF IsOpen(call[c].fd) THEN {0} ELSE {}) :
       /\ rt = 0 => call[c].op = "connect"
       /\ Returns(c, rt)
  /\ Treads(c, call[c].fd)
  /\ UNCHANGED <<kernelVars, crossed>>

Accepted(c) ==
  /\ call[c].op = "accept" /\ IsOpen(call[c].fd)
  /\ Opens(TRUE)
  /\ call' = [call EXCEPT ![c].fd = NewNumber, ![c].rt = 1, ![c].at = "look"]
  /\ UNCHANGED <<registered>>

MustWait(c) ==
  /\ call[c].at = "try" /\ IsOpen(call[c].fd) /\ FileOf(call[c].fd).nonblock
  /\ Goes(c, "park")
  /\ Treads(c, call[c].fd)
  /\ UNCHANGED <<kernelVars, crossed>>

SystemCall(c) ==
  /\ failure = "none" /\ call[c].at \in {"try", "system"}
  /\ call[c].op \in {"io", "accept", "connect"}
  /\ Ends(c) \/ Accepted(c) \/ MustWait(c)
  /\ UNCHANGED <<waiter, tableVars, failure>>

\* setsockopt, fcntl and ioctl pass the user's value on.
SetInKernel(c) ==
  LET n == call[c].fd
      f == fdtable[n]
      bypass == call[c].op \in {"ioctl", "fionbio"} \/ ~HasContext(c)
  IN  /\ failure = "none" /\ call[c].at = "system"
      /\ call[c].op \in {"set_timeout", "set_flags", "ioctl", "fionbio"}
      /\ files' = IF ~IsOpen(n) THEN files
                  ELSE CASE call[c].op = "set_timeout" -> [files EXCEPT ![f].limit = call[c].want]
                         [] call[c].op = "ioctl" -> files
                         [] OTHER -> [files EXCEPT ![f].nonblock = (call[c].want = 1)]
      /\ crossed' = IF bypass THEN crossed \union {n} ELSE crossed
      /\ Returns(c, 0)
      /\ UNCHANGED <<fdtable, registered, waiter, tableVars, failure, undercut>>

-----------------------------------------------------------------------------
\* add_event and YieldToHold.  add_event modifies what epoll watches if an event
\* is armed and adds the file otherwise, and may fail: then do_io cancels its
\* timer, through a null pointer if there is none, and connect waits all the same.
EventAdded(n) == IF Waits(n) = {} THEN IsOpen(n) ELSE registered[n] # NoFile

Park(c) ==
  LET n == call[c].fd
  IN  /\ failure = "none" /\ call[c].at = "park"
      /\ IF EventAdded(n)
         THEN /\ waiter' = [waiter EXCEPT ![<<n, EventOf(c)>>] = c]
              /\ registered' = [registered EXCEPT ![n] = fdtable[n]]
              /\ Goes(c, "parked")
              /\ UNCHANGED failure
         ELSE /\ UNCHANGED <<waiter, registered>>
              /\ IF call[c].op = "connect"
                 THEN /\ call' = [call EXCEPT ![c].at = "parked", ![c].limit = NoLimit]
                      /\ UNCHANGED failure
                 ELSE IF call[c].limit = NoLimit
                      THEN failure' = "null_timer" /\ UNCHANGED call
                      ELSE Returns(c, -1) /\ UNCHANGED failure
      /\ undercut' = IF BeingClosed(c, n) \/ ~EventAdded(n) \/ EventOf(c) \in Waits(n)
                     THEN undercut \union {n} ELSE undercut
      /\ UNCHANGED <<fdtable, files, tableVars, crossed>>

\* epoll reports the number.
Ready(n) ==
  /\ failure = "none" /\ registered[n] # NoFile
  /\ \E events \in SUBSET Waits(n) \ {{}} : Wakes(n, events, call)
  /\ UNCHANGED <<fdtable, files, tableVars, failure, ghostVars>>

\* The timer of c's call: the call is marked and the event of the number
\* cancelled, whoever waits for it now.
TimeLimit(c) ==
  /\ failure = "none" /\ call[c].limit # NoLimit
  /\ call[c].at \in {"parked", "woken"} /\ ~call[c].cancelled
  /\ Wakes(call[c].fd, {EventOf(c)}, [call EXCEPT ![c].cancelled = TRUE])
  /\ UNCHANGED <<fdtable, files, tableVars, failure, ghostVars>>

\* The fiber goes on: it gives up if its time was up; do_io tries again,
\* connect asks for the error and returns.
Resume(c) ==
  /\ failure = "none" /\ call[c].at = "woken"
  /\ \/ call[c].cancelled /\ Returns(c, -1)
     \/ ~call[c].cancelled /\ call[c].op # "connect" /\ Goes(c, "try")
     \/ /\ ~call[c].cancelled /\ call[c].op = "connect"
        /\ \E rt \in (IF IsOpen(call[c].fd) THEN {-1, 0} ELSE {-1}) : Returns(c, rt)
  /\ UNCHANGED <<kernelVars, waiter, tableVars, failure, ghostVars>>

Step(c) ==
  \/ LookUp(c) \/ MakeContext(c)
  \/ UseInCall(c) \/ UseInSetting(c)
  \/ CancelAll(c) \/ DelFdctx(c) \/ CloseDescriptor(c)
  \/ OpenSocket(c) \/ SystemCall(c) \/ SetInKernel(c)
  \/ Park(c) \/ TimeLimit(c) \/ Resume(c)

-----------------------------------------------------------------------------
\* A number in use by no changing call.
Settled(n) ==
  \A c \in Caller : call[c].fd = n /\ call[c].at # "done" =>
                      call[c].op \notin Changing \union {"fionbio"}

\* The context of an open number is that of the file behind it: it knows if it
\* is a socket, what its flags are and what time limit was set last.  Hazards
\* are del_fdctx and close in two steps, contexts made under a read lock, flags
\* written in two places.  Excepted are numbers that were closed past the hooks
\* or used by one caller while another was closing them; and, for settings, those
\* that two callers changed, ioctl, or a call whose look-up found no context.
ContextCurrent ==
  \A n \in Number :
    IsOpen(n) /\ m_datas[n] # NoContext /\ n \notin undercut /\ Settled(n) =>
      LET ctx == contexts[m_datas[n]]
      IN  /\ ctx.of = fdtable[n] /\ ctx.is_init /\ ctx.is_socket = FileOf(n).socket
          /\ n \notin crossed =>
               /\ ctx.is_socket => ctx.sys_non_block = FileOf(n).nonblock
               /\ ctx.recv_timeout = FileOf(n).limit

\* The table grows once when it is too small, by half.  That is enough as long
\* as descriptors are entered in the order of their numbers: its end is only run
\* past if a smaller number past the first slots has no entry.
TableInRange ==
  failure = "out_of_range" =>
    \E c \in Caller : \E n \in FirstSlots .. (call[c].fd - 1) :
      call[c].at = "look" /\ Opened(c) /\ m_datas[n] = NoContext

\* A fiber parked in a hooked call is the waiter of its number, and epoll
\* watches the file the number stands for: so closing, readiness and time limit
\* can wake it.  Excepted as above.
NobodyForgotten ==
  \A c \in Caller :
    call[c].at = "parked" /\ call[c].fd \notin undercut =>
      /\ waiter[<<call[c].fd, EventOf(c)>>] = c
      /\ IsOpen(call[c].fd) /\ registered[call[c].fd] = fdtable[call[c].fd]
=============================================================================
