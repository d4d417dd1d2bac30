---------------------------- MODULE ContextProofs ----------------------------
(***************************************************************************)
(* Proofs that the contexts of the descriptor table are those of the files *)
(* behind the numbers, and that open sockets and objects belong together,  *)
(* for any callers, objects, sizes and limits.                             *)
(***************************************************************************)
EXTENDS SocketsProofs

\* A call that changes its number, and one that is about to tell the kernel
\* after it has changed the table.
Changes(r) == r.op \in Changing /\ r.at \notin {"idle", "done"}
Settling(r) == Changes(r) /\ r.at = "system" /\ r.ctx # NoContext
Sets(r) == Changes(r) /\ r.op # "close"

Records(c, n, op) == Settling(call[c]) /\ call[c].fd = n /\ call[c].op = op

\* Two numbers never stand for one file, nor have one context; and a setting
\* goes to the context of its number.
Distinct ==
  /\ \A m, n \in Number : m # n /\ IsOpen(m) => fdtable[m] # fdtable[n]
  /\ \A m, n \in Number : m # n /\ m_datas[m] # NoContext => m_datas[m] # m_datas[n]
  /\ \A c \in Caller : \A n \in Number :
       Sets(call[c]) /\ call[c].ctx # NoContext /\ m_datas[n] = call[c].ctx => n = call[c].fd

\* An entry is that of the file, and gone when close is about to end.
EntryOfFile(n) ==
  /\ m_datas[n] # NoContext =>
       /\ IsOpen(n) /\ contexts[m_datas[n]].of = fdtable[n]
       /\ contexts[m_datas[n]].is_init
       /\ contexts[m_datas[n]].is_socket = FileOf(n).socket
  /\ \A c \in Caller : Records(c, n, "close") => m_datas[n] = NoContext

\* One caller at a time changes a number, and has the context the table has.
OneChanger(n) ==
  /\ \A c, d \in Caller :
       Changes(call[c]) /\ Changes(call[d]) /\ call[c].fd = n /\ call[d].fd = n => c = d
  /\ \A c \in Caller :
       Sets(call[c]) /\ call[c].fd = n /\ call[c].ctx # NoContext => m_datas[n] = call[c].ctx

\* The settings of an entry are the file's, but for one on its way; a file
\* without an entry has no limit yet.
SettingsOfFile(n) ==
  /\ m_datas[n] # NoContext =>
       LET ctx == contexts[m_datas[n]]
       IN  /\ \/ ~ctx.is_socket
              \/ ctx.sys_non_block = FileOf(n).nonblock
              \/ \E c \in Caller : Records(c, n, "set_flags") \/ Records(c, n, "ioctl")
           /\ \/ ctx.recv_timeout = FileOf(n).limit
              \/ \E c \in Caller : Records(c, n, "set_timeout")
           /\ \A c \in Caller :
                /\ Records(c, n, "set_flags") /\ ctx.is_socket =>
                     ctx.sys_non_block = (call[c].want = 1)
                /\ Records(c, n, "set_timeout") => ctx.recv_timeout = call[c].want
  /\ m_datas[n] = NoContext /\ IsOpen(n) /\ (\A c \in Caller : ~Records(c, n, "close")) =>
       FileOf(n).limit = NoLimit

ContextInv ==
  /\ Distinct
  /\ \A n \in Number \ undercut : EntryOfFile(n)
  /\ \A n \in Number \ (undercut \cup crossed) : OneChanger(n) /\ SettingsOfFile(n)

-----------------------------------------------------------------------------
\* Records of a call that the invariant does not tell apart.
Alike(r, s) ==
  /\ Changes(r) <=> Changes(s)
  /\ Settling(r) <=> Settling(s)
  /\ Changes(r) => r.op = s.op /\ r.fd = s.fd /\ r.ctx = s.ctx /\ r.want = s.want

\* A step leaves alone all the invariant says of the number m.
Same(m) ==
  /\ m_datas'[m] = m_datas[m] /\ fdtable'[m] = fdtable[m]
  /\ m_datas[m] # NoContext => contexts'[m_datas[m]] = contexts[m_datas[m]]
  /\ IsOpen(m) => files'[fdtable[m]] = files[fdtable[m]]
  /\ \A d \in Caller :
       Alike(call[d], call'[d]) \/ (call[d].fd # m /\ call'[d].fd # m)

\* What such a step leaves alone is kept.
LEMMA Elsewhere ==
  ASSUME NEW m \in Number, Same(m)
  PROVE  /\ EntryOfFile(m) => EntryOfFile(m)'
         /\ OneChanger(m) => OneChanger(m)'
         /\ EntryOfFile(m) /\ SettingsOfFile(m) => SettingsOfFile(m)'
<1>1. /\ m_datas'[m] = m_datas[m] /\ fdtable'[m] = fdtable[m]
      /\ m_datas[m] # NoContext => contexts'[m_datas[m]] = contexts[m_datas[m]]
      /\ IsOpen(m) => files'[fdtable[m]] = files[fdtable[m]]
  BY DEF Same
<1>2. IsOpen(m)' <=> IsOpen(m)
  BY <1>1 DEF IsOpen
<1>3. \A d \in Caller : \A op : Records(d, m, op)' <=> Records(d, m, op)
  BY DEF Same, Alike, Records, Settling
<1>4. \A d \in Caller :
        /\ Changes(call'[d]) /\ call'[d].fd = m <=> Changes(call[d]) /\ call[d].fd = m
        /\ Sets(call'[d]) /\ call'[d].fd = m <=> Sets(call[d]) /\ call[d].fd = m
        /\ Changes(call'[d]) /\ call'[d].fd = m => call'[d].ctx = call[d].ctx
        /\ Records(d, m, "set_flags") \/ Records(d, m, "set_timeout") =>
             call'[d].want = call[d].want
  BY DEF Same, Alike, Sets, Records, Settling
<1>5. EntryOfFile(m) => EntryOfFile(m)'
  BY <1>1, <1>2, <1>3 DEF EntryOfFile, FileOf, IsOpen
<1>6. OneChanger(m) => OneChanger(m)'
  BY <1>1, <1>4 DEF OneChanger, Sets
<1>7. ASSUME EntryOfFile(m), SettingsOfFile(m)
      PROVE  SettingsOfFile(m)'
  <2>1. CASE m_datas[m] # NoContext
    <3>1. IsOpen(m) /\ FileOf(m)' = FileOf(m) /\ contexts'[m_datas'[m]] = contexts[m_datas[m]]
      BY <1>1, <1>7, <2>1 DEF EntryOfFile, FileOf
    <3> QED BY <1>1, <1>3, <1>4, <1>7, <2>1, <3>1 DEF SettingsOfFile
  <2>2. CASE m_datas[m] = NoContext
    <3>1. IsOpen(m) => FileOf(m)' = FileOf(m)
      BY <1>1 DEF FileOf
    <3> QED BY <1>1, <1>2, <1>3, <1>7, <2>2, <3>1 DEF SettingsOfFile
  <2> QED BY <2>1, <2>2
<1> QED BY <1>5, <1>6, <1>7

\* A step that leaves all numbers alone keeps the invariant,
LEMMA ContextAside ==
  ASSUME ContextInv, UNCHANGED <<fdtable, files, m_datas, contexts>>,
         undercut \subseteq undercut', crossed \subseteq crossed',
         \A d \in Caller : Alike(call[d], call'[d])
  PROVE  ContextInv'
<1>1. \A m \in Number : Same(m)
  BY DEF Same
<1>2. Distinct'
  BY DEF ContextInv, Distinct, Alike, Sets, IsOpen
<1> QED BY <1>1, <1>2, Elsewhere DEF ContextInv

\* and one that leaves all but n alone does if it is right about n.
LEMMA ContextAt ==
  ASSUME ContextInv, NEW n \in Number, undercut \ {n} \subseteq undercut',
         crossed \ {n} \subseteq crossed',
         \A m \in Number \ {n} : Same(m), Distinct',
         n \notin undercut' => EntryOfFile(n)',
         n \notin undercut' \cup crossed' => OneChanger(n)' /\ SettingsOfFile(n)'
  PROVE  ContextInv'
<1>1. ASSUME NEW m \in Number \ undercut'
      PROVE  EntryOfFile(m)'
  BY <1>1, Elsewhere DEF ContextInv
<1>2. ASSUME NEW m \in Number \ (undercut' \cup crossed')
      PROVE  OneChanger(m)' /\ SettingsOfFile(m)'
  BY <1>2, Elsewhere DEF ContextInv
<1> QED BY <1>1, <1>2 DEF ContextInv

-----------------------------------------------------------------------------
\* The steps that only tell a call how to go on.
Plain(c) ==
  \/ LookUp(c) /\ call'[c].ctx = call[c].ctx
  \/ UseInCall(c)
  \/ UseInSetting(c) /\ ~HasContext(c)
  \/ CancelAll(c) /\ ~HasContext(c)
  \/ SystemCall(c) /\ ~Accepted(c)
  \/ Park(c) \/ Resume(c) \/ FdRests(c)

\* They are alike before and after, for the invariant.
LEMMA PlainSteps ==
  ASSUME FdType, Shaped, NEW c \in Caller, Plain(c)
  PROVE  \A d \in Caller : Alike(call[d], call'[d])
<1>a. call \in [Caller -> Call] /\ call[c] \in Call /\ Shape(call[c])
  BY DEF FdType, Shaped
<1>b. ASSUME \A d \in Caller \ {c} : call'[d] = call[d], Alike(call[c], call'[c])
      PROVE  \A d \in Caller : Alike(call[d], call'[d])
  BY <1>b DEF Alike
<1>c. ASSUME NEW at, Goes(c, at)
      PROVE  /\ \A d \in Caller \ {c} : call'[d] = call[d]
             /\ call'[c].at = at /\ call'[c].op = call[c].op /\ call'[c].fd = call[c].fd
             /\ call'[c].ctx = call[c].ctx /\ call'[c].want = call[c].want
  BY <1>a, <1>c DEF Goes, Call
<1>d. ASSUME call[c].op \notin Changing, call'[c].op = call[c].op,
             \A d \in Caller \ {c} : call'[d] = call[d]
      PROVE  \A d \in Caller : Alike(call[d], call'[d])
  BY <1>b, <1>d DEF Alike, Changes, Settling
<1>1. CASE LookUp(c) /\ call'[c].ctx = call[c].ctx
  <2>1. /\ \A d \in Caller \ {c} : call'[d] = call[d]
        /\ call'[c].op = call[c].op /\ call'[c].fd = call[c].fd
        /\ call'[c].want = call[c].want
        /\ call[c].at = "look" /\ call'[c].at \in {"look", "use", "make"}
    BY <1>1, <1>a DEF LookUp, Goes, Call
  <2> QED BY <1>1, <1>b, <2>1 DEF Alike, Changes, Settling
<1>2. CASE UseInCall(c)
  <2>1. call[c].op \notin Changing
    BY <1>2 DEF UseInCall, Within, Changing
  <2>2. CASE Returns(c, -1)
    BY <1>d, <2>1, <2>2, ReturnsTyped
  <2>3. CASE Goes(c, "system")
    BY <1>c, <1>d, <2>1, <2>3
  <2>4. ASSUME NEW limit, call' = [call EXCEPT ![c].at = "try", ![c].limit = limit]
        PROVE  \A d \in Caller : Alike(call[d], call'[d])
    BY <1>a, <1>d, <2>1, <2>4 DEF Call
  <2> QED BY <1>2, <2>2, <2>3, <2>4 DEF UseInCall
<1>3. CASE (UseInSetting(c) \/ CancelAll(c)) /\ ~HasContext(c)
  <2>1. Goes(c, "system") /\ call[c].at = "use" /\ call[c].ctx = NoContext
    BY <1>3 DEF UseInSetting, CancelAll, Within, HasContext
  <2> QED BY <1>b, <1>c, <2>1 DEF Alike, Changes, Settling
<1>4. CASE SystemCall(c) /\ ~Accepted(c)
  <2>1. call[c].op \notin Changing
    BY <1>4 DEF SystemCall, Changing
  <2>2. ASSUME NEW rt \in {-1, 0}, Returns(c, rt)
        PROVE  \A d \in Caller : Alike(call[d], call'[d])
    BY <1>d, <2>1, <2>2, ReturnsTyped
  <2>3. CASE Goes(c, "park")
    BY <1>c, <1>d, <2>1, <2>3
  <2> QED BY <1>4, <2>2, <2>3 DEF SystemCall, Ends, MustWait
<1>5. CASE Park(c)
  <2>1. call[c].op \notin Changing
    BY <1>5, <1>a DEF Park, Shape, Changing
  <2>2. CASE Returns(c, -1)
    BY <1>d, <2>1, <2>2, ReturnsTyped
  <2>3. CASE Goes(c, "parked")
    BY <1>c, <1>d, <2>1, <2>3
  <2>4. CASE call' = [call EXCEPT ![c].at = "parked", ![c].limit = NoLimit]
    BY <1>a, <1>d, <2>1, <2>4 DEF Call
  <2>5. CASE call' = call
    BY <2>5 DEF Alike
  <2> QED BY <1>5, <2>2, <2>3, <2>4, <2>5 DEF Park
<1>6. CASE Resume(c)
  <2>1. call[c].op \notin Changing
    BY <1>6, <1>a DEF Resume, Shape, Changing
  <2>2. ASSUME NEW rt \in {-1, 0}, Returns(c, rt)
        PROVE  \A d \in Caller : Alike(call[d], call'[d])
    BY <1>d, <2>1, <2>2, ReturnsTyped
  <2>3. CASE Goes(c, "try")
    BY <1>c, <1>d, <2>1, <2>3
  <2> QED BY <1>6, <2>2, <2>3 DEF Resume
<1>7. CASE FdRests(c)
  <2>1. ~Changes(call[c])
    <3>1. call[c] = Idle \/ call[c].at = "done" \/ call[c].op \in {"socket", "accept", "get"}
      BY <1>7 DEF FdRests, AtRest, HasReturned, Opened
    <3> QED BY <3>1 DEF Changes, Changing, Idle
  <2>2. call'[c].at \in {"idle", "done"} /\ \A d \in Caller \ {c} : call'[d] = call[d]
    BY <1>7, <1>a DEF FdRests, Idle
  <2> QED BY <1>b, <2>1, <2>2 DEF Alike, Changes, Settling
<1> QED BY <1>1, <1>2, <1>3, <1>4, <1>5, <1>6, <1>7 DEF Plain

\* They keep the invariant,
LEMMA ContextPlain ==
  ASSUME FdType, Shaped, ContextInv, NEW c \in Caller, Plain(c)
  PROVE  ContextInv'
<1>1. /\ UNCHANGED <<fdtable, files, m_datas>>
      /\ undercut \subseteq undercut' /\ crossed \subseteq crossed'
  BY DEF Plain, LookUp, UseInCall, UseInSetting, CancelAll, SystemCall, Ends, MustWait, Treads,
     Park, Resume, FdRests, kernelVars, tableVars, ghostVars
<1>2. contexts' = contexts
  BY DEF Plain, LookUp, UseInCall, UseInSetting, CancelAll, SystemCall,
     Park, Resume, FdRests, tableVars
<1> QED BY <1>1, <1>2, PlainSteps, ContextAside

\* and so does waking.
LEMMA ContextWoken ==
  ASSUME FdType, Shaped, ContextInv, NEW n, NEW events, NEW then \in [Caller -> Call],
         Woken(n, events, then), UNCHANGED <<fdtable, files, tableVars, ghostVars>>,
         \A d \in Caller : Shape(then[d]) /\ Alike(call[d], then[d])
  PROVE  ContextInv'
<1>1. ASSUME NEW d \in Caller
      PROVE  Alike(call[d], call'[d])
  <2>1. CASE call'[d] = then[d]
    BY <2>1
  <2>2. CASE then[d].at = "parked" /\ call'[d] = [then[d] EXCEPT !.at = "woken"]
    <3>1. then[d] \in Call /\ then[d].op \notin Changing
      BY <2>2 DEF Shape, Changing
    <3>2. call'[d].op = then[d].op
      BY <2>2, <3>1 DEF Call
    <3> QED BY <3>1, <3>2 DEF Alike, Changes, Settling
  <2> QED BY <2>1, <2>2 DEF Woken
<1> QED BY <1>1, ContextAside DEF tableVars, ghostVars

-----------------------------------------------------------------------------
\* The look that finds a context takes the one of its number.
LEMMA ContextLook ==
  ASSUME FdType, Shaped, ContextInv, NEW c \in Caller, LookUp(c), call'[c].ctx # call[c].ctx
  PROVE  ContextInv'
<1>n. PICK n \in Number : n = call[c].fd
  BY DEF Shaped, Shape, LookUp
<1>1. /\ call \in [Caller -> Call] /\ call[c] \in Call /\ call[c].at = "look"
      /\ UNCHANGED <<fdtable, files, m_datas, contexts, crossed>>
      /\ undercut \subseteq undercut'
  BY <1>n DEF FdType, LookUp, Treads, kernelVars
<1>2. /\ \A d \in Caller \ {c} : call'[d] = call[d]
      /\ call'[c].op = call[c].op /\ call'[c].fd = n /\ call'[c].want = call[c].want
      /\ call'[c].ctx = m_datas[n] /\ call'[c].at \in {"make", "use"}
  <2>1. call' = [call EXCEPT ![c].at = IF m_datas[n] = NoContext THEN "make" ELSE "use",
                             ![c].ctx = m_datas[n]]
    BY <1>1, <1>n DEF LookUp, Goes, Call
  <2> QED BY <1>1, <1>n, <2>1 DEF Call
<1>3. /\ Changes(call'[c]) <=> Changes(call[c])
      /\ ~Settling(call[c]) /\ ~Settling(call'[c])
  BY <1>1, <1>2 DEF Changes, Settling
<1>4. \A m \in Number \ {n} : Same(m)
  BY <1>n, <1>1, <1>2 DEF Same, Alike
<1>5. Distinct'
  BY <1>1, <1>2, <1>3 DEF ContextInv, Distinct, Sets, IsOpen
<1>6. \A d \in Caller : \A op : Records(d, n, op)' <=> Records(d, n, op)
  BY <1>2, <1>3 DEF Records
<1>7. n \notin undercut' => EntryOfFile(n)'
  BY <1>1, <1>6 DEF ContextInv, EntryOfFile, IsOpen, FileOf
<1>8. ASSUME n \notin undercut' \cup crossed'
      PROVE  OneChanger(n)' /\ SettingsOfFile(n)'
  <2>1. OneChanger(n) /\ SettingsOfFile(n)
    BY <1>1, <1>8 DEF ContextInv
  <2>2. OneChanger(n)'
    <3>1. \A d \in Caller :
            /\ Changes(call'[d]) <=> Changes(call[d])
            /\ Sets(call'[d]) <=> Sets(call[d])
            /\ call'[d].fd = n <=> call[d].fd = n
            /\ call[d].fd = n => call'[d].ctx \in {call[d].ctx, m_datas[n]}
      BY <1>n, <1>2, <1>3 DEF Sets
    <3> QED BY <1>1, <2>1, <3>1 DEF OneChanger, NoContext
  <2>3. \A d \in Caller : \A op : Records(d, n, op) => call'[d].want = call[d].want
    BY <1>2
  <2>4. SettingsOfFile(n)'
    BY <1>1, <1>6, <2>1, <2>3 DEF SettingsOfFile, IsOpen, FileOf
  <2> QED BY <2>2, <2>4
<1> QED BY <1>1, <1>4, <1>5, <1>7, <1>8, ContextAt

\* The files behind other numbers are other files.
LEMMA OtherFile ==
  ASSUME Distinct, NEW n \in Number, NEW m \in Number \ {n}, IsOpen(m)
  PROVE  fdtable[m] # fdtable[n]
BY DEF Distinct

\* A context that is made is the file's, and no other number's.
LEMMA ContextMade ==
  ASSUME FdType, Shaped, ContextInv, NEW c \in Caller, MakeContext(c)
  PROVE  ContextInv'
<1>n. PICK n \in Number : n = call[c].fd
  BY DEF Shaped, Shape, MakeContext
<1>f. PICK f : f = fdtable[n]
  OBVIOUS
<1>k. PICK k : k = Min(ContextId \ Referred)
  OBVIOUS
<1>1. /\ call \in [Caller -> Call] /\ call[c] \in Call /\ call[c].at = "make"
      /\ call[c].ctx = NoContext
      /\ fdtable' = fdtable /\ undercut \subseteq undercut' /\ crossed \subseteq crossed'
      /\ m_datas[n] # NoContext => n \in crossed'
      /\ n \notin undercut' => IsOpen(n) /\ ~BeingClosed(c, n)
  BY <1>n DEF FdType, Shaped, Shape, MakeContext, Treads
<1>2. k \in ContextId \ Referred
  BY <1>1, <1>k, FreshContext
<1>3. /\ \A d \in Caller \ {c} : call'[d] = call[d]
      /\ call'[c].op = call[c].op /\ call'[c].fd = n /\ call'[c].want = call[c].want
      /\ call'[c].ctx = k /\ call'[c].at = "use"
  <2>1. call' = [call EXCEPT ![c] = [call[c] EXCEPT !.at = "use", !.ctx = k]]
    BY <1>n, <1>k DEF MakeContext
  <2> QED BY <1>1, <1>n, <2>1 DEF Call
<1>4. m_datas'[n] = k /\ \A m \in Number \ {n} : m_datas'[m] = m_datas[m]
  <2>1. m_datas' = [m_datas EXCEPT ![n] = k]
    BY <1>n, <1>k DEF MakeContext
  <2> QED BY <1>1, <2>1 DEF FdType
<1>5. contexts'[k] = FdContext(n) /\ \A j \in Referred \ {NoContext} : contexts'[j] = contexts[j]
  <2>1. contexts' = [j \in ContextId |-> CASE j = k -> FdContext(n)
                                           [] j \in Referred -> contexts[j]
                                           [] OTHER -> Blank]
    BY <1>n, <1>k DEF MakeContext
  <2>2. Referred \ {NoContext} \subseteq ContextId
    BY DEF Referred, FdType, Call
  <2> QED BY <1>2, <2>1, <2>2
<1>6. /\ \A m \in Number : m_datas[m] \in Referred
      /\ \A d \in Caller : call[d].ctx \in Referred
      /\ k # NoContext
  <2>1. NoContext \in Referred
    BY <1>1 DEF Referred
  <2> QED BY <1>2, <2>1 DEF Referred
<1>7. /\ IsOpen(n) => /\ files'[f].socket = files[f].socket /\ files'[f].limit = files[f].limit
                      /\ files[f].socket => files'[f].nonblock = TRUE
      /\ \A g \in 1 .. Len(files) : g # f => files'[g] = files[g]
  <2>1. files' = IF IsOpen(n) /\ files[f].socket
                 THEN [files EXCEPT ![f].nonblock = TRUE] ELSE files
    BY <1>n, <1>f DEF MakeContext, FileOf
  <2>2. IsOpen(n) => f \in 1 .. Len(files) /\ files[f] \in File
    BY <1>f DEF FdType, IsOpen, NoFile
  <2>3. files \in Seq(File)
    BY DEF FdType
  <2> QED BY <2>1, <2>2, <2>3 DEF File
<1>8. ~Settling(call[c]) /\ ~Settling(call'[c]) /\ (Changes(call'[c]) <=> Changes(call[c]))
  BY <1>1, <1>3 DEF Changes, Settling
<1>9. ASSUME NEW m \in Number \ {n}
      PROVE  Same(m)
  <2>1. IsOpen(m) => files'[fdtable[m]] = files[fdtable[m]]
    <3>1. IsOpen(m) => fdtable[m] # f /\ fdtable[m] \in 1 .. Len(files)
      BY <1>f, OtherFile DEF ContextInv, FdType, IsOpen, NoFile
    <3> QED BY <1>7, <3>1
  <2>2. m_datas[m] # NoContext => contexts'[m_datas[m]] = contexts[m_datas[m]]
    BY <1>5, <1>6
  <2>3. \A d \in Caller : Alike(call[d], call'[d]) \/ (call[d].fd # m /\ call'[d].fd # m)
    BY <1>3, <1>n DEF Alike
  <2> QED BY <1>1, <1>4, <2>1, <2>2, <2>3 DEF Same
<1>10. Distinct'
  <2>1. \A m, l \in Number : m # l /\ IsOpen(m)' => fdtable'[m] # fdtable'[l]
    BY <1>1 DEF ContextInv, Distinct, IsOpen
  <2>2. \A m, l \in Number : m # l /\ m_datas'[m] # NoContext => m_datas'[m] # m_datas'[l]
    <3>1. Distinct /\ \A m \in Number : m_datas[m] # k
      BY <1>2, <1>6 DEF ContextInv
    <3> QED BY <1>4, <3>1 DEF Distinct
  <2>3. ASSUME NEW d \in Caller, NEW m \in Number, Sets(call'[d]), call'[d].ctx # NoContext,
               m_datas'[m] = call'[d].ctx
        PROVE  m = call'[d].fd
    <3>1. CASE d = c
      <4>1. m_datas'[m] = k
        BY <1>3, <2>3, <3>1
      <4>2. m_datas[m] # k
        BY <1>2, <1>6
      <4> QED BY <1>3, <1>4, <3>1, <4>1, <4>2
    <3>2. CASE d # c
      <4>1. call'[d] = call[d] /\ call[d].ctx # k
        BY <1>2, <1>3, <1>6, <3>2
      <4>2. m # n
        BY <1>4, <2>3, <4>1
      <4> QED BY <1>4, <2>3, <4>1, <4>2 DEF ContextInv, Distinct
    <3> QED BY <3>1, <3>2
  <2> QED BY <2>1, <2>2, <2>3 DEF Distinct
<1>11. ASSUME n \notin undercut'
       PROVE  EntryOfFile(n)'
  <2>1. IsOpen(n) /\ IsOpen(n)' /\ fdtable'[n] = f
    BY <1>1, <1>f, <1>11 DEF IsOpen
  <2>2. /\ contexts'[k].of = f /\ contexts'[k].is_init = IsOpen(n)
        /\ contexts'[k].is_socket = (IsOpen(n) /\ files[f].socket)
    BY <1>5, <1>f DEF FdContext, FileOf
  <2>3. contexts'[k].is_socket = files'[f].socket
    <3>1. f \in 1 .. Len(files) /\ files \in Seq(File)
      BY <1>f, <2>1 DEF FdType, IsOpen, NoFile
    <3>2. files[f] \in File
      BY <3>1
    <3>3. files[f].socket \in BOOLEAN
      BY <3>2 DEF File
    <3> QED BY <1>7, <2>1, <2>2, <3>3
  <2>4. \A d \in Caller : ~Records(d, n, "close")'
    BY <1>1, <1>3, <1>8, <1>11 DEF Records, Settling, BeingClosed
  <2> QED BY <1>4, <2>1, <2>2, <2>3, <2>4 DEF EntryOfFile, FileOf
<1>12. ASSUME n \notin undercut' \cup crossed'
       PROVE  OneChanger(n)' /\ SettingsOfFile(n)'
  <2>1. m_datas[n] = NoContext /\ IsOpen(n) /\ OneChanger(n) /\ SettingsOfFile(n)
    BY <1>1, <1>12 DEF ContextInv
  <2>2. \A d \in Caller \ {c} : Sets(call[d]) /\ call[d].fd = n => call[d].ctx = NoContext
    BY <2>1 DEF OneChanger
  <2>3. OneChanger(n)'
    <3>1. \A d \in Caller :
            /\ Changes(call'[d]) <=> Changes(call[d])
            /\ Sets(call'[d]) <=> Sets(call[d])
            /\ call'[d].fd = n <=> call[d].fd = n
            /\ Sets(call[d]) /\ call[d].fd = n => call'[d].ctx \in {NoContext, k}
      BY <1>n, <1>3, <1>8, <2>2 DEF Sets
    <3> QED BY <1>4, <2>1, <3>1 DEF OneChanger
  <2>4. \A d \in Caller : ~Records(d, n, "set_flags")' /\ ~Records(d, n, "set_timeout")'
    BY <1>3, <1>8, <2>2 DEF Records, Settling, Sets
  <2>5. \A d \in Caller : ~Records(d, n, "close")
    BY <1>1, <1>8, <1>12 DEF Records, Settling, BeingClosed
  <2>6. files'[f].limit = NoLimit
    BY <1>7, <2>1, <2>5, <1>f DEF SettingsOfFile, FileOf
  <2>7. /\ contexts'[k].recv_timeout = NoLimit
        /\ contexts'[k].is_socket => files[f].socket
    <3> DEFINE socket == IsOpen(n) /\ files[f].socket
    <3>1. contexts'[k] = [is_init |-> IsOpen(n), is_socket |-> socket, sys_non_block |-> socket,
                          recv_timeout |-> NoLimit, of |-> fdtable[n]]
      BY <1>5, <1>f DEF FdContext, FileOf
    <3>2. socket => files[f].socket
      OBVIOUS
    <3> HIDE DEF socket
    <3> QED BY <3>1, <3>2
  <2>8. \/ ~contexts'[k].is_socket
        \/ contexts'[k].sys_non_block = TRUE /\ files'[f].nonblock = TRUE
    <3>1. contexts'[k].sys_non_block = (IsOpen(n) /\ files[f].socket)
      BY <1>5, <1>f DEF FdContext, FileOf
    <3> QED BY <1>7, <2>1, <2>7, <3>1
  <2>9. m_datas'[n] = k /\ k # NoContext /\ fdtable'[n] = f
    BY <1>1, <1>4, <1>6, <1>f
  <2>10. SettingsOfFile(n)'
    BY <2>4, <2>6, <2>7, <2>8, <2>9 DEF SettingsOfFile, FileOf
  <2> QED BY <2>3, <2>10
<1> QED BY <1>1, <1>9, <1>10, <1>11, <1>12, ContextAt

\* A setting goes to the context of the number alone.
LEMMA ContextSet ==
  ASSUME FdType, Shaped, ContextInv, NEW c \in Caller, UseInSetting(c), HasContext(c)
  PROVE  ContextInv'
<1>n. PICK n \in Number : n = call[c].fd
  BY DEF Shaped, Shape, UseInSetting
<1>k. PICK k \in ContextId : k = call[c].ctx
  BY DEF FdType, Call, HasContext
<1>1. /\ call \in [Caller -> Call] /\ call[c] \in Call /\ call[c].at = "use" /\ k # NoContext
      /\ call[c].op \in {"set_timeout", "set_flags", "ioctl"}
      /\ UNCHANGED <<fdtable, files, m_datas, undercut, crossed>>
  BY <1>k DEF FdType, UseInSetting, HasContext, kernelVars, ghostVars
<1>2. /\ \A d \in Caller \ {c} : call'[d] = call[d]
      /\ call'[c].op = call[c].op /\ call'[c].fd = n /\ call'[c].want = call[c].want
      /\ call'[c].ctx = k /\ call'[c].at = "system"
  BY <1>n, <1>k, <1>1 DEF UseInSetting, Goes, Call
<1>3. Changes(call'[c]) /\ Sets(call'[c]) /\ Changes(call[c]) /\ Sets(call[c])
      /\ ~Settling(call[c]) /\ Settling(call'[c])
  BY <1>1, <1>2 DEF Changes, Settling, Sets, Changing
<1>4. contexts'[k] = Recorded(c, contexts[k]) /\ \A j \in ContextId \ {k} : contexts'[j] = contexts[j]
  <2>1. contexts' = [contexts EXCEPT ![k] = Recorded(c, contexts[k])]
    BY <1>k DEF UseInSetting
  <2> QED BY <2>1 DEF FdType
<1>5. contexts[k] \in Ctx
  BY DEF FdType
<1>6. /\ contexts'[k].of = contexts[k].of /\ contexts'[k].is_init = contexts[k].is_init
      /\ contexts'[k].is_socket = contexts[k].is_socket
  BY <1>4, <1>5 DEF Recorded, Ctx
<1>7. /\ call[c].op = "set_timeout" =>
           /\ contexts'[k].recv_timeout = call[c].want
           /\ contexts'[k].sys_non_block = contexts[k].sys_non_block
      /\ call[c].op # "set_timeout" => contexts'[k].recv_timeout = contexts[k].recv_timeout
      /\ call[c].op # "set_timeout" /\ contexts[k].is_socket =>
           contexts'[k].sys_non_block = (call[c].want = 1)
  <2> DEFINE on == call[c].want = 1
  <2>1. /\ call[c].op = "set_timeout" =>
             contexts'[k] = [contexts[k] EXCEPT !.recv_timeout = call[c].want]
        /\ call[c].op # "set_timeout" =>
             contexts'[k] = IF contexts[k].is_socket
                            THEN [contexts[k] EXCEPT !.sys_non_block = on] ELSE contexts[k]
    BY <1>1, <1>4 DEF Recorded
  <2> HIDE DEF on
  <2>2. call[c].op # "set_timeout" /\ contexts[k].is_socket => contexts'[k].sys_non_block = on
    BY <1>5, <2>1 DEF Ctx
  <2>3. /\ call[c].op = "set_timeout" =>
             /\ contexts'[k].recv_timeout = call[c].want
             /\ contexts'[k].sys_non_block = contexts[k].sys_non_block
        /\ call[c].op # "set_timeout" => contexts'[k].recv_timeout = contexts[k].recv_timeout
    BY <1>5, <2>1 DEF Ctx
  <2> QED BY <2>2, <2>3 DEF on
<1>8. \A m \in Number \ {n} : m_datas[m] # k
  BY <1>n, <1>k, <1>1, <1>3 DEF ContextInv, Distinct
<1>9. \A m \in Number \ {n} : Same(m)
  <2>1. \A m \in Number \ {n} : m_datas[m] # NoContext => contexts'[m_datas[m]] = contexts[m_datas[m]]
    BY <1>4, <1>8 DEF FdType
  <2> QED BY <1>n, <1>1, <1>2, <2>1 DEF Same, Alike
<1>10. Distinct'
  <2>1. \A d \in Caller : (Sets(call'[d]) <=> Sets(call[d])) /\ call'[d].fd = call[d].fd
                          /\ call'[d].ctx = call[d].ctx
    BY <1>n, <1>k, <1>2, <1>3
  <2> QED BY <1>1, <2>1 DEF ContextInv, Distinct, IsOpen
<1>11. \A d \in Caller : Records(d, n, "close")' <=> Records(d, n, "close")
  BY <1>1, <1>2, <1>3 DEF Records
<1>12. ASSUME n \notin undercut'
       PROVE  EntryOfFile(n)'
  <2>1. EntryOfFile(n)
    BY <1>1, <1>12 DEF ContextInv
  <2>2. m_datas[n] # NoContext =>
          /\ contexts'[m_datas[n]].of = contexts[m_datas[n]].of
          /\ contexts'[m_datas[n]].is_init = contexts[m_datas[n]].is_init
          /\ contexts'[m_datas[n]].is_socket = contexts[m_datas[n]].is_socket
    BY <1>4, <1>6 DEF FdType
  <2> QED BY <1>1, <1>11, <2>1, <2>2 DEF EntryOfFile, IsOpen, FileOf
<1>13. ASSUME n \notin undercut' \cup crossed'
       PROVE  OneChanger(n)' /\ SettingsOfFile(n)'
  <2>1. OneChanger(n) /\ SettingsOfFile(n)
    BY <1>1, <1>13 DEF ContextInv
  <2>2. m_datas[n] = k /\ \A d \in Caller \ {c} : ~(Changes(call[d]) /\ call[d].fd = n)
    BY <1>n, <1>k, <1>1, <1>3, <2>1 DEF OneChanger
  <2>3. OneChanger(n)'
    BY <1>1, <1>2, <1>3, <2>1, <2>2 DEF OneChanger, Sets
  <2>4. \A d \in Caller \ {c} : \A op : ~Records(d, n, op) /\ ~Records(d, n, op)'
    BY <1>2, <2>2 DEF Records, Settling
  <2>5. \A op : ~Records(c, n, op) /\ (Records(c, n, op)' <=> op = call[c].op)
    BY <1>2, <1>3 DEF Records
  <2>6. SettingsOfFile(n)'
    <3>1. \/ ~contexts[k].is_socket
          \/ contexts[k].sys_non_block = FileOf(n).nonblock
      BY <1>1, <2>1, <2>2, <2>4, <2>5 DEF SettingsOfFile
    <3>2. contexts[k].recv_timeout = FileOf(n).limit
      BY <1>1, <2>1, <2>2, <2>4, <2>5 DEF SettingsOfFile
    <3>3. \/ ~contexts'[k].is_socket
          \/ contexts'[k].sys_non_block = FileOf(n).nonblock
          \/ Records(c, n, "set_flags")' \/ Records(c, n, "ioctl")'
      BY <1>1, <1>6, <1>7, <2>5, <3>1
    <3>4. contexts'[k].recv_timeout = FileOf(n).limit \/ Records(c, n, "set_timeout")'
      BY <1>1, <1>7, <2>5, <3>2
    <3>5. \A d \in Caller :
            /\ Records(d, n, "set_flags")' /\ contexts'[k].is_socket =>
                 contexts'[k].sys_non_block = (call'[d].want = 1)
            /\ Records(d, n, "set_timeout")' => contexts'[k].recv_timeout = call'[d].want
      BY <1>2, <1>6, <1>7, <2>4, <2>5
    <3>6. FileOf(n)' = FileOf(n) /\ m_datas'[n] = k
      BY <1>1, <2>2 DEF FileOf
    <3> QED BY <1>1, <3>3, <3>4, <3>5, <3>6 DEF SettingsOfFile
  <2> QED BY <2>3, <2>6
<1> QED BY <1>1, <1>9, <1>10, <1>12, <1>13, ContextAt

\* close takes the context from the table,
LEMMA ContextDropped ==
  ASSUME FdType, Shaped, ContextInv, NEW c \in Caller, DelFdctx(c)
  PROVE  ContextInv'
<1>n. PICK n \in Number : n = call[c].fd
  BY DEF Shaped, Shape, DelFdctx, Within
<1>1. /\ call \in [Caller -> Call] /\ call[c] \in Call /\ call[c].at = "drop"
      /\ call[c].op = "close" /\ call[c].ctx # NoContext
      /\ UNCHANGED <<fdtable, files, contexts, undercut, crossed>>
  BY DEF FdType, Shaped, Shape, DelFdctx, Within, kernelVars, ghostVars
<1>2. /\ \A d \in Caller \ {c} : call'[d] = call[d]
      /\ call'[c].op = "close" /\ call'[c].fd = n
      /\ call'[c].ctx = call[c].ctx /\ call'[c].at = "system"
  BY <1>n, <1>1 DEF DelFdctx, Goes, Call
<1>3. /\ Changes(call'[c]) /\ Changes(call[c]) /\ ~Sets(call'[c]) /\ ~Sets(call[c])
      /\ Settling(call'[c])
  BY <1>1, <1>2 DEF Changes, Settling, Sets, Changing
<1>4. m_datas'[n] = NoContext /\ \A m \in Number \ {n} : m_datas'[m] = m_datas[m]
  BY <1>n DEF DelFdctx, FdType
<1>5. \A m \in Number \ {n} : Same(m)
  BY <1>n, <1>1, <1>2, <1>4 DEF Same, Alike
<1>6. Distinct'
  <2>1. \A d \in Caller : Sets(call'[d]) => d # c /\ call'[d] = call[d]
    BY <1>2, <1>3
  <2> QED BY <1>1, <1>4, <2>1 DEF ContextInv, Distinct, IsOpen
<1>7. EntryOfFile(n)'
  BY <1>4 DEF EntryOfFile
<1>8. ASSUME n \notin undercut' \cup crossed'
      PROVE  OneChanger(n)' /\ SettingsOfFile(n)'
  <2>1. OneChanger(n)
    BY <1>1, <1>8 DEF ContextInv
  <2>2. \A d \in Caller \ {c} : ~(Changes(call[d]) /\ call[d].fd = n)
    BY <1>n, <1>3, <2>1 DEF OneChanger
  <2>3. OneChanger(n)'
    BY <1>2, <1>3, <2>2 DEF OneChanger, Sets
  <2>4. Records(c, n, "close")'
    BY <1>2, <1>3 DEF Records
  <2>5. SettingsOfFile(n)'
    BY <1>4, <2>4 DEF SettingsOfFile
  <2> QED BY <2>3, <2>5
<1> QED BY <1>1, <1>5, <1>6, <1>7, <1>8, ContextAt

\* and the descriptor from the kernel.
LEMMA ContextClosed ==
  ASSUME FdType, Shaped, ContextInv, NEW c \in Caller, CloseDescriptor(c)
  PROVE  ContextInv'
<1>n. PICK n \in Number : n = call[c].fd
  BY DEF Shaped, Shape, CloseDescriptor, Within
<1>1. /\ call \in [Caller -> Call] /\ call[c] \in Call /\ call[c].at = "system"
      /\ call[c].op = "close"
      /\ UNCHANGED <<m_datas, contexts, crossed>> /\ undercut \subseteq undercut'
      /\ n \notin undercut' => m_datas[n] = NoContext \/ HasContext(c)
  BY <1>n DEF FdType, CloseDescriptor, Within, tableVars
<1>2. /\ call'[c].at = "done" /\ call'[c].fd = n
      /\ \A d \in Caller \ {c} : call'[d] = call[d]
  BY <1>n, ReturnsTyped DEF CloseDescriptor
<1>3. /\ ~Changes(call'[c]) /\ ~Sets(call'[c]) /\ ~Settling(call'[c])
      /\ HasContext(c) => Records(c, n, "close")
  BY <1>n, <1>1, <1>2 DEF Changes, Settling, Sets, Changing, Records, HasContext
<1>4. fdtable'[n] = NoFile /\ \A m \in Number \ {n} : fdtable'[m] = fdtable[m]
  BY <1>n DEF CloseDescriptor, FdType
<1>5. n \notin undercut' => m_datas[n] = NoContext
  BY <1>1, <1>3 DEF ContextInv, EntryOfFile
<1>6. ASSUME NEW m \in Number \ {n}
      PROVE  Same(m)
  <2>1. IsOpen(m) => files'[fdtable[m]] = files[fdtable[m]]
    <3>1. IsOpen(m) => fdtable[m] # fdtable[n]
      BY OtherFile DEF ContextInv
    <3>2. files' = IF IsOpen(n) THEN [files EXCEPT ![fdtable[n]] = NewFile(FALSE)] ELSE files
      BY <1>n DEF CloseDescriptor
    <3>3. IsOpen(m) => fdtable[m] \in 1 .. Len(files)
      BY DEF FdType, IsOpen, NoFile
    <3>4. files \in Seq(File)
      BY DEF FdType
    <3> QED BY <3>1, <3>2, <3>3, <3>4
  <2> QED BY <1>n, <1>1, <1>2, <1>4, <2>1 DEF Same, Alike
<1>7. Distinct'
  <2>1. \A d \in Caller : Sets(call'[d]) => d # c /\ call'[d] = call[d]
    BY <1>2, <1>3
  <2> QED BY <1>1, <1>4, <2>1 DEF ContextInv, Distinct, IsOpen
<1>8. n \notin undercut' => EntryOfFile(n)'
  BY <1>1, <1>5 DEF EntryOfFile
<1>9. ASSUME n \notin undercut' \cup crossed'
      PROVE  OneChanger(n)' /\ SettingsOfFile(n)'
  <2>1. OneChanger(n)
    BY <1>1, <1>9 DEF ContextInv
  <2>2. OneChanger(n)'
    BY <1>1, <1>2, <1>3, <2>1 DEF OneChanger
  <2>3. SettingsOfFile(n)'
    BY <1>1, <1>4, <1>5, <1>9 DEF SettingsOfFile, IsOpen
  <2> QED BY <2>2, <2>3
<1> QED BY <1>1, <1>6, <1>7, <1>8, <1>9, ContextAt

-----------------------------------------------------------------------------
\* A file opened under a number the table has nothing about, or that stays
\* undercut.
LEMMA ContextOpened ==
  ASSUME FdType, Shaped, ContextInv, NEW socket \in BOOLEAN, Opens(socket),
         UNCHANGED <<m_datas, contexts>>,
         \A d \in Caller : \/ call'[d] = call[d]
                           \/ ~Changes(call[d]) /\ ~Changes(call'[d])
  PROVE  ContextInv'
<1>n. PICK n : n = NewNumber
  OBVIOUS
<1>1. /\ n \in Number /\ fdtable[n] = NoFile
      /\ fdtable'[n] = Len(files) + 1 /\ \A m \in Number \ {n} : fdtable'[m] = fdtable[m]
  BY <1>n, OpensTyped DEF FdType
<1>2. /\ undercut \ {n} \subseteq undercut' /\ crossed \ {n} \subseteq crossed'
      /\ n \in undercut \ undercut' => m_datas[n] = NoContext
      /\ n \in undercut \cup crossed /\ n \notin undercut' \cup crossed' =>
           \A d \in Caller : call[d].fd # n
  BY <1>n DEF Opens
<1>3. files'[Len(files) + 1].limit = NoLimit
      /\ \A f \in 1 .. Len(files) : files'[f] = files[f]
  BY DEF Opens, NewFile, FdType
<1>4. \A d \in Caller : Alike(call[d], call'[d])
  BY DEF Alike, Settling
<1>5. n \notin undercut' => m_datas[n] = NoContext
  BY <1>1, <1>2 DEF ContextInv, EntryOfFile, IsOpen
<1>6. ASSUME NEW m \in Number \ {n}
      PROVE  Same(m)
  <2>1. IsOpen(m) => fdtable[m] \in 1 .. Len(files)
    BY DEF FdType, IsOpen, NoFile
  <2> QED BY <1>1, <1>3, <1>4, <2>1 DEF Same
<1>7. Distinct'
  <2>1. \A m \in Number : fdtable[m] \in Nat /\ fdtable[m] <= Len(files) /\ Len(files) \in Nat
    BY DEF FdType
  <2>2. \A m, l \in Number : m # l /\ IsOpen(m)' => fdtable'[m] # fdtable'[l]
    BY <1>1, <2>1 DEF ContextInv, Distinct, IsOpen, NoFile
  <2>3. \A d \in Caller : Sets(call'[d]) => call'[d] = call[d]
    BY DEF Sets
  <2> QED BY <2>2, <2>3 DEF ContextInv, Distinct
<1>8. n \notin undercut' => EntryOfFile(n)'
  BY <1>5 DEF EntryOfFile
<1>9. ASSUME n \notin undercut' \cup crossed'
      PROVE  OneChanger(n)' /\ SettingsOfFile(n)'
  <2>1. OneChanger(n)
    <3>1. CASE n \in undercut \cup crossed
      <4>1. \A d \in Caller : call[d].fd # n
        BY <1>2, <1>9, <3>1
      <4> QED BY <4>1 DEF OneChanger
    <3>2. CASE n \notin undercut \cup crossed
      BY <1>1, <3>2 DEF ContextInv
    <3> QED BY <3>1, <3>2
  <2>2. \A d \in Caller : Changes(call'[d]) => call'[d] = call[d]
    OBVIOUS
  <2>3. OneChanger(n)'
    BY <2>1, <2>2 DEF OneChanger, Sets
  <2>4. SettingsOfFile(n)'
    BY <1>1, <1>3, <1>5, <1>9 DEF SettingsOfFile, FileOf
  <2> QED BY <2>3, <2>4
<1> QED BY <1>1, <1>2, <1>6, <1>7, <1>8, <1>9, ContextAt

\* The kernel takes a setting: the one the context has, or the number is crossed.
LEMMA ContextPassed ==
  ASSUME FdType, Shaped, ContextInv, NEW c \in Caller, SetInKernel(c)
  PROVE  ContextInv'
<1>n. PICK n \in Number : n = call[c].fd
  BY DEF Shaped, Shape, SetInKernel
<1>f. PICK f : f = fdtable[n]
  OBVIOUS
<1>1. /\ call \in [Caller -> Call] /\ call[c] \in Call /\ call[c].at = "system"
      /\ call[c].op \in {"set_timeout", "set_flags", "ioctl", "fionbio"}
      /\ UNCHANGED <<fdtable, m_datas, contexts, undercut>> /\ crossed \subseteq crossed'
      /\ n \notin crossed' => call[c].op \in {"set_timeout", "set_flags"} /\ call[c].ctx # NoContext
  BY <1>n DEF FdType, SetInKernel, tableVars, HasContext
<1>2. /\ call'[c].at = "done" /\ call'[c].fd = n
      /\ \A d \in Caller \ {c} : call'[d] = call[d]
  BY <1>n, ReturnsTyped DEF SetInKernel
<1>3. ~Changes(call'[c]) /\ ~Sets(call'[c]) /\ ~Settling(call'[c])
  BY <1>2 DEF Changes, Settling, Sets
<1>4. IsOpen(n) => f \in 1 .. Len(files) /\ files \in Seq(File) /\ files[f] \in File
  <2>1. IsOpen(n) => f \in 1 .. Len(files) /\ files \in Seq(File)
    BY <1>f DEF FdType, IsOpen, NoFile
  <2> QED BY <2>1
<1>5. /\ \A g \in 1 .. Len(files) : g # f => files'[g] = files[g]
      /\ IsOpen(n) =>
           /\ files'[f].socket = files[f].socket
           /\ call[c].op = "set_timeout" =>
                files'[f].limit = call[c].want /\ files'[f].nonblock = files[f].nonblock
           /\ call[c].op = "set_flags" =>
                files'[f].nonblock = (call[c].want = 1) /\ files'[f].limit = files[f].limit
  <2> DEFINE on == call[c].want = 1
  <2>1. \/ files' = files /\ (IsOpen(n) => call[c].op = "ioctl")
        \/ /\ IsOpen(n) /\ call[c].op = "set_timeout"
           /\ files' = [files EXCEPT ![f] = [files[f] EXCEPT !.limit = call[c].want]]
        \/ /\ IsOpen(n) /\ call[c].op \in {"set_flags", "fionbio"}
           /\ files' = [files EXCEPT ![f] = [files[f] EXCEPT !.nonblock = on]]
    BY <1>n, <1>f, <1>1 DEF SetInKernel
  <2> HIDE DEF on
  <2>2. /\ \A g \in 1 .. Len(files) : g # f => files'[g] = files[g]
        /\ IsOpen(n) =>
             /\ files'[f].socket = files[f].socket
             /\ call[c].op = "set_timeout" =>
                  files'[f].limit = call[c].want /\ files'[f].nonblock = files[f].nonblock
             /\ call[c].op = "set_flags" =>
                  files'[f].nonblock = on /\ files'[f].limit = files[f].limit
    BY <1>4, <2>1 DEF File
  <2> QED BY <2>2 DEF on
<1>6. ASSUME NEW m \in Number \ {n}
      PROVE  Same(m)
  <2>1. IsOpen(m) => files'[fdtable[m]] = files[fdtable[m]]
    <3>1. IsOpen(m) => fdtable[m] # f /\ fdtable[m] \in 1 .. Len(files)
      BY <1>f, OtherFile DEF ContextInv, FdType, IsOpen, NoFile
    <3> QED BY <1>5, <3>1
  <2> QED BY <1>n, <1>1, <1>2, <2>1 DEF Same, Alike
<1>7. Distinct'
  <2>1. \A d \in Caller : Sets(call'[d]) => d # c /\ call'[d] = call[d]
    BY <1>2, <1>3
  <2> QED BY <1>1, <2>1 DEF ContextInv, Distinct, IsOpen
<1>8. ASSUME n \notin undercut'
      PROVE  EntryOfFile(n)'
  <2>1. EntryOfFile(n)
    BY <1>1, <1>8 DEF ContextInv
  <2>2. \A d \in Caller : Records(d, n, "close")' => Records(d, n, "close")
    BY <1>2, <1>3 DEF Records
  <2>3. IsOpen(n) => FileOf(n)'.socket = FileOf(n).socket
    BY <1>1, <1>5, <1>f DEF FileOf
  <2> QED BY <1>1, <2>1, <2>2, <2>3 DEF EntryOfFile, IsOpen
<1>9. ASSUME n \notin undercut' \cup crossed'
      PROVE  OneChanger(n)' /\ SettingsOfFile(n)'
  <2>1. OneChanger(n) /\ SettingsOfFile(n) /\ EntryOfFile(n)
        /\ call[c].op \in {"set_timeout", "set_flags"} /\ call[c].ctx # NoContext
    BY <1>1, <1>9 DEF ContextInv
  <2>2. /\ Changes(call[c]) /\ Sets(call[c]) /\ Settling(call[c])
        /\ \A op : Records(c, n, op) <=> op = call[c].op
    BY <1>n, <1>1, <2>1 DEF Changes, Sets, Settling, Changing, Records
  <2>3. OneChanger(n)'
    BY <1>1, <1>2, <1>3, <2>1 DEF OneChanger
  <2>4. PICK k : k = m_datas[n] /\ k = call[c].ctx /\ k # NoContext
    BY <1>n, <2>1, <2>2 DEF OneChanger
  <2>5. \A d \in Caller \ {c} : ~(Changes(call[d]) /\ call[d].fd = n)
    BY <1>n, <2>1, <2>2 DEF OneChanger
  <2>6. \A d \in Caller : \A op : ~Records(d, n, op)'
    BY <1>2, <1>3, <2>5 DEF Records, Settling
  <2>7. \A d \in Caller \ {c} : \A op : ~Records(d, n, op)
    BY <2>5 DEF Records, Settling
  <2>8. IsOpen(n) /\ FileOf(n) = files[f] /\ FileOf(n)' = files'[f]
    BY <1>1, <1>f, <2>1, <2>4 DEF EntryOfFile, FileOf
  <2>9. contexts[k].recv_timeout = files'[f].limit
    BY <1>5, <2>1, <2>2, <2>4, <2>7, <2>8 DEF SettingsOfFile
  <2>10. ~contexts[k].is_socket \/ contexts[k].sys_non_block = files'[f].nonblock
    BY <1>5, <2>1, <2>2, <2>4, <2>7, <2>8 DEF SettingsOfFile
  <2>11. SettingsOfFile(n)'
    BY <1>1, <2>4, <2>6, <2>8, <2>9, <2>10 DEF SettingsOfFile
  <2> QED BY <2>3, <2>11
<1> QED BY <1>1, <1>6, <1>7, <1>8, <1>9, ContextAt

\* A call begins: the only one that changes its number, or it is crossed.
LEMMA ContextBegun ==
  ASSUME FdType, Shaped, ContextInv, NEW c \in Caller, FdBegins(c)
  PROVE  ContextInv'
<1>1. PICK op, n, want : Begin(c, op, n, want)
  BY DEF FdBegins
<1>2. /\ call \in [Caller -> Call] /\ UNCHANGED <<fdtable, files, m_datas, contexts, undercut>>
      /\ crossed \subseteq crossed'
      /\ n \notin crossed' => ~Collides(c, op, n)
  BY <1>1 DEF Begin, FdType, kernelVars, tableVars
<1>3. /\ \A d \in Caller \ {c} : call'[d] = call[d]
      /\ call'[c].op = op /\ call'[c].fd = n /\ call'[c].ctx = NoContext
  BY <1>1, <1>2 DEF Begin, Idle
<1>4. ~Changes(call[c]) /\ ~Settling(call[c]) /\ ~Settling(call'[c])
  <2>1. call[c] = Idle \/ call[c].at = "done" \/ call[c].op \in {"socket", "accept", "get"}
    BY DEF FdBegins, AtRest, HasReturned, Opened
  <2> QED BY <1>3, <2>1 DEF Changes, Settling, Changing, Idle
<1>5. \A d \in Caller : \A m, o : Records(d, m, o)' <=> Records(d, m, o)
  BY <1>3, <1>4 DEF Records
<1>6. Distinct'
  <2>1. \A d \in Caller : Sets(call'[d]) /\ call'[d].ctx # NoContext => call'[d] = call[d]
    BY <1>3
  <2> QED BY <1>2, <2>1 DEF ContextInv, Distinct, IsOpen
<1>7. ASSUME NEW m \in Number \ undercut'
      PROVE  EntryOfFile(m)'
  BY <1>2, <1>5, <1>7 DEF ContextInv, EntryOfFile, IsOpen, FileOf
<1>8. ASSUME NEW m \in Number \ (undercut' \cup crossed')
      PROVE  OneChanger(m)' /\ SettingsOfFile(m)'
  <2>1. OneChanger(m) /\ SettingsOfFile(m)
    BY <1>2, <1>8 DEF ContextInv
  <2>2. ASSUME NEW d \in Caller \ {c}, Changes(call'[c]), call'[c].fd = m,
               Changes(call[d]), call[d].fd = m
        PROVE  FALSE
    BY <1>2, <1>3, <1>8, <2>2 DEF Collides, Changes
  <2>3. OneChanger(m)'
    <3>1. \A d \in Caller : Sets(call'[d]) /\ call'[d].ctx # NoContext => d # c
      BY <1>3
    <3> QED BY <1>2, <1>3, <2>1, <2>2, <3>1 DEF OneChanger
  <2>4. \A d \in Caller : \A o : Records(d, m, o) => call'[d].want = call[d].want
    BY <1>3, <1>4 DEF Records
  <2>5. SettingsOfFile(m)'
    BY <1>2, <1>5, <2>1, <2>4 DEF SettingsOfFile, IsOpen, FileOf
  <2> QED BY <2>3, <2>5
<1> QED BY <1>6, <1>7, <1>8 DEF ContextInv

-----------------------------------------------------------------------------
\* No step spoils what the table knows of the files.
LEMMA ContextStep ==
  ASSUME FdType, Shaped, ContextInv, FdNext
  PROVE  ContextInv'
<1>1. ASSUME NEW n \in Number, Ready(n)
      PROVE  ContextInv'
  <2>1. PICK events \in SUBSET Event : Woken(n, events, call)
    BY <1>1, ReadyWakes
  <2>2. call \in [Caller -> Call] /\ \A d \in Caller : Shape(call[d]) /\ Alike(call[d], call[d])
    BY DEF FdType, Shaped, Alike
  <2> QED BY <1>1, <2>1, <2>2, ContextWoken DEF Ready
<1>2. ASSUME NEW c \in Caller, TimeLimit(c)
      PROVE  ContextInv'
  <2> DEFINE then == [call EXCEPT ![c].cancelled = TRUE]
  <2>1. /\ then \in [Caller -> Call]
        /\ \A d \in Caller : Shape(then[d])
        /\ \A d \in Caller : then[d] = IF d = c THEN [call[c] EXCEPT !.cancelled = TRUE] ELSE call[d]
        /\ Woken(call[c].fd, {EventOf(c)}, then)
    BY <1>2, LimitWakes
  <2> HIDE DEF then
  <2>2. \A d \in Caller : Alike(call[d], then[d])
    <3>1. call[c] \in Call
      BY DEF FdType
    <3> QED BY <2>1, <3>1 DEF Call, Alike, Changes, Settling
  <2>3. UNCHANGED <<fdtable, files, tableVars, ghostVars>>
    BY <1>2 DEF TimeLimit
  <2>4. PICK n, events : n = call[c].fd /\ events = {EventOf(c)}
    OBVIOUS
  <2>5. PICK g : g = then
    OBVIOUS
  <2> QED BY <2>1, <2>2, <2>3, <2>4, <2>5, ContextWoken
<1>3. ASSUME NEW c \in Caller, CancelAll(c), HasContext(c)
      PROVE  ContextInv'
  <2>1. PICK g : g = [call EXCEPT ![c].at = "drop"]
    OBVIOUS
  <2>2. /\ call[c] \in Call /\ Shape(call[c]) /\ call[c].at = "use" /\ call[c].op = "close"
        /\ call[c].ctx # NoContext
    BY <1>3 DEF FdType, Shaped, CancelAll, Within, HasContext
  <2>3. /\ g \in [Caller -> Call]
        /\ \A d \in Caller : g[d] = IF d = c THEN [call[c] EXCEPT !.at = "drop"] ELSE call[d]
    <3>1. [call[c] EXCEPT !.at = "drop"] \in Call
      BY <2>2 DEF Call, CallAt
    <3> QED BY <2>1, <3>1 DEF FdType
  <2>4. PICK n \in Number : n = call[c].fd
    BY <2>2 DEF Shape
  <2>5. Woken(n, Event, g)
    <3>1. Wakes(n, Event, g) /\ Event \in SUBSET Event
      BY <1>3, <2>1, <2>4 DEF CancelAll
    <3> QED BY <2>3, <3>1, WakesFacts
  <2>6. \A d \in Caller : Shape(g[d])
    BY <2>2, <2>3 DEF Shaped, Shape, Call
  <2>7. \A d \in Caller : Alike(call[d], g[d])
    BY <2>2, <2>3 DEF Call, Alike, Changes, Settling
  <2>8. UNCHANGED <<fdtable, files, tableVars, ghostVars>>
    BY <1>3 DEF CancelAll
  <2> QED BY <2>3, <2>5, <2>6, <2>7, <2>8, ContextWoken
<1>4. ASSUME NEW c \in Caller, OpenOther(c)
      PROVE  ContextInv'
  BY <1>4, ContextOpened DEF OpenOther, tableVars
<1>5. ASSUME NEW c \in Caller, OpenSocket(c)
      PROVE  ContextInv'
  <2>1. ~Changes(call[c])
    BY <1>5 DEF OpenSocket, Within, Changes, Changing
  <2>2. CASE Opens(TRUE) /\ call' = [call EXCEPT ![c].fd = NewNumber, ![c].rt = 1,
                                      ![c].at = IF c \in Hooked THEN "look" ELSE "done"]
    <3>1. PICK n, at : n = NewNumber /\ at = IF c \in Hooked THEN "look" ELSE "done"
      OBVIOUS
    <3>2. call' = [call EXCEPT ![c] = [call[c] EXCEPT !.fd = n, !.rt = 1, !.at = at]]
      BY <2>2, <3>1
    <3>3. call'[c].op = "socket" /\ \A d \in Caller \ {c} : call'[d] = call[d]
      BY <1>5, <3>2 DEF OpenSocket, Within, FdType, Call
    <3>4. ~Changes(call'[c])
      BY <3>3 DEF Changes, Changing
    <3> QED BY <1>5, <2>1, <2>2, <3>3, <3>4, ContextOpened DEF OpenSocket, tableVars
  <2>3. CASE Returns(c, -1) /\ UNCHANGED <<files, fdtable, ghostVars>>
    <3>1. call'[c].at = "done" /\ \A d \in Caller \ {c} : call'[d] = call[d]
      BY <2>3, ReturnsTyped
    <3>2. \A d \in Caller : Alike(call[d], call'[d])
      BY <2>1, <3>1 DEF Alike, Settling, Changes
    <3> QED BY <1>5, <2>3, <3>2, ContextAside DEF OpenSocket, tableVars, ghostVars
  <2> QED BY <1>5, <2>2, <2>3 DEF OpenSocket
<1>6. ASSUME NEW c \in Caller, SystemCall(c), Accepted(c)
      PROVE  ContextInv'
  <2>1. PICK n : n = NewNumber
    OBVIOUS
  <2>2. call' = [call EXCEPT ![c] = [call[c] EXCEPT !.fd = n, !.rt = 1, !.at = "look"]]
    BY <1>6, <2>1 DEF Accepted
  <2>3. /\ call[c].op = "accept" /\ call'[c].op = "accept"
        /\ \A d \in Caller \ {c} : call'[d] = call[d]
    BY <1>6, <2>2 DEF Accepted, FdType, Call
  <2>4. ~Changes(call[c]) /\ ~Changes(call'[c])
    BY <2>3 DEF Changes, Changing
  <2> QED BY <1>6, <2>3, <2>4, ContextOpened DEF Accepted, SystemCall, tableVars
<1>7. ASSUME NEW c \in Caller, Step(c)
      PROVE  ContextInv'
  <2>1. CASE Plain(c)
    BY <2>1, ContextPlain
  <2>2. CASE LookUp(c)
    BY <2>2, <2>1, ContextLook DEF Plain
  <2>3. CASE UseInSetting(c)
    BY <2>3, <2>1, ContextSet DEF Plain
  <2>4. CASE CancelAll(c)
    BY <2>4, <2>1, <1>3 DEF Plain
  <2>5. CASE SystemCall(c)
    BY <2>5, <2>1, <1>6 DEF Plain
  <2>6. CASE UseInCall(c) \/ Park(c) \/ Resume(c)
    BY <2>6, <2>1 DEF Plain
  <2> QED BY <1>2, <1>5, <1>7, <2>2, <2>3, <2>4, <2>5, <2>6,
             ContextMade, ContextDropped, ContextClosed, ContextPassed DEF Step
<1>8. ASSUME NEW c \in Caller, FdRests(c)
      PROVE  ContextInv'
  BY <1>8, ContextPlain DEF Plain
<1>9. CASE UNCHANGED fdVars
  <2>1. \A d \in Caller : Alike(call[d], call'[d])
    BY <1>9 DEF fdVars, Alike
  <2> QED BY <1>9, <2>1, ContextAside DEF fdVars, kernelVars, tableVars, ghostVars
<1> QED BY <1>1, <1>4, <1>7, <1>8, <1>9, ContextBegun DEF FdNext

\* At first the table is empty.
LEMMA ContextInit == Init => ContextInv
<1> SUFFICES ASSUME Init PROVE ContextInv
  OBVIOUS
<1>1. /\ \A c \in Caller : call[c].op = "none" /\ call[c].at = "idle"
      /\ \A n \in Number : m_datas[n] = NoContext
      /\ \A n \in Number : fdtable[n] = IF n < Inherited THEN n + 1 ELSE NoFile
  BY DEF Init, InitDescriptors, Idle
<1>2. \A c \in Caller : ~Changes(call[c])
  BY <1>1 DEF Changes, Changing
<1>3. Distinct
  BY <1>1, <1>2, BoundsAssumption DEF Distinct, Sets, IsOpen, Number, NoFile
<1>4. \A n \in Number : EntryOfFile(n) /\ OneChanger(n)
  BY <1>1, <1>2 DEF EntryOfFile, OneChanger, Sets
<1>5. ASSUME NEW n \in Number
      PROVE  SettingsOfFile(n)
  <2>1. IsOpen(n) => FileOf(n).limit = NoLimit
    <3>1. IsOpen(n) => fdtable[n] \in 1 .. Inherited
      BY <1>1, BoundsAssumption DEF IsOpen, Number, NoFile
    <3>2. files = [f \in 1 .. Inherited |-> NewFile(FALSE)]
      BY DEF Init, InitDescriptors
    <3> QED BY <3>1, <3>2 DEF FileOf, NewFile
  <2> QED BY <1>1, <2>1 DEF SettingsOfFile
<1> QED BY <1>3, <1>4, <1>5 DEF ContextInv

\* Spec => []ContextCurrent: the context of an open number that nobody is
\* changing is that of the file behind it, with its flags and its limit, unless
\* the number was closed or set past the table or by two callers at once
\* (fd_manager.cpp:37, hook.cpp:335, hook.cpp:355).
THEOREM TableIsCurrent == Spec => []ContextCurrent
<1>1. TypeOK /\ Shaped /\ ContextInv /\ [FdNext]_fdVars => ContextInv'
  <2> SUFFICES ASSUME TypeOK, Shaped, ContextInv, FdNext PROVE ContextInv'
    BY DEF FdNext
  <2> QED BY ContextStep DEF TypeOK
<1>2. ContextInv => ContextCurrent
  <2> SUFFICES ASSUME ContextInv, NEW n \in Number,
                      IsOpen(n), m_datas[n] # NoContext, n \notin undercut, Settled(n)
               PROVE  LET ctx == contexts[m_datas[n]]
                      IN  /\ ctx.of = fdtable[n] /\ ctx.is_init /\ ctx.is_socket = FileOf(n).socket
                          /\ n \notin crossed =>
                               /\ ctx.is_socket => ctx.sys_non_block = FileOf(n).nonblock
                               /\ ctx.recv_timeout = FileOf(n).limit
    BY DEF ContextCurrent
  <2>1. \A c \in Caller : \A op : ~Records(c, n, op)
    BY DEF Settled, Records, Settling, Changes
  <2>2. EntryOfFile(n)
    BY DEF ContextInv
  <2>3. n \notin crossed => SettingsOfFile(n)
    BY DEF ContextInv
  <2> QED BY <2>1, <2>2, <2>3 DEF EntryOfFile, SettingsOfFile
<1> QED BY ContextInit, <1>1, <1>2, TypesKept, PTL DEF Spec

-----------------------------------------------------------------------------
\* The hooked calls an operation of an object may be in, by what it waits for,
\* and the operations that wait for it.
CallOf == [none |-> {"none"}, socket |-> {"socket"}, connect |-> {"connect"},
           close |-> {"close", "none"}, accept |-> {"accept"}, create |-> {"get"},
           io |-> {"io", "set_timeout", "set_flags", "ioctl", "fionbio"}]
OpOf == [none |-> {"none"}, socket |-> {"connect", "bind"}, connect |-> {"connect"},
         close |-> {"connect", "close"}, accept |-> {"accept"}, create |-> {"accept"},
         io |-> {"io", "set"}]

\* Who creates a descriptor does so for an object without one, and who closes
\* one closes that of the object.
Serves(c) ==
  /\ call[c].op \in CallOf[step[c].wait] /\ step[c].op \in OpOf[step[c].wait]
  /\ step[c].wait = "socket" => m_sock[step[c].on] = -1
  /\ step[c].wait = "close" =>
       /\ call[c].fd = m_sock[step[c].on]
       /\ call[c].op = "none" => call[c].fd = -1 /\ call[c].at = "done"

\* Callers that change an object do so one after the other.
Exclusive ==
  \A c, d \in Caller :
    /\ c # d /\ step[c].on = step[d].on
    /\ {step[c].op, step[d].op} \subseteq Replacing \union {"set"}
    => step[c].op = "set" /\ step[d].op = "set"

\* A number an object has, and one that a caller has just opened for an object.
Holds(s, n) == m_sock[s] = n /\ ~Closing(s)
Hand(c) ==
  step[c].wait = "create" \/ (step[c].wait \in {"socket", "accept"} /\ call[c].rt = 1)

\* What an object has nobody else has, and an open socket has an owner.
HeldOnce ==
  \A s \in Socket : \A n \in Number :
    Holds(s, n) =>
      /\ IsOpen(n) /\ own[s] = fdtable[n]
      /\ \A t \in Socket \ {s} : ~Holds(t, n)
      /\ \A c \in Caller : Hand(c) => call[c].fd # n
HandOnce ==
  \A c \in Caller :
    Hand(c) =>
      /\ IsOpen(call[c].fd) /\ FileOf(call[c].fd).socket
      /\ \A d \in Caller \ {c} : Hand(d) => call[d].fd # call[c].fd
Owned ==
  \A n \in Number \ undercut :
    IsOpen(n) /\ FileOf(n).socket =>
      (\E s \in Socket : Holds(s, n)) \/ (\E c \in Caller : Hand(c) /\ call[c].fd = n)

\* A descriptor just opened is entered in the table before it is handed on, and
\* an accepted one has the context of a socket.
Entered(c) ==
  /\ call[c].rt = 1 =>
       /\ call[c].op \in {"socket", "accept"}
       /\ call[c].at \in {"look", "make", "use"} \/ (call[c].op = "socket" /\ call[c].at = "done")
       /\ call[c].at \in {"make", "use"} => call[c].fd < slots
  /\ call[c].op = "get" =>
       /\ call[c].at \in {"look", "make", "use"} /\ call[c].fd < slots
       /\ call[c].at = "use" =>
            HasContext(c) /\ (call[c].fd \in undercut \/ (Context(c).is_init /\ Context(c).is_socket))

ObjectInv ==
  /\ \A c \in Caller : Entered(c)
  /\ \A c \in Caller : Serves(c)
  /\ ~clash => Exclusive /\ HeldOnce /\ HandOnce /\ Owned

-----------------------------------------------------------------------------
\* Records of a call that the invariant of the objects does not tell apart.
Kin(r, s) ==
  /\ s.op = r.op /\ s.fd = r.fd /\ (s.rt = 1 <=> r.rt = 1)
  /\ r.op \in {"close", "none"} => (s.at = "done" <=> r.at = "done")

\* A step that leaves the objects and the open numbers alone keeps it.
LEMMA ObjectsAside ==
  ASSUME ObjectInv, UNCHANGED <<m_sock, own, step, clash, fdtable>>, undercut \subseteq undercut',
         \A n \in Number : IsOpen(n) => files'[fdtable[n]].socket = files[fdtable[n]].socket,
         \A d \in Caller : Kin(call[d], call'[d]) /\ Entered(d)'
  PROVE  ObjectInv'
<1>1. \A d \in Caller : Serves(d)'
  BY DEF ObjectInv, Serves, Kin
<1>2. \A s \in Socket : Closing(s)' <=> Closing(s)
  BY DEF Closing, Kin, ObjectInv, Serves, CallOf
<1>3. /\ \A s \in Socket : \A n \in Number : Holds(s, n)' <=> Holds(s, n)
      /\ \A d \in Caller : (Hand(d)' <=> Hand(d)) /\ call'[d].fd = call[d].fd
      /\ \A n : IsOpen(n)' <=> IsOpen(n)
      /\ \A n \in Number : IsOpen(n) => FileOf(n)'.socket = FileOf(n).socket
  BY <1>2 DEF Holds, Hand, Kin, IsOpen, FileOf
<1>4. ASSUME ~clash'
      PROVE  Exclusive' /\ HeldOnce' /\ HandOnce' /\ Owned'
  <2>1. Exclusive /\ HeldOnce /\ HandOnce /\ Owned
    BY <1>4 DEF ObjectInv
  <2>2. Exclusive'
    BY <2>1 DEF Exclusive
  <2>3. HeldOnce'
    BY <1>3, <2>1 DEF HeldOnce
  <2>4. HandOnce'
    <3>1. \A d \in Caller : Hand(d) => call[d].fd \in Number
      BY <2>1 DEF HandOnce, IsOpen
    <3>2. \A d \in Caller : Hand(d) => FileOf(call[d].fd)'.socket
      BY <1>3, <2>1, <3>1 DEF HandOnce, FileOf
    <3> QED BY <1>3, <2>1, <3>1, <3>2 DEF HandOnce, IsOpen, FileOf
  <2>5. Owned'
    BY <1>3, <2>1 DEF Owned
  <2> QED BY <2>2, <2>3, <2>4, <2>5
<1> QED BY <1>1, <1>4 DEF ObjectInv

\* Steps of a call that neither open nor close a descriptor.
Inner(c) ==
  \/ LookUp(c) \/ MakeContext(c) \/ UseInCall(c) \/ UseInSetting(c)
  \/ CancelAll(c) \/ DelFdctx(c) \/ SetInKernel(c) \/ Park(c) \/ TimeLimit(c) \/ Resume(c)
  \/ SystemCall(c) /\ ~Accepted(c)
  \/ OpenSocket(c) /\ Returns(c, -1)

\* What they do to the calls.
LEMMA KinSteps ==
  ASSUME FdType, Shaped, NEW c \in Caller, Entered(c), Inner(c)
  PROVE  \A d \in Caller : Kin(call[d], call'[d])
<1>a. call \in [Caller -> Call] /\ call[c] \in Call /\ Shape(call[c])
  BY DEF FdType, Shaped
<1>b. ASSUME \A d \in Caller \ {c} : call'[d] = call[d], Kin(call[c], call'[c])
      PROVE  \A d \in Caller : Kin(call[d], call'[d])
  BY <1>b DEF Kin
<1>c. ASSUME NEW at, Goes(c, at), at # "done", call[c].at # "done"
      PROVE  \A d \in Caller : Kin(call[d], call'[d])
  <2>1. /\ \A d \in Caller \ {c} : call'[d] = call[d]
        /\ call'[c].at = at /\ call'[c].op = call[c].op /\ call'[c].fd = call[c].fd
        /\ call'[c].rt = call[c].rt
    BY <1>a, <1>c DEF Goes, Call
  <2> QED BY <1>b, <1>c, <2>1 DEF Kin
<1>d. ASSUME NEW rt \in {-1, 0}, Returns(c, rt), call[c].rt # 1, call[c].op \notin {"close", "none"}
      PROVE  \A d \in Caller : Kin(call[d], call'[d])
  BY <1>b, <1>d, ReturnsTyped DEF Kin
<1>1. CASE LookUp(c)
  <2>1. /\ \A d \in Caller \ {c} : call'[d] = call[d]
        /\ call'[c].op = call[c].op /\ call'[c].fd = call[c].fd /\ call'[c].rt = call[c].rt
        /\ call[c].at = "look" /\ call'[c].at \in {"look", "use", "make"}
    BY <1>1, <1>a DEF LookUp, Goes, Call
  <2> QED BY <1>b, <2>1 DEF Kin
<1>2. CASE MakeContext(c)
  <2>1. PICK k : call' = [call EXCEPT ![c] = [call[c] EXCEPT !.at = "use", !.ctx = k]]
    BY <1>2 DEF MakeContext
  <2>2. /\ \A d \in Caller \ {c} : call'[d] = call[d]
        /\ call'[c].op = call[c].op /\ call'[c].fd = call[c].fd /\ call'[c].rt = call[c].rt
        /\ call[c].at = "make" /\ call'[c].at = "use"
    BY <1>2, <1>a, <2>1 DEF MakeContext, Call
  <2> QED BY <1>b, <2>2 DEF Kin
<1>3. CASE UseInCall(c)
  <2>1. call[c].rt # 1 /\ call[c].op \in {"io", "connect", "accept"} /\ call[c].at = "use"
    BY <1>3, <1>a DEF UseInCall, Within, Opened, Entered
  <2>2. ASSUME NEW limit, call' = [call EXCEPT ![c].at = "try", ![c].limit = limit]
        PROVE  \A d \in Caller : Kin(call[d], call'[d])
    <3>1. /\ \A d \in Caller \ {c} : call'[d] = call[d]
          /\ call'[c].op = call[c].op /\ call'[c].fd = call[c].fd /\ call'[c].rt = call[c].rt
      BY <1>a, <2>2 DEF Call
    <3> QED BY <1>b, <2>1, <3>1 DEF Kin
  <2> QED BY <1>3, <1>c, <1>d, <2>1, <2>2 DEF UseInCall
<1>4. CASE UseInSetting(c) \/ DelFdctx(c) \/ (CancelAll(c) /\ ~HasContext(c))
  <2>1. Goes(c, "system") /\ call[c].at # "done"
    BY <1>4 DEF UseInSetting, DelFdctx, CancelAll, Within
  <2> QED BY <1>c, <2>1
<1>5. CASE SetInKernel(c)
  <2>1. Returns(c, 0) /\ call[c].rt # 1 /\ call[c].op \notin {"close", "none"}
    BY <1>5 DEF SetInKernel, Entered
  <2> QED BY <1>d, <2>1
<1>6. CASE Park(c)
  <2>1. call[c].rt # 1 /\ call[c].op \notin {"close", "none"} /\ call[c].at = "park"
    BY <1>6, <1>a DEF Park, Entered, Shape
  <2>2. CASE call' = [call EXCEPT ![c].at = "parked", ![c].limit = NoLimit]
    <3>1. /\ \A d \in Caller \ {c} : call'[d] = call[d]
          /\ call'[c].op = call[c].op /\ call'[c].fd = call[c].fd /\ call'[c].rt = call[c].rt
      BY <1>a, <2>2 DEF Call
    <3> QED BY <1>b, <2>1, <3>1 DEF Kin
  <2>3. CASE call' = call
    BY <2>3 DEF Kin
  <2> QED BY <1>6, <1>c, <1>d, <2>1, <2>2, <2>3 DEF Park
<1>7. CASE Resume(c)
  <2>1. call[c].rt # 1 /\ call[c].op \notin {"close", "none"} /\ call[c].at = "woken"
    BY <1>7, <1>a DEF Resume, Entered, Shape
  <2> QED BY <1>7, <1>c, <1>d, <2>1 DEF Resume
<1>8. CASE SystemCall(c) /\ ~Accepted(c)
  <2>1. call[c].rt # 1 /\ call[c].op \notin {"close", "none"} /\ call[c].at # "done"
    BY <1>8 DEF SystemCall, Entered
  <2> QED BY <1>8, <1>c, <1>d, <2>1 DEF SystemCall, Ends, MustWait
<1>9. CASE OpenSocket(c) /\ Returns(c, -1)
  <2>1. call[c].rt # 1 /\ call[c].op = "socket"
    BY <1>9 DEF OpenSocket, Within, Entered
  <2> QED BY <1>9, <1>d, <2>1
<1>10. CASE TimeLimit(c)
  <2>1. PICK g : g = [call EXCEPT ![c].cancelled = TRUE]
    OBVIOUS
  <2>2. /\ \A d \in Caller : g[d] = IF d = c THEN [call[c] EXCEPT !.cancelled = TRUE] ELSE call[d]
        /\ g \in [Caller -> Call] /\ Woken(call[c].fd, {EventOf(c)}, g)
    BY <1>10, <2>1, LimitWakes
  <2>3. \A d \in Caller : Kin(call[d], g[d])
    BY <1>a, <2>2 DEF Kin, Call
  <2> QED BY <2>2, <2>3 DEF Woken, Kin, Call
<1>11. CASE CancelAll(c) /\ HasContext(c)
  <2>1. PICK g : g = [call EXCEPT ![c].at = "drop"]
    OBVIOUS
  <2>2. call[c].at = "use" /\ call[c].fd \in Number /\ Wakes(call[c].fd, Event, g)
    BY <1>11, <1>a, <2>1 DEF CancelAll, Within, Shape
  <2>3. /\ g \in [Caller -> Call]
        /\ \A d \in Caller : g[d] = IF d = c THEN [call[c] EXCEPT !.at = "drop"] ELSE call[d]
    <3>1. [call[c] EXCEPT !.at = "drop"] \in Call
      BY <1>a DEF Call, CallAt
    <3> QED BY <1>a, <2>1, <3>1
  <2>4. Woken(call[c].fd, Event, g)
    <3>1. Event \in SUBSET Event
      OBVIOUS
    <3> QED BY <2>2, <2>3, <3>1, WakesFacts
  <2>5. \A d \in Caller : Kin(call[d], g[d])
    BY <1>a, <2>2, <2>3 DEF Kin, Call
  <2> QED BY <2>3, <2>4, <2>5 DEF Woken, Kin, Call
<1> QED BY <1>1, <1>2, <1>3, <1>4, <1>5, <1>6, <1>7, <1>8, <1>9, <1>10, <1>11 DEF Inner
-----------------------------------------------------------------------------
\* What a caller's call tells of what its operation waits for.
LEMMA WaitOfCall ==
  ASSUME SocketType, NEW c \in Caller, Serves(c)
  PROVE  /\ call[c].op = "get" <=> step[c].wait = "create"
         /\ call[c].op = "close" => step[c].wait = "close"
         /\ call[c].op = "socket" <=> step[c].wait = "socket"
         /\ call[c].op = "accept" <=> step[c].wait = "accept"
         /\ step[c].wait = "close" => call[c].op \in {"close", "none"}
         /\ step[c].wait # "none" => step[c].on \in Socket
         /\ step[c].wait \in {"none", "socket", "connect", "close", "accept", "create", "io"}
BY DEF SocketType, Serves, CallOf

\* A call that has opened nothing, nor looks up what was.
Bare(r) == r.rt # 1 /\ r.op # "get"

\* What a step does to the callers that do not take it.
LEMMA OthersKept ==
  ASSUME FdType, Shaped, NEW c \in Caller, Step(c), NEW d \in Caller \ {c}
  PROVE  \/ call'[d] = call[d]
         \/ call[d].at = "parked" /\ call'[d].op = call[d].op /\ call'[d].rt = call[d].rt
<1>a. call \in [Caller -> Call]
  BY DEF FdType
<1>1. CASE TimeLimit(c)
  <2>1. PICK g : g = [call EXCEPT ![c].cancelled = TRUE]
    OBVIOUS
  <2>2. /\ \A e \in Caller : g[e] = IF e = c THEN [call[c] EXCEPT !.cancelled = TRUE] ELSE call[e]
        /\ g \in [Caller -> Call] /\ Woken(call[c].fd, {EventOf(c)}, g)
    BY <1>1, <2>1, LimitWakes
  <2>3. g[d] = call[d]
    BY <2>2
  <2> QED BY <2>2, <2>3 DEF Woken, Call
<1>2. CASE CancelAll(c) /\ HasContext(c)
  <2>1. PICK g : g = [call EXCEPT ![c].at = "drop"]
    OBVIOUS
  <2>2. call[c].fd \in Number /\ Wakes(call[c].fd, Event, g)
    BY <1>2, <2>1 DEF CancelAll, Within, Shaped, Shape
  <2>3. g \in [Caller -> Call] /\ g[d] = call[d]
    <3>1. [call[c] EXCEPT !.at = "drop"] \in Call
      BY <1>a DEF Call, CallAt
    <3> QED BY <1>a, <2>1, <3>1
  <2>4. Woken(call[c].fd, Event, g)
    <3>1. Event \in SUBSET Event
      OBVIOUS
    <3> QED BY <2>2, <2>3, <3>1, WakesFacts
  <2> QED BY <2>3, <2>4 DEF Woken, Call
<1>3. ASSUME NEW r, call' = [call EXCEPT ![c] = r]
      PROVE  call'[d] = call[d]
  BY <1>a, <1>3
<1>4. CASE LookUp(c)
  BY <1>4, LookUpFacts
<1>5. CASE OpenSocket(c)
  BY <1>5, <1>a, <1>3 DEF OpenSocket, Returns
<1>6. CASE SystemCall(c)
  BY <1>6, <1>a, <1>3 DEF SystemCall, Ends, Accepted, MustWait, Returns, Goes
<1>7. CASE Park(c)
  BY <1>7, <1>a, <1>3 DEF Park, Goes, Returns
<1>8. CASE MakeContext(c) \/ UseInCall(c)
  BY <1>8, <1>a, <1>3 DEF MakeContext, UseInCall, Goes, Returns
<1>9. CASE \/ UseInSetting(c) \/ DelFdctx(c) \/ CloseDescriptor(c) \/ SetInKernel(c) \/ Resume(c)
           \/ CancelAll(c) /\ ~HasContext(c)
  BY <1>9, <1>a, <1>3 DEF UseInSetting, DelFdctx, CloseDescriptor, SetInKernel, Resume, CancelAll,
     Goes, Returns
<1> QED BY <1>1, <1>2, <1>4, <1>5, <1>6, <1>7, <1>8, <1>9 DEF Step

\* The table grows, contexts stay those of sockets, and a number that is
\* undercut remains so while a call has it.
LEMMA TableKept ==
  ASSUME FdType, Shaped, NEW c \in Caller, Step(c) \/ OpenOther(c)
  PROVE  /\ slots \in Nat /\ slots' \in Nat /\ slots <= slots'
         /\ \A k \in Referred \ {NoContext} :
              /\ contexts'[k].is_init = contexts[k].is_init
              /\ contexts'[k].is_socket = contexts[k].is_socket
         /\ \A d \in Caller : call[d].fd \in undercut => call[d].fd \in undercut'
<1>a. slots \in Nat /\ contexts \in [ContextId -> Ctx]
  BY DEF FdType
<1>b. Referred \ {NoContext} \subseteq ContextId
  BY DEF Referred, FdType, Call
<1>1. CASE LookUp(c)
  BY <1>1, <1>a, LookUpFacts DEF LookUp, Treads
<1>2. CASE MakeContext(c)
  <2>1. PICK k : k = Min(ContextId \ Referred)
    OBVIOUS
  <2>2. contexts' = [j \in ContextId |-> CASE j = k -> FdContext(call[c].fd)
                                           [] j \in Referred -> contexts[j]
                                           [] OTHER -> Blank]
    BY <1>2, <2>1 DEF MakeContext
  <2>3. k \notin Referred
    BY <1>2, <2>1, FreshContext DEF Shaped, Shape, MakeContext
  <2>4. \A j \in Referred \ {NoContext} : contexts'[j] = contexts[j]
    BY <1>b, <2>2, <2>3
  <2>5. slots' = slots /\ undercut \subseteq undercut'
    BY <1>2 DEF MakeContext, Treads
  <2> QED BY <1>a, <2>4, <2>5
<1>3. CASE UseInSetting(c)
  <2>1. \A k \in ContextId : contexts'[k].is_init = contexts[k].is_init
                             /\ contexts'[k].is_socket = contexts[k].is_socket
    <3>1. CASE ~HasContext(c)
      BY <1>3, <3>1 DEF UseInSetting
    <3>2. CASE HasContext(c)
      <4>1. PICK k \in ContextId : k = call[c].ctx
        BY <3>2 DEF HasContext, FdType, Call
      <4>2. contexts' = [contexts EXCEPT ![k] = Recorded(c, contexts[k])]
        BY <1>3, <3>2, <4>1 DEF UseInSetting
      <4>3. contexts[k] \in Ctx
        BY <1>a
      <4>4. /\ Recorded(c, contexts[k]).is_init = contexts[k].is_init
            /\ Recorded(c, contexts[k]).is_socket = contexts[k].is_socket
        BY <4>3 DEF Recorded, Ctx
      <4> QED BY <1>a, <4>2, <4>4
    <3> QED BY <3>1, <3>2
  <2> QED BY <1>3, <1>a, <1>b, <2>1 DEF UseInSetting, ghostVars
<1>4. CASE \/ UseInCall(c) \/ CancelAll(c) \/ DelFdctx(c) \/ CloseDescriptor(c)
           \/ SystemCall(c) /\ ~Accepted(c)
           \/ SetInKernel(c) \/ Park(c) \/ TimeLimit(c) \/ Resume(c)
  <2>1. slots' = slots /\ contexts' = contexts
    BY <1>4 DEF UseInCall, CancelAll, DelFdctx, CloseDescriptor, SystemCall, SetInKernel, Park,
       TimeLimit, Resume, tableVars
  <2>2. undercut \subseteq undercut'
    BY <1>4 DEF UseInCall, CancelAll, DelFdctx, CloseDescriptor, SystemCall, Ends, MustWait, Treads,
       SetInKernel, Park, TimeLimit, Resume, ghostVars
  <2> QED BY <1>a, <2>1, <2>2
<1>5. CASE OpenSocket(c) \/ OpenOther(c) \/ (SystemCall(c) /\ Accepted(c))
  <2>1. slots' = slots /\ contexts' = contexts
    BY <1>5 DEF OpenSocket, OpenOther, SystemCall, tableVars
  <2>2. Opens(TRUE) \/ Opens(FALSE) \/ undercut' = undercut
    BY <1>5 DEF OpenSocket, OpenOther, Accepted, ghostVars
  <2>3. \A d \in Caller : call[d].fd \in undercut => call[d].fd \in undercut'
    BY <2>2 DEF Opens
  <2> QED BY <1>a, <2>1, <2>3
<1> QED BY <1>1, <1>2, <1>3, <1>4, <1>5 DEF Step

\* So who has opened a descriptor and does not move still has what it had.
LEMMA EnteredKept ==
  ASSUME FdType, NEW d \in Caller, Entered(d), call'[d] = call[d],
         slots \in Nat, slots' \in Nat, slots <= slots',
         \A k \in Referred \ {NoContext} : contexts'[k].is_init = contexts[k].is_init
                                           /\ contexts'[k].is_socket = contexts[k].is_socket,
         call[d].fd \in undercut => call[d].fd \in undercut'
  PROVE  Entered(d)'
<1>1. call[d] \in Call
  BY DEF FdType
<1>2. call[d].fd < slots => call[d].fd < slots'
  <2>1. call[d].fd \in Int
    BY <1>1, BoundsAssumption DEF Call, Number
  <2> QED BY <2>1
<1>3. call[d].ctx # NoContext =>
        /\ contexts'[call[d].ctx].is_init = contexts[call[d].ctx].is_init
        /\ contexts'[call[d].ctx].is_socket = contexts[call[d].ctx].is_socket
  BY DEF Referred
<1> QED BY <1>2, <1>3 DEF Entered, HasContext, Context

\* A look-up for accept finds the context of a socket, and no step takes it away.
LEMMA EnteredStep ==
  ASSUME TypeOK, Shaped, TableInv, ContextInv, ObjectInv, ~clash, NEW c \in Caller, Step(c)
  PROVE  \A d \in Caller : Entered(d)'
<1> USE DEF TypeOK
<1>a. call \in [Caller -> Call] /\ call[c] \in Call /\ Shape(call[c]) /\ Entered(c)
  BY DEF FdType, Shaped, ObjectInv
<1>b. ASSUME NEW d \in Caller, Bare(call'[d])
      PROVE  Entered(d)'
  BY <1>b DEF Bare, Entered
<1>1. ASSUME NEW d \in Caller \ {c}
      PROVE  Entered(d)'
  <2>1. Entered(d)
    BY DEF ObjectInv
  <2>2. CASE call'[d] = call[d]
    BY <2>1, <2>2, TableKept, EnteredKept
  <2>3. CASE call[d].at = "parked" /\ call'[d].op = call[d].op /\ call'[d].rt = call[d].rt
    BY <1>b, <2>1, <2>3 DEF Bare, Entered
  <2> QED BY <2>2, <2>3, OthersKept
<1>2. ASSUME call[c].op = "get"
      PROVE  IsOpen(call[c].fd) /\ FileOf(call[c].fd).socket /\ FileOf(call[c].fd).socket \in BOOLEAN
  <2>1. Hand(c)
    BY <1>2, WaitOfCall DEF ObjectInv, Hand
  <2>2. IsOpen(call[c].fd) /\ FileOf(call[c].fd).socket
    BY <2>1 DEF ObjectInv, HandOnce
  <2>3. fdtable[call[c].fd] \in 1 .. Len(files) /\ files \in Seq(File)
    BY <2>2 DEF FdType, IsOpen, NoFile
  <2>4. files[fdtable[call[c].fd]] \in File
    BY <2>3
  <2> QED BY <2>2, <2>4 DEF FileOf, File
<1>3. CASE LookUp(c)
  <2>n. PICK n \in Number : n = call[c].fd
    BY <1>3, <1>a DEF LookUp, Shape
  <2>1. /\ slots \in Nat /\ slots' \in Nat /\ slots <= slots' /\ n \in Nat
        /\ UNCHANGED <<m_datas, contexts>> /\ undercut \subseteq undercut'
        /\ call[c].at = "look"
    BY <1>3, <2>n, TableKept, BoundsAssumption DEF LookUp, Treads, Number
  <2>2. CASE n >= slots' /\ Opened(c)
    <3>1. call'[c] = call[c]
      BY <1>3, <2>n, <2>2 DEF LookUp
    <3> QED BY <1>a, <1>1, <3>1, TableKept, EnteredKept
  <2>3. CASE n >= slots' /\ ~Opened(c)
    <3>1. call[c].rt # 1 /\ call[c].op # "get"
      BY <1>a, <2>1, <2>3, <2>n DEF Entered, Opened
    <3>2. call'[c].rt = call[c].rt /\ call'[c].op = call[c].op
      BY <1>3, <1>a, <2>n, <2>3 DEF LookUp, Goes, Call
    <3> QED BY <1>b, <1>1, <3>1, <3>2 DEF Bare
  <2>4. CASE n < slots'
    <3>1. call' = [call EXCEPT ![c].at = IF m_datas[n] = NoContext THEN "make" ELSE "use",
                               ![c].ctx = m_datas[n]]
      BY <1>3, <2>1, <2>n, <2>4 DEF LookUp
    <3>2. /\ call'[c].op = call[c].op /\ call'[c].rt = call[c].rt /\ call'[c].fd = n
          /\ call'[c].ctx = m_datas[n]
          /\ call'[c].at = IF m_datas[n] = NoContext THEN "make" ELSE "use"
      BY <1>a, <2>n, <3>1 DEF Call
    <3>3. ASSUME call[c].op = "get", m_datas[n] # NoContext, n \notin undercut'
          PROVE  contexts'[m_datas[n]].is_init /\ contexts'[m_datas[n]].is_socket
      <4>1. EntryOfFile(n)
        BY <2>1, <3>3 DEF ContextInv
      <4> QED BY <1>2, <2>1, <2>n, <3>3, <4>1 DEF EntryOfFile
    <3>4. Entered(c)'
      BY <1>a, <2>4, <3>2, <3>3 DEF Entered, HasContext, Context
    <3> QED BY <1>1, <3>4
  <2> QED BY <2>1, <2>2, <2>3, <2>4
<1>4. CASE MakeContext(c)
  <2>n. PICK n \in Number : n = call[c].fd
    BY <1>4, <1>a DEF MakeContext, Shape
  <2>k. PICK k : k = Min(ContextId \ Referred)
    OBVIOUS
  <2>1. call[c].at = "make" /\ call[c].ctx = NoContext /\ n < slots /\ slots' = slots
    BY <1>4, <1>a, <2>n DEF MakeContext, Shape, TableInv
  <2>2. k \in ContextId \ Referred
    BY <2>1, <2>k, FreshContext
  <2>3. k # NoContext
    <3>1. NoContext \in Referred
      BY <2>1 DEF Referred
    <3> QED BY <2>2, <3>1
  <2>4. /\ call'[c].op = call[c].op /\ call'[c].fd = n /\ call'[c].rt = call[c].rt
        /\ call'[c].ctx = k /\ call'[c].at = "use"
    <3>1. call' = [call EXCEPT ![c] = [call[c] EXCEPT !.at = "use", !.ctx = k]]
      BY <1>4, <2>k DEF MakeContext
    <3> QED BY <1>a, <2>n, <3>1 DEF Call
  <2>5. contexts'[k] = FdContext(n)
    <3>1. contexts' = [j \in ContextId |-> CASE j = k -> FdContext(n)
                                             [] j \in Referred -> contexts[j]
                                             [] OTHER -> Blank]
      BY <1>4, <2>k, <2>n DEF MakeContext
    <3> QED BY <2>2, <3>1
  <2>6. ASSUME call[c].op = "get"
        PROVE  contexts'[k].is_init /\ contexts'[k].is_socket
    BY <1>2, <2>5, <2>6, <2>n DEF FdContext
  <2>7. Entered(c)'
    BY <1>a, <2>1, <2>3, <2>4, <2>6 DEF Entered, HasContext, Context
  <2> QED BY <1>1, <2>7
<1>5. CASE \/ UseInCall(c) \/ UseInSetting(c) \/ CancelAll(c) \/ DelFdctx(c) \/ SetInKernel(c)
           \/ Park(c) \/ TimeLimit(c) \/ Resume(c)
           \/ SystemCall(c) /\ ~Accepted(c)
           \/ OpenSocket(c) /\ Returns(c, -1)
  <2>1. Bare(call[c])
    <3>1. CASE UseInCall(c)
      BY <1>a, <3>1 DEF UseInCall, Within, Opened, Bare, Entered
    <3>2. CASE UseInSetting(c) \/ CancelAll(c) \/ DelFdctx(c) \/ SetInKernel(c)
      BY <1>a, <3>2 DEF UseInSetting, CancelAll, DelFdctx, SetInKernel, Within, Bare, Entered
    <3>3. CASE Park(c) \/ TimeLimit(c) \/ Resume(c) \/ SystemCall(c) \/ OpenSocket(c)
      BY <1>a, <3>3 DEF Park, TimeLimit, Resume, SystemCall, OpenSocket, Within, Bare, Entered
    <3> QED BY <1>5, <3>1, <3>2, <3>3
  <2>2. Inner(c)
    BY <1>5 DEF Inner
  <2>3. Kin(call[c], call'[c])
    BY <1>a, <2>2, KinSteps
  <2>4. Bare(call'[c])
    BY <2>1, <2>3 DEF Bare, Kin
  <2> QED BY <1>b, <1>1, <2>4
<1>6. CASE CloseDescriptor(c)
  <2>1. call'[c].rt = 0 /\ call'[c].op = call[c].op /\ call[c].op = "close"
    BY <1>6, ReturnsTyped DEF CloseDescriptor, Within
  <2>2. Bare(call'[c])
    BY <2>1 DEF Bare
  <2> QED BY <1>b, <1>1, <2>2
<1>7. CASE SystemCall(c) /\ Accepted(c)
  <2>1. PICK n : n = NewNumber
    OBVIOUS
  <2>2. call' = [call EXCEPT ![c] = [call[c] EXCEPT !.fd = n, !.rt = 1, !.at = "look"]]
    BY <1>7, <2>1 DEF Accepted
  <2>3. call'[c].at = "look" /\ call'[c].op = "accept"
    BY <1>7, <1>a, <2>2 DEF Accepted, Call
  <2>4. Entered(c)'
    BY <2>3 DEF Entered
  <2> QED BY <1>1, <2>4
<1>8. CASE OpenSocket(c) /\ ~Returns(c, -1)
  <2>1. PICK n : n = NewNumber
    OBVIOUS
  <2>2. PICK at \in {"look", "done"} : at = IF c \in Hooked THEN "look" ELSE "done"
    OBVIOUS
  <2>3. call' = [call EXCEPT ![c] = [call[c] EXCEPT !.fd = n, !.rt = 1, !.at = at]]
    BY <1>8, <2>1, <2>2 DEF OpenSocket
  <2>4. call'[c].at = at /\ call'[c].op = "socket"
    BY <1>8, <1>a, <2>3 DEF OpenSocket, Within, Call
  <2>5. Entered(c)'
    BY <2>4 DEF Entered
  <2> QED BY <1>1, <2>5
<1> QED BY <1>3, <1>4, <1>5, <1>6, <1>7, <1>8 DEF Step
-----------------------------------------------------------------------------
\* close takes the number from its object alone.
LEMMA ObjectsClose ==
  ASSUME TypeOK, Shaped, ContextInv, ObjectInv, ~clash, NEW c \in Caller, CloseDescriptor(c),
         UNCHANGED <<objectVars, step, clash>>, \A d \in Caller : Entered(d)'
  PROVE  ObjectInv'
<1> USE DEF TypeOK, objectVars
<1>n. PICK n \in Number : n = call[c].fd
  BY DEF Shaped, Shape, CloseDescriptor, Within
<1>s. PICK s \in Socket : s = step[c].on
  BY WaitOfCall DEF ObjectInv, CloseDescriptor, Within
<1>1. /\ call[c].op = "close" /\ call[c].at = "system" /\ step[c].wait = "close"
      /\ m_sock[s] = n /\ step[c].op \in {"connect", "close"}
  BY <1>n, <1>s, WaitOfCall DEF ObjectInv, Serves, CloseDescriptor, Within, OpOf
<1>2. /\ call'[c].at = "done" /\ call'[c].op = "close" /\ call'[c].fd = n
      /\ \A d \in Caller \ {c} : call'[d] = call[d]
  BY <1>n, <1>1, ReturnsTyped DEF CloseDescriptor
<1>3. /\ fdtable'[n] = NoFile /\ \A m \in Number \ {n} : fdtable'[m] = fdtable[m]
      /\ undercut \subseteq undercut'
  BY <1>n DEF CloseDescriptor, FdType
<1>4. \A d \in Caller : Serves(d)'
  BY <1>n, <1>s, <1>1, <1>2 DEF ObjectInv, Serves
<1>5. /\ HeldOnce /\ HandOnce /\ Owned /\ Exclusive
  BY DEF ObjectInv
<1>6. Holds(s, n)
  <2> SUFFICES ASSUME NEW d \in Caller, step[d].on = s, step[d].wait = "close", call[d].at = "done"
               PROVE  FALSE
    BY <1>1 DEF Holds, Closing
  <2>1. step[d].op \in {"connect", "close"}
    BY DEF ObjectInv, Serves, OpOf
  <2> QED BY <1>s, <1>1, <1>5, <2>1 DEF Exclusive, Replacing
<1>7. \A t \in Socket : Closing(t)' <=> (Closing(t) \/ t = s)
  BY <1>s, <1>1, <1>2 DEF Closing
<1>8. \A t \in Socket : \A m \in Number : Holds(t, m)' <=> (Holds(t, m) /\ m # n)
  <2>1. \A t \in Socket \ {s} : ~Holds(t, n)
    BY <1>5, <1>6 DEF HeldOnce
  <2> QED BY <1>1, <1>7, <2>1 DEF Holds
<1>9. \A d \in Caller :
        (Hand(d)' <=> Hand(d)) /\ (Hand(d) => call'[d].fd = call[d].fd /\ call[d].fd # n)
  BY <1>1, <1>2, <1>5, <1>6 DEF Hand, HeldOnce
<1>10. ASSUME NEW m \in Number \ {n}
       PROVE  (IsOpen(m)' <=> IsOpen(m)) /\ (IsOpen(m) => FileOf(m)' = FileOf(m))
  <2>1. IsOpen(m) => fdtable[m] # fdtable[n]
    BY OtherFile DEF ContextInv
  <2>2. files' = IF IsOpen(n) THEN [files EXCEPT ![fdtable[n]] = NewFile(FALSE)] ELSE files
    BY <1>n DEF CloseDescriptor
  <2>3. IsOpen(m) => fdtable[m] \in 1 .. Len(files)
    BY DEF FdType, IsOpen, NoFile
  <2>4. files \in Seq(File)
    BY DEF FdType
  <2>5. IsOpen(m) => files'[fdtable[m]] = files[fdtable[m]]
    BY <2>1, <2>2, <2>3, <2>4
  <2> QED BY <1>3, <2>5 DEF IsOpen, FileOf
<1>11. HeldOnce'
  BY <1>3, <1>5, <1>8, <1>9, <1>10 DEF HeldOnce
<1>12. HandOnce'
  <2>1. ASSUME NEW d \in Caller, Hand(d)'
        PROVE  IsOpen(call[d].fd)' /\ FileOf(call[d].fd)'.socket
    <3>m. PICK m \in Number \ {n} : m = call[d].fd /\ m = call'[d].fd
      BY <1>5, <1>9, <2>1 DEF HandOnce, IsOpen
    <3>1. IsOpen(m) /\ FileOf(m).socket
      BY <1>5, <1>9, <2>1, <3>m DEF HandOnce
    <3>2. IsOpen(m)' /\ FileOf(m)'.socket
      BY <1>10, <3>1
    <3> QED BY <3>m, <3>2 DEF IsOpen, FileOf
  <2>2. ASSUME NEW d \in Caller, NEW e \in Caller \ {d}, Hand(d)', Hand(e)'
        PROVE  call'[e].fd # call'[d].fd
    BY <1>5, <1>9, <2>2 DEF HandOnce
  <2> QED BY <2>1, <2>2 DEF HandOnce
<1>13. Owned'
  <2>1. ~IsOpen(n)'
    BY <1>3 DEF IsOpen
  <2>2. \A m \in Number \ undercut' :
          IsOpen(m)' /\ FileOf(m)'.socket =>
            m # n /\ m \notin undercut /\ IsOpen(m) /\ FileOf(m).socket
    BY <1>3, <1>10, <2>1
  <2> QED BY <1>5, <1>8, <1>9, <2>2 DEF Owned
<1>14. Exclusive'
  BY <1>5 DEF Exclusive
<1> QED BY <1>4, <1>11, <1>12, <1>13, <1>14 DEF ObjectInv

\* A new descriptor is in the hand of the call that opened it, or no socket.
LEMMA ObjectsOpen ==
  ASSUME TypeOK, Shaped, ObjectInv, ~clash, NEW c \in Caller, NEW socket \in BOOLEAN, Opens(socket),
         UNCHANGED <<objectVars, step, clash>>, \A d \in Caller : Entered(d)',
         \A d \in Caller \ {c} : call'[d] = call[d],
         \/ ~socket /\ call' = call
         \/ /\ socket /\ call[c].op \in {"socket", "accept"} /\ call[c].rt # 1
            /\ call'[c].op = call[c].op /\ call'[c].fd = NewNumber /\ call'[c].rt = 1
  PROVE  ObjectInv'
<1> USE DEF TypeOK, objectVars
<1>n. PICK n : n = NewNumber
  OBVIOUS
<1>1. /\ n \in Number /\ fdtable[n] = NoFile
      /\ fdtable'[n] = Len(files) + 1 /\ \A m \in Number \ {n} : fdtable'[m] = fdtable[m]
  BY <1>n, OpensTyped DEF FdType
<1>2. undercut \ {n} \subseteq undercut'
  BY <1>n DEF Opens
<1>3. files'[Len(files) + 1].socket = socket
      /\ \A f \in 1 .. Len(files) : files'[f] = files[f]
  BY DEF Opens, NewFile, FdType
<1>4. /\ HeldOnce /\ HandOnce /\ Owned /\ Exclusive
      /\ Serves(c) /\ \A d \in Caller : Serves(d)
  BY DEF ObjectInv
<1>5. \A d \in Caller : Serves(d)'
  <2>1. ASSUME call' # call
        PROVE  Serves(c)'
    <3>1. step[c].wait \in {"socket", "accept"}
      BY <1>4, <2>1, WaitOfCall
    <3> QED BY <1>4, <2>1, <3>1 DEF Serves
  <2> QED BY <1>4, <2>1 DEF Serves
<1>6. \A t \in Socket : Closing(t)' <=> Closing(t)
  <2>1. call' # call => step[c].wait # "close"
    BY <1>4, WaitOfCall
  <2> QED BY <2>1 DEF Closing
<1>7. \A t \in Socket : \A m \in Number : Holds(t, m)' <=> Holds(t, m)
  BY <1>6 DEF Holds
<1>8. \A d \in Caller : Hand(d) => Hand(d)' /\ call'[d] = call[d] /\ call[d].fd # n
  <2>1. call' # call => ~Hand(c)
    BY <1>4, WaitOfCall DEF Hand
  <2>2. \A d \in Caller : Hand(d) => call[d].fd # n
    BY <1>1, <1>4 DEF HandOnce, IsOpen
  <2>3. \A d \in Caller : Hand(d) => call'[d] = call[d]
    BY <2>1
  <2> QED BY <2>2, <2>3 DEF Hand
<1>9. \A d \in Caller : Hand(d)' => Hand(d) \/ (d = c /\ call'[d].fd = n /\ socket)
  BY <1>n DEF Hand
<1>10. ASSUME NEW m \in Number \ {n}
       PROVE  (IsOpen(m)' <=> IsOpen(m)) /\ (IsOpen(m) => FileOf(m)' = FileOf(m))
  <2>1. IsOpen(m) => fdtable[m] \in 1 .. Len(files)
    BY DEF FdType, IsOpen, NoFile
  <2> QED BY <1>1, <1>3, <2>1 DEF IsOpen, FileOf
<1>11. IsOpen(n)' /\ FileOf(n)'.socket = socket
  BY <1>1, <1>3 DEF IsOpen, FileOf, NoFile, FdType
<1>12. HeldOnce'
  <2>1. \A t \in Socket : \A m \in Number : Holds(t, m) => m # n
    BY <1>1, <1>4 DEF HeldOnce, IsOpen
  <2>2. \A d \in Caller : Hand(d)' => (Hand(d) /\ call'[d].fd = call[d].fd) \/ call'[d].fd = n
    BY <1>8, <1>9
  <2> QED BY <1>1, <1>4, <1>7, <1>10, <2>1, <2>2 DEF HeldOnce
<1>13. HandOnce'
  <2>1. ASSUME NEW d \in Caller, Hand(d)'
        PROVE  IsOpen(call[d].fd)' /\ FileOf(call[d].fd)'.socket
    <3>m. PICK m \in Number : m = call'[d].fd
      BY <1>1, <1>4, <1>8, <1>9, <2>1 DEF HandOnce, IsOpen
    <3>1. IsOpen(m)' /\ FileOf(m)'.socket
      <4>1. CASE Hand(d)
        <5>1. m # n /\ IsOpen(m) /\ FileOf(m).socket
          BY <1>4, <1>8, <3>m, <4>1 DEF HandOnce
        <5> QED BY <1>10, <5>1
      <4>2. CASE ~Hand(d)
        BY <1>9, <1>11, <2>1, <3>m, <4>2
      <4> QED BY <4>1, <4>2
    <3> QED BY <3>m, <3>1 DEF IsOpen, FileOf
  <2>2. ASSUME NEW d \in Caller, NEW e \in Caller \ {d}, Hand(d)', Hand(e)'
        PROVE  call'[e].fd # call'[d].fd
    BY <1>4, <1>8, <1>9, <2>2 DEF HandOnce
  <2> QED BY <2>1, <2>2 DEF HandOnce
<1>14. Owned'
  <2>1. \A m \in Number \ undercut' :
          IsOpen(m)' /\ FileOf(m)'.socket =>
            \/ m = n /\ socket
            \/ m # n /\ m \notin undercut /\ IsOpen(m) /\ FileOf(m).socket
    BY <1>2, <1>10, <1>11
  <2>2. socket => Hand(c)' /\ call'[c].fd = n
    BY <1>n, <1>4, WaitOfCall DEF Hand
  <2> QED BY <1>4, <1>7, <1>8, <2>1, <2>2 DEF Owned
<1>15. Exclusive'
  BY <1>4 DEF Exclusive
<1> QED BY <1>5, <1>12, <1>13, <1>14, <1>15 DEF ObjectInv
-----------------------------------------------------------------------------
\* An operation that goes on or ends leaves the others what they had.
Onward(c) ==
  /\ UNCHANGED <<fdtable, files, slots, contexts, undercut>>
  /\ \A d \in Caller \ {c} : call'[d] = call[d] /\ step'[d] = step[d]

\* The next hooked call of an operation, and the end of one.
LEMMA ThenGoes ==
  ASSUME FdType, SocketType, NEW c \in Caller, NEW wait, NEW op, NEW n, NEW want,
         Then(c, wait, op, n, want)
  PROVE  /\ Onward(c) /\ step'[c].wait = wait /\ step'[c].op = step[c].op /\ step'[c].on = step[c].on
         /\ call'[c].op = op /\ call'[c].fd = n /\ call'[c].rt = 0 /\ call'[c].ctx = NoContext
         /\ call'[c].at = IF Straight(c, op) THEN "system" ELSE "look"
<1>1. call' = [call EXCEPT ![c] = [Idle EXCEPT !.op = op, !.fd = n, !.want = want,
                                               !.at = IF Straight(c, op) THEN "system" ELSE "look"]]
  BY DEF Then, Begin
<1>2. step' = [step EXCEPT ![c] = [step[c] EXCEPT !.wait = wait]]
  BY DEF Then
<1>3. /\ step'[c].wait = wait /\ step'[c].op = step[c].op /\ step'[c].on = step[c].on
      /\ \A d \in Caller \ {c} : step'[d] = step[d]
  BY <1>2 DEF SocketType
<1>4. UNCHANGED <<fdtable, files, slots, contexts, undercut>>
  BY DEF Then, Begin, kernelVars, tableVars
<1> QED BY <1>1, <1>3, <1>4 DEF Onward, FdType, Idle

\* The end of one.
LEMMA LeaveGoes ==
  ASSUME FdType, SocketType, NEW c \in Caller, Leave(c)
  PROVE  Onward(c) /\ step'[c] = Resting /\ call'[c] = Idle
<1>1. UNCHANGED <<fdtable, files, slots, contexts, undercut>>
  BY DEF Leave, kernelVars, tableVars, ghostVars
<1> QED BY <1>1 DEF Leave, Onward, FdType, SocketType

\* Who has opened a descriptor is not touched by that.
LEMMA OnwardEntered ==
  ASSUME FdType, ObjectInv, NEW c \in Caller, Onward(c), Entered(c)'
  PROVE  \A d \in Caller : Entered(d)'
<1>1. slots \in Nat /\ slots' \in Nat /\ slots <= slots'
  BY DEF FdType, Onward
<1>2. \A k \in Referred \ {NoContext} : contexts'[k].is_init = contexts[k].is_init
                                        /\ contexts'[k].is_socket = contexts[k].is_socket
  BY DEF Onward
<1>3. ASSUME NEW d \in Caller \ {c}
      PROVE  Entered(d)'
  <2>1. Entered(d) /\ call'[d] = call[d] /\ undercut' = undercut
    BY DEF ObjectInv, Onward
  <2> QED BY <1>1, <1>2, <2>1, EnteredKept
<1> QED BY <1>3

\* An operation after which every object has what it had.
LEMMA ObjectsOnward ==
  ASSUME ObjectInv, NEW c \in Caller, Onward(c), own' = own,
         \A d \in Caller : Entered(d)' /\ Serves(d)',
         \A s \in Socket : \A n \in Number : Holds(s, n)' <=> Holds(s, n),
         Hand(c)' => Hand(c) /\ call'[c].fd = call[c].fd,
         Hand(c) /\ ~Hand(c)' => call[c].fd \in undercut,
         ~clash' => ~clash /\ Exclusive'
  PROVE  ObjectInv'
<1>3. \A d \in Caller : (Hand(d)' => Hand(d) /\ call'[d].fd = call[d].fd)
                        /\ (Hand(d) => Hand(d)' \/ call[d].fd \in undercut)
  BY DEF Hand, Onward
<1>4. /\ \A n : IsOpen(n)' <=> IsOpen(n)
      /\ \A n : FileOf(n)' = FileOf(n)
      /\ undercut' = undercut /\ fdtable' = fdtable
  BY DEF Onward, IsOpen, FileOf
<1>5. ASSUME ~clash'
      PROVE  Exclusive' /\ HeldOnce' /\ HandOnce' /\ Owned'
  <2>1. HeldOnce /\ HandOnce /\ Owned
    BY <1>5 DEF ObjectInv
  <2>2. HeldOnce'
    BY <1>3, <1>4, <2>1 DEF HeldOnce
  <2>3. HandOnce'
    <3>1. \A d \in Caller : Hand(d)' => IsOpen(call[d].fd)' /\ FileOf(call[d].fd)'.socket
      <4> SUFFICES ASSUME NEW d \in Caller, Hand(d)'
                   PROVE  IsOpen(call[d].fd)' /\ FileOf(call[d].fd)'.socket
        OBVIOUS
      <4>1. IsOpen(call[d].fd) /\ FileOf(call[d].fd).socket /\ call'[d].fd = call[d].fd
        BY <1>3, <2>1 DEF HandOnce
      <4> QED BY <4>1 DEF Onward, IsOpen, FileOf
    <3> QED BY <1>3, <2>1, <3>1 DEF HandOnce
  <2>4. Owned'
    <3>1. ASSUME NEW n \in Number \ undercut', IsOpen(n)', FileOf(n)'.socket
          PROVE  (\E s \in Socket : Holds(s, n)') \/ (\E d \in Caller : Hand(d)' /\ call'[d].fd = n)
      <4>1. (\E s \in Socket : Holds(s, n)) \/ (\E d \in Caller : Hand(d) /\ call[d].fd = n)
        BY <1>4, <2>1, <3>1 DEF Owned
      <4> QED BY <1>3, <1>4, <3>1, <4>1
    <3> QED BY <3>1 DEF Owned
  <2> QED BY <1>5, <2>2, <2>3, <2>4
<1> QED BY <1>5 DEF ObjectInv

\* That is so if no object is touched, but for one without a descriptor.
LEMMA ObjectsQuiet ==
  ASSUME ObjectInv, NEW c \in Caller, Onward(c), UNCHANGED <<m_sock, own>>,
         \A d \in Caller : Entered(d)', Serves(c)',
         Hand(c)' => Hand(c) /\ call'[c].fd = call[c].fd,
         Hand(c) /\ ~Hand(c)' => call[c].fd \in undercut,
         \A s \in Socket : m_sock[s] = -1 \/ (Closing(s)' <=> Closing(s)),
         ~clash' => ~clash /\ Exclusive'
  PROVE  ObjectInv'
<1>1. \A d \in Caller : Serves(d)'
  BY DEF ObjectInv, Serves, Onward
<1>2. \A s \in Socket : \A n \in Number : Holds(s, n)' <=> Holds(s, n)
  <2>1. -1 \notin Number
    BY BoundsAssumption DEF Number
  <2> QED BY <2>1 DEF Holds
<1> QED BY <1>1, <1>2, ObjectsOnward

\* A descriptor that goes from a hand to an object that had none.
LEMMA ObjectsFilled ==
  ASSUME ObjectInv, ~clash, SocketType, NEW c \in Caller, Onward(c), NEW s \in Socket, NEW n \in Number,
         Hand(c), ~Hand(c)', n = call[c].fd,
         \A m \in Number : ~Holds(s, m), ~Closing(s)',
         m_sock' = [m_sock EXCEPT ![s] = n], own'[s] = fdtable[n],
         \A t \in Socket \ {s} : own'[t] = own[t] /\ (Closing(t)' <=> Closing(t)),
         \A d \in Caller : Entered(d)' /\ Serves(d)', Exclusive'
  PROVE  ObjectInv'
<1>1. /\ HeldOnce /\ HandOnce /\ Owned
      /\ m_sock'[s] = n /\ \A t \in Socket \ {s} : m_sock'[t] = m_sock[t]
  BY DEF ObjectInv, SocketType
<1>2. \A t \in Socket : \A m \in Number :
        Holds(t, m)' <=> (Holds(t, m) \/ (t = s /\ m = n))
  BY <1>1 DEF Holds
<1>3. \A d \in Caller : Hand(d)' <=> Hand(d) /\ d # c
  BY DEF Hand, Onward
<1>4. /\ \A m : (IsOpen(m)' <=> IsOpen(m)) /\ FileOf(m)' = FileOf(m)
      /\ undercut' = undercut /\ fdtable' = fdtable
      /\ \A d \in Caller \ {c} : call'[d] = call[d]
  BY DEF Onward, IsOpen, FileOf
<1>5. /\ IsOpen(n) /\ \A d \in Caller \ {c} : Hand(d) => call[d].fd # n
      /\ \A t \in Socket : ~Holds(t, n)
  BY <1>1 DEF HandOnce, HeldOnce
<1>6. HeldOnce'
  <2>1. ASSUME NEW t \in Socket, NEW m \in Number, Holds(t, m)'
        PROVE  /\ IsOpen(m)' /\ own'[t] = fdtable'[m]
               /\ \A u \in Socket \ {t} : ~Holds(u, m)'
               /\ \A d \in Caller : Hand(d)' => call'[d].fd # m
    <3>1. CASE t = s /\ m = n
      BY <1>2, <1>3, <1>4, <1>5, <3>1
    <3>2. CASE Holds(t, m)
      <4>1. t # s /\ m # n
        BY <1>5, <3>2
      <4>2. /\ IsOpen(m) /\ own[t] = fdtable[m]
            /\ \A u \in Socket \ {t} : ~Holds(u, m)
            /\ \A d \in Caller : Hand(d) => call[d].fd # m
        BY <1>1, <3>2 DEF HeldOnce
      <4> QED BY <1>2, <1>3, <1>4, <4>1, <4>2
    <3> QED BY <1>2, <2>1, <3>1, <3>2
  <2> QED BY <2>1 DEF HeldOnce
<1>7. HandOnce'
  <2>1. ASSUME NEW d \in Caller, Hand(d)'
        PROVE  IsOpen(call[d].fd)' /\ FileOf(call[d].fd)'.socket
    <3>1. d # c /\ Hand(d) /\ call'[d] = call[d]
      BY <1>3, <1>4, <2>1
    <3>2. IsOpen(call[d].fd) /\ FileOf(call[d].fd).socket
      BY <1>1, <3>1 DEF HandOnce
    <3> QED BY <3>1, <3>2 DEF Onward, IsOpen, FileOf
  <2>2. ASSUME NEW d \in Caller, NEW e \in Caller \ {d}, Hand(d)', Hand(e)'
        PROVE  call'[e].fd # call'[d].fd
    BY <1>1, <1>3, <1>4, <2>2 DEF HandOnce
  <2> QED BY <2>1, <2>2 DEF HandOnce
<1>8. Owned'
  <2>1. ASSUME NEW m \in Number \ undercut', IsOpen(m)', FileOf(m)'.socket
        PROVE  (\E t \in Socket : Holds(t, m)') \/ (\E d \in Caller : Hand(d)' /\ call'[d].fd = m)
    <3>1. (\E t \in Socket : Holds(t, m)) \/ (\E d \in Caller : Hand(d) /\ call[d].fd = m)
      BY <1>1, <1>4, <2>1 DEF Owned
    <3>2. \A d \in Caller : Hand(d) /\ call[d].fd = m => (d = c /\ m = n) \/ (Hand(d)' /\ call'[d].fd = m)
      BY <1>3, <1>4
    <3> QED BY <1>2, <3>1, <3>2
  <2> QED BY <2>1 DEF Owned
<1> QED BY <1>6, <1>7, <1>8 DEF ObjectInv
-----------------------------------------------------------------------------
\* Operations do not become more exclusive when they go on or end.
LEMMA ExclusiveOnward ==
  ASSUME Exclusive, NEW c \in Caller, Onward(c),
         \/ step'[c] = Resting
         \/ step'[c].op = step[c].op /\ step'[c].on = step[c].on
  PROVE  Exclusive'
<1>1. ASSUME NEW d \in Caller, NEW e \in Caller, d # e, step'[d].on = step'[e].on,
             {step'[d].op, step'[e].op} \subseteq Replacing \union {"set"}
      PROVE  step'[d].op = "set" /\ step'[e].op = "set"
  <2>1. \A f \in {d, e} : step'[f].op = step[f].op /\ step'[f].on = step[f].on
    BY <1>1 DEF Onward, Resting, Replacing
  <2> QED BY <1>1, <2>1 DEF Exclusive
<1> QED BY <1>1 DEF Exclusive

\* Who replaces the descriptor of an object is alone in creating or closing it.
LEMMA Alone ==
  ASSUME ObjectInv, ~clash, NEW c \in Caller, step[c].op \in Replacing,
         NEW d \in Caller \ {c}, step[d].on = step[c].on
  PROVE  step[d].wait \notin {"socket", "close"}
<1>1. step[d].wait \in {"socket", "close"} => step[d].op \in Replacing
  BY DEF ObjectInv, Serves, OpOf, Replacing
<1> QED BY <1>1 DEF ObjectInv, Exclusive, Replacing

\* The end of an operation that has no descriptor in its hand.
LEMMA ObjectsLeave ==
  ASSUME FdType, SocketType, ObjectInv, ~clash, NEW c \in Caller, Leave(c), UNCHANGED <<m_sock, own, clash>>,
         step[c].wait # "close", Hand(c) => call[c].fd \in undercut
  PROVE  ObjectInv'
<1>1. Onward(c) /\ step'[c] = Resting /\ call'[c] = Idle
  BY LeaveGoes
<1>2. Entered(c)' /\ Serves(c)' /\ ~Hand(c)'
  BY <1>1 DEF Entered, Serves, Hand, Resting, Idle, CallOf, OpOf
<1>3. \A d \in Caller : Entered(d)'
  BY <1>1, <1>2, OnwardEntered
<1>4. \A s \in Socket : Closing(s)' <=> Closing(s)
  BY <1>1 DEF Closing, Onward, Resting
<1>5. Exclusive'
  BY <1>1, ExclusiveOnward DEF ObjectInv
<1> QED BY <1>1, <1>2, <1>3, <1>4, <1>5, ObjectsQuiet

\* connect and bind give their object the descriptor that was made for it.
LEMMA ObjectsCreated ==
  ASSUME FdType, SocketType, ObjectInv, ~clash, NEW c \in Caller, CreateSock(c)
  PROVE  ObjectInv'
<1>s. PICK s \in Socket : s = step[c].on
  BY WaitOfCall DEF ObjectInv, CreateSock, Back
<1>1. /\ step[c].wait = "socket" /\ step[c].op \in {"connect", "bind"} /\ m_sock[s] = -1
      /\ call[c].op = "socket" /\ clash' = clash
  BY <1>s, WaitOfCall DEF ObjectInv, CreateSock, Back, Serves, OpOf
<1>2. CASE call[c].rt = 1
  <2>n. PICK n \in Number : n = call[c].fd
    BY <1>1, <1>2 DEF ObjectInv, HandOnce, Hand, IsOpen
  <2>1. m_sock' = [m_sock EXCEPT ![s] = n] /\ own' = [own EXCEPT ![s] = fdtable[n]]
    BY <1>s, <1>2, <2>n DEF CreateSock
  <2>2. Leave(c) \/ (step[c].op = "connect" /\ Then(c, "connect", "connect", n, call[c].want))
    BY <1>2, <2>n DEF CreateSock
  <2>3. /\ Onward(c) /\ Entered(c)' /\ Serves(c)' /\ step'[c].wait \in {"none", "connect"}
        /\ step'[c] = Resting \/ (step'[c].op = step[c].op /\ step'[c].on = step[c].on)
    <3>1. CASE Leave(c)
      BY <3>1, LeaveGoes DEF Entered, Serves, Resting, Idle, CallOf, OpOf
    <3>2. CASE step[c].op = "connect" /\ Then(c, "connect", "connect", n, call[c].want)
      BY <3>2, ThenGoes DEF Entered, Serves, CallOf, OpOf
    <3> QED BY <2>2, <3>1, <3>2
  <2>4. Hand(c) /\ ~Hand(c)'
    BY <1>1, <1>2, <2>3 DEF Hand
  <2>5. \A d \in Caller \ {c} : step[d].on = s => step[d].wait \notin {"socket", "close"}
    BY <1>s, <1>1, Alone DEF Replacing
  <2>6. \A d \in Caller : Serves(d)'
    <3>1. ASSUME NEW d \in Caller \ {c}
          PROVE  Serves(d)'
      <4>1. Serves(d) /\ call'[d] = call[d] /\ step'[d] = step[d]
        BY <2>3 DEF ObjectInv, Onward
      <4>2. step[d].wait \in {"socket", "close"} => m_sock'[step[d].on] = m_sock[step[d].on]
        BY <2>1, <2>5
      <4> QED BY <4>1, <4>2 DEF Serves
    <3> QED BY <2>3, <3>1
  <2>7. \A d \in Caller : Entered(d)'
    BY <2>3, OnwardEntered
  <2>8. ~Closing(s)' /\ \A t \in Socket \ {s} : Closing(t)' <=> Closing(t)
    BY <1>1, <2>3, <2>5 DEF Closing, Onward
  <2>9. \A m \in Number : ~Holds(s, m)
    BY <1>1, BoundsAssumption DEF Holds, Number
  <2>10. own'[s] = fdtable[n] /\ \A t \in Socket \ {s} : own'[t] = own[t]
    BY <2>1 DEF SocketType
  <2>11. Exclusive'
    BY <2>3, ExclusiveOnward DEF ObjectInv
  <2> QED BY <2>n, <2>1, <2>3, <2>4, <2>6, <2>7, <2>8, <2>9, <2>10, <2>11, ObjectsFilled
<1>3. CASE call[c].rt # 1
  <2>1. Leave(c) /\ UNCHANGED <<m_sock, own>> /\ ~Hand(c)
    BY <1>1, <1>3 DEF CreateSock, Hand
  <2> QED BY <1>1, <2>1, ObjectsLeave
<1> QED BY <1>2, <1>3

\* accept gives the descriptor to a new object, unless its context was spoilt.
LEMMA ObjectsAccepted ==
  ASSUME FdType, SocketType, ObjectInv, ~clash, NEW c \in Caller, CreateSockFromSockfd(c)
  PROVE  ObjectInv'
<1>1. /\ step[c].wait = "create" /\ step[c].op = "accept" /\ call[c].op = "get" /\ Hand(c)
      /\ clash' = clash /\ Leave(c)
  BY WaitOfCall DEF ObjectInv, CreateSockFromSockfd, Back, Hand
<1>n. PICK n \in Number : n = call[c].fd
  BY <1>1 DEF ObjectInv, HandOnce, IsOpen
<1>2. call[c].at = "use"
  BY <1>1 DEF CreateSockFromSockfd, Back, HasReturned, ObjectInv, Entered
<1>3. CASE HasContext(c) /\ Context(c).is_socket /\ Context(c).is_init
  <2>1. PICK s \in Socket : /\ Unused(s)
                            /\ m_sock' = [m_sock EXCEPT ![s] = n]
                            /\ own' = [own EXCEPT ![s] = fdtable[n]]
    BY <1>3, <1>n DEF CreateSockFromSockfd
  <2>2. Onward(c) /\ step'[c] = Resting /\ call'[c] = Idle
    BY <1>1, LeaveGoes
  <2>3. /\ Entered(c)' /\ ~Hand(c)'
        /\ \A d \in Caller : step[d].on # s
        /\ Serves(c)'
    BY <2>1, <2>2 DEF Entered, Serves, Hand, Resting, Idle, CallOf, OpOf, Unused
  <2>4. \A d \in Caller : Serves(d)'
    <3>1. ASSUME NEW d \in Caller \ {c}
          PROVE  Serves(d)'
      <4>1. Serves(d) /\ call'[d] = call[d] /\ step'[d] = step[d]
        BY <2>2 DEF ObjectInv, Onward
      <4>2. m_sock'[step[d].on] = m_sock[step[d].on]
        BY <2>1, <2>3
      <4> QED BY <4>1, <4>2 DEF Serves
    <3> QED BY <2>3, <3>1
  <2>5. \A d \in Caller : Entered(d)'
    BY <2>2, <2>3, OnwardEntered
  <2>6. ~Closing(s)' /\ \A t \in Socket \ {s} : Closing(t)' <=> Closing(t)
    BY <1>1, <2>2, <2>3 DEF Closing, Onward, Resting
  <2>7. \A m \in Number : ~Holds(s, m)
    BY <2>1 DEF ObjectInv, HeldOnce, IsOpen, Unused
  <2>8. own'[s] = fdtable[n] /\ \A t \in Socket \ {s} : own'[t] = own[t]
    BY <2>1 DEF SocketType
  <2>9. Exclusive'
    BY <2>2, ExclusiveOnward DEF ObjectInv
  <2> QED BY <1>1, <1>n, <2>1, <2>2, <2>3, <2>4, <2>5, <2>6, <2>7, <2>8, <2>9, ObjectsFilled
<1>4. CASE ~(HasContext(c) /\ Context(c).is_socket /\ Context(c).is_init)
  <2>1. call[c].fd \in undercut
    BY <1>1, <1>2, <1>4 DEF ObjectInv, Entered
  <2>2. UNCHANGED <<m_sock, own>>
    BY <1>4 DEF CreateSockFromSockfd, objectVars
  <2> QED BY <1>1, <2>1, <2>2, ObjectsLeave
<1> QED BY <1>3, <1>4

\* When close has come back the object has no number any more.
LEMMA ObjectsClosed ==
  ASSUME FdType, SocketType, ObjectInv, ~clash, NEW c \in Caller, Closed(c)
  PROVE  ObjectInv'
<1>s. PICK s \in Socket : s = step[c].on
  BY WaitOfCall DEF ObjectInv, Closed, Back
<1>1. /\ step[c].wait = "close" /\ step[c].op \in {"connect", "close"} /\ HasReturned(c)
      /\ own' = own /\ clash' = clash /\ m_sock' = [m_sock EXCEPT ![s] = -1]
  BY <1>s DEF Closed, Back
<1>2. Onward(c) /\ step'[c] = Resting /\ call'[c] = Idle
  BY LeaveGoes DEF Closed
<1>3. /\ Entered(c)' /\ Serves(c)' /\ ~Hand(c)' /\ ~Hand(c)
  BY <1>1, <1>2 DEF Entered, Serves, Hand, Resting, Idle, CallOf, OpOf
<1>4. call[c].at = "done"
  BY <1>1, WaitOfCall DEF HasReturned, Opened, ObjectInv
<1>5. \A d \in Caller : Serves(d)'
  <2>1. ASSUME NEW d \in Caller \ {c}
        PROVE  Serves(d)'
    <3>1. Serves(d) /\ call'[d] = call[d] /\ step'[d] = step[d]
      BY <1>2 DEF ObjectInv, Onward
    <3>2. step[d].wait \in {"socket", "close"} => m_sock'[step[d].on] = m_sock[step[d].on]
      <4>1. step[d].wait \in {"socket", "close"} => step[d].on # s
        BY <1>s, <1>1, Alone DEF Replacing
      <4> QED BY <1>1, <4>1
    <3> QED BY <3>1, <3>2 DEF Serves
  <2> QED BY <1>3, <2>1
<1>6. \A d \in Caller : Entered(d)'
  BY <1>2, <1>3, OnwardEntered
<1>7. \A t \in Socket : \A m \in Number : Holds(t, m)' <=> Holds(t, m)
  <2>1. Closing(s) /\ \A t \in Socket \ {s} : Closing(t)' <=> Closing(t)
    BY <1>s, <1>1, <1>2, <1>4 DEF Closing, Onward, Resting
  <2>2. \A m \in Number : m_sock'[s] # m
    BY <1>1, BoundsAssumption DEF SocketType, Number
  <2>3. \A t \in Socket \ {s} : m_sock'[t] = m_sock[t]
    BY <1>1
  <2> QED BY <2>1, <2>2, <2>3 DEF Holds
<1>8. Exclusive'
  BY <1>2, ExclusiveOnward DEF ObjectInv
<1> QED BY <1>1, <1>2, <1>3, <1>5, <1>6, <1>7, <1>8, ObjectsOnward
\* Callers do not clash if none is about to.
LEMMA EnterExclusive ==
  ASSUME ObjectInv, NEW c \in Caller, NEW op, NEW s, NEW wait, Enter(c, op, s, wait), ~clash',
         step'[c].op = op, step'[c].on = s, \A d \in Caller \ {c} : step'[d] = step[d]
  PROVE  Exclusive'
<1>1. Exclusive /\ ~Clashes(c, op, s)
  BY DEF ObjectInv, Enter
<1>2. ASSUME NEW d \in Caller \ {c}, step[d].on = s,
             {op, step[d].op} \subseteq Replacing \union {"set"}
      PROVE  op = "set" /\ step[d].op = "set"
  BY <1>1, <1>2 DEF Clashes
<1>3. ASSUME NEW d \in Caller, NEW e \in Caller, d # e, step'[d].on = step'[e].on,
             {step'[d].op, step'[e].op} \subseteq Replacing \union {"set"}
      PROVE  step'[d].op = "set" /\ step'[e].op = "set"
  <2>1. CASE d = c
    BY <1>2, <1>3, <2>1
  <2>2. CASE e = c
    BY <1>2, <1>3, <2>2
  <2>3. CASE d # c /\ e # c
    BY <1>1, <1>3, <2>3 DEF Exclusive
  <2> QED BY <2>1, <2>2, <2>3
<1> QED BY <1>3 DEF Exclusive

\* A caller at rest that begins an operation on an object.
LEMMA ObjectsBegun ==
  ASSUME FdType, SocketType, ObjectInv, ~clash, NEW c \in Caller, step[c] = Resting, NEW s \in Socket,
         NEW op, NEW wait, NEW hooked, NEW n, NEW want,
         Enter(c, op, s, wait), Begin(c, hooked, n, want), UNCHANGED <<m_sock, own>>,
         hooked \in CallOf[wait], op \in OpOf[wait], wait \in {"socket", "connect", "close", "accept", "io"},
         wait = "socket" => m_sock[s] = -1, wait = "close" => n = m_sock[s] /\ hooked = "close"
  PROVE  ObjectInv'
<1>1. call' = [call EXCEPT ![c] = [Idle EXCEPT
        !.op = hooked, !.fd = n, !.want = want, !.at = IF Straight(c, hooked) THEN "system" ELSE "look"]]
  BY DEF Begin
<1>2. step' = [step EXCEPT ![c] = [op |-> op, on |-> s, wait |-> wait]]
  BY DEF Enter
<1>3. /\ call'[c].op = hooked /\ call'[c].fd = n /\ call'[c].rt = 0 /\ call'[c].at \in {"system", "look"}
      /\ step'[c].op = op /\ step'[c].on = s /\ step'[c].wait = wait
      /\ \A d \in Caller \ {c} : call'[d] = call[d] /\ step'[d] = step[d]
  BY <1>1, <1>2 DEF FdType, SocketType, Idle
<1>4. Onward(c)
  BY <1>3 DEF Onward, Begin, kernelVars, tableVars
<1>5. hooked # "get"
  BY DEF CallOf
<1>6. Entered(c)' /\ Serves(c)' /\ ~Hand(c)' /\ ~Hand(c)
  BY <1>3, <1>5 DEF Entered, Serves, Hand, Resting
<1>7. \A d \in Caller : Entered(d)'
  BY <1>4, <1>6, OnwardEntered
<1>8. \A t \in Socket : Closing(t)' <=> Closing(t)
  BY <1>3 DEF Closing, Resting
<1>9. ASSUME ~clash'
      PROVE  Exclusive'
  BY <1>3, <1>9, EnterExclusive
<1> QED BY <1>4, <1>6, <1>7, <1>8, <1>9, ObjectsQuiet

\* A close of an object without a descriptor makes no call.
LEMMA ObjectsCloseNothing ==
  ASSUME FdType, SocketType, ObjectInv, ~clash, NEW c \in Caller, step[c] = Resting, call[c] = Idle,
         NEW s \in Socket, Close(c, s), m_sock[s] = -1
  PROVE  ObjectInv'
<1>1. /\ call' = [call EXCEPT ![c] = [Idle EXCEPT !.at = "done"]]
      /\ Enter(c, "close", s, "close") /\ UNCHANGED <<m_sock, own>>
      /\ UNCHANGED <<fdtable, files, slots, contexts, undercut>>
  BY DEF Close, kernelVars, tableVars, ghostVars
<1>2. step' = [step EXCEPT ![c] = [op |-> "close", on |-> s, wait |-> "close"]]
  BY <1>1 DEF Enter
<1>3. /\ call'[c].op = "none" /\ call'[c].fd = -1 /\ call'[c].rt = 0 /\ call'[c].at = "done"
      /\ step'[c].op = "close" /\ step'[c].on = s /\ step'[c].wait = "close"
      /\ \A d \in Caller \ {c} : call'[d] = call[d] /\ step'[d] = step[d]
  BY <1>1, <1>2 DEF FdType, SocketType, Idle
<1>4. Onward(c)
  BY <1>1, <1>3 DEF Onward
<1>5. Entered(c)' /\ Serves(c)' /\ ~Hand(c)' /\ ~Hand(c)
  BY <1>1, <1>3 DEF Entered, Serves, Hand, Resting, CallOf, OpOf
<1>6. \A d \in Caller : Entered(d)'
  BY <1>4, <1>5, OnwardEntered
<1>7. \A t \in Socket : m_sock[t] = -1 \/ (Closing(t)' <=> Closing(t))
  BY <1>3 DEF Closing, Resting
<1>8. ASSUME ~clash'
      PROVE  Exclusive'
  BY <1>1, <1>3, <1>8, EnterExclusive
<1> QED BY <1>1, <1>4, <1>5, <1>6, <1>7, <1>8, ObjectsQuiet

\* All the ways to begin, but opening a file past the objects.
LEMMA ObjectsBegins ==
  ASSUME FdType, SocketType, ObjectInv, ~clash, NEW c \in Caller, Begins(c), ~Other(c)
  PROVE  ObjectInv'
<1>1. step[c] = Resting /\ call[c] = Idle
  BY DEF Begins, Free
<1>2. ASSUME NEW s \in Socket, NEW limit, Connect(c, s, limit)
      PROVE  ObjectInv'
  BY <1>1, <1>2, ObjectsBegun DEF Connect, objectVars, CallOf, OpOf
<1>3. ASSUME NEW s \in Socket, Bind(c, s) \/ Accept(c, s) \/ Transfer(c, s)
      PROVE  ObjectInv'
  BY <1>1, <1>3, ObjectsBegun DEF Bind, Accept, Transfer, objectVars, CallOf, OpOf
<1>4. ASSUME NEW s \in Socket, Close(c, s)
      PROVE  ObjectInv'
  <2>1. CASE m_sock[s] = -1
    BY <1>1, <1>4, <2>1, ObjectsCloseNothing
  <2>2. CASE m_sock[s] # -1
    BY <1>1, <1>4, <2>2, ObjectsBegun DEF Close, CallOf, OpOf
  <2> QED BY <2>1, <2>2
<1>5. ASSUME NEW s \in Socket, NEW limit, SetRecvTimeout(c, s, limit)
      PROVE  ObjectInv'
  BY <1>1, <1>5, ObjectsBegun DEF SetRecvTimeout, objectVars, CallOf, OpOf
<1>6. ASSUME NEW s \in Socket, NEW op \in {"set_flags", "ioctl", "fionbio"}, Direct(c, s, op, 0)
      PROVE  ObjectInv'
  BY <1>1, <1>6, ObjectsBegun DEF Direct, objectVars, CallOf, OpOf
<1> QED BY <1>2, <1>3, <1>4, <1>5, <1>6 DEF Begins

\* An accepted descriptor is looked up, a descriptor not connected closed.
LEMMA ObjectsThen ==
  ASSUME FdType, SocketType, ObjectInv, ~clash, NEW c \in Caller,
         Accepts(c) \/ ConnectFailed(c) \/ Connected(c) \/ Finished(c)
  PROVE  ObjectInv'
<1>1. UNCHANGED <<m_sock, own, clash>> /\ HasReturned(c)
  BY DEF Accepts, ConnectFailed, Connected, Finished, Back, objectVars
<1>2. CASE Accepts(c) /\ call[c].rt = 1
  <2>1. step[c].wait = "accept" /\ step[c].op = "accept" /\ Then(c, "create", "get", call[c].fd, NoLimit)
    BY <1>2 DEF Accepts, Back
  <2>2. call[c].fd < slots
    BY <1>1, <1>2, <2>1, WaitOfCall DEF ObjectInv, Entered, HasReturned
  <2>3. /\ Onward(c) /\ step'[c].wait = "create" /\ step'[c].op = step[c].op /\ step'[c].on = step[c].on
        /\ call'[c].op = "get" /\ call'[c].fd = call[c].fd /\ call'[c].rt = 0 /\ call'[c].at = "look"
    BY <2>1, ThenGoes DEF Straight
  <2>4. Entered(c)' /\ Serves(c)' /\ Hand(c)' /\ Hand(c)
    BY <1>2, <2>1, <2>2, <2>3 DEF Entered, Serves, Hand, CallOf, OpOf, Onward
  <2>5. \A d \in Caller : Entered(d)'
    BY <2>3, <2>4, OnwardEntered
  <2>6. \A s \in Socket : Closing(s)' <=> Closing(s)
    BY <2>1, <2>3 DEF Closing, Onward
  <2>7. Exclusive'
    BY <2>3, ExclusiveOnward DEF ObjectInv
  <2> QED BY <1>1, <2>3, <2>4, <2>5, <2>6, <2>7, ObjectsQuiet
<1>3. CASE ConnectFailed(c) /\ m_sock[step[c].on] # -1
  <2>1. /\ step[c].wait = "connect" /\ step[c].op = "connect"
        /\ Then(c, "close", "close", m_sock[step[c].on], NoLimit)
    BY <1>3 DEF ConnectFailed, Back
  <2>2. /\ Onward(c) /\ step'[c].wait = "close" /\ step'[c].op = step[c].op /\ step'[c].on = step[c].on
        /\ call'[c].op = "close" /\ call'[c].fd = m_sock[step[c].on] /\ call'[c].rt = 0
        /\ call'[c].at \in {"system", "look"}
    BY <2>1, ThenGoes
  <2>3. Entered(c)' /\ Serves(c)' /\ ~Hand(c)' /\ ~Hand(c)
    BY <1>1, <2>1, <2>2 DEF Entered, Serves, Hand, CallOf, OpOf
  <2>4. \A d \in Caller : Entered(d)'
    BY <2>2, <2>3, OnwardEntered
  <2>5. \A s \in Socket : Closing(s)' <=> Closing(s)
    BY <2>1, <2>2 DEF Closing, Onward
  <2>6. Exclusive'
    BY <2>2, ExclusiveOnward DEF ObjectInv
  <2> QED BY <1>1, <2>2, <2>3, <2>4, <2>5, <2>6, ObjectsQuiet
<1>4. CASE ~(Accepts(c) /\ call[c].rt = 1) /\ ~(ConnectFailed(c) /\ m_sock[step[c].on] # -1)
  <2>1. Leave(c)
    BY <1>4 DEF Accepts, ConnectFailed, Connected, Finished
  <2>2. step[c].wait \in {"accept", "connect", "io"} /\ (step[c].wait = "accept" => call[c].rt # 1)
    BY <1>4 DEF Accepts, ConnectFailed, Connected, Finished, Back
  <2> QED BY <1>1, <2>1, <2>2, ObjectsLeave DEF Hand
<1> QED BY <1>2, <1>3, <1>4

-----------------------------------------------------------------------------
\* Steps of a call that neither open nor close leave the kinds of files alone,
LEMMA InnerFiles ==
  ASSUME FdType, Shaped, NEW c \in Caller, Inner(c)
  PROVE  /\ fdtable' = fdtable /\ undercut \subseteq undercut'
         /\ \A n \in Number : IsOpen(n) => files'[fdtable[n]].socket = files[fdtable[n]].socket
<1>a. files \in Seq(File)
  BY DEF FdType
<1>b. \A n \in Number : IsOpen(n) => fdtable[n] \in 1 .. Len(files)
  BY DEF FdType, IsOpen, NoFile
<1>c. ASSUME NEW f \in 1 .. Len(files), NEW r \in File, r.socket = files[f].socket,
             files' = [files EXCEPT ![f] = r]
      PROVE  \A n \in Number : IsOpen(n) => files'[fdtable[n]].socket = files[fdtable[n]].socket
  BY <1>a, <1>b, <1>c
<1>1. fdtable' = fdtable /\ undercut \subseteq undercut'
  <2>1. CASE \/ LookUp(c) \/ MakeContext(c) \/ UseInCall(c) \/ UseInSetting(c) \/ CancelAll(c)
             \/ DelFdctx(c)
    BY <2>1 DEF LookUp, MakeContext, UseInCall, UseInSetting, CancelAll, DelFdctx, Treads,
       kernelVars, ghostVars
  <2>2. CASE \/ SetInKernel(c) \/ Park(c) \/ TimeLimit(c) \/ Resume(c)
             \/ (SystemCall(c) /\ ~Accepted(c))
    BY <2>2 DEF SetInKernel, Park, TimeLimit, Resume, SystemCall, Ends, MustWait, Treads,
       kernelVars, ghostVars
  <2>3. CASE OpenSocket(c) /\ Returns(c, -1)
    <3>1. UNCHANGED <<fdtable, ghostVars>>
      <4>1. CASE Opens(TRUE)
        <5>1. call'[c].rt = -1
          BY <2>3, ReturnsTyped
        <5>2. PICK n, at : n = NewNumber /\ at = IF c \in Hooked THEN "look" ELSE "done"
          OBVIOUS
        <5>3. call' = [call EXCEPT ![c] = [call[c] EXCEPT !.fd = n, !.rt = 1, !.at = at]]
          BY <2>3, <4>1, <5>2 DEF OpenSocket, Opens
        <5>4. call[c] \in Call /\ call \in [Caller -> Call]
          BY DEF FdType
        <5> QED BY <5>1, <5>3, <5>4 DEF Call
      <4>2. CASE ~Opens(TRUE)
        BY <2>3, <4>2 DEF OpenSocket
      <4> QED BY <4>1, <4>2
    <3> QED BY <3>1 DEF ghostVars
  <2> QED BY <2>1, <2>2, <2>3 DEF Inner
<1>2. ASSUME NEW b \in BOOLEAN, NEW f \in 1 .. Len(files),
             files' = [files EXCEPT ![f] = [files[f] EXCEPT !.nonblock = b]]
      PROVE  \A n \in Number : IsOpen(n) => files'[fdtable[n]].socket = files[fdtable[n]].socket
  <2>1. files[f] \in File
    BY <1>a, <1>2
  <2>2. [files[f] EXCEPT !.nonblock = b] \in File /\ [files[f] EXCEPT !.nonblock = b].socket = files[f].socket
    BY <1>2, <2>1 DEF File
  <2> QED BY <1>c, <1>2, <2>2
<1>3. ASSUME NEW limit \in Want, NEW f \in 1 .. Len(files),
             files' = [files EXCEPT ![f] = [files[f] EXCEPT !.limit = limit]]
      PROVE  \A n \in Number : IsOpen(n) => files'[fdtable[n]].socket = files[fdtable[n]].socket
  <2>1. files[f] \in File
    BY <1>a, <1>3
  <2>2. [files[f] EXCEPT !.limit = limit] \in File /\ [files[f] EXCEPT !.limit = limit].socket = files[f].socket
    BY <2>1 DEF File
  <2> QED BY <1>c, <1>3, <2>2
<1>4. CASE MakeContext(c)
  <2>1. \/ files' = files
        \/ \E n : IsOpen(n) /\ files' = [files EXCEPT ![fdtable[n]] = [files[fdtable[n]] EXCEPT !.nonblock = TRUE]]
    BY <1>4 DEF MakeContext
  <2>2. ASSUME NEW n, IsOpen(n),
               files' = [files EXCEPT ![fdtable[n]] = [files[fdtable[n]] EXCEPT !.nonblock = TRUE]]
        PROVE  \A m \in Number : IsOpen(m) => files'[fdtable[m]].socket = files[fdtable[m]].socket
    <3>1. fdtable[n] \in 1 .. Len(files)
      BY <2>2, <1>b DEF IsOpen
    <3> QED BY <2>2, <3>1, <1>2
  <2> QED BY <1>1, <2>1, <2>2
<1>5. CASE SetInKernel(c)
  <2>b. PICK b \in BOOLEAN : b = (call[c].want = 1)
    OBVIOUS
  <2>w. PICK want \in Want : want = call[c].want
    BY DEF FdType, Call
  <2>n. PICK n : n = call[c].fd
    OBVIOUS
  <2>1. \/ files' = files
        \/ IsOpen(n) /\ files' = [files EXCEPT ![fdtable[n]] = [files[fdtable[n]] EXCEPT !.limit = want]]
        \/ IsOpen(n) /\ files' = [files EXCEPT ![fdtable[n]] = [files[fdtable[n]] EXCEPT !.nonblock = b]]
    BY <1>5, <2>b, <2>w, <2>n DEF SetInKernel
  <2>2. IsOpen(n) => fdtable[n] \in 1 .. Len(files)
    BY <1>b DEF IsOpen
  <2> QED BY <1>1, <1>2, <1>3, <2>1, <2>2
<1>6. CASE ~MakeContext(c) /\ ~SetInKernel(c)
  <2>1. files' = files
    <3>1. CASE \/ LookUp(c) \/ UseInCall(c) \/ UseInSetting(c) \/ CancelAll(c) \/ DelFdctx(c)
      BY <3>1 DEF LookUp, UseInCall, UseInSetting, CancelAll, DelFdctx, kernelVars
    <3>2. CASE \/ Park(c) \/ TimeLimit(c) \/ Resume(c) \/ (SystemCall(c) /\ ~Accepted(c))
      BY <3>2 DEF Park, TimeLimit, Resume, SystemCall, Ends, MustWait, kernelVars
    <3>3. CASE OpenSocket(c) /\ Returns(c, -1)
      <4>1. PICK n, at : n = NewNumber /\ at = IF c \in Hooked THEN "look" ELSE "done"
        OBVIOUS
      <4>2. \/ files' = files
            \/ call' = [call EXCEPT ![c] = [call[c] EXCEPT !.fd = n, !.rt = 1, !.at = at]]
        BY <3>3, <4>1 DEF OpenSocket
      <4>3. call'[c].rt = -1 /\ call[c] \in Call /\ call \in [Caller -> Call]
        BY <3>3, ReturnsTyped DEF FdType
      <4>4. ASSUME call' = [call EXCEPT ![c] = [call[c] EXCEPT !.fd = n, !.rt = 1, !.at = at]]
            PROVE  FALSE
        BY <4>3, <4>4 DEF Call
      <4> QED BY <4>2, <4>4
    <3> QED BY <1>6, <3>1, <3>2, <3>3 DEF Inner
  <2> QED BY <1>1, <2>1
<1> QED BY <1>4, <1>5, <1>6
\* A step of a hooked call keeps the invariant of the objects,
LEMMA ObjectsStep ==
  ASSUME TypeOK, Shaped, TableInv, ContextInv, ObjectInv, ~clash, NEW c \in Caller, Step(c),
         UNCHANGED <<objectVars, step, clash>>
  PROVE  ObjectInv'
<1>1. \A d \in Caller : Entered(d)'
  BY EnteredStep
<1>2. FdType /\ UNCHANGED <<m_sock, own>> /\ Entered(c)
  BY DEF TypeOK, objectVars, ObjectInv
<1>3. CASE Inner(c)
  <2>1. \A d \in Caller : Kin(call[d], call'[d])
    BY <1>2, <1>3, KinSteps
  <2>2. /\ fdtable' = fdtable /\ undercut \subseteq undercut'
        /\ \A n \in Number : IsOpen(n) => files'[fdtable[n]].socket = files[fdtable[n]].socket
    BY <1>2, <1>3, InnerFiles
  <2> QED BY <1>1, <1>2, <2>1, <2>2, ObjectsAside
<1>4. CASE CloseDescriptor(c)
  BY <1>1, <1>4, ObjectsClose
<1>5. CASE (SystemCall(c) /\ Accepted(c)) \/ (OpenSocket(c) /\ ~Returns(c, -1))
  <2>n. PICK n : n = NewNumber
    OBVIOUS
  <2>t. PICK at : at = IF (SystemCall(c) /\ Accepted(c)) \/ c \in Hooked THEN "look" ELSE "done"
    OBVIOUS
  <2>1. Opens(TRUE) /\ call' = [call EXCEPT ![c] = [call[c] EXCEPT !.fd = n, !.rt = 1, !.at = at]]
    <3>1. CASE SystemCall(c) /\ Accepted(c)
      BY <2>n, <2>t, <3>1 DEF Accepted
    <3>2. CASE OpenSocket(c) /\ ~Returns(c, -1)
      <4>1. ~SystemCall(c)
        BY <3>2 DEF OpenSocket, SystemCall, Within
      <4> QED BY <2>n, <2>t, <3>2, <4>1 DEF OpenSocket
    <3> QED BY <1>5, <3>1, <3>2
  <2>2. /\ call[c].op \in {"socket", "accept"} /\ call[c].at \in {"system", "try"}
        /\ call \in [Caller -> Call] /\ call[c] \in Call
    BY <1>2, <1>5 DEF SystemCall, Accepted, OpenSocket, Within, FdType
  <2>3. call[c].rt # 1
    BY <1>2, <2>2 DEF Entered
  <2>4. /\ \A d \in Caller \ {c} : call'[d] = call[d]
        /\ call'[c].op = call[c].op /\ call'[c].fd = n /\ call'[c].rt = 1
    BY <2>1, <2>2 DEF Call
  <2> QED BY <1>1, <2>n, <2>1, <2>2, <2>3, <2>4, ObjectsOpen
<1> QED BY <1>3, <1>4, <1>5 DEF Step, Inner

\* so does an event,
LEMMA ObjectsReady ==
  ASSUME TypeOK, Shaped, ObjectInv, ~clash, NEW n \in Number, Ready(n),
         UNCHANGED <<objectVars, step, clash>>
  PROVE  ObjectInv'
<1>1. PICK events \in SUBSET Event : Woken(n, events, call)
  BY ReadyWakes DEF TypeOK
<1>2. /\ UNCHANGED <<m_sock, own, fdtable, files, slots, contexts, undercut>>
      /\ FdType /\ slots \in Nat
  BY DEF Ready, TypeOK, FdType, objectVars, tableVars, ghostVars
<1>3. ASSUME NEW d \in Caller
      PROVE  Kin(call[d], call'[d]) /\ Entered(d)'
  <2>1. Entered(d)
    BY DEF ObjectInv
  <2>2. CASE call'[d] = call[d]
    <3>1. Entered(d)'
      BY <1>2, <2>1, <2>2, EnteredKept
    <3> QED BY <2>2, <3>1 DEF Kin
  <2>3. CASE call[d].at = "parked" /\ call'[d] = [call[d] EXCEPT !.at = "woken"]
    <3>1. call[d] \in Call /\ Shape(call[d])
      BY <1>2 DEF FdType, Shaped
    <3>2. /\ call'[d].op = call[d].op /\ call'[d].fd = call[d].fd /\ call'[d].rt = call[d].rt
          /\ call'[d].at = "woken"
      BY <2>3, <3>1 DEF Call
    <3>3. call[d].rt # 1 /\ call[d].op \notin {"get", "close", "none"}
      BY <2>1, <2>3, <3>1 DEF Entered, Shape
    <3> QED BY <3>2, <3>3 DEF Kin, Entered
  <2> QED BY <1>1, <2>2, <2>3 DEF Woken
<1> QED BY <1>2, <1>3, ObjectsAside

\* and a file that is opened past the objects.
LEMMA ObjectsOther ==
  ASSUME TypeOK, Shaped, ObjectInv, ~clash, NEW c \in Caller, Other(c)
  PROVE  ObjectInv'
<1>1. /\ Opens(FALSE) /\ call' = call /\ UNCHANGED <<objectVars, step, clash, slots, contexts>>
      /\ FdType /\ slots \in Nat
  BY DEF Other, OpenOther, tableVars, TypeOK, FdType
<1>2. \A d \in Caller : call[d].fd \in undercut => call[d].fd \in undercut'
  BY <1>1 DEF Opens
<1>3. \A d \in Caller : Entered(d)'
  BY <1>1, <1>2, EnteredKept DEF ObjectInv
<1> QED BY <1>1, <1>3, ObjectsOpen

\* So every step does.
LEMMA ObjectStep ==
  ASSUME TypeOK, Shaped, TableInv, ContextInv, ObjectInv, [Next]_vars
  PROVE  ObjectInv'
<1>1. CASE UNCHANGED vars
  <2>1. /\ UNCHANGED <<m_sock, own, step, clash, fdtable, files, slots, contexts, undercut, call>>
        /\ FdType /\ slots \in Nat
    BY <1>1 DEF vars, fdVars, kernelVars, tableVars, ghostVars, objectVars, TypeOK, FdType
  <2>2. \A d \in Caller : Kin(call[d], call'[d]) /\ Entered(d)'
    BY <2>1, EnteredKept DEF Kin, ObjectInv
  <2> QED BY <2>1, <2>2, ObjectsAside
<1>2. ASSUME ~clash, NEW n \in Number, Ready(n), UNCHANGED <<objectVars, step, calls, clash>>
      PROVE  ObjectInv'
  BY <1>2, ObjectsReady
<1>3. ASSUME ~clash, NEW c \in Caller, Acts(c)
      PROVE  ObjectInv'
  <2>1. FdType /\ SocketType
    BY DEF TypeOK
  <2>2. CASE Step(c) /\ UNCHANGED <<objectVars, step, calls, clash>>
    BY <1>3, <2>2, ObjectsStep
  <2>3. CASE CreateSock(c) \/ Closed(c) \/ CreateSockFromSockfd(c)
    BY <1>3, <2>1, <2>3, ObjectsCreated, ObjectsClosed, ObjectsAccepted
  <2>4. CASE Connected(c) \/ ConnectFailed(c) \/ Accepts(c) \/ Finished(c)
    BY <1>3, <2>1, <2>4, ObjectsThen
  <2>5. CASE Begins(c) /\ ~Other(c)
    BY <1>3, <2>1, <2>5, ObjectsBegins
  <2>6. CASE Other(c)
    BY <1>3, <2>6, ObjectsOther
  <2> QED BY <1>3, <2>2, <2>3, <2>4, <2>5, <2>6 DEF Acts
<1> QED BY <1>1, <1>2, <1>3 DEF Next

\* Spec => []HandlesExact: objects and open sockets belong together one to one,
\* whatever callers do in whatever order, unless two change an object at once
\* or the context of an accepted number was spoilt (socket.cpp:130, socket.cpp:73).
THEOREM HandlesAreExact == Spec => []HandlesExact
<1>1. Init => TableInv /\ ContextInv /\ ObjectInv
  <2> SUFFICES ASSUME Init PROVE TableInv /\ ObjectInv
    BY ContextInit
  <2>1. /\ \A c \in Caller : call[c] = Idle /\ step[c] = Resting
        /\ \A s \in Socket : m_sock[s] = -1
        /\ \A n \in Number : fdtable[n] = IF n < Inherited THEN n + 1 ELSE NoFile
        /\ files = [f \in 1 .. Inherited |-> NewFile(FALSE)]
    BY DEF Init, InitDescriptors
  <2>2. TableInv
    BY SlotsAssumption DEF Init, InitDescriptors, TableInv, Idle
  <2>3. \A c \in Caller : Entered(c) /\ Serves(c) /\ ~Hand(c)
    BY <2>1 DEF Entered, Serves, Hand, CallOf, OpOf, Idle, Resting
  <2>4. Exclusive
    BY <2>1 DEF Exclusive, Resting, Replacing
  <2>5. \A s \in Socket : \A n \in Number : ~Holds(s, n)
    BY <2>1, BoundsAssumption DEF Holds, Number
  <2>6. ASSUME NEW n \in Number, IsOpen(n)
        PROVE  ~FileOf(n).socket
    <3>1. fdtable[n] \in 1 .. Inherited
      BY <2>1, <2>6, BoundsAssumption DEF IsOpen, Number, NoFile
    <3> QED BY <2>1, <3>1 DEF FileOf, NewFile
  <2> QED BY <2>2, <2>3, <2>4, <2>5, <2>6 DEF ObjectInv, HeldOnce, HandOnce, Owned
<1>2. TypeOK /\ Shaped /\ TableInv /\ ContextInv /\ ObjectInv /\ [Next]_vars =>
        TableInv' /\ ContextInv' /\ ObjectInv'
  <2> SUFFICES ASSUME TypeOK, Shaped, TableInv, ContextInv, ObjectInv, [Next]_vars
               PROVE  TableInv' /\ ContextInv' /\ ObjectInv'
    OBVIOUS
  <2>1. FdNext
    BY FdSteps
  <2> QED BY <2>1, TableStep, ContextStep, ObjectStep DEF TypeOK
<1>3. TypeOK /\ ObjectInv => HandlesExact
  <2> SUFFICES ASSUME TypeOK, ObjectInv, ~clash PROVE HandlesExact
    BY DEF HandlesExact
  <2>1. HeldOnce /\ HandOnce /\ Owned /\ \A s \in Socket : m_sock[s] \in Number \cup {-1}
    BY DEF ObjectInv, TypeOK, SocketType
  <2>2. ASSUME NEW s \in Socket, m_sock[s] # -1, ~Closing(s)
        PROVE  /\ fdtable[m_sock[s]] = own[s]
               /\ \A t \in Socket \ {s} : m_sock[t] = m_sock[s] => Closing(t)
    BY <2>1, <2>2 DEF HeldOnce, Holds
  <2>3. ASSUME NEW n \in Number, IsOpen(n), FileOf(n).socket, n \notin undercut
        PROVE  (\E s \in Socket : m_sock[s] = n /\ own[s] = fdtable[n]) \/ InHand(n)
    <3>1. \A c \in Caller : Hand(c) => step[c].wait \in {"socket", "accept", "create"}
      BY DEF Hand
    <3> QED BY <2>1, <2>3, <3>1 DEF Owned, HeldOnce, Holds, InHand
  <2> QED BY <2>2, <2>3 DEF HandlesExact
<1> QED BY <1>1, <1>2, <1>3, TypesKept, PTL DEF Spec
=============================================================================
