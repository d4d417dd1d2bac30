------------------------------ MODULE ByteArray ------------------------------
(***************************************************************************)
(* byte_array.cpp: a buffer made of a list of equal nodes, with a write    *)
(* and read position and a pointer to the node the position is in.         *)
(*                                                                         *)
(* mem is the memory of the nodes, one after the other; m_cur is the       *)
(* number of the node pointed to, or Null.  A dereference of the null      *)
(* pointer ends the program: crashed.  fields is a ghost: which value was  *)
(* written where.                                                          *)
(***************************************************************************)
EXTENDS ByteCodec

CONSTANTS m_baseSize,
          Samples,      \* kind of field -> the values written in an instance
          RawData,      \* the bytes of raw writes and of write buffers
          NewMemory,    \* what new char[] may hold
          MaxCapacity,  \* bound: bytes
          MaxCalls      \* bound: calls

ASSUME BaseAssumption ==
  /\ m_baseSize \in Nat \ {0}
  /\ RawData \subseteq Seq(Byte)
  /\ NewMemory \subseteq Byte

\* The values of a kind: what its C++ type holds.  A string's size is less
\* than 2^64.
ASSUME SamplesAssumption ==
  \A k \in DOMAIN Samples :
    IF IsString(k)
    THEN /\ IsNumber(Prefix[k])
         /\ Samples[k] \subseteq Seq(Byte)
         /\ \A v \in Samples[k] : Prefix[k] \notin DOMAIN Width => Len(v) \in NumberRange(Prefix[k])
    ELSE IsNumber(k) /\ Samples[k] \subseteq NumberRange(k)

VARIABLES mem, m_capacity, m_size, m_position, m_cur, m_little, crashed,
          call, fields, calls

memVars == <<mem, m_capacity, m_size, m_position, m_cur>>
vars == <<memVars, m_little, crashed, call, fields, calls>>

Nodes == Len(mem) \div m_baseSize
Null == -1
Unread == m_size - m_position

\* The content the user sees: get_size() bytes.
Content == SubSeq(mem, 1, m_size)
Stream == INSTANCE ByteStream WITH content <- Content, position <- m_position

\* The address "m_cur->ptr + npos" works out at.
AddressIn(node, p) == node * m_baseSize + (p % m_baseSize)

Init ==
  /\ \E j \in NewMemory : mem = [i \in 1 .. m_baseSize |-> j]
  /\ m_capacity = m_baseSize /\ m_size = 0 /\ m_position = 0 /\ m_cur = 0
  /\ m_little = FALSE /\ crashed = FALSE
  /\ call = [op |-> "none", bytes |-> <<>>]
  /\ fields = {} /\ calls = 0

-----------------------------------------------------------------------------
\* add_capacity(n): the bytes of the nodes appended to make room for n more.
Added(n) ==
  LET short == n - (m_capacity - m_position)
  IN  IF short <= 0 THEN 0
      ELSE ((short + m_baseSize - 1) \div m_baseSize) * m_baseSize

Grown(n, junk) == mem \o [i \in 1 .. Added(n) |-> junk]

\* Fault: the pointer stays null when there was no room at all.
GrownCurNull(n) == m_cur

\* add_capacity's effect on the pointer: the first new node replaces null.
GrownCur(n) ==
  IF Added(n) > 0 /\ m_capacity = m_position THEN Nodes ELSE m_cur

\* Fault: the pointer stays on a node that has been used up.
AfterLate(address, n, size) == (address + n - 1) \div m_baseSize

\* Where the pointer is when n > 0 bytes from address are used, in nodes of
\* altogether size bytes: on the next node as soon as a node is used up.
After(address, n, size) ==
  IF address + n = size THEN Null ELSE (address + n) \div m_baseSize

\* write(buf, size): nothing for no bytes, otherwise grow, copy, advance.
Write(b) ==
  LET n == Len(b)
      address == AddressIn(GrownCur(n), m_position)
  IN  IF n = 0 THEN UNCHANGED memVars
      ELSE \E junk \in NewMemory :
             /\ mem' = Stream!Overwritten(Grown(n, junk), address, b)
             /\ m_capacity' = m_capacity + Added(n)
             /\ m_cur' = After(address, n, Len(mem'))
             /\ m_position' = m_position + n
             /\ m_size' = IF m_position + n > m_size THEN m_position + n ELSE m_size

\* read(buf, size) for size <= get_read_size(); the pointer is dereferenced
\* even for no bytes.
Read(n) ==
  /\ m_position' = m_position + n
  /\ m_cur' = IF n = 0 THEN m_cur ELSE After(AddressIn(m_cur, m_position), n, Len(mem))
  /\ UNCHANGED <<mem, m_capacity, m_size>>

\* The bytes a read of n would copy: through the pointer, not the position.
Ahead(n) == SubSeq(mem, AddressIn(m_cur, m_position) + 1,
                      AddressIn(m_cur, m_position) + n)

\* Fields no byte of which is in [from, from + n).
Untouched(from, n) == {f \in fields : f.at + f.len <= from \/ from + n <= f.at}

Call(op, bytes) ==
  /\ ~crashed /\ calls < MaxCalls
  /\ calls' = calls + 1
  /\ call' = [op |-> op, bytes |-> bytes]

-----------------------------------------------------------------------------
\* A string longer than its length prefix can say is not expected back.
Fits(k, v) ==
  IsString(k) /\ Prefix[k] \in DOMAIN Width => Len(v) < FixedModulus(Prefix[k])

\* write_F_xxx, write_xxx, write_string_xxx.
WriteField(k, v) ==
  LET b == Encode(k, v, m_little)
      f == [at |-> m_position, len |-> Len(b), kind |-> k, value |-> v,
            little |-> m_little]
  IN  /\ m_position + Len(b) <= MaxCapacity
      /\ Call("write", b)
      /\ Write(b)
      /\ fields' = Untouched(m_position, Len(b)) \cup {g \in {f} : Fits(k, v)}
      /\ UNCHANGED <<m_little, crashed>>

\* write_string_without_length, read_from_file: bytes as they are.
WriteRaw(b) ==
  /\ m_position + Len(b) <= MaxCapacity
  /\ Call("write", b)
  /\ Write(b)
  /\ fields' = Untouched(m_position, Len(b))
  /\ UNCHANGED <<m_little, crashed>>

\* read_F_xxx, read_xxx, read_string_xxx; what was consumed before an
\* out_of_range stays consumed.  An empty string whose prefix ends the last
\* node is read through the null pointer.
ReadField(k) ==
  LET d == Decode(k, Ahead(Unread), m_little)
  IN  /\ Call("read", Ahead(d.used))
      /\ Read(d.used)
      /\ crashed' = (IsString(k) /\ ~d.thrown /\ d.value = <<>> /\ m_cur' = Null)
      /\ UNCHANGED <<m_little, fields>>

\* read(buf, n), also with n = 0.
ReadRaw(n) ==
  /\ n <= Unread
  /\ Call("read", IF m_cur = Null THEN <<>> ELSE Ahead(n))
  /\ IF m_cur = Null THEN UNCHANGED memVars ELSE Read(n)
  /\ crashed' = (m_cur = Null)
  /\ UNCHANGED <<m_little, fields>>

\* The walk of set_position from the root: past every node before v, and past
\* the node v ends.
NodeOf(v) == IF v = Len(mem) THEN Null ELSE v \div m_baseSize

\* set_position(v); it throws, and changes nothing, beyond the capacity.
SetPosition(v) ==
  /\ v <= m_capacity
  /\ Call("seek", <<>>)
  /\ m_position' = v
  /\ m_size' = IF v > m_size THEN v ELSE m_size
  /\ m_cur' = NodeOf(v)
  /\ UNCHANGED <<mem, m_capacity, m_little, crashed, fields>>

\* get_write_buffers(buffers, n) and a readv that fills them.  set_position,
\* a later call, makes the bytes part of the content.
FillBuffers(b) ==
  LET n == Len(b)
      address == AddressIn(GrownCur(n), m_position)
  IN  /\ n > 0 /\ m_position + n <= MaxCapacity
      /\ Call("fill", b)
      /\ \E junk \in NewMemory :
           mem' = Stream!Overwritten(Grown(n, junk), address, b)
      /\ m_capacity' = m_capacity + Added(n)
      /\ m_cur' = GrownCur(n)
      /\ fields' = Untouched(m_position, n)
      /\ UNCHANGED <<m_size, m_position, m_little, crashed>>

\* clear(): the first node stays, with its bytes.
Clear ==
  /\ Call("clear", <<>>)
  /\ mem' = SubSeq(mem, 1, m_baseSize)
  /\ m_capacity' = m_baseSize
  /\ m_size' = 0 /\ m_position' = 0 /\ m_cur' = 0
  /\ fields' = {}
  /\ UNCHANGED <<m_little, crashed>>

\* set_is_little_endian
SetEndian ==
  /\ calls < MaxCalls /\ ~crashed
  /\ m_little' = ~m_little
  /\ calls' = calls + 1
  /\ UNCHANGED <<memVars, crashed, call, fields>>

Next ==
  \/ \E k \in DOMAIN Samples : ReadField(k) \/ \E v \in Samples[k] : WriteField(k, v)
  \/ \E b \in RawData : WriteRaw(b) \/ FillBuffers(b)
  \/ \E n \in {Len(b) : b \in RawData} : ReadRaw(n)
  \/ \E v \in 0 .. MaxCapacity : SetPosition(v)
  \/ Clear
  \/ SetEndian

Spec == Init /\ [][Next]_vars

-----------------------------------------------------------------------------
\* Where the other readers of the buffer look.

\* Fault: the position is used in the node of the pointer.
BuffersAtPointer(len, p) ==
  LET n == IF len > Unread THEN Unread ELSE len
  IN  SubSeq(mem, AddressIn(m_cur, p) + 1, AddressIn(m_cur, p) + n)

\* get_read_buffers(buffers, len, position): what the iovecs hold.  The length
\* is cut to what is unread at the current position, whatever position says.
BuffersAt(len, p) ==
  LET n == IF len > Unread THEN Unread ELSE len
  IN  SubSeq(mem, p + 1, p + n)

\* get_read_buffers(buffers, len)
Buffers(len) ==
  LET n == IF len > Unread THEN Unread ELSE len
  IN  IF n = 0 THEN <<>> ELSE Ahead(n)

\* to_string(), to_hex_string(): read(buf, size, m_position) unless empty.
UnreadString == IF Unread = 0 THEN <<>> ELSE Ahead(Unread)

\* One pass of write_to_file's loop, with r bytes to go from position p.
Piece(p, r) == (IF r > m_baseSize THEN m_baseSize ELSE r) - (p % m_baseSize)

\* One pass: the piece of one node.  A piece that is not positive, or a node
\* that is not there, loses the rest; -1 stands for it.
WritePiece(s) ==
  LET n == Piece(s.pos, s.left)
      from == AddressIn(s.cur, s.pos)
  IN  IF s.left = 0 THEN s
      ELSE IF n <= 0 \/ s.cur \notin 0 .. Nodes - 1
      THEN [s EXCEPT !.left = 0, !.out = Append(@, -1)]
      ELSE [cur |-> s.cur + 1, pos |-> s.pos + n, left |-> s.left - n,
            out |-> s.out \o SubSeq(mem, from + 1, from + n)]

\* write_to_file: more passes than there are nodes are not needed.
File ==
  LET pass[i \in 0 .. Nodes + 1] ==
        IF i = 0 THEN [cur |-> m_cur, pos |-> m_position, left |-> Unread, out |-> <<>>]
                 ELSE WritePiece(pass[i - 1])
  IN  pass[Nodes + 1].out

-----------------------------------------------------------------------------
\* The numbers fit together and the pointer is the node of the position: null
\* exactly when the capacity is used up.  Every copy relies on it.
CursorSound ==
  /\ mem \in Seq(Byte) /\ Len(mem) = m_capacity /\ m_capacity % m_baseSize = 0
  /\ 0 <= m_position /\ m_position <= m_size /\ m_size <= m_capacity
  /\ m_cur = IF m_position = m_capacity THEN Null ELSE m_position \div m_baseSize

\* A field that has not been overwritten reads back as the value that was
\* written, wherever node boundaries fall and however the buffer grew since.
FieldsReadBack ==
  \A f \in fields :
    LET d == Decode(f.kind, SubSeq(mem, f.at + 1, m_size), f.little)
    IN  d.used = f.len /\ ~d.thrown /\ d.value = f.value

\* The ways to look at the unread bytes without consuming them agree with the
\* content; a file is whole unless less than a node is left inside a node.
ViewsAgree ==
  LET unread == SubSeq(Content, m_position + 1, m_size)
  IN  /\ UnreadString = unread
      /\ \A n \in 0 .. m_size + 1 :
           Buffers(n) = SubSeq(unread, 1, IF n < Unread THEN n ELSE Unread)
      /\ \A p \in 0 .. m_position : IsPrefix(BuffersAt(Unread, p), SubSeq(Content, p + 1, m_size))
      /\ (File = unread) <=> (\/ Unread = 0 \/ Unread >= m_baseSize
                              \/ m_position % m_baseSize = 0)

\* The nodes are an implementation of a plain sequence with a position.
ImplementsByteStream == Stream!Spec
=============================================================================
