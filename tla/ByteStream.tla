----------------------------- MODULE ByteStream -----------------------------
(***************************************************************************)
(* What a user of byte_array.h may rely on: a sequence of bytes and a      *)
(* position in it.  No nodes, no capacity, no cursor.                      *)
(***************************************************************************)
EXTENDS Naturals, Sequences, SequencesExt

CONSTANT Byte
VARIABLES content,   \* the bytes in front of get_size()
          position,  \* get_position()
          call       \* the last call and the bytes that went in or out

vars == <<content, position, call>>

\* s with the bytes b from (zero-based) offset p on; it may grow.
Overwritten(s, p, b) ==
  SubSeq(s, 1, p) \o b \o SubSeq(s, p + Len(b) + 1, Len(s))

Init == content = <<>> /\ position = 0 /\ call = [op |-> "none", bytes |-> <<>>]

\* Writing replaces what is there, appends the rest and advances.
Put ==
  /\ call'.op = "write"
  /\ content' = Overwritten(content, position, call'.bytes)
  /\ position' = position + Len(call'.bytes)

\* Reading returns the next bytes and advances; it never passes the end.
Take ==
  /\ call'.op = "read"
  /\ position + Len(call'.bytes) <= Len(content)
  /\ call'.bytes = SubSeq(content, position + 1, position + Len(call'.bytes))
  /\ position' = position + Len(call'.bytes)
  /\ UNCHANGED content

\* Seeking past the end lengthens the content by bytes nobody chose.
Seek ==
  /\ call'.op = "seek"
  /\ content' \in Seq(Byte)
  /\ IsPrefix(content, content')
  /\ Len(content') = IF position' > Len(content) THEN position' ELSE Len(content)

\* Somebody else fills the buffers of get_write_buffers: the position stays,
\* and what lies beyond the content does not become part of it.
Fill ==
  /\ call'.op = "fill"
  /\ content' = SubSeq(Overwritten(content, position, call'.bytes), 1, Len(content))
  /\ UNCHANGED position

Clear == call'.op = "clear" /\ content' = <<>> /\ position' = 0

Next == Put \/ Take \/ Seek \/ Fill \/ Clear

Spec == Init /\ [][Next]_vars
=============================================================================
