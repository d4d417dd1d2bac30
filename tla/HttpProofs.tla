----------------------------- MODULE HttpProofs -----------------------------
(***************************************************************************)
(* Proofs about the parser and the request, for any streams, any cuts, any *)
(* program: how the call that is given a piece of the stream and the one   *)
(* that has had all before it stand to each other, step by step; that a    *)
(* look at the parameters leaves alone what the program set; and that the  *)
(* machine splits a request's target at its separators.                    *)
(***************************************************************************)
EXTENDS HttpMessage, SequenceTheorems, WellFoundedInduction, TLAPS

-----------------------------------------------------------------------------
(* Induction.  The sets take the place of predicates.                      *)

\* A set of numbers has a least one.
LEMMA Least ==
  ASSUME NEW S, S \subseteq Nat, S # {}
  PROVE  \E n \in S : \A m \in S : n <= m
<1>1. PICK least \in S : \A y \in S : ~(<<y, least>> \in OpToRel(<, Nat))
  BY WFMin, NatLessThanWellFounded
<1>2. ASSUME NEW y \in S, y < least PROVE FALSE
  <2>1. <<y, least>> \in OpToRel(<, Nat)
    BY <1>2 DEF OpToRel
  <2> QED BY <2>1, <1>1
<1> QED BY <1>2

\* A set that has 0, and n whenever it has n - 1, has all up to the bound.
LEMMA InductionUpTo ==
  ASSUME NEW T, NEW k \in Nat, 0 \in T, \A n \in 1 .. k : n - 1 \in T => n \in T
  PROVE  \A n \in 0 .. k : n \in T
<1>1. SUFFICES ASSUME (0 .. k) \ T # {} PROVE FALSE
  OBVIOUS
<1>2. PICK n \in (0 .. k) \ T : \A m \in (0 .. k) \ T : n <= m
  <2>1. (0 .. k) \ T \subseteq Nat
    OBVIOUS
  <2> QED BY <1>1, <2>1, Least
<1>3. n \in 1 .. k /\ n - 1 \in T
  BY <1>2
<1> QED BY <1>2, <1>3

-----------------------------------------------------------------------------
(* What a step of the machine does is a sequence of these.                 *)

Action == {"mark", "start_query", "start_field", "write_field", "method", "path", "query",
           "uri", "fragment", "version", "field", "done", "sent", "close", "status",
           "reason", "chunk", "content_len", "chunked"}

LEMMA Joined ==
  ASSUME NEW s \in Seq(Action), NEW t \in Seq(Action)
  PROVE  s \o t \in Seq(Action)
BY ConcatProperties

LEMMA ActIsAction == \A c : \A a \in Action : Act(c, a) \in Seq(Action)
<1> TAKE c
<1> TAKE a \in Action
<1>1. <<a>> \in Seq(Action) /\ <<>> \in Seq(Action)
  OBVIOUS
<1> QED BY <1>1 DEF Act

LEMMA ActsAreActions ==
  ASSUME NEW k, NEW s, NEW c, NEW t
  PROVE  Acts(k, s, c, t) \in Seq(Action)
<1>1. RequestActs(s, t) \in Seq(Action)
  BY Joined, ActIsAction, SMT DEF RequestActs, Action
<1>2. ResponseActs(s, c) \in Seq(Action)
  BY Joined, ActIsAction, SMT DEF ResponseActs, MoveActs, Action
<1> QED BY <1>1, <1>2 DEF Acts

-----------------------------------------------------------------------------
(* Parsers in states of a set C, elements and calls.                       *)

Parsers(C) == [cs : C, mark : Int, field_start : Int, field_len : Int, query_start : Int,
               body_start : Int]
Elements == [kind : Action, at : Int, len : Int, name : Int, name_len : Int]
Calls(C) == [parser : Parsers(C), p : Nat, got : Seq(Elements), over : BOOLEAN]

LEMMA ElementType ==
  ASSUME NEW C, NEW r \in Calls(C), NEW a \in Action
  PROVE  /\ Element(r, a) \in Elements
         /\ Element(r, a).kind = a
         /\ Element(r, a).at + Element(r, a).len = r.p
BY DEF Calls, Parsers, Elements, Element

\* What each of the actions does.
LEMMA PerformCases ==
  ASSUME NEW r, NEW a
  PROVE  /\ a = "mark" => Perform(r, a) = [r EXCEPT !.parser.mark = r.p]
         /\ a = "start_query" => Perform(r, a) = [r EXCEPT !.parser.query_start = r.p]
         /\ a = "start_field" => Perform(r, a) = [r EXCEPT !.parser.field_start = r.p]
         /\ a = "write_field" =>
              Perform(r, a) = [r EXCEPT !.parser.field_len = r.p - r.parser.field_start]
         /\ a \in {"close", "chunked", "content_len"} => Perform(r, a) = r
         /\ a = "done" => Perform(r, a) = CallOver(r, r.p + 1)
         /\ a = "sent" => Perform(r, a) = CallOver(r, r.parser.mark)
         /\ a \notin {"mark", "start_query", "start_field", "write_field", "close", "chunked",
                      "content_len", "sent", "done"} =>
              Perform(r, a) = [r EXCEPT !.got = Append(r.got, Element(r, a))]
BY DEF Perform

\* The action that ends a call keeps the offsets of elements.
LEMMA EndsType ==
  ASSUME NEW C, NEW r \in Calls(C), NEW i \in Int
  PROVE  LET q == CallOver(r, i)
         IN  /\ q \in Calls(C) /\ q.p = r.p /\ q.over = TRUE /\ q.got = r.got
             /\ q.parser.cs = r.parser.cs /\ q.parser.mark = r.parser.mark
             /\ q.parser.query_start = r.parser.query_start
             /\ q.parser.field_start = r.parser.field_start
             /\ q.parser.field_len = r.parser.field_len
<1> DEFINE x == [r EXCEPT !.over = TRUE]
           q == CallOver(r, i)
<1>1. /\ x \in Calls(C) /\ x.p = r.p /\ x.over = TRUE /\ x.got = r.got
      /\ x.parser = r.parser
  BY DEF Calls
<1>2. q = [x EXCEPT !.parser.body_start = i]
  BY DEF CallOver, Calls
<1> HIDE DEF x, q
<1>3. /\ q \in Calls(C) /\ q.p = x.p /\ q.over = x.over /\ q.got = x.got
      /\ q.parser = [x.parser EXCEPT !.body_start = i]
  BY <1>1, <1>2 DEF Calls, Parsers
<1>4. x.parser \in Parsers(C)
  BY <1>1 DEF Calls
<1>5. /\ q.parser.cs = x.parser.cs /\ q.parser.mark = x.parser.mark
      /\ q.parser.query_start = x.parser.query_start
      /\ q.parser.field_start = x.parser.field_start
      /\ q.parser.field_len = x.parser.field_len
  BY <1>3, <1>4 DEF Parsers
<1> QED BY <1>1, <1>3, <1>5 DEF q

\* The two actions that end a call.
LEMMA PerformEnds ==
  ASSUME NEW C, NEW r \in Calls(C), NEW a \in {"sent", "done"}
  PROVE  \E i \in Int : Perform(r, a) = CallOver(r, i)
<1>1. r.p + 1 \in Int /\ r.parser.mark \in Int
  BY DEF Calls, Parsers
<1> QED BY <1>1, PerformCases

Reported == Action \ {"mark", "start_query", "start_field", "write_field", "close", "chunked",
                      "content_len", "sent", "done"}

LEMMA PerformType ==
  ASSUME NEW C, NEW r \in Calls(C), NEW a \in Action
  PROVE  /\ Perform(r, a) \in Calls(C)
         /\ Perform(r, a).p = r.p
         /\ Perform(r, a).parser.cs = r.parser.cs
<1> DEFINE x == Append(r.got, Element(r, a))  q == Perform(r, a)
<1>0. x \in Seq(Elements)
  BY ElementType, AppendProperties DEF Calls
<1> HIDE DEF x
<1>1. CASE a \in Reported
  <2>1. q = [r EXCEPT !.got = x]
    BY <1>1, PerformCases DEF Reported, x
  <2> QED BY <2>1, <1>0 DEF Calls
<1>2. CASE a \in {"close", "chunked", "content_len"}
  BY <1>2, PerformCases
<1>3. CASE a \in {"sent", "done"}
  <2>1. PICK i \in Int : q = CallOver(r, i)
    BY <1>3, PerformEnds
  <2> HIDE DEF q
  <2>2. q \in Calls(C) /\ q.p = r.p /\ q.parser.cs = r.parser.cs
    BY <2>1, EndsType
  <2> QED BY <2>2 DEF q
<1>4. CASE a = "mark"
  <2>1. q = [r EXCEPT !.parser.mark = r.p]
    BY <1>4, PerformCases
  <2> QED BY <2>1 DEF Calls, Parsers
<1>5. CASE a = "start_query"
  <2>1. q = [r EXCEPT !.parser.query_start = r.p]
    BY <1>5, PerformCases
  <2> QED BY <2>1 DEF Calls, Parsers
<1>6. CASE a = "start_field"
  <2>1. q = [r EXCEPT !.parser.field_start = r.p]
    BY <1>6, PerformCases
  <2> QED BY <2>1 DEF Calls, Parsers
<1>7. CASE a = "write_field"
  <2>1. q = [r EXCEPT !.parser.field_len = r.p - r.parser.field_start]
    BY <1>7, PerformCases
  <2> QED BY <2>1 DEF Calls, Parsers
<1> QED BY <1>1, <1>2, <1>3, <1>4, <1>5, <1>6, <1>7 DEF Reported

-----------------------------------------------------------------------------
(* The actions of a step, and the steps of a call, one after another.      *)

\* The values performing goes through.
LEMMA PerformedSteps ==
  ASSUME NEW C, NEW r \in Calls(C), NEW acts \in Seq(Action)
  PROVE  \E g : /\ g[0] = r
                /\ \A i \in 1 .. Len(acts) : g[i] = Perform(g[i - 1], acts[i])
                /\ Performed(r, acts) = g[Len(acts)]
<1> DEFINE n == Len(acts)
           T == {m \in 0 .. n : \E f : f = [i \in 0 .. m |->
                   IF i = 0 THEN r ELSE Perform(f[i - 1], acts[i])]}
           done == CHOOSE f : f = [i \in 0 .. n |->
                     IF i = 0 THEN r ELSE Perform(f[i - 1], acts[i])]
<1>1. n \in Nat
  BY LenProperties
<1> HIDE DEF n
<1>2. 0 \in T
  <2> DEFINE h == [i \in 0 .. 0 |-> r]
  <2>1. h = [i \in 0 .. 0 |-> IF i = 0 THEN r ELSE Perform(h[i - 1], acts[i])]
    OBVIOUS
  <2> HIDE DEF h
  <2>2. \E f : f = [i \in 0 .. 0 |-> IF i = 0 THEN r ELSE Perform(f[i - 1], acts[i])]
    BY <2>1
  <2> QED BY <1>1, <2>2
<1>3. ASSUME NEW m \in 1 .. n, m - 1 \in T PROVE m \in T
  <2>1. PICK f : f = [i \in 0 .. m - 1 |->
                        IF i = 0 THEN r ELSE Perform(f[i - 1], acts[i])]
    BY <1>3
  <2> DEFINE h == [i \in 0 .. m |-> IF i = m THEN Perform(f[m - 1], acts[m]) ELSE f[i]]
  <2>2. h = [i \in 0 .. m |-> IF i = 0 THEN r ELSE Perform(h[i - 1], acts[i])]
    <3>1. ASSUME NEW i \in 0 .. m
          PROVE  h[i] = IF i = 0 THEN r ELSE Perform(h[i - 1], acts[i])
      <4>1. CASE i = m
        <5>1. h[i] = Perform(f[m - 1], acts[m]) /\ h[m - 1] = f[m - 1] /\ i # 0
          BY <1>1, <4>1
        <5> QED BY <4>1, <5>1
      <4>2. CASE i # m
        <5>1. i \in 0 .. m - 1 /\ h[i] = f[i] /\ (i # 0 => h[i - 1] = f[i - 1])
          BY <1>1, <4>2
        <5>2. f[i] = IF i = 0 THEN r ELSE Perform(f[i - 1], acts[i])
          BY <2>1, <5>1
        <5> QED BY <5>1, <5>2
      <4> QED BY <4>1, <4>2
    <3> QED BY <3>1
  <2> HIDE DEF h
  <2>3. \E e : e = [i \in 0 .. m |-> IF i = 0 THEN r ELSE Perform(e[i - 1], acts[i])]
    BY <2>2
  <2> QED BY <1>1, <2>3
<1>4. \E f : f = [i \in 0 .. n |-> IF i = 0 THEN r ELSE Perform(f[i - 1], acts[i])]
  <2>1. n \in T
    <3> HIDE DEF T
    <3>1. \A m \in 0 .. n : m \in T
      BY <1>1, <1>2, <1>3, InductionUpTo
    <3> QED BY <1>1, <3>1
  <2> QED BY <2>1
<1>5. done = [i \in 0 .. n |-> IF i = 0 THEN r ELSE Perform(done[i - 1], acts[i])]
  BY <1>4
<1>6. Performed(r, acts) = done[n]
  BY DEF Performed, n
<1> HIDE DEF done
<1>7. done[0] = r /\ \A i \in 1 .. n : done[i] = Perform(done[i - 1], acts[i])
  BY <1>1, <1>5
<1> QED BY <1>6, <1>7 DEF n

\* A step of a call that may be over.
Go(k, r, c) == IF r.over THEN r ELSE Consume(k, r, c)

\* The calls a run goes through.
LEMMA RunSteps ==
  ASSUME NEW k, NEW r, NEW bytes \in Seq(Byte)
  PROVE  \E g : /\ g[0] = r
                /\ \A i \in 1 .. Len(bytes) : g[i] = Go(k, g[i - 1], bytes[i])
                /\ Run(k, r, bytes) = g[Len(bytes)]
<1> DEFINE n == Len(bytes)
           T == {m \in 0 .. n : \E f : f = [i \in 0 .. m |->
                   IF i = 0 THEN r ELSE Go(k, f[i - 1], bytes[i])]}
           upto == CHOOSE f : f = [i \in 0 .. n |->
                     IF i = 0 THEN r ELSE Go(k, f[i - 1], bytes[i])]
<1>1. n \in Nat
  BY LenProperties
<1>6. Run(k, r, bytes) = upto[n]
  BY DEF Run, Go, n
<1> HIDE DEF n
<1>2. 0 \in T
  <2> DEFINE h == [i \in 0 .. 0 |-> r]
  <2>1. h = [i \in 0 .. 0 |-> IF i = 0 THEN r ELSE Go(k, h[i - 1], bytes[i])]
    OBVIOUS
  <2> HIDE DEF h
  <2>2. \E f : f = [i \in 0 .. 0 |-> IF i = 0 THEN r ELSE Go(k, f[i - 1], bytes[i])]
    BY <2>1
  <2> QED BY <1>1, <2>2
<1>3. ASSUME NEW m \in 1 .. n, m - 1 \in T PROVE m \in T
  <2>1. PICK f : f = [i \in 0 .. m - 1 |-> IF i = 0 THEN r ELSE Go(k, f[i - 1], bytes[i])]
    BY <1>3
  <2> DEFINE h == [i \in 0 .. m |-> IF i = m THEN Go(k, f[m - 1], bytes[m]) ELSE f[i]]
  <2>2. h = [i \in 0 .. m |-> IF i = 0 THEN r ELSE Go(k, h[i - 1], bytes[i])]
    <3>1. ASSUME NEW i \in 0 .. m
          PROVE  h[i] = IF i = 0 THEN r ELSE Go(k, h[i - 1], bytes[i])
      <4>1. CASE i = m
        <5>1. h[i] = Go(k, f[m - 1], bytes[m]) /\ h[m - 1] = f[m - 1] /\ i # 0
          BY <1>1, <4>1
        <5> QED BY <4>1, <5>1
      <4>2. CASE i # m
        <5>1. i \in 0 .. m - 1 /\ h[i] = f[i] /\ (i # 0 => h[i - 1] = f[i - 1])
          BY <1>1, <4>2
        <5>2. f[i] = IF i = 0 THEN r ELSE Go(k, f[i - 1], bytes[i])
          BY <2>1, <5>1
        <5> QED BY <5>1, <5>2
      <4> QED BY <4>1, <4>2
    <3> QED BY <3>1
  <2> HIDE DEF h
  <2>3. \E e : e = [i \in 0 .. m |-> IF i = 0 THEN r ELSE Go(k, e[i - 1], bytes[i])]
    BY <2>2
  <2> QED BY <1>1, <2>3
<1>4. \E f : f = [i \in 0 .. n |-> IF i = 0 THEN r ELSE Go(k, f[i - 1], bytes[i])]
  <2>1. n \in T
    <3> HIDE DEF T
    <3>1. \A m \in 0 .. n : m \in T
      BY <1>1, <1>2, <1>3, InductionUpTo
    <3> QED BY <1>1, <3>1
  <2> QED BY <2>1
<1>5. upto = [i \in 0 .. n |-> IF i = 0 THEN r ELSE Go(k, upto[i - 1], bytes[i])]
  BY <1>4
<1> HIDE DEF upto
<1>7. upto[0] = r /\ \A i \in 1 .. n : upto[i] = Go(k, upto[i - 1], bytes[i])
  BY <1>1, <1>5
<1> QED BY <1>6, <1>7 DEF n

-----------------------------------------------------------------------------
(* How the call r that began at place b of the stream and the parser w     *)
(* that has had the whole stream stand to each other.                      *)

\* An offset y that is not before b is the same place as x.
Kept(x, y, b) == y >= b => x = y - b

\* An element of the whole stream that began before b and ended after it.
Crossed(e, b) == e.from < b /\ b <= e.to

\* Elements of the stream and of the call are the same but for those.
SameElements(G, H, b) ==
  /\ \A e \in H : Crossed(e, b) \/ e \in G
  /\ \A e \in G : e \in H \/ \E f \in H : f.kind = e.kind /\ f.to = e.to /\ Crossed(f, b)

Related(r, w, b) ==
  /\ r.parser.cs = w.parser.cs /\ r.over = w.over /\ w.p = b + r.p
  /\ Kept(r.parser.mark, w.parser.mark, b)
  /\ Kept(r.parser.field_start, w.parser.field_start, b)
  /\ Kept(r.parser.query_start, w.parser.query_start, b)
  /\ SameElements(Places(r.got, b), Places(w.got, 0), b)

\* No offset is ahead; between steps all are behind, or nothing has begun.
NotAhead(w) ==
  w.parser.mark <= w.p /\ w.parser.field_start <= w.p /\ w.parser.query_start <= w.p
Behind(x, y, p) == y < p \/ (p = 0 /\ x = 0 /\ y = 0)
AllBehind(q, v, p) ==
  /\ Behind(q.mark, v.mark, p)
  /\ Behind(q.field_start, v.field_start, p)
  /\ Behind(q.query_start, v.query_start, p)

LEMMA PlacesAppend ==
  ASSUME NEW list \in Seq(Elements), NEW e \in Elements, NEW b
  PROVE  Places(Append(list, e), b) = Places(list, b) \cup {Place(e, b)}
<1> DEFINE more == Append(list, e)  n == Len(list)
<1>1. /\ n \in Nat /\ Len(more) = n + 1 /\ more[n + 1] = e
      /\ \A i \in 1 .. n : more[i] = list[i]
  BY AppendProperties, LenProperties
<1> HIDE DEF more, n
<1>2. Places(more, b) = {Place(more[i], b) : i \in 1 .. n + 1}
  BY <1>1 DEF Places
<1>3. Places(list, b) = {Place(list[i], b) : i \in 1 .. n}
  BY DEF Places, n
<1>4. ASSUME NEW x \in Places(more, b) PROVE x \in Places(list, b) \cup {Place(e, b)}
  <2>1. PICK i \in 1 .. n + 1 : x = Place(more[i], b)
    BY <1>2
  <2>2. CASE i \in 1 .. n
    BY <2>1, <2>2, <1>1, <1>3
  <2>3. CASE i = n + 1
    BY <2>1, <2>3, <1>1
  <2> QED BY <1>1, <2>1, <2>2, <2>3
<1>5. ASSUME NEW x \in Places(list, b) PROVE x \in Places(more, b)
  <2>1. PICK i \in 1 .. n : x = Place(list[i], b)
    BY <1>3
  <2>2. i \in 1 .. n + 1 /\ x = Place(more[i], b)
    BY <1>1, <2>1
  <2> QED BY <2>2, <1>2
<1>6. Place(e, b) \in Places(more, b)
  <2>1. n + 1 \in 1 .. n + 1
    BY <1>1
  <2> QED BY <2>1, <1>1, <1>2
<1>7. Places(more, b) = Places(list, b) \cup {Place(e, b)}
  BY <1>4, <1>5, <1>6
<1> QED BY <1>7 DEF more

\* The same element, reported by both.
LEMMA SameElement ==
  ASSUME NEW C, NEW r \in Calls(C), NEW w \in Calls(C), NEW b \in Nat, NEW a \in Action,
         Related(r, w, b)
  PROVE  LET e == Place(Element(w, a), 0)
             g == Place(Element(r, a), b)
         IN  /\ e.kind = a /\ g.kind = a /\ e.to = g.to /\ b <= e.to
             /\ e.from < b \/ e = g
<1> DEFINE x == IF a = "field" THEN r.parser.field_start
                ELSE IF a = "query" THEN r.parser.query_start ELSE r.parser.mark
           y == IF a = "field" THEN w.parser.field_start
                ELSE IF a = "query" THEN w.parser.query_start ELSE w.parser.mark
<1>1. x \in Int /\ y \in Int /\ Kept(x, y, b)
  BY DEF Related, Calls, Parsers
<1>2. Element(r, a).name = x /\ Element(w, a).name = y
  BY DEF Element
<1>3. Element(r, a) \in Elements /\ Element(w, a) \in Elements
  BY ElementType
<1> HIDE DEF x, y
<1>4. Place(Element(r, a), b) = [kind |-> a, from |-> b + x, to |-> b + r.p]
  <2>1. Element(r, a).at + Element(r, a).len = r.p /\ Element(r, a).kind = a
    BY ElementType
  <2>2. b + Element(r, a).at + Element(r, a).len = b + r.p
    BY <1>3, <2>1 DEF Elements
  <2> QED BY <1>2, <2>1, <2>2 DEF Place
<1>5. Place(Element(w, a), 0) = [kind |-> a, from |-> y, to |-> w.p]
  <2>1. Element(w, a).at + Element(w, a).len = w.p /\ Element(w, a).kind = a
    BY ElementType
  <2>2. 0 + Element(w, a).at + Element(w, a).len = w.p /\ 0 + y = y
    BY <1>1, <1>3, <2>1 DEF Elements
  <2> QED BY <1>2, <2>1, <2>2 DEF Place
<1>6. w.p = b + r.p /\ b <= w.p
  BY DEF Related, Calls
<1>7. y < b \/ b + x = y
  BY <1>1 DEF Kept
<1> QED BY <1>4, <1>5, <1>6, <1>7

LEMMA PerformRelated ==
  ASSUME NEW C, NEW r \in Calls(C), NEW w \in Calls(C), NEW b \in Nat, NEW a \in Action,
         Related(r, w, b), NotAhead(w)
  PROVE  Related(Perform(r, a), Perform(w, a), b) /\ NotAhead(Perform(w, a))
<1> DEFINE q == Perform(r, a)  v == Perform(w, a)
<1>1. CASE a \in Reported
  <2> DEFINE d == Element(r, a)  e == Element(w, a)
  <2>1. d \in Elements /\ e \in Elements
    BY ElementType
  <2>2. /\ Place(e, 0).kind = a /\ Place(d, b).kind = a /\ Place(e, 0).to = Place(d, b).to
        /\ b <= Place(e, 0).to
        /\ Place(e, 0).from < b \/ Place(e, 0) = Place(d, b)
    BY SameElement
  <2>3. q = [r EXCEPT !.got = Append(r.got, d)] /\ v = [w EXCEPT !.got = Append(w.got, e)]
    BY <1>1, PerformCases DEF Reported
  <2> HIDE DEF d, e
  <2>4. /\ Places(Append(r.got, d), b) = Places(r.got, b) \cup {Place(d, b)}
        /\ Places(Append(w.got, e), 0) = Places(w.got, 0) \cup {Place(e, 0)}
    BY <2>1, PlacesAppend DEF Calls
  <2>5. SameElements(Places(Append(r.got, d), b), Places(Append(w.got, e), 0), b)
    BY <2>2, <2>4 DEF SameElements, Crossed, Related
  <2>6. q.parser = r.parser /\ q.p = r.p /\ q.over = r.over /\ q.got = Append(r.got, d)
    BY <2>3 DEF Calls
  <2>7. v.parser = w.parser /\ v.p = w.p /\ v.over = w.over /\ v.got = Append(w.got, e)
    BY <2>3 DEF Calls
  <2> QED BY <2>5, <2>6, <2>7 DEF Related, NotAhead
<1>2. CASE a \in {"close", "chunked", "content_len"}
  BY <1>2, PerformCases
<1>3. CASE a \in {"sent", "done"}
  <2>1. PICK i \in Int : q = CallOver(r, i)
    BY <1>3, PerformEnds
  <2>2. PICK j \in Int : v = CallOver(w, j)
    BY <1>3, PerformEnds
  <2> HIDE DEF q, v
  <2>3. /\ q.p = r.p /\ q.over = TRUE /\ q.got = r.got /\ q.parser.cs = r.parser.cs
        /\ q.parser.mark = r.parser.mark /\ q.parser.query_start = r.parser.query_start
        /\ q.parser.field_start = r.parser.field_start
    BY <2>1, EndsType
  <2>4. /\ v.p = w.p /\ v.over = TRUE /\ v.got = w.got /\ v.parser.cs = w.parser.cs
        /\ v.parser.mark = w.parser.mark /\ v.parser.query_start = w.parser.query_start
        /\ v.parser.field_start = w.parser.field_start
    BY <2>2, EndsType
  <2> QED BY <2>3, <2>4 DEF Related, NotAhead, q, v
<1>4. CASE a = "mark"
  <2>1. q = [r EXCEPT !.parser.mark = r.p] /\ v = [w EXCEPT !.parser.mark = w.p]
    BY <1>4, PerformCases
  <2>2. q.parser.cs = r.parser.cs /\ q.p = r.p /\ q.over = r.over
        /\ q.got = r.got /\ q.parser.mark = r.p
        /\ q.parser.query_start = r.parser.query_start /\ q.parser.field_start = r.parser.field_start
    BY <2>1 DEF Calls, Parsers
  <2>3. v.parser.cs = w.parser.cs /\ v.p = w.p /\ v.over = w.over
        /\ v.got = w.got /\ v.parser.mark = w.p
        /\ v.parser.query_start = w.parser.query_start /\ v.parser.field_start = w.parser.field_start
    BY <2>1 DEF Calls, Parsers
  <2>4. Kept(r.p, w.p, b) /\ w.p <= w.p
    BY DEF Related, Calls, Kept
  <2> QED BY <2>2, <2>3, <2>4 DEF Related, NotAhead
<1>5. CASE a = "start_query"
  <2>1. /\ q = [r EXCEPT !.parser.query_start = r.p]
        /\ v = [w EXCEPT !.parser.query_start = w.p]
    BY <1>5, PerformCases
  <2>2. q.parser.cs = r.parser.cs /\ q.p = r.p /\ q.over = r.over
        /\ q.got = r.got /\ q.parser.query_start = r.p
        /\ q.parser.mark = r.parser.mark /\ q.parser.field_start = r.parser.field_start
    BY <2>1 DEF Calls, Parsers
  <2>3. v.parser.cs = w.parser.cs /\ v.p = w.p /\ v.over = w.over
        /\ v.got = w.got /\ v.parser.query_start = w.p
        /\ v.parser.mark = w.parser.mark /\ v.parser.field_start = w.parser.field_start
    BY <2>1 DEF Calls, Parsers
  <2>4. Kept(r.p, w.p, b) /\ w.p <= w.p
    BY DEF Related, Calls, Kept
  <2> QED BY <2>2, <2>3, <2>4 DEF Related, NotAhead
<1>6. CASE a = "start_field"
  <2>1. /\ q = [r EXCEPT !.parser.field_start = r.p]
        /\ v = [w EXCEPT !.parser.field_start = w.p]
    BY <1>6, PerformCases
  <2>2. q.parser.cs = r.parser.cs /\ q.p = r.p /\ q.over = r.over
        /\ q.got = r.got /\ q.parser.field_start = r.p
        /\ q.parser.mark = r.parser.mark /\ q.parser.query_start = r.parser.query_start
    BY <2>1 DEF Calls, Parsers
  <2>3. v.parser.cs = w.parser.cs /\ v.p = w.p /\ v.over = w.over
        /\ v.got = w.got /\ v.parser.field_start = w.p
        /\ v.parser.mark = w.parser.mark /\ v.parser.query_start = w.parser.query_start
    BY <2>1 DEF Calls, Parsers
  <2>4. Kept(r.p, w.p, b) /\ w.p <= w.p
    BY DEF Related, Calls, Kept
  <2> QED BY <2>2, <2>3, <2>4 DEF Related, NotAhead
<1>7. CASE a = "write_field"
  <2>1. /\ q = [r EXCEPT !.parser.field_len = r.p - r.parser.field_start]
        /\ v = [w EXCEPT !.parser.field_len = w.p - w.parser.field_start]
    BY <1>7, PerformCases
  <2> QED BY <2>1 DEF Calls, Parsers, Related, NotAhead, Kept
<1> QED BY <1>1, <1>2, <1>3, <1>4, <1>5, <1>6, <1>7 DEF Reported

\* A step that does not fail ends in its state, one byte further.
Advanced(d, to) == [d EXCEPT !.parser.cs = to, !.p = d.p + 1]

LEMMA Entered ==
  ASSUME NEW C, NEW to, NEW d \in Calls(C), NEW q, q = Advanced(d, to)
  PROVE  /\ q.parser.cs = to /\ q.over = d.over /\ q.p = d.p + 1 /\ q.got = d.got
         /\ q.parser.mark = d.parser.mark /\ q.parser.field_start = d.parser.field_start
         /\ q.parser.query_start = d.parser.query_start
         /\ q \in Calls({to})
<1> DEFINE e == [d EXCEPT !.parser.cs = to]  at == d.p + 1
<1>1. e \in Calls({to}) /\ e.over = d.over /\ e.p = d.p /\ e.got = d.got
      /\ e.parser = [d.parser EXCEPT !.cs = to]
  BY DEF Calls, Parsers
<1>2. at \in Nat
  BY DEF Calls
<1>3. q = [e EXCEPT !.p = at]
  BY DEF Calls, Advanced
<1>4. d.parser \in Parsers(C)
  BY DEF Calls
<1> HIDE DEF e
<1>5. /\ e.parser.cs = to /\ e.parser.mark = d.parser.mark
      /\ e.parser.field_start = d.parser.field_start
      /\ e.parser.query_start = d.parser.query_start
  BY <1>1, <1>4 DEF Parsers
<1> HIDE DEF at
<1>6. q \in Calls({to}) /\ q.over = e.over /\ q.p = at /\ q.got = e.got
      /\ q.parser = e.parser
  BY <1>1, <1>2, <1>3 DEF Calls
<1> QED BY <1>1, <1>5, <1>6 DEF at

LEMMA PerformedRelated ==
  ASSUME NEW C, NEW r \in Calls(C), NEW w \in Calls(C), NEW b \in Nat,
         NEW acts \in Seq(Action), Related(r, w, b), NotAhead(w)
  PROVE  /\ Performed(r, acts) \in Calls(C) /\ Performed(r, acts).p = r.p
         /\ Performed(w, acts) \in Calls(C) /\ Performed(w, acts).p = w.p
         /\ Related(Performed(r, acts), Performed(w, acts), b)
         /\ NotAhead(Performed(w, acts))
<1> DEFINE n == Len(acts)
<1>0. n \in Nat /\ \A i \in 1 .. n : acts[i] \in Action
  BY LenProperties, ElementOfSeq
<1>1. PICK f : /\ f[0] = r /\ \A i \in 1 .. n : f[i] = Perform(f[i - 1], acts[i])
               /\ Performed(r, acts) = f[n]
  BY PerformedSteps
<1>2. PICK g : /\ g[0] = w /\ \A i \in 1 .. n : g[i] = Perform(g[i - 1], acts[i])
               /\ Performed(w, acts) = g[n]
  BY PerformedSteps
<1> HIDE DEF n
<1> DEFINE T == {i \in 0 .. n : /\ f[i] \in Calls(C) /\ f[i].p = r.p
                                /\ g[i] \in Calls(C) /\ g[i].p = w.p
                                /\ Related(f[i], g[i], b) /\ NotAhead(g[i])}
<1>3. 0 \in T
  BY <1>0, <1>1, <1>2
<1>4. ASSUME NEW i \in 1 .. n, i - 1 \in T PROVE i \in T
  <2> DEFINE d == f[i - 1]  e == g[i - 1]  a == acts[i]
  <2>1. /\ d \in Calls(C) /\ d.p = r.p /\ e \in Calls(C) /\ e.p = w.p
        /\ Related(d, e, b) /\ NotAhead(e) /\ a \in Action
    BY <1>0, <1>4
  <2>2. f[i] = Perform(d, a) /\ g[i] = Perform(e, a)
    BY <1>1, <1>2
  <2> HIDE DEF d, e, a
  <2>3. /\ Perform(d, a) \in Calls(C) /\ Perform(d, a).p = r.p
        /\ Perform(e, a) \in Calls(C) /\ Perform(e, a).p = w.p
    BY <2>1, PerformType
  <2>4. Related(Perform(d, a), Perform(e, a), b) /\ NotAhead(Perform(e, a))
    BY <2>1, PerformRelated
  <2> QED BY <1>0, <2>2, <2>3, <2>4
<1>5. n \in T
  <2> HIDE DEF T
  <2>1. \A i \in 0 .. n : i \in T
    BY <1>0, <1>3, <1>4, InductionUpTo
  <2> QED BY <1>0, <2>1
<1> QED BY <1>1, <1>2, <1>5

LEMMA ConsumeRelated ==
  ASSUME NEW k, NEW c, NEW r, NEW w, NEW b \in Nat,
         r \in Calls({r.parser.cs}), w \in Calls({w.parser.cs}),
         Related(r, w, b), AllBehind(r.parser, w.parser, w.p)
  PROVE  LET q == Consume(k, r, c)
             v == Consume(k, w, c)
         IN  /\ q \in Calls({q.parser.cs}) /\ v \in Calls({v.parser.cs})
             /\ Related(q, v, b) /\ AllBehind(q.parser, v.parser, v.p)
<1> DEFINE C == {r.parser.cs}
           to == Step(k, r.parser.cs, c)
           acts == Acts(k, r.parser.cs, c, to)
           q == Consume(k, r, c)
           v == Consume(k, w, c)
<1>1. r.parser.cs = w.parser.cs
  BY DEF Related
<1>2. r \in Calls(C) /\ w \in Calls(C)
  BY <1>1
<1>3. CASE Failed(k, to)
  <2>1. q = [r EXCEPT !.parser.cs = to, !.over = TRUE]
    BY <1>3 DEF Consume
  <2>2. v = [w EXCEPT !.parser.cs = to, !.over = TRUE]
    BY <1>1, <1>3 DEF Consume
  <2> HIDE DEF q, v, to
  <2>3. /\ q.parser.cs = to /\ q.over = TRUE /\ q.p = r.p /\ q.got = r.got
        /\ q.parser.mark = r.parser.mark /\ q.parser.field_start = r.parser.field_start
        /\ q.parser.query_start = r.parser.query_start
        /\ q \in Calls({to})
    BY <2>1, <1>2 DEF Calls, Parsers
  <2>4. /\ v.parser.cs = to /\ v.over = TRUE /\ v.p = w.p /\ v.got = w.got
        /\ v.parser.mark = w.parser.mark /\ v.parser.field_start = w.parser.field_start
        /\ v.parser.query_start = w.parser.query_start
        /\ v \in Calls({to})
    BY <2>2, <1>2 DEF Calls, Parsers
  <2>5. Related(q, v, b) /\ AllBehind(q.parser, v.parser, v.p)
    BY <2>3, <2>4 DEF Related, AllBehind
  <2>6. q \in Calls({q.parser.cs}) /\ v \in Calls({v.parser.cs})
    BY <2>3, <2>4
  <2> QED BY <2>5, <2>6 DEF q, v
<1>4. CASE ~Failed(k, to)
  <2> DEFINE d == Performed(r, acts)  e == Performed(w, acts)
  <2>1. q = Advanced(d, to)
    BY <1>4 DEF Consume, Advanced
  <2>2. v = Advanced(e, to)
    BY <1>1, <1>4 DEF Consume, Advanced
  <2>3. acts \in Seq(Action)
    BY ActsAreActions
  <2>4. NotAhead(w)
    BY <1>2 DEF AllBehind, Behind, NotAhead, Calls, Parsers
  <2> HIDE DEF q, v, to, acts, C
  <2>5. d \in Calls(C) /\ d.p = r.p /\ e \in Calls(C) /\ e.p = w.p
        /\ Related(d, e, b) /\ NotAhead(e)
    BY <1>2, <2>3, <2>4, PerformedRelated
  <2> HIDE DEF d, e
  <2>6. /\ q.parser.cs = to /\ q.over = d.over /\ q.p = r.p + 1 /\ q.got = d.got
        /\ q.parser.mark = d.parser.mark /\ q.parser.field_start = d.parser.field_start
        /\ q.parser.query_start = d.parser.query_start
        /\ q \in Calls({to})
    <3>1. d \in Calls(C) /\ d.p = r.p
      BY <2>5
    <3>2. /\ q.parser.cs = to /\ q.over = d.over /\ q.p = d.p + 1 /\ q.got = d.got
          /\ q.parser.mark = d.parser.mark /\ q.parser.field_start = d.parser.field_start
          /\ q.parser.query_start = d.parser.query_start
          /\ q \in Calls({to})
      BY <2>1, <3>1, Entered
    <3> QED BY <3>1, <3>2
  <2>7. /\ v.parser.cs = to /\ v.over = e.over /\ v.p = w.p + 1 /\ v.got = e.got
        /\ v.parser.mark = e.parser.mark /\ v.parser.field_start = e.parser.field_start
        /\ v.parser.query_start = e.parser.query_start
        /\ v \in Calls({to})
    <3>1. e \in Calls(C) /\ e.p = w.p
      BY <2>5
    <3>2. /\ v.parser.cs = to /\ v.over = e.over /\ v.p = e.p + 1 /\ v.got = e.got
          /\ v.parser.mark = e.parser.mark /\ v.parser.field_start = e.parser.field_start
          /\ v.parser.query_start = e.parser.query_start
          /\ v \in Calls({to})
      BY <2>2, <3>1, Entered
    <3> QED BY <3>1, <3>2
  <2>8. v.p = b + q.p
    <3>1. w.p = b + r.p /\ r.p \in Nat /\ w.p \in Nat
      BY <1>2 DEF Related, Calls
    <3> QED BY <3>1, <2>6, <2>7
  <2>9. Related(q, v, b)
    BY <2>5, <2>6, <2>7, <2>8 DEF Related
  <2>10. /\ v.parser.mark < v.p /\ v.parser.field_start < v.p /\ v.parser.query_start < v.p
    <3>1. /\ e.parser.mark \in Int /\ e.parser.field_start \in Int
          /\ e.parser.query_start \in Int /\ e.p \in Nat
      BY <2>5 DEF Calls, Parsers
    <3> QED BY <3>1, <2>5, <2>7 DEF NotAhead
  <2>11. AllBehind(q.parser, v.parser, v.p)
    BY <2>10 DEF AllBehind, Behind
  <2>12. q \in Calls({q.parser.cs}) /\ v \in Calls({v.parser.cs})
    BY <2>6, <2>7
  <2> QED BY <2>9, <2>11, <2>12 DEF q, v
<1> QED BY <1>3, <1>4

\* The two calls that are given the same bytes stay related.
LEMMA RunRelated ==
  ASSUME NEW k, NEW bytes \in Seq(Byte), NEW r, NEW w, NEW b \in Nat,
         r \in Calls({r.parser.cs}), w \in Calls({w.parser.cs}),
         Related(r, w, b), AllBehind(r.parser, w.parser, w.p)
  PROVE  LET q == Run(k, r, bytes)
             v == Run(k, w, bytes)
         IN  /\ q \in Calls({q.parser.cs}) /\ v \in Calls({v.parser.cs})
             /\ Related(q, v, b) /\ AllBehind(q.parser, v.parser, v.p)
<1> DEFINE n == Len(bytes)
<1>0. n \in Nat
  BY LenProperties
<1>1. PICK f : /\ f[0] = r /\ \A i \in 1 .. n : f[i] = Go(k, f[i - 1], bytes[i])
               /\ Run(k, r, bytes) = f[n]
  BY RunSteps
<1>2. PICK g : /\ g[0] = w /\ \A i \in 1 .. n : g[i] = Go(k, g[i - 1], bytes[i])
               /\ Run(k, w, bytes) = g[n]
  BY RunSteps
<1> HIDE DEF n
<1> DEFINE T == {i \in 0 .. n : /\ f[i] \in Calls({f[i].parser.cs})
                                /\ g[i] \in Calls({g[i].parser.cs})
                                /\ Related(f[i], g[i], b)
                                /\ AllBehind(f[i].parser, g[i].parser, g[i].p)}
<1>3. 0 \in T
  <2>1. f[0] = r /\ g[0] = w /\ 0 \in 0 .. n
    BY <1>0, <1>1, <1>2
  <2>2. /\ f[0] \in Calls({f[0].parser.cs}) /\ g[0] \in Calls({g[0].parser.cs})
        /\ Related(f[0], g[0], b) /\ AllBehind(f[0].parser, g[0].parser, g[0].p)
    BY <2>1
  <2> QED BY <2>1, <2>2
<1>4. ASSUME NEW i \in 1 .. n, i - 1 \in T PROVE i \in T
  <2> DEFINE d == f[i - 1]  e == g[i - 1]  c == bytes[i]
  <2>1. /\ d \in Calls({d.parser.cs}) /\ e \in Calls({e.parser.cs})
        /\ Related(d, e, b) /\ AllBehind(d.parser, e.parser, e.p)
    BY <1>4
  <2>2. f[i] = Go(k, d, c) /\ g[i] = Go(k, e, c)
    BY <1>1, <1>2
  <2>3. i \in 0 .. n
    BY <1>0
  <2> HIDE DEF d, e, c
  <2>4. d.over = e.over
    BY <2>1 DEF Related
  <2>5. CASE d.over
    BY <2>1, <2>2, <2>3, <2>4, <2>5 DEF Go
  <2>6. CASE ~d.over
    <3>1. f[i] = Consume(k, d, c) /\ g[i] = Consume(k, e, c)
      BY <2>2, <2>4, <2>6 DEF Go
    <3> QED BY <2>1, <2>3, <3>1, ConsumeRelated
  <2> QED BY <2>5, <2>6
<1>5. n \in T
  <2> HIDE DEF T
  <2>1. \A i \in 0 .. n : i \in T
    BY <1>0, <1>3, <1>4, InductionUpTo
  <2> QED BY <1>0, <2>1
<1> QED BY <1>1, <1>2, <1>5

-----------------------------------------------------------------------------
(* The parser between its calls.                                           *)

\* Elements of the stream in calls that began at the places K, and of the
\* whole stream, are the same but for those that were cut.
Matched(K, G, H) ==
  /\ \A e \in H : (\A c \in K : ~Crossed(e, c)) => e \in G
  /\ \A g \in G : g \in H \/ \E e \in H : /\ e.kind = g.kind /\ e.to = g.to
                                          /\ \E c \in K : Crossed(e, c)

\* Both parsers are in the same state and at the same byte, and what the
\* whole one has marked is behind that byte.
InStep(q, w, at) ==
  /\ q \in Parsers({q.cs}) /\ w.parser \in Parsers({w.parser.cs})
  /\ w = [parser |-> w.parser, p |-> at, got |-> w.got, over |-> w.over]
  /\ q.cs = w.parser.cs /\ AllBehind(q, w.parser, at)

HInv ==
  /\ stream \in Seq(Byte) /\ pos \in Nat
  /\ InStep(parser, whole, pos)
  /\ Matched(cuts, got, whole.got)

LEMMA MatchingGrows ==
  ASSUME NEW K, NEW G, NEW H, NEW D, NEW E, NEW b, Matched(K, G, H), SameElements(D, E, b)
  PROVE  Matched(K \cup {b}, G \cup D, H \cup E)
<1>1. ASSUME NEW e \in H \cup E, \A c \in K \cup {b} : ~Crossed(e, c)
      PROVE  e \in G \cup D
  BY <1>1 DEF Matched, SameElements
<1>2. ASSUME NEW g \in G \cup D, g \notin H \cup E
      PROVE  \E e \in H \cup E : /\ e.kind = g.kind /\ e.to = g.to
                                 /\ \E c \in K \cup {b} : Crossed(e, c)
  <2>1. CASE g \in G
    <3>1. PICK e \in H : e.kind = g.kind /\ e.to = g.to /\ \E c \in K : Crossed(e, c)
      BY <1>2, <2>1 DEF Matched
    <3> QED BY <3>1
  <2>2. CASE g \in D
    <3>1. PICK e \in E : e.kind = g.kind /\ e.to = g.to /\ Crossed(e, b)
      BY <1>2, <2>2 DEF SameElements
    <3> QED BY <3>1
  <2> QED BY <2>1, <2>2
<1> QED BY <1>1, <1>2 DEF Matched

LEMMA MatchingStays ==
  ASSUME NEW K, NEW G, NEW H, NEW b, Matched(K, G, H)
  PROVE  Matched(K \cup {b}, G, H)
BY DEF Matched

LEMMA InitialParser ==
  ASSUME NEW k
  PROVE  /\ Initial(k) \in Parsers({Initial(k).cs})
         /\ Initial(k).mark = 0 /\ Initial(k).field_start = 0 /\ Initial(k).query_start = 0
BY DEF Initial, Parsers

\* What is true when there is a parser.
LEMMA InitialInStep ==
  ASSUME NEW k
  PROVE  InStep(Initial(k), [Called(Initial(k), 0) EXCEPT !.got = {}], 0)
<1> DEFINE q == Initial(k)  w == [Called(q, 0) EXCEPT !.got = {}]
<1>1. w = [parser |-> q, p |-> 0, got |-> {}, over |-> FALSE]
  <2> DEFINE c == [parser |-> q, p |-> 0, got |-> <<>>, over |-> FALSE]
  <2>1. w = [c EXCEPT !.got = {}]
    BY DEF Called
  <2> HIDE DEF q, w
  <2> QED BY <2>1
<1>2. /\ q \in Parsers({q.cs})
      /\ q.mark = 0 /\ q.field_start = 0 /\ q.query_start = 0
  BY InitialParser
<1> HIDE DEF q, w
<1>3. w.parser = q /\ w = [parser |-> w.parser, p |-> 0, got |-> w.got, over |-> w.over]
  BY <1>1
<1>4. AllBehind(q, w.parser, 0)
  BY <1>2, <1>3 DEF AllBehind, Behind
<1>5. InStep(q, w, 0)
  BY <1>2, <1>3, <1>4 DEF InStep
<1> QED BY <1>5 DEF q, w

\* What execute begins with: the parser it was left with or a new one.
LEMMA BegunRelated ==
  ASSUME NEW k, NEW fresh \in BOOLEAN, NEW q, NEW w, NEW at \in Nat, InStep(q, w, at)
  PROVE  LET d == IF fresh THEN Initial(k) ELSE q
             v == IF fresh THEN Initial(k) ELSE w.parser
             r == Called(Resumed(d), 0)
             u == [parser |-> v, p |-> at, got |-> <<>>, over |-> FALSE]
         IN  /\ r \in Calls({r.parser.cs}) /\ u \in Calls({u.parser.cs})
             /\ Related(r, u, at) /\ AllBehind(r.parser, u.parser, u.p)
<1> DEFINE d == IF fresh THEN Initial(k) ELSE q
           v == IF fresh THEN Initial(k) ELSE w.parser
           r == Called(Resumed(d), 0)
           u == [parser |-> v, p |-> at, got |-> <<>>, over |-> FALSE]
<1>1. d \in Parsers({d.cs}) /\ v \in Parsers({v.cs}) /\ d.cs = v.cs
  BY InitialParser DEF InStep
<1>2. AllBehind(d, v, at)
  <2>1. CASE fresh
    <3>1. d = Initial(k) /\ v = Initial(k)
      BY <2>1
    <3> HIDE DEF d, v
    <3>2. /\ d.mark = 0 /\ d.field_start = 0 /\ d.query_start = 0
          /\ v.mark = 0 /\ v.field_start = 0 /\ v.query_start = 0
      BY <3>1, InitialParser
    <3>3. Behind(0, 0, at)
      BY DEF Behind
    <3> QED BY <3>2, <3>3 DEF AllBehind
  <2>2. CASE ~fresh
    BY <2>2 DEF InStep
  <2> QED BY <2>1, <2>2
<1> HIDE DEF d, v
<1> DEFINE e == Resumed(d)
<1>3. /\ e \in Parsers({e.cs}) /\ e.cs = d.cs /\ e.mark = 0 /\ e.field_start = 0
      /\ e.query_start = d.query_start
  <2> DEFINE x == [d EXCEPT !.mark = 0]  y == [x EXCEPT !.field_start = 0]
             z == [y EXCEPT !.field_len = 0]
  <2>1. /\ x \in Parsers({x.cs}) /\ x.cs = d.cs /\ x.mark = 0
        /\ x.query_start = d.query_start
    BY <1>1 DEF Parsers
  <2>2. z = e
    BY <1>1 DEF Parsers, Resumed
  <2> HIDE DEF x, e
  <2>3. /\ y \in Parsers({y.cs}) /\ y.cs = d.cs /\ y.mark = 0 /\ y.field_start = 0
        /\ y.query_start = d.query_start
    BY <2>1 DEF Parsers
  <2> HIDE DEF y
  <2>4. /\ z \in Parsers({z.cs}) /\ z.cs = d.cs /\ z.mark = 0 /\ z.field_start = 0
        /\ z.query_start = d.query_start
    BY <2>3 DEF Parsers
  <2> HIDE DEF z
  <2> QED BY <2>2, <2>4
<1> HIDE DEF e
<1>4. AllBehind(e, v, at)
  BY <1>2, <1>3 DEF AllBehind, Behind
<1>5. r = [parser |-> e, p |-> 0, got |-> <<>>, over |-> FALSE]
  BY DEF Called, e
<1>6. u = [parser |-> v, p |-> at, got |-> <<>>, over |-> FALSE]
  OBVIOUS
<1> HIDE DEF r, u
<1>7. r \in Calls({r.parser.cs}) /\ u \in Calls({u.parser.cs})
  <2>1. <<>> \in Seq(Elements)
    OBVIOUS
  <2>2. r.parser.cs = e.cs /\ u.parser.cs = v.cs
    BY <1>5, <1>6
  <2> QED BY <1>1, <1>3, <1>5, <1>6, <2>1, <2>2 DEF Calls
<1>8. Places(r.got, at) = {} /\ Places(u.got, 0) = {}
  BY <1>5, <1>6 DEF Places
<1>9. SameElements(Places(r.got, at), Places(u.got, 0), at)
  BY <1>8 DEF SameElements
<1>10. /\ Kept(e.mark, v.mark, at) /\ Kept(e.field_start, v.field_start, at)
       /\ Kept(e.query_start, v.query_start, at)
  <2>1. /\ e.mark \in Int /\ e.field_start \in Int /\ e.query_start \in Int
        /\ v.mark \in Int /\ v.field_start \in Int /\ v.query_start \in Int
    BY <1>1, <1>3 DEF Parsers
  <2> QED BY <1>4, <2>1 DEF AllBehind, Behind, Kept
<1>11. Related(r, u, at)
  <2>1. r.parser = e /\ u.parser = v /\ r.over = FALSE /\ u.over = FALSE
        /\ u.p = at + r.p
    BY <1>5, <1>6
  <2>2. r.parser.cs = u.parser.cs
    BY <1>1, <1>3, <2>1
  <2> QED BY <1>9, <1>10, <2>1, <2>2 DEF Related
<1>12. AllBehind(r.parser, u.parser, u.p)
  BY <1>4, <1>5, <1>6
<1> QED BY <1>7, <1>11, <1>12 DEF d, v, e, r, u

LEMMA BytesType ==
  ASSUME stream \in Seq(Byte), NEW at \in Nat, NEW n \in Nat, n <= Len(stream) - at
  PROVE  Bytes(at, n) \in Seq(Byte)
<1>1. Len(stream) \in Nat
  BY LenProperties
<1>2. \A i \in at + 1 .. at + n : stream[i] \in Byte
  <2> SUFFICES ASSUME NEW i \in at + 1 .. at + n PROVE stream[i] \in Byte
    OBVIOUS
  <2>1. i \in 1 .. Len(stream)
    BY <1>1
  <2> QED BY <2>1, ElementOfSeq
<1>3. at + 1 \in Int /\ at + n \in Int
  OBVIOUS
<1> QED BY <1>2, <1>3, SubSeqProperties DEF Bytes

LEMMA HttpInitInv ==
  ASSUME HttpInit
  PROVE  HInv
<1>1. stream \in Seq(Byte)
  BY HttpAssumption DEF HttpInit
<1>2. pos = 0 /\ cuts = {} /\ got = {}
  BY DEF HttpInit
<1>3. /\ parser = Initial(side)
      /\ whole = [Called(Initial(side), 0) EXCEPT !.got = {}]
  BY DEF HttpInit
<1>4. InStep(parser, whole, pos)
  BY <1>2, <1>3, InitialInStep
<1>5. whole.got = {}
  BY <1>3 DEF Called
<1>6. Matched(cuts, got, whole.got)
  BY <1>2, <1>5 DEF Matched
<1> QED BY <1>1, <1>2, <1>4, <1>6 DEF HInv

\* The call that is given the next bytes of the uncut stream.
Begun(w, at) == [parser |-> w.parser, p |-> at, got |-> <<>>, over |-> FALSE]

\* A call of execute makes of the two parsers two that are related again.
LEMMA ExecuteReturns ==
  ASSUME HInv, NEW n \in 0 .. Len(stream), NEW chunck \in BOOLEAN, Execute(n, chunck)
  PROVE  \E q, v : /\ Return(n, q, v)
                   /\ side = "request" => v = Run(side, Begun(whole, pos), Bytes(pos, n))
                   /\ q \in Calls({q.parser.cs}) /\ v \in Calls({v.parser.cs})
                   /\ Related(q, v, pos) /\ AllBehind(q.parser, v.parser, v.p)
<1> DEFINE d == IF chunck THEN Initial(side) ELSE parser
           u0 == IF chunck THEN Initial(side) ELSE whole.parser
           r == Called(Resumed(d), 0)
           u == [parser |-> u0, p |-> pos, got |-> <<>>, over |-> FALSE]
           bytes == Bytes(pos, n)
           q == Run(side, r, bytes)
           v == Run(side, u, bytes)
<1>1. /\ stream \in Seq(Byte) /\ pos \in Nat /\ InStep(parser, whole, pos)
  BY DEF HInv
<1>2. n \in Nat /\ n <= Len(stream) - pos
  <2>1. Len(stream) \in Nat
    BY <1>1, LenProperties
  <2> QED BY <2>1 DEF Execute
<1>3. bytes \in Seq(Byte)
  BY <1>1, <1>2, BytesType
<1>4. [whole EXCEPT !.parser = u0, !.over = FALSE, !.got = <<>>] = u
  <2>1. whole = [parser |-> whole.parser, p |-> pos, got |-> whole.got, over |-> whole.over]
    BY <1>1 DEF InStep
  <2> HIDE DEF u0
  <2> DEFINE no == FALSE
             x == [whole EXCEPT !.parser = u0]  y == [x EXCEPT !.over = no]
             z == [y EXCEPT !.got = <<>>]
  <2>2. z = [whole EXCEPT !.parser = u0, !.over = FALSE, !.got = <<>>]
    BY <2>1
  <2>3. /\ x = [parser |-> x.parser, p |-> x.p, got |-> x.got, over |-> x.over]
        /\ x.parser = u0 /\ x.p = pos
    BY <2>1
  <2> HIDE DEF x, no
  <2>4. /\ y = [parser |-> y.parser, p |-> y.p, got |-> y.got, over |-> y.over]
        /\ y.parser = u0 /\ y.p = pos /\ y.over = no
    BY <2>3
  <2> HIDE DEF y
  <2>5. /\ z = [parser |-> z.parser, p |-> z.p, got |-> z.got, over |-> z.over]
        /\ z.parser = u0 /\ z.p = pos /\ z.over = no /\ z.got = <<>>
    BY <2>4
  <2> HIDE DEF z
  <2>6. z = u
    BY <2>5 DEF no
  <2> QED BY <2>2, <2>6
<1>5. Return(n, q, v)
  <2>1. Return(n, q, Run(side, [whole EXCEPT !.parser = u0, !.over = FALSE, !.got = <<>>],
                         bytes))
    BY DEF Execute
  <2> QED BY <2>1, <1>4
<1>6. /\ r \in Calls({r.parser.cs}) /\ u \in Calls({u.parser.cs})
      /\ Related(r, u, pos) /\ AllBehind(r.parser, u.parser, u.p)
  BY <1>1, BegunRelated
<1>8. side = "request" => v = Run(side, Begun(whole, pos), Bytes(pos, n))
  <2>1. side = "request" => ~chunck
    BY DEF Execute
  <2>2. ~chunck => u = Begun(whole, pos)
    BY DEF Begun
  <2> HIDE DEF u, bytes
  <2> QED BY <2>1, <2>2 DEF bytes
<1> HIDE DEF r, u, bytes
<1>7. /\ q \in Calls({q.parser.cs}) /\ v \in Calls({v.parser.cs})
      /\ Related(q, v, pos) /\ AllBehind(q.parser, v.parser, v.p)
  BY <1>1, <1>3, <1>6, RunRelated
<1> HIDE DEF q, v
<1> QED BY <1>5, <1>7, <1>8

\* A call keeps the parsers in step and the elements matched.
LEMMA ExecuteInv ==
  ASSUME HInv, NEW n \in 0 .. Len(stream), NEW chunck \in BOOLEAN, Execute(n, chunck)
  PROVE  HInv'
<1>1. /\ stream \in Seq(Byte) /\ pos \in Nat /\ InStep(parser, whole, pos)
      /\ Matched(cuts, got, whole.got)
  BY DEF HInv
<1>2. PICK q, v : /\ Return(n, q, v)
                  /\ q \in Calls({q.parser.cs}) /\ v \in Calls({v.parser.cs})
                  /\ Related(q, v, pos) /\ AllBehind(q.parser, v.parser, v.p)
  BY ExecuteReturns
<1>8. stream' = stream /\ cuts' = cuts \cup {pos}
  BY <1>2 DEF Return
<1>9. CASE \E i \in 1 .. Len(q.got) : q.got[i].len < 0
  <2>1. UNCHANGED <<parser, pos, got, whole>>
    BY <1>2, <1>9 DEF Return
  <2>2. InStep(parser, whole, pos)'
    BY <1>1, <2>1 DEF InStep, AllBehind, Behind
  <2>3. Matched(cuts, got, whole.got)'
    <3>1. Matched(cuts \cup {pos}, got, whole.got)
      BY <1>1, MatchingStays
    <3> QED BY <3>1, <2>1, <1>8
  <2> QED BY <1>1, <1>8, <2>1, <2>2, <2>3 DEF HInv
<1>10. CASE ~ \E i \in 1 .. Len(q.got) : q.got[i].len < 0
  <2> DEFINE G == whole.got \cup Places(v.got, 0)
  <2>1. /\ parser' = q.parser /\ pos' = pos + q.p
        /\ got' = got \cup Places(q.got, pos)
        /\ whole' = [v EXCEPT !.got = G]
    BY <1>2, <1>10 DEF Return, Offset
  <2>2. q.p \in Nat /\ v.p = pos + q.p
    BY <1>2 DEF Calls, Related
  <2> HIDE DEF G
  <2>3. whole' = [parser |-> v.parser, p |-> v.p, got |-> G, over |-> v.over]
    BY <2>1, <1>2 DEF Calls
  <2>4. whole'.parser = v.parser /\ whole'.got = G /\ whole'.over = v.over
    BY <2>3
  <2>5. q.parser \in Parsers({q.parser.cs}) /\ v.parser \in Parsers({v.parser.cs})
    BY <1>2 DEF Calls
  <2>6. q.parser.cs = v.parser.cs
    BY <1>2 DEF Related
  <2>7. InStep(q.parser, whole', v.p)
    BY <1>2, <2>3, <2>4, <2>5, <2>6 DEF InStep
  <2>8. InStep(parser, whole, pos)'
    <3>1. InStep(parser', whole', pos')
      BY <2>1, <2>2, <2>7
    <3> QED BY <3>1
  <2>9. Matched(cuts, got, whole.got)'
    <3>1. SameElements(Places(q.got, pos), Places(v.got, 0), pos)
      BY <1>2 DEF Related
    <3>2. Matched(cuts \cup {pos}, got \cup Places(q.got, pos), whole.got \cup Places(v.got, 0))
      BY <1>1, <3>1, MatchingGrows
    <3> QED BY <3>2, <2>1, <2>4, <1>8 DEF G
  <2>10. pos' \in Nat
    BY <1>1, <2>1, <2>2
  <2> QED BY <1>1, <1>8, <2>8, <2>9, <2>10 DEF HInv
<1> QED BY <1>9, <1>10

LEMMA MessageInitInv ==
  ASSUME MessageInit
  PROVE  HInv
BY HttpInitInv DEF MessageInit

\* The parser does not notice the program.
LEMMA MessageNextInv ==
  ASSUME HInv, [MessageNext]_msgVars
  PROVE  HInv'
<1>1. CASE Parse
  <2>1. PICK n \in 0 .. Len(stream), chunck \in BOOLEAN : Execute(n, chunck)
    BY <1>1 DEF Parse, HttpNext
  <2> QED BY <2>1, ExecuteInv
<1>2. CASE Take
  <2>1. /\ stream' = <<>> /\ pos' = 0 /\ cuts' = {} /\ got' = {}
        /\ parser' = Initial(side)
        /\ whole' = [Called(Initial(side), 0) EXCEPT !.got = {}]
    BY <1>2 DEF Take, Nothing
  <2>2. InStep(parser', whole', 0)
    BY <2>1, InitialInStep
  <2>3. InStep(parser, whole, pos)'
    BY <2>1, <2>2
  <2>4. whole'.got = {}
    BY <2>1 DEF Called
  <2>5. Matched(cuts, got, whole.got)'
    BY <2>1, <2>4 DEF Matched
  <2>6. stream' \in Seq(Byte) /\ pos' \in Nat
    BY <2>1
  <2> QED BY <2>3, <2>5, <2>6 DEF HInv
<1>3. CASE Use \/ UNCHANGED msgVars
  <2>1. UNCHANGED <<stream, pos, parser, whole, cuts, got>>
    BY <1>3 DEF Use, msgVars, httpVars, Used, GetParam, GetCookie, InitParam, InitConnection,
         DelParam, DelCookie, SetParam, SetCookie, SetBody, SetHeader, DelHeader
  <2>2. InStep(parser, whole, pos)'
    BY <2>1 DEF HInv, InStep, AllBehind, Behind
  <2>3. Matched(cuts, got, whole.got)'
    BY <2>1 DEF HInv, Matched
  <2> QED BY <2>1, <2>2, <2>3 DEF HInv
<1> QED BY <1>1, <1>2, <1>3 DEF MessageNext

\* However the stream is cut into buffers, the machine is after every call in
\* the state in which it would be had all the bytes come at once.
THEOREM VerdictIsUnsplit == MessageSpec => []VerdictUnsplit
<1>1. MessageInit => HInv
  BY MessageInitInv
<1>2. HInv /\ [MessageNext]_msgVars => HInv'
  BY MessageNextInv
<1>3. HInv => VerdictUnsplit
  BY DEF HInv, InStep, VerdictUnsplit
<1> QED BY <1>1, <1>2, <1>3, PTL DEF MessageSpec

\* However the stream is cut, an element that no cut goes through is reported
\* as it is in the uncut stream, and each other report stands for an element
\* a cut went through.
THEOREM ElementsAreWhole == MessageSpec => []WholeElements
<1>1. MessageInit => HInv
  BY MessageInitInv
<1>2. HInv /\ [MessageNext]_msgVars => HInv'
  BY MessageNextInv
<1>3. HInv => WholeElements
  <2> SUFFICES ASSUME HInv PROVE WholeElements
    OBVIOUS
  <2>1. Matched(cuts, got, whole.got)
    BY DEF HInv
  <2> QED BY <2>1 DEF Matched, Crossed, WholeElements, Uncut
<1> QED BY <1>1, <1>2, <1>3, PTL DEF MessageSpec

-----------------------------------------------------------------------------
(* What the callbacks leave in the message.  The texts that are parsed are *)
(* sequences.                                                              *)

IsMessage(d) ==
  /\ d = [method |-> d.method, path |-> d.path, query |-> d.query, fragment |-> d.fragment,
          version |-> d.version, status |-> d.status, reason |-> d.reason,
          headers |-> d.headers]
  /\ Len(d.query) \in Nat
  /\ Cookie \in DOMAIN d.headers => Len(d.headers[Cookie]) \in Nat

IsReport(m) == m = [data |-> m.data, error |-> m.error] /\ IsMessage(m.data)

LEMMA BytesLength ==
  ASSUME NEW at \in Int, NEW len \in Int
  PROVE  Len(Bytes(at, len)) \in Nat
<1> DEFINE S == {stream[i] : i \in at + 1 .. at + len}
<1>1. \A i \in at + 1 .. at + len : stream[i] \in S
  OBVIOUS
<1> HIDE DEF S
<1>2. at + 1 \in Int /\ at + len \in Int
  OBVIOUS
<1>3. Bytes(at, len) \in Seq(S)
  BY <1>1, <1>2, SubSeqProperties DEF Bytes
<1> QED BY <1>3, LenProperties

\* An error is noted, a field is set, or a header.
LEMMA ErrorNoted ==
  ASSUME NEW m, IsReport(m), NEW e
  PROVE  IsReport([m EXCEPT !.error = e])
<1> DEFINE r == [m EXCEPT !.error = e]
<1>1. r = [data |-> r.data, error |-> r.error] /\ r.data = m.data
  BY DEF IsReport
<1> HIDE DEF r
<1>2. IsReport(r)
  BY <1>1 DEF IsReport
<1> QED BY <1>2 DEF r

LEMMA FieldSet ==
  ASSUME NEW m, IsReport(m), NEW v,
         NEW f \in {"method", "version", "path", "query", "fragment", "status", "reason"},
         f = "query" => Len(v) \in Nat
  PROVE  IsReport([m EXCEPT !.data[f] = v])
<1> DEFINE d == m.data  e == [d EXCEPT ![f] = v]  r == [m EXCEPT !.data[f] = v]
<1>1. m = [data |-> d, error |-> m.error] /\ IsMessage(d)
  BY DEF IsReport
<1>2. r = [data |-> e, error |-> m.error]
  BY <1>1
<1> HIDE DEF d
<1>3. /\ e = [method |-> e.method, path |-> e.path, query |-> e.query,
              fragment |-> e.fragment, version |-> e.version, status |-> e.status,
              reason |-> e.reason, headers |-> e.headers]
      /\ e.headers = d.headers /\ (IF f = "query" THEN e.query = v ELSE e.query = d.query)
  <2>1. CASE f = "method"
    <3>1. e = [d EXCEPT !.method = v]
      BY <2>1
    <3> HIDE DEF e
    <3> QED BY <1>1, <2>1, <3>1 DEF IsMessage
  <2>2. CASE f = "version"
    <3>1. e = [d EXCEPT !.version = v]
      BY <2>2
    <3> HIDE DEF e
    <3> QED BY <1>1, <2>2, <3>1 DEF IsMessage
  <2>3. CASE f = "path"
    <3>1. e = [d EXCEPT !.path = v]
      BY <2>3
    <3> HIDE DEF e
    <3> QED BY <1>1, <2>3, <3>1 DEF IsMessage
  <2>4. CASE f = "query"
    <3>1. e = [d EXCEPT !.query = v]
      BY <2>4
    <3> HIDE DEF e
    <3> QED BY <1>1, <2>4, <3>1 DEF IsMessage
  <2>5. CASE f = "fragment"
    <3>1. e = [d EXCEPT !.fragment = v]
      BY <2>5
    <3> HIDE DEF e
    <3> QED BY <1>1, <2>5, <3>1 DEF IsMessage
  <2>6. CASE f = "status"
    <3>1. e = [d EXCEPT !.status = v]
      BY <2>6
    <3> HIDE DEF e
    <3> QED BY <1>1, <2>6, <3>1 DEF IsMessage
  <2>7. CASE f = "reason"
    <3>1. e = [d EXCEPT !.reason = v]
      BY <2>7
    <3> HIDE DEF e
    <3> QED BY <1>1, <2>7, <3>1 DEF IsMessage
  <2> QED BY <2>1, <2>2, <2>3, <2>4, <2>5, <2>6, <2>7
<1> HIDE DEF e
<1>4. IsMessage(e)
  BY <1>1, <1>3 DEF IsMessage
<1> HIDE DEF r
<1>5. IsReport(r)
  BY <1>2, <1>4 DEF IsReport
<1> QED BY <1>5 DEF r

LEMMA HeadersSet ==
  ASSUME NEW m, IsReport(m), NEW h, Cookie \in DOMAIN h => Len(h[Cookie]) \in Nat
  PROVE  IsReport([m EXCEPT !.data["headers"] = h])
<1> DEFINE d == m.data  e == [d EXCEPT !.headers = h]  r == [m EXCEPT !.data["headers"] = h]
<1>1. m = [data |-> d, error |-> m.error] /\ IsMessage(d)
  BY DEF IsReport
<1>2. r = [data |-> e, error |-> m.error]
  BY <1>1
<1> HIDE DEF d
<1>3. /\ e = [method |-> e.method, path |-> e.path, query |-> e.query,
              fragment |-> e.fragment, version |-> e.version, status |-> e.status,
              reason |-> e.reason, headers |-> e.headers]
      /\ e.headers = h /\ e.query = d.query
  BY <1>1 DEF IsMessage
<1> HIDE DEF e
<1>4. IsMessage(e)
  BY <1>1, <1>3 DEF IsMessage
<1> HIDE DEF r
<1>5. IsReport(r)
  BY <1>2, <1>4 DEF IsReport
<1> QED BY <1>5 DEF r

LEMMA ReportKeeps ==
  ASSUME NEW m, IsReport(m), NEW g \in Elements, NEW base \in Nat
  PROVE  IsReport(Report(m, g, base))
<1> DEFINE text == Bytes(base + g.at, g.len)
<1>1. Len(text) \in Nat
  <2>1. base + g.at \in Int /\ g.len \in Int
    BY DEF Elements
  <2> QED BY <2>1, BytesLength
<1> HIDE DEF text
<1>2. CASE g.kind = "method"
  <2> DEFINE method == StringToHttpMethod(SubSeq(stream, base + g.at + 1, Len(stream)))
  <2>1. Report(m, g, base) = IF method = "INVALID_METHOD" THEN [m EXCEPT !.error = 1000]
                             ELSE [m EXCEPT !.data["method"] = method]
    BY <1>2 DEF Report
  <2> HIDE DEF method
  <2>2. IsReport([m EXCEPT !.error = 1000])
    BY ErrorNoted
  <2>3. IsReport([m EXCEPT !.data["method"] = method])
    BY FieldSet
  <2> QED BY <2>1, <2>2, <2>3
<1>3. CASE g.kind = "version"
  <2> DEFINE version == HttpVersion(text)
  <2>1. Report(m, g, base) = IF version = "invalid" THEN [m EXCEPT !.error = 1001]
                             ELSE [m EXCEPT !.data["version"] = version]
    BY <1>3 DEF Report, text
  <2> HIDE DEF version
  <2>2. IsReport([m EXCEPT !.error = 1001])
    BY ErrorNoted
  <2>3. IsReport([m EXCEPT !.data["version"] = version])
    BY FieldSet
  <2> QED BY <2>1, <2>2, <2>3
<1>4. CASE g.kind \in {"path", "query", "fragment", "status", "reason"}
  <2> DEFINE k == g.kind
  <2>1. Report(m, g, base) = [m EXCEPT !.data[k] = text]
    BY <1>4 DEF Report, text
  <2>2. k \in {"path", "query", "fragment", "status", "reason"}
    BY <1>4
  <2> HIDE DEF k
  <2>3. IsReport([m EXCEPT !.data[k] = text])
    BY <1>1, <2>2, FieldSet
  <2> QED BY <2>1, <2>3
<1>5. CASE g.kind = "field"
  <2> DEFINE name == Name(Bytes(base + g.name, g.name_len))
             h == With(m.data.headers, name, text)
  <2>1. Report(m, g, base) = IF g.name_len = 0 THEN [m EXCEPT !.error = 1002]
                             ELSE [m EXCEPT !.data["headers"] = h]
    BY <1>5 DEF Report, text
  <2> HIDE DEF name
  <2>2. Cookie \in DOMAIN h => Len(h[Cookie]) \in Nat
    BY <1>1 DEF With, IsReport, IsMessage
  <2> HIDE DEF h
  <2>3. IsReport([m EXCEPT !.error = 1002])
    BY ErrorNoted
  <2>4. IsReport([m EXCEPT !.data["headers"] = h])
    BY <2>2, HeadersSet
  <2> QED BY <2>1, <2>3, <2>4
<1>6. CASE g.kind \notin {"method", "version", "path", "query", "fragment", "status", "reason",
                          "field"}
  <2>1. Report(m, g, base) = m
    BY <1>6 DEF Report
  <2> QED BY <2>1
<1> QED BY <1>2, <1>3, <1>4, <1>5, <1>6

\* All that a call reports.
LEMMA ReportsKeep ==
  ASSUME NEW m, IsReport(m), NEW list \in Seq(Elements), NEW base \in Nat
  PROVE  IsReport(Reports(m, list, base))
<1> DEFINE n == Len(list)
           T == {j \in 0 .. n :
                   \E f : /\ f = [i \in 0 .. j |->
                                   IF i = 0 THEN m ELSE Report(f[i - 1], list[i], base)]
                          /\ \A i \in 0 .. j : IsReport(f[i])}
           upto == CHOOSE f : f = [i \in 0 .. n |->
                     IF i = 0 THEN m ELSE Report(f[i - 1], list[i], base)]
<1>1. n \in Nat /\ \A i \in 1 .. n : list[i] \in Elements
  BY LenProperties, ElementOfSeq
<1>6. Reports(m, list, base) = upto[n]
  BY DEF Reports, n
<1> HIDE DEF n
<1>2. 0 \in T
  <2> DEFINE h == [i \in 0 .. 0 |-> m]
  <2>1. h = [i \in 0 .. 0 |-> IF i = 0 THEN m ELSE Report(h[i - 1], list[i], base)]
        /\ \A i \in 0 .. 0 : IsReport(h[i])
    OBVIOUS
  <2> HIDE DEF h
  <2>2. \E f : /\ f = [i \in 0 .. 0 |-> IF i = 0 THEN m
                                        ELSE Report(f[i - 1], list[i], base)]
               /\ \A i \in 0 .. 0 : IsReport(f[i])
    BY <2>1
  <2> QED BY <1>1, <2>2
<1>3. ASSUME NEW j \in 1 .. n, j - 1 \in T PROVE j \in T
  <2>1. PICK f : /\ f = [i \in 0 .. j - 1 |->
                           IF i = 0 THEN m ELSE Report(f[i - 1], list[i], base)]
                 /\ \A i \in 0 .. j - 1 : IsReport(f[i])
    BY <1>3
  <2> DEFINE last1 == Report(f[j - 1], list[j], base)
             h == [i \in 0 .. j |-> IF i = j THEN last1 ELSE f[i]]
  <2>2. IsReport(last1)
    <3>1. j - 1 \in 0 .. j - 1 /\ list[j] \in Elements
      BY <1>1
    <3> QED BY <2>1, <3>1, ReportKeeps
  <2>3. \A i \in 0 .. j : IsReport(h[i])
    <3> HIDE DEF last1
    <3> SUFFICES ASSUME NEW i \in 0 .. j PROVE IsReport(h[i])
      OBVIOUS
    <3>1. CASE i = j
      BY <2>2, <3>1
    <3>2. CASE i # j
      <4>1. i \in 0 .. j - 1 /\ h[i] = f[i]
        BY <1>1, <3>2
      <4> QED BY <2>1, <4>1
    <3> QED BY <3>1, <3>2
  <2>4. h = [i \in 0 .. j |-> IF i = 0 THEN m ELSE Report(h[i - 1], list[i], base)]
    <3>1. ASSUME NEW i \in 0 .. j
          PROVE  h[i] = IF i = 0 THEN m ELSE Report(h[i - 1], list[i], base)
      <4>1. CASE i = j
        <5>1. h[i] = last1 /\ h[j - 1] = f[j - 1] /\ i # 0
          BY <1>1, <4>1
        <5> QED BY <4>1, <5>1
      <4>2. CASE i # j
        <5>1. i \in 0 .. j - 1 /\ h[i] = f[i] /\ (i # 0 => h[i - 1] = f[i - 1])
          BY <1>1, <4>2
        <5>2. f[i] = IF i = 0 THEN m ELSE Report(f[i - 1], list[i], base)
          BY <2>1, <5>1
        <5> QED BY <5>1, <5>2
      <4> QED BY <4>1, <4>2
    <3> QED BY <3>1
  <2> HIDE DEF h
  <2>5. \E e : /\ e = [i \in 0 .. j |-> IF i = 0 THEN m
                                        ELSE Report(e[i - 1], list[i], base)]
               /\ \A i \in 0 .. j : IsReport(e[i])
    BY <2>3, <2>4
  <2> QED BY <1>1, <2>5
<1>4. PICK g : /\ g = [i \in 0 .. n |-> IF i = 0 THEN m ELSE Report(g[i - 1], list[i], base)]
               /\ \A i \in 0 .. n : IsReport(g[i])
  <2>1. n \in T
    <3> HIDE DEF T
    <3>1. \A j \in 0 .. n : j \in T
      BY <1>1, <1>2, <1>3, InductionUpTo
    <3> QED BY <1>1, <3>1
  <2> QED BY <2>1
<1>5. upto = [i \in 0 .. n |-> IF i = 0 THEN m ELSE Report(upto[i - 1], list[i], base)]
  BY <1>4
<1> HIDE DEF upto
<1>7. \A i \in 0 .. n : upto[i] = g[i]
  <2> DEFINE U == {i \in 0 .. n : upto[i] = g[i]}
  <2>1. 0 \in U
    <3>1. 0 \in 0 .. n
      BY <1>1
    <3>2. upto[0] = m /\ g[0] = m
      BY <3>1, <1>4, <1>5
    <3> QED BY <3>1, <3>2
  <2>2. ASSUME NEW i \in 1 .. n, i - 1 \in U PROVE i \in U
    <3>1. i \in 0 .. n /\ i # 0 /\ upto[i - 1] = g[i - 1]
      BY <1>1, <2>2
    <3>2. upto[i] = Report(upto[i - 1], list[i], base)
      BY <3>1, <1>5
    <3>3. g[i] = Report(g[i - 1], list[i], base)
      BY <3>1, <1>4
    <3> QED BY <3>1, <3>2, <3>3
  <2> HIDE DEF U
  <2>3. \A i \in 0 .. n : i \in U
    BY <1>1, <2>1, <2>2, InductionUpTo
  <2> QED BY <2>3 DEF U
<1>8. n \in 0 .. n
  BY <1>1
<1> QED BY <1>4, <1>6, <1>7, <1>8

-----------------------------------------------------------------------------
(* A look parses the texts, and leaves alone what is there.                *)

\* What map says, more says.
Extends(map, more) ==
  \A k \in DOMAIN map : k \in DOMAIN more /\ more[k] = map[k]

LEMMA ExtendsChain ==
  ASSUME NEW a, NEW b, NEW c, Extends(a, b), Extends(b, c)
  PROVE  Extends(a, c)
BY DEF Extends

LEMMA PairExtends ==
  ASSUME NEW s, NEW b, NEW flag, NEW trimmed
  PROVE  Extends(b.map, ParsePair(s, b, flag, trimmed).map)
<1>1. \A k, v : Extends(b.map, Insert(b.map, k, v))
  BY DEF Extends, Insert
<1>2. Extends(b.map, b.map)
  BY DEF Extends
<1> DEFINE eq == Find(s, "=", b.at)
           end == Find(s, flag, eq)
           text == SubSeq(s, b.at, eq - 1)
           key == Name(IF trimmed THEN Trim(text) ELSE text)
           value == UrlDecode(SubSeq(s, eq + 1, end - 1))
<1>3. ParsePair(s, b, flag, trimmed) =
        IF eq > Len(s) THEN b ELSE [map |-> Insert(b.map, key, value), at |-> end + 1]
  BY DEF ParsePair
<1> HIDE DEF eq, end, key, value
<1> QED BY <1>1, <1>2, <1>3

LEMMA ParseExtends ==
  ASSUME NEW s, Len(s) \in Nat, NEW map, NEW flag, NEW trimmed
  PROVE  Extends(map, ParseParam(s, map, flag, trimmed))
<1> DEFINE n == Len(s)
           b0 == [map |-> map, at |-> 1]
           T == {j \in 0 .. n : \E f : f = [i \in 0 .. j |->
                   IF i = 0 THEN b0 ELSE ParsePair(s, f[i - 1], flag, trimmed)]}
           pass == CHOOSE f : f = [i \in 0 .. n |->
                     IF i = 0 THEN b0 ELSE ParsePair(s, f[i - 1], flag, trimmed)]
<1>1. n \in Nat
  OBVIOUS
<1>6. ParseParam(s, map, flag, trimmed) = pass[n].map
  BY DEF ParseParam, n
<1>7. b0.map = map
  OBVIOUS
<1> HIDE DEF n, b0
<1>2. 0 \in T
  <2> DEFINE h == [i \in 0 .. 0 |-> b0]
  <2>1. h = [i \in 0 .. 0 |-> IF i = 0 THEN b0 ELSE ParsePair(s, h[i - 1], flag, trimmed)]
    OBVIOUS
  <2> HIDE DEF h
  <2>2. \E f : f = [i \in 0 .. 0 |-> IF i = 0 THEN b0
                                     ELSE ParsePair(s, f[i - 1], flag, trimmed)]
    BY <2>1
  <2> QED BY <1>1, <2>2
<1>3. ASSUME NEW j \in 1 .. n, j - 1 \in T PROVE j \in T
  <2>1. PICK f : f = [i \in 0 .. j - 1 |->
                        IF i = 0 THEN b0 ELSE ParsePair(s, f[i - 1], flag, trimmed)]
    BY <1>3
  <2> DEFINE h == [i \in 0 .. j |-> IF i = j THEN ParsePair(s, f[j - 1], flag, trimmed)
                                    ELSE f[i]]
  <2>2. h = [i \in 0 .. j |-> IF i = 0 THEN b0 ELSE ParsePair(s, h[i - 1], flag, trimmed)]
    <3>1. ASSUME NEW i \in 0 .. j
          PROVE  h[i] = IF i = 0 THEN b0 ELSE ParsePair(s, h[i - 1], flag, trimmed)
      <4>1. CASE i = j
        <5>1. /\ h[i] = ParsePair(s, f[j - 1], flag, trimmed)
              /\ h[j - 1] = f[j - 1] /\ i # 0
          BY <1>1, <4>1
        <5> QED BY <4>1, <5>1
      <4>2. CASE i # j
        <5>1. i \in 0 .. j - 1 /\ h[i] = f[i] /\ (i # 0 => h[i - 1] = f[i - 1])
          BY <1>1, <4>2
        <5>2. f[i] = IF i = 0 THEN b0 ELSE ParsePair(s, f[i - 1], flag, trimmed)
          BY <2>1, <5>1
        <5> QED BY <5>1, <5>2
      <4> QED BY <4>1, <4>2
    <3> QED BY <3>1
  <2> HIDE DEF h
  <2>3. \E e : e = [i \in 0 .. j |-> IF i = 0 THEN b0
                                     ELSE ParsePair(s, e[i - 1], flag, trimmed)]
    BY <2>2
  <2> QED BY <1>1, <2>3
<1>4. \E f : f = [i \in 0 .. n |-> IF i = 0 THEN b0
                                   ELSE ParsePair(s, f[i - 1], flag, trimmed)]
  <2>1. n \in T
    <3> HIDE DEF T
    <3>1. \A j \in 0 .. n : j \in T
      BY <1>1, <1>2, <1>3, InductionUpTo
    <3> QED BY <1>1, <3>1
  <2> QED BY <2>1
<1>5. pass = [i \in 0 .. n |-> IF i = 0 THEN b0 ELSE ParsePair(s, pass[i - 1], flag, trimmed)]
  BY <1>4
<1> HIDE DEF pass
<1>8. \A i \in 0 .. n : Extends(map, pass[i].map)
  <2> DEFINE U == {i \in 0 .. n : Extends(map, pass[i].map)}
  <2>1. 0 \in U
    <3>1. 0 \in 0 .. n
      BY <1>1
    <3>2. pass[0] = b0
      BY <3>1, <1>5
    <3>3. Extends(map, map)
      BY DEF Extends
    <3> QED BY <1>7, <3>1, <3>2, <3>3
  <2>2. ASSUME NEW i \in 1 .. n, i - 1 \in U PROVE i \in U
    <3>1. i \in 0 .. n /\ i # 0 /\ Extends(map, pass[i - 1].map)
      BY <1>1, <2>2
    <3>2. pass[i] = ParsePair(s, pass[i - 1], flag, trimmed)
      BY <3>1, <1>5
    <3>3. Extends(pass[i - 1].map, pass[i].map)
      BY <3>2, PairExtends
    <3> QED BY <3>1, <3>3, ExtendsChain
  <2> HIDE DEF U
  <2>3. \A i \in 0 .. n : i \in U
    BY <1>1, <2>1, <2>2, InductionUpTo
  <2> QED BY <2>3 DEF U
<1>9. n \in 0 .. n
  BY <1>1
<1> QED BY <1>6, <1>8, <1>9

-----------------------------------------------------------------------------
(* The program and the texts.                                              *)

\* What the program did last, l, is what the maps ps and cs say.
Wins(l, ps, cs) ==
  \A h \in DOMAIN l :
     LET map == IF h[1] = "param" THEN ps ELSE cs
     IN  /\ l[h][1] = "set" => h[2] \in DOMAIN map /\ map[h[2]] = l[h][2]
         /\ l[h][1] = "gone" => h[2] \notin DOMAIN map

\* A name is known to be gone only when there is nothing left to parse.
GoneAfterLook(l, seen) ==
  \A h \in DOMAIN l : l[h][1] = "gone" =>
     IF h[1] = "param" THEN {"query", "body"} \subseteq seen ELSE "cookies" \in seen

Names(l) == \A h \in DOMAIN l : \E k : h = <<"param", k>> \/ h = <<"cookie", k>>

MInv ==
  /\ IsMessage(message) /\ Len(body) \in Nat
  /\ Names(last) /\ GoneAfterLook(last, parsed) /\ Wins(last, params, cookies)

LEMMA ParamsLooked ==
  ASSUME MInv
  PROVE  LET ps == InitBodyParam(InitQueryParam(params))
         IN  /\ Extends(params, ps)
             /\ {"query", "body"} \subseteq parsed => ps = params
<1> DEFINE mid == InitQueryParam(params)  ps == InitBodyParam(mid)
<1>1. Len(message.query) \in Nat /\ Len(body) \in Nat
  BY DEF MInv, IsMessage
<1>2. \A map : Extends(map, map)
  BY DEF Extends
<1>3. Extends(params, mid)
  BY <1>1, <1>2, ParseExtends DEF InitQueryParam
<1>4. "query" \in parsed => mid = params
  BY DEF InitQueryParam
<1> HIDE DEF mid
<1>5. Extends(mid, ps)
  BY <1>1, <1>2, ParseExtends DEF InitBodyParam
<1>6. "body" \in parsed => ps = mid
  BY DEF InitBodyParam
<1> HIDE DEF ps
<1>7. Extends(params, ps)
  BY <1>3, <1>5, ExtendsChain
<1>8. {"query", "body"} \subseteq parsed => ps = params
  BY <1>4, <1>6
<1> QED BY <1>7, <1>8 DEF ps, mid

LEMMA CookiesLooked ==
  ASSUME MInv
  PROVE  /\ Extends(cookies, InitCookies(cookies))
         /\ "cookies" \in parsed => InitCookies(cookies) = cookies
<1>1. CASE "cookies" \in parsed \/ header(Cookie) = Nothing
  BY <1>1 DEF InitCookies, Extends
<1>2. CASE ~("cookies" \in parsed \/ header(Cookie) = Nothing)
  <2>1. InitCookies(cookies) = ParseParam(header(Cookie), cookies, ";", TRUE)
    BY <1>2 DEF InitCookies
  <2>2. Len(header(Cookie)) \in Nat
    BY <1>2 DEF header, MInv, IsMessage
  <2>3. Extends(cookies, ParseParam(header(Cookie), cookies, ";", TRUE))
    BY <2>2, ParseExtends
  <2> QED BY <1>2, <2>1, <2>3
<1> QED BY <1>1, <1>2

LEMMA LookWins ==
  ASSUME NEW l, NEW ps, NEW cs, NEW ps2, NEW cs2, NEW seen,
         Wins(l, ps, cs), GoneAfterLook(l, seen),
         Extends(ps, ps2), {"query", "body"} \subseteq seen => ps2 = ps,
         Extends(cs, cs2), "cookies" \in seen => cs2 = cs
  PROVE  Wins(l, ps2, cs2)
<1> SUFFICES ASSUME NEW h \in DOMAIN l
             PROVE  LET map == IF h[1] = "param" THEN ps2 ELSE cs2
                    IN  /\ l[h][1] = "set" => h[2] \in DOMAIN map /\ map[h[2]] = l[h][2]
                        /\ l[h][1] = "gone" => h[2] \notin DOMAIN map
  BY DEF Wins
<1>1. CASE h[1] = "param"
  <2>1. /\ l[h][1] = "set" => h[2] \in DOMAIN ps /\ ps[h[2]] = l[h][2]
        /\ l[h][1] = "gone" => h[2] \notin DOMAIN ps
    BY <1>1 DEF Wins
  <2>2. l[h][1] = "gone" => ps2 = ps
    BY <1>1 DEF GoneAfterLook
  <2> QED BY <1>1, <2>1, <2>2 DEF Extends
<1>2. CASE h[1] # "param"
  <2>1. /\ l[h][1] = "set" => h[2] \in DOMAIN cs /\ cs[h[2]] = l[h][2]
        /\ l[h][1] = "gone" => h[2] \notin DOMAIN cs
    BY <1>2 DEF Wins
  <2>2. l[h][1] = "gone" => cs2 = cs
    BY <1>2 DEF GoneAfterLook
  <2> QED BY <1>2, <2>1, <2>2 DEF Extends
<1> QED BY <1>1, <1>2

\* The program's own calls.  d is what is noted of them.
LEMMA SetWins ==
  ASSUME NEW l, NEW ps, NEW cs, NEW seen, NEW k, NEW v,
         Names(l), Wins(l, ps, cs), GoneAfterLook(l, seen), NEW which \in {"param", "cookie"}
  PROVE  LET m == With(l, <<which, k>>, <<"set", v>>)
         IN  /\ Names(m) /\ GoneAfterLook(m, seen)
             /\ Wins(m, IF which = "param" THEN With(ps, k, v) ELSE ps,
                        IF which = "param" THEN cs ELSE With(cs, k, v))
<1> DEFINE g == <<which, k>>  m == With(l, g, <<"set", v>>)
           ps2 == IF which = "param" THEN With(ps, k, v) ELSE ps
           cs2 == IF which = "param" THEN cs ELSE With(cs, k, v)
<1>1. DOMAIN m = DOMAIN l \cup {g} /\ m[g] = <<"set", v>>
      /\ \A h \in DOMAIN l : h # g => m[h] = l[h]
  BY DEF With
<1>2. \A map : /\ DOMAIN With(map, k, v) = DOMAIN map \cup {k} /\ With(map, k, v)[k] = v
               /\ \A x \in DOMAIN map : x # k => With(map, k, v)[x] = map[x]
  BY DEF With
<1>3. g[1] = which /\ g[2] = k
  OBVIOUS
<1>4. \A h \in DOMAIN l : h[1] = which /\ h[2] = k => h = g
  BY DEF Names
<1>0. m[g][1] = "set" /\ m[g][2] = v
  BY <1>1
<1> HIDE DEF m
<1>5. Names(m)
  BY <1>1 DEF Names
<1>6. GoneAfterLook(m, seen)
  BY <1>0, <1>1 DEF GoneAfterLook
<1> HIDE DEF g
<1>7. Wins(m, ps2, cs2)
  <2> SUFFICES ASSUME NEW h \in DOMAIN m
               PROVE  LET map == IF h[1] = "param" THEN ps2 ELSE cs2
                      IN  /\ m[h][1] = "set" => h[2] \in DOMAIN map /\ map[h[2]] = m[h][2]
                          /\ m[h][1] = "gone" => h[2] \notin DOMAIN map
    BY DEF Wins
  <2>1. CASE h = g
    BY <1>0, <1>2, <1>3, <2>1
  <2>2. CASE h # g
    <3>1. h \in DOMAIN l /\ m[h] = l[h]
      BY <1>1, <2>2
    <3>2. h[1] = "param" \/ h[1] = "cookie"
      BY <3>1 DEF Names
    <3>3. h[1] = which => h[2] # k
      BY <1>4, <2>2, <3>1
    <3>4. CASE h[1] = "param"
      <4>1. /\ l[h][1] = "set" => h[2] \in DOMAIN ps /\ ps[h[2]] = l[h][2]
            /\ l[h][1] = "gone" => h[2] \notin DOMAIN ps
        BY <3>1, <3>4 DEF Wins
      <4> QED BY <1>2, <3>1, <3>3, <3>4, <4>1
    <3>5. CASE h[1] = "cookie"
      <4>1. /\ l[h][1] = "set" => h[2] \in DOMAIN cs /\ cs[h[2]] = l[h][2]
            /\ l[h][1] = "gone" => h[2] \notin DOMAIN cs
        BY <3>1, <3>5 DEF Wins
      <4> QED BY <1>2, <3>1, <3>3, <3>5, <4>1
    <3> QED BY <3>2, <3>4, <3>5
  <2> QED BY <2>1, <2>2
<1> QED BY <1>5, <1>6, <1>7 DEF m, g

LEMMA DelWins ==
  ASSUME NEW l, NEW ps, NEW cs, NEW seen, NEW k,
         Names(l), Wins(l, ps, cs), GoneAfterLook(l, seen), NEW which \in {"param", "cookie"}
  PROVE  LET all == IF which = "param" THEN {"query", "body"} \subseteq seen
                    ELSE "cookies" \in seen
             m == With(l, <<which, k>>, IF all THEN <<"gone">> ELSE <<"unknown">>)
         IN  /\ Names(m) /\ GoneAfterLook(m, seen)
             /\ Wins(m, IF which = "param" THEN Without(ps, k) ELSE ps,
                        IF which = "param" THEN cs ELSE Without(cs, k))
<1> DEFINE all == IF which = "param" THEN {"query", "body"} \subseteq seen
                  ELSE "cookies" \in seen
           d == IF all THEN <<"gone">> ELSE <<"unknown">>
           g == <<which, k>>  m == With(l, g, d)
           ps2 == IF which = "param" THEN Without(ps, k) ELSE ps
           cs2 == IF which = "param" THEN cs ELSE Without(cs, k)
<1>0. d[1] # "set" /\ (d[1] = "gone" => all)
  BY DEF d
<1> HIDE DEF d
<1>1. DOMAIN m = DOMAIN l \cup {g} /\ m[g] = d
      /\ \A h \in DOMAIN l : h # g => m[h] = l[h]
  BY DEF With
<1>2. \A map : /\ DOMAIN Without(map, k) = DOMAIN map \ {k}
               /\ \A x \in DOMAIN map : x # k => Without(map, k)[x] = map[x]
  BY DEF Without
<1>3. g[1] = which /\ g[2] = k
  OBVIOUS
<1>4. \A h \in DOMAIN l : h[1] = which /\ h[2] = k => h = g
  BY DEF Names
<1> HIDE DEF m
<1>5. Names(m)
  BY <1>1 DEF Names
<1> HIDE DEF g
<1>6. GoneAfterLook(m, seen)
  BY <1>0, <1>1, <1>3 DEF GoneAfterLook
<1>7. Wins(m, ps2, cs2)
  <2> SUFFICES ASSUME NEW h \in DOMAIN m
               PROVE  LET map == IF h[1] = "param" THEN ps2 ELSE cs2
                      IN  /\ m[h][1] = "set" => h[2] \in DOMAIN map /\ map[h[2]] = m[h][2]
                          /\ m[h][1] = "gone" => h[2] \notin DOMAIN map
    BY DEF Wins
  <2>1. CASE h = g
    BY <1>0, <1>1, <1>2, <1>3, <2>1
  <2>2. CASE h # g
    <3>1. h \in DOMAIN l /\ m[h] = l[h]
      BY <1>1, <2>2
    <3>2. h[1] = "param" \/ h[1] = "cookie"
      BY <3>1 DEF Names
    <3>3. h[1] = which => h[2] # k
      BY <1>4, <2>2, <3>1
    <3>4. CASE h[1] = "param"
      <4>1. /\ l[h][1] = "set" => h[2] \in DOMAIN ps /\ ps[h[2]] = l[h][2]
            /\ l[h][1] = "gone" => h[2] \notin DOMAIN ps
        BY <3>1, <3>4 DEF Wins
      <4> QED BY <1>2, <3>1, <3>3, <3>4, <4>1
    <3>5. CASE h[1] = "cookie"
      <4>1. /\ l[h][1] = "set" => h[2] \in DOMAIN cs /\ cs[h[2]] = l[h][2]
            /\ l[h][1] = "gone" => h[2] \notin DOMAIN cs
        BY <3>1, <3>5 DEF Wins
      <4> QED BY <1>2, <3>1, <3>3, <3>5, <4>1
    <3> QED BY <3>2, <3>4, <3>5
  <2> QED BY <2>1, <2>2
<1> QED BY <1>5, <1>6, <1>7 DEF m, g, d

LEMMA MInvInit ==
  ASSUME MessageInit
  PROVE  MInv
<1>1. message = [method |-> "GET", path |-> <<"/">>, query |-> <<>>, fragment |-> <<>>,
                 version |-> "1.1", status |-> <<>>, reason |-> <<>>, headers |-> <<>>]
  BY DEF MessageInit, HttpInit
<1>2. DOMAIN <<>> = {} /\ Len(<<>>) = 0
  OBVIOUS
<1>3. IsMessage(message)
  <2>1. message.query = <<>> /\ message.headers = <<>>
    BY <1>1
  <2>2. message = [method |-> message.method, path |-> message.path, query |-> message.query,
                   fragment |-> message.fragment, version |-> message.version,
                   status |-> message.status, reason |-> message.reason,
                   headers |-> message.headers]
    BY <1>1
  <2>3. Len(message.query) \in Nat
    BY <2>1, <1>2
  <2>4. Cookie \notin DOMAIN message.headers
    BY <2>1, <1>2
  <2> QED BY <2>2, <2>3, <2>4 DEF IsMessage
<1>4. body = <<>> /\ last = <<>>
  BY DEF MessageInit, Unused, Nothing
<1>5. Len(body) \in Nat /\ DOMAIN last = {}
  BY <1>2, <1>4
<1>6. Names(last) /\ GoneAfterLook(last, parsed) /\ Wins(last, params, cookies)
  BY <1>5 DEF Names, GoneAfterLook, Wins
<1> QED BY <1>3, <1>5, <1>6 DEF MInv

\* What a header of the program leaves.
LEMMA HeaderChanged ==
  ASSUME NEW h, IsMessage(message), Cookie \in DOMAIN h => Len(h[Cookie]) \in Nat
  PROVE  IsMessage([message EXCEPT !.headers = h])
<1> DEFINE e == [message EXCEPT !.headers = h]
<1>1. /\ e = [method |-> e.method, path |-> e.path, query |-> e.query,
              fragment |-> e.fragment, version |-> e.version, status |-> e.status,
              reason |-> e.reason, headers |-> e.headers]
      /\ e.headers = h /\ e.query = message.query
  BY DEF IsMessage
<1> HIDE DEF e
<1>2. IsMessage(e)
  BY <1>1 DEF IsMessage
<1> QED BY <1>2 DEF e

LEMMA HeaderNames == ContentType # Cookie /\ Connection # Cookie
<1>1. Len(ContentType) = 1 /\ Len(Cookie) = 6
  BY DEF ContentType, Cookie
<1>2. Len(Connection) = 10
  BY DEF Connection, Word
<1> QED BY <1>1, <1>2

LEMMA UseInv ==
  ASSUME MInv, Use
  PROVE  MInv'
<1>0. /\ IsMessage(message) /\ Len(body) \in Nat
      /\ Names(last) /\ GoneAfterLook(last, parsed) /\ Wins(last, params, cookies)
  BY DEF MInv
<1> DEFINE ps == InitBodyParam(InitQueryParam(params))  cs == InitCookies(cookies)
<1>a. /\ Extends(params, ps)
      /\ {"query", "body"} \subseteq parsed => ps = params
  BY ParamsLooked
<1>d. /\ Extends(cookies, cs)
      /\ "cookies" \in parsed => cs = cookies
  BY CookiesLooked
<1>b. \A map : Extends(map, map)
  BY DEF Extends
<1>c. \A what : GoneAfterLook(last, parsed \cup what)
  BY <1>0 DEF GoneAfterLook
<1> HIDE DEF ps, cs
<1>1. CASE GetParam
  <2>1. /\ params' = ps /\ parsed' = parsed \cup {"query", "body"}
        /\ UNCHANGED <<message, cookies, body, last>>
    BY <1>1 DEF GetParam, Looked, ps
  <2>2. Wins(last, ps, cookies)
    BY <1>0, <1>a, <1>b, <1>d, LookWins
  <2>3. GoneAfterLook(last', parsed')
    BY <1>c, <2>1
  <2> QED BY <1>0, <2>1, <2>2, <2>3 DEF MInv
<1>2. CASE GetCookie
  <2>1. /\ cookies' = cs /\ parsed' = parsed \cup {"cookies"}
        /\ UNCHANGED <<message, params, body, last>>
    BY <1>2 DEF GetCookie, Looked, cs
  <2>2. Wins(last, params, cs)
    BY <1>0, <1>a, <1>b, <1>d, LookWins
  <2>3. GoneAfterLook(last', parsed')
    BY <1>c, <2>1
  <2> QED BY <1>0, <2>1, <2>2, <2>3 DEF MInv
<1>3. CASE InitParam
  <2>1. /\ params' = ps /\ cookies' = cs
        /\ parsed' = parsed \cup {"query", "body", "cookies"}
        /\ UNCHANGED <<message, body, last>>
    BY <1>3 DEF InitParam, Looked, ps, cs
  <2>2. Wins(last, ps, cs)
    BY <1>0, <1>a, <1>d, LookWins
  <2>3. GoneAfterLook(last', parsed')
    BY <1>c, <2>1
  <2> QED BY <1>0, <2>1, <2>2, <2>3 DEF MInv
<1>4. CASE InitConnection
  BY <1>0, <1>4 DEF InitConnection, MInv
<1>5. ASSUME NEW k \in Keys, NEW v \in Values, SetParam(k, v) PROVE MInv'
  <2>1. /\ params' = With(params, k, v)
        /\ last' = With(last, <<"param", k>>, <<"set", v>>)
        /\ UNCHANGED <<message, cookies, parsed, body>>
    BY <1>5 DEF SetParam
  <2> DEFINE m == With(last, <<"param", k>>, <<"set", v>>)
  <2>2. /\ Names(m) /\ GoneAfterLook(m, parsed) /\ Wins(m, With(params, k, v), cookies)
    <3>1. \A which \in {"param", "cookie"} : which = "param" =>
            LET d == With(last, <<which, k>>, <<"set", v>>)
            IN  /\ Names(d) /\ GoneAfterLook(d, parsed)
                /\ Wins(d, IF which = "param" THEN With(params, k, v) ELSE params,
                           IF which = "param" THEN cookies ELSE With(cookies, k, v))
      BY <1>0, SetWins
    <3> QED BY <3>1
  <2> HIDE DEF m
  <2>3. last' = m
    BY <2>1 DEF m
  <2> QED BY <1>0, <2>1, <2>2, <2>3 DEF MInv
<1>6. ASSUME NEW k \in Keys, NEW v \in Values, SetCookie(k, v) PROVE MInv'
  <2>1. /\ cookies' = With(cookies, k, v)
        /\ last' = With(last, <<"cookie", k>>, <<"set", v>>)
        /\ UNCHANGED <<message, params, parsed, body>>
    BY <1>6 DEF SetCookie
  <2> DEFINE m == With(last, <<"cookie", k>>, <<"set", v>>)
  <2>2. /\ Names(m) /\ GoneAfterLook(m, parsed) /\ Wins(m, params, With(cookies, k, v))
    <3>1. \A which \in {"param", "cookie"} : which = "cookie" =>
            LET d == With(last, <<which, k>>, <<"set", v>>)
            IN  /\ Names(d) /\ GoneAfterLook(d, parsed)
                /\ Wins(d, IF which = "param" THEN With(params, k, v) ELSE params,
                           IF which = "param" THEN cookies ELSE With(cookies, k, v))
      BY <1>0, SetWins
    <3> QED BY <3>1
  <2> HIDE DEF m
  <2>3. last' = m
    BY <2>1 DEF m
  <2> QED BY <1>0, <2>1, <2>2, <2>3 DEF MInv
<1>7. ASSUME NEW k \in Keys, DelParam(k) PROVE MInv'
  <2> DEFINE all == {"query", "body"} \subseteq parsed
             m == With(last, <<"param", k>>, IF all THEN <<"gone">> ELSE <<"unknown">>)
  <2>1. /\ params' = Without(params, k) /\ last' = m
        /\ UNCHANGED <<message, cookies, parsed, body>>
    BY <1>7 DEF DelParam
  <2>2. /\ Names(m) /\ GoneAfterLook(m, parsed) /\ Wins(m, Without(params, k), cookies)
    <3>1. LET which == "param"
              full == IF which = "param" THEN {"query", "body"} \subseteq parsed
                      ELSE "cookies" \in parsed
              d == With(last, <<which, k>>, IF full THEN <<"gone">> ELSE <<"unknown">>)
          IN  /\ Names(d) /\ GoneAfterLook(d, parsed)
              /\ Wins(d, IF which = "param" THEN Without(params, k) ELSE params,
                         IF which = "param" THEN cookies ELSE Without(cookies, k))
      BY <1>0, DelWins
    <3> QED BY <3>1
  <2> HIDE DEF m
  <2> QED BY <1>0, <2>1, <2>2 DEF MInv
<1>8. ASSUME NEW k \in Keys, DelCookie(k) PROVE MInv'
  <2> DEFINE all == "cookies" \in parsed
             m == With(last, <<"cookie", k>>, IF all THEN <<"gone">> ELSE <<"unknown">>)
  <2>1. /\ cookies' = Without(cookies, k) /\ last' = m
        /\ UNCHANGED <<message, params, parsed, body>>
    BY <1>8 DEF DelCookie
  <2>2. /\ Names(m) /\ GoneAfterLook(m, parsed) /\ Wins(m, params, Without(cookies, k))
    <3>1. LET which == "cookie"
              full == IF which = "param" THEN {"query", "body"} \subseteq parsed
                      ELSE "cookies" \in parsed
              d == With(last, <<which, k>>, IF full THEN <<"gone">> ELSE <<"unknown">>)
          IN  /\ Names(d) /\ GoneAfterLook(d, parsed)
              /\ Wins(d, IF which = "param" THEN Without(params, k) ELSE params,
                         IF which = "param" THEN cookies ELSE Without(cookies, k))
      BY <1>0, DelWins
    <3> QED BY <3>1
  <2> HIDE DEF m
  <2> QED BY <1>0, <2>1, <2>2 DEF MInv
<1>9. ASSUME NEW b \in Bodies, SetBody(b) PROVE MInv'
  <2>1. body' = b /\ UNCHANGED <<message, params, cookies, parsed, last>>
    BY <1>9 DEF SetBody
  <2>2. Len(b) \in Nat
    BY BodiesAssumption, LenProperties
  <2> QED BY <1>0, <2>1, <2>2 DEF MInv
<1>10. ASSUME NEW k, NEW v, k # Cookie, SetHeader(k, v) PROVE MInv'
  <2> DEFINE h == With(message.headers, k, v)
  <2>1. /\ message' = [message EXCEPT !.headers = h]
        /\ UNCHANGED <<params, cookies, parsed, body, last>>
    BY <1>10 DEF SetHeader
  <2>2. Cookie \in DOMAIN h => Len(h[Cookie]) \in Nat
    BY <1>0, <1>10 DEF With, IsMessage
  <2> HIDE DEF h
  <2>3. IsMessage(message')
    BY <1>0, <2>1, <2>2, HeaderChanged
  <2> QED BY <1>0, <2>1, <2>3 DEF MInv
<1>11. ASSUME NEW k, DelHeader(k) PROVE MInv'
  <2> DEFINE h == Without(message.headers, k)
  <2>1. /\ message' = [message EXCEPT !.headers = h]
        /\ UNCHANGED <<params, cookies, parsed, body, last>>
    BY <1>11 DEF DelHeader
  <2>2. Cookie \in DOMAIN h => Len(h[Cookie]) \in Nat
    BY <1>0 DEF Without, IsMessage
  <2> HIDE DEF h
  <2>3. IsMessage(message')
    BY <1>0, <2>1, <2>2, HeaderChanged
  <2> QED BY <1>0, <2>1, <2>3 DEF MInv
<1> QED
  BY <1>1, <1>2, <1>3, <1>4, <1>5, <1>6, <1>7, <1>8, <1>9, <1>10, <1>11, HeaderNames DEF Use

LEMMA MInvNext ==
  ASSUME HInv, MInv, [MessageNext]_msgVars
  PROVE  MInv'
<1>0. /\ IsMessage(message) /\ Len(body) \in Nat
      /\ Names(last) /\ GoneAfterLook(last, parsed) /\ Wins(last, params, cookies)
  BY DEF MInv
<1>1. CASE Parse
  <2>1. PICK n \in 0 .. Len(stream), chunck \in BOOLEAN : Execute(n, chunck)
    BY <1>1 DEF Parse, HttpNext
  <2>2. UNCHANGED <<params, cookies, parsed, body, last>>
    BY <1>1 DEF Parse, useVars
  <2>3. PICK q, v : Return(n, q, v) /\ q \in Calls({q.parser.cs})
    BY <2>1, ExecuteReturns
  <2>4. IsMessage(message')
    <3>1. CASE message' = message
      BY <1>0, <3>1
    <3>2. CASE message' # message
      <4> DEFINE m == [data |-> message, error |-> error]
      <4>1. message' = Reports(m, q.got, pos).data
        BY <2>3, <3>2 DEF Return
      <4>2. IsReport(m)
        BY <1>0 DEF IsReport
      <4>3. q.got \in Seq(Elements) /\ pos \in Nat
        BY <2>3 DEF Calls, HInv
      <4> HIDE DEF m
      <4>4. IsReport(Reports(m, q.got, pos))
        BY <4>2, <4>3, ReportsKeep
      <4> QED BY <4>1, <4>4 DEF IsReport
    <3> QED BY <3>1, <3>2
  <2> QED BY <1>0, <2>2, <2>4 DEF MInv
<1>2. CASE Take \/ UNCHANGED msgVars
  <2>1. UNCHANGED <<message, params, cookies, parsed, body, last>>
    BY <1>2 DEF Take, msgVars, httpVars, useVars
  <2> QED BY <1>0, <2>1 DEF MInv
<1>3. CASE Use
  BY <1>3, UseInv
<1> QED BY <1>1, <1>2, <1>3 DEF MessageNext

\* What the program set is never replaced by what the texts say, whenever they
\* are parsed, and what it deleted after a look does not come back.
THEOREM ProgramAlwaysWins == MessageSpec => []ProgramWins
<1>1. MessageInit => HInv /\ MInv
  BY MessageInitInv, MInvInit
<1>2. HInv /\ MInv /\ [MessageNext]_msgVars => (HInv /\ MInv)'
  BY MessageNextInv, MInvNext
<1>3. MInv => ProgramWins
  BY DEF MInv, Wins, ProgramWins
<1> QED BY <1>1, <1>2, <1>3, PTL DEF MessageSpec

-----------------------------------------------------------------------------
(* The request line.  The places its separators have in a stream.          *)

FirstOf(st, set, i, j) ==
  LET at == {x \in i .. (j - 1) : st[x + 1] \in set}
  IN  IF at = {} THEN j ELSE CHOOSE x \in at : \A y \in at : x <= y

SchemeByte == Alpha \cup Digit \cup {"+", "-", "."}

Blank(st) == FirstOf(st, {" "}, 0, Len(st))
To(st) == FirstOf(st, {" "}, Blank(st) + 1, Len(st))
Hash(st) == FirstOf(st, {"#"}, Blank(st) + 1, To(st))
Mark(st) == FirstOf(st, {"?"}, Blank(st) + 1, Hash(st))
Colon(st) == FirstOf(st, Byte \ SchemeByte, Blank(st) + 1, Mark(st))
From(st) == IF Colon(st) < Mark(st) /\ st[Colon(st) + 1] = ":" THEN Colon(st) + 1 ELSE Blank(st) + 1
End(st) == FirstOf(st, {"\n", "\r"}, To(st), Len(st))

Part(kind, i, j) == [kind |-> kind, from |-> i, to |-> j]

\* What is to be reported when the path, the query, the fragment and the
\* version end.
OfMethod(st) == {Part("method", 0, Blank(st))}
OfPath(st) == OfMethod(st) \cup {Part("path", From(st), Mark(st))}
OfTarget(st) == OfPath(st) \cup {Part("uri", From(st), Hash(st))}
                  \cup (IF Mark(st) < Hash(st) THEN {Part("query", Mark(st) + 1, Hash(st))} ELSE {})
OfUri(st) == OfTarget(st)
               \cup (IF Hash(st) < To(st) THEN {Part("fragment", Hash(st) + 1, To(st))} ELSE {})
OfLine(st) == OfUri(st) \cup {Part("version", To(st) + 1, End(st))}

PathNames == PathStates \cup {"password", "literal"}
TailNames == {"line", "cr", "name", "colon", "value", "line_cr", "done"}
LostNames == {"xml", "xml_text", "json", "json_text", "sent", "error"}

\* Where the machine is in the line when it has had p bytes of the stream, m
\* its mark, q its start of the query and G what it reported.
InMethod(st, m, p) == p <= Blank(st) /\ m = 0

InPath(st, at, m, p) ==
  /\ Blank(st) < Len(st) /\ Blank(st) < p /\ p <= Mark(st)
  /\ at = "target" => p = Blank(st) + 1
  /\ at = "scheme" => p <= Colon(st) /\ m = Blank(st) + 1
  /\ at = "hier" => p = Colon(st) + 1 /\ Colon(st) < Mark(st) /\ st[p] = ":"
  /\ at = "noscheme" => m = Blank(st) + 1 /\ (Colon(st) < p => st[Colon(st) + 1] # ":")
  /\ at \notin {"target", "scheme", "hier", "noscheme"} => Colon(st) < p /\ m = From(st)

InQuery(st, at, m, q, p) ==
  /\ Blank(st) < Len(st) /\ Mark(st) < p /\ p <= Hash(st) /\ m = From(st)
  /\ IF at = "query0" THEN p = Mark(st) + 1 ELSE q = Mark(st) + 1

InFragment(st, at, m, p) ==
  /\ Blank(st) < Len(st) /\ Hash(st) < p /\ p <= To(st)
  /\ IF at = "fragment0" THEN p = Hash(st) + 1 ELSE m = Hash(st) + 1

InVersion(st, n, m, p) ==
  /\ To(st) < p /\ p <= End(st)
  /\ IF n = 0 THEN p = To(st) + 1 ELSE m = To(st) + 1

OnLine(st, s, m, q, p, G) ==
  IF s.json THEN s.at \in PathNames \cup LostNames
  ELSE \/ s.at = "start" /\ p = 0 /\ G = {}
       \/ s.at = "method" /\ InMethod(st, m, p) /\ G = {}
       \/ s.at \in PathNames \ {"relative"} /\ InPath(st, s.at, m, p) /\ G = OfMethod(st)
       \/ s.at \in QueryStates /\ InQuery(st, s.at, m, q, p) /\ G = OfPath(st)
       \/ s.at \in FragmentStates /\ InFragment(st, s.at, m, p) /\ G = OfTarget(st)
       \/ s.at = "version" /\ InVersion(st, s.n, m, p) /\ G = OfUri(st)
       \/ s.at \in TailNames /\ G = OfLine(st)
       \/ s.at \in LostNames

LEMMA FirstFound ==
  ASSUME NEW st, NEW set, NEW i \in Nat, NEW j \in Int, i <= j
  PROVE  LET f == FirstOf(st, set, i, j)
         IN  /\ f \in Nat /\ i <= f /\ f <= j
             /\ f < j => st[f + 1] \in set
             /\ \A x \in i .. (j - 1) : st[x + 1] \in set => f <= x
<1> DEFINE at == {x \in i .. (j - 1) : st[x + 1] \in set}
           f == FirstOf(st, set, i, j)
<1>1. CASE at = {}
  <2>1. f = j
    BY <1>1 DEF FirstOf
  <2>2. \A x \in i .. (j - 1) : st[x + 1] \notin set
    BY <1>1
  <2> QED BY <2>1, <2>2
<1>2. CASE at # {}
  <2>1. f = CHOOSE x \in at : \A y \in at : x <= y
    BY <1>2 DEF FirstOf
  <2>2. at \subseteq Nat
    OBVIOUS
  <2>3. \E x \in at : \A y \in at : x <= y
    BY <1>2, <2>2, Least
  <2>4. f \in at /\ \A y \in at : f <= y
    <3> HIDE DEF at, f
    <3> QED BY <2>1, <2>3
  <2> HIDE DEF f
  <2>5. f \in i .. (j - 1) /\ st[f + 1] \in set
    BY <2>4
  <2>6. \A x \in i .. (j - 1) : st[x + 1] \in set => f <= x
    BY <2>4
  <2>7. f \in Nat /\ i <= f /\ f <= j
    BY <2>5
  <2> QED BY <2>5, <2>6, <2>7, Zenon DEF f
<1> QED BY <1>1, <1>2

\* Where the separators are, once there is a blank.
LEMMA Separators ==
  ASSUME NEW st \in Seq(Byte), Blank(st) < Len(st)
  PROVE  LET bl == Blank(st)  to == To(st)  ha == Hash(st)  ma == Mark(st)  co == Colon(st)
             en == End(st)
         IN  /\ {bl, to, ha, ma, co, en} \subseteq Nat /\ Len(st) \in Nat
             /\ bl < co /\ co <= ma /\ ma <= ha /\ ha <= to /\ to <= en /\ en <= Len(st)
             /\ to < Len(st) => st[to + 1] = " "
             /\ ha < to => st[ha + 1] = "#"
             /\ ma < ha => st[ma + 1] = "?"
             /\ co < ma => st[co + 1] \notin SchemeByte
             /\ en < Len(st) => st[en + 1] \in {"\n", "\r"}
             /\ \A x \in bl + 1 .. Len(st) - 1 : st[x + 1] = " " => to <= x
             /\ \A x \in bl + 1 .. to - 1 : st[x + 1] = "#" => ha <= x
             /\ \A x \in bl + 1 .. ha - 1 : st[x + 1] = "?" => ma <= x
             /\ \A x \in bl + 1 .. ma - 1 : st[x + 1] \notin SchemeByte => co <= x
             /\ \A x \in to .. Len(st) - 1 : st[x + 1] \in {"\n", "\r"} => en <= x
<1> DEFINE n == Len(st)  bl == Blank(st)  to == To(st)  ha == Hash(st)  ma == Mark(st)
           co == Colon(st)  en == End(st)
<1>0. n \in Nat /\ \A x \in 0 .. n - 1 : st[x + 1] \in Byte
  <2>1. n \in Nat
    BY LenProperties
  <2>2. ASSUME NEW x \in 0 .. n - 1 PROVE st[x + 1] \in Byte
    <3>1. x + 1 \in 1 .. n
      BY <2>1
    <3> QED BY <3>1, ElementOfSeq
  <2> QED BY <2>1, <2>2
<1>1. bl \in Nat /\ bl < n
  <2>1. 0 \in Nat /\ n \in Int /\ 0 <= n
    BY <1>0
  <2>2. bl \in Nat
    BY <2>1, FirstFound DEF Blank
  <2> QED BY <2>2
<1> HIDE DEF n, bl
<1>2. to \in Nat /\ bl < to /\ to <= n
  <2>1. bl + 1 \in Nat /\ n \in Int /\ bl + 1 <= n
    BY <1>0, <1>1
  <2>2. to \in Nat /\ bl + 1 <= to /\ to <= n
    BY <2>1, FirstFound DEF To, bl, n
  <2> QED BY <1>1, <2>2
<1>3. ha \in Nat /\ bl < ha /\ ha <= to
  <2>1. bl + 1 \in Nat /\ to \in Int /\ bl + 1 <= to
    BY <1>1, <1>2
  <2> HIDE DEF to
  <2>2. ha \in Nat /\ bl + 1 <= ha /\ ha <= to
    BY <2>1, FirstFound DEF Hash, bl, to
  <2> QED BY <1>1, <2>2
<1>4. ma \in Nat /\ bl < ma /\ ma <= ha
  <2>1. bl + 1 \in Nat /\ ha \in Int /\ bl + 1 <= ha
    BY <1>1, <1>3
  <2> HIDE DEF ha
  <2>2. ma \in Nat /\ bl + 1 <= ma /\ ma <= ha
    BY <2>1, FirstFound DEF Mark, bl, ha
  <2> QED BY <1>1, <2>2
<1>5. co \in Nat /\ bl < co /\ co <= ma
  <2>1. bl + 1 \in Nat /\ ma \in Int /\ bl + 1 <= ma
    BY <1>1, <1>4
  <2> HIDE DEF ma
  <2>2. co \in Nat /\ bl + 1 <= co /\ co <= ma
    BY <2>1, FirstFound DEF Colon, bl, ma
  <2> QED BY <1>1, <2>2
<1>6. en \in Nat /\ to <= en /\ en <= n
  <2>1. n \in Int
    BY <1>0
  <2> HIDE DEF to
  <2> QED BY <1>2, <2>1, FirstFound DEF End, to, n
<1>7. {bl, to, ha, ma, co, en} \subseteq Nat /\ n \in Nat
  BY <1>0, <1>1, <1>2, <1>3, <1>4, <1>5, <1>6
<1>8. bl + 1 \in Nat /\ bl + 1 <= n /\ bl + 1 <= to /\ bl + 1 <= ha /\ bl + 1 <= ma
      /\ n \in Int /\ to \in Int /\ ha \in Int /\ ma \in Int
  BY <1>0, <1>1, <1>2, <1>3, <1>4
<1>9. /\ to < n => st[to + 1] = " "
      /\ \A x \in bl + 1 .. n - 1 : st[x + 1] = " " => to <= x
  <2>1. /\ to < n => st[to + 1] \in {" "}
        /\ \A x \in bl + 1 .. (n - 1) : st[x + 1] \in {" "} => to <= x
    BY <1>8, FirstFound DEF To, bl, n
  <2> HIDE DEF to
  <2> QED BY <2>1, Zenon
<1>10. /\ ha < to => st[ha + 1] = "#"
       /\ \A x \in bl + 1 .. to - 1 : st[x + 1] = "#" => ha <= x
  <2> HIDE DEF to
  <2>1. /\ ha < to => st[ha + 1] \in {"#"}
        /\ \A x \in bl + 1 .. (to - 1) : st[x + 1] \in {"#"} => ha <= x
    BY <1>8, FirstFound DEF Hash, bl, to
  <2> HIDE DEF ha
  <2> QED BY <2>1, Zenon
<1>11. /\ ma < ha => st[ma + 1] = "?"
       /\ \A x \in bl + 1 .. ha - 1 : st[x + 1] = "?" => ma <= x
  <2> HIDE DEF ha
  <2>1. /\ ma < ha => st[ma + 1] \in {"?"}
        /\ \A x \in bl + 1 .. (ha - 1) : st[x + 1] \in {"?"} => ma <= x
    BY <1>8, FirstFound DEF Mark, bl, ha
  <2> HIDE DEF ma
  <2> QED BY <2>1, Zenon
<1>12. /\ co < ma => st[co + 1] \notin SchemeByte
       /\ \A x \in bl + 1 .. ma - 1 : st[x + 1] \notin SchemeByte => co <= x
  <2> HIDE DEF ma
  <2>1. /\ co < ma => st[co + 1] \in Byte \ SchemeByte
        /\ \A x \in bl + 1 .. (ma - 1) : st[x + 1] \in Byte \ SchemeByte => co <= x
    BY <1>8, FirstFound DEF Colon, bl, ma
  <2> HIDE DEF co
  <2>2. \A x \in bl + 1 .. (ma - 1) : x \in 0 .. n - 1
    BY <1>1, <1>2, <1>3, <1>4, <1>7
  <2>3. \A x \in bl + 1 .. (ma - 1) : st[x + 1] \in Byte
    BY <1>0, <2>2, Zenon
  <2> QED BY <2>1, <2>3, Zenon
<1>13. /\ en < n => st[en + 1] \in {"\n", "\r"}
       /\ \A x \in to .. n - 1 : st[x + 1] \in {"\n", "\r"} => en <= x
  <2> HIDE DEF to
  <2> QED BY <1>2, <1>8, FirstFound DEF End, to, n
<1> HIDE DEF to, ha, ma, co, en
<1>14. bl < co /\ co <= ma /\ ma <= ha /\ ha <= to /\ to <= en /\ en <= n
  BY <1>2, <1>3, <1>4, <1>5, <1>6
<1> QED BY <1>7, <1>9, <1>10, <1>11, <1>12, <1>13, <1>14, Zenon DEF n, bl, to, ha, ma, co, en

-----------------------------------------------------------------------------
(* The bytes of a target, and what may go on inside an IP literal.         *)

Separator == {" ", "?", "#"}
Item == {"h16", "octet", "hex", "future", ":", "gap", "more", "]", ".", "v",
         "b2", "b3", "b4", "b5", "b6"}
Lasts == {"]", "more", "gap"}

LEMMA SchemeBytes ==
  /\ SchemeByte \subseteq SegmentNc /\ Alpha \subseteq SchemeByte
  /\ ":" \notin SchemeByte /\ "/" \notin SchemeByte /\ "%" \notin SchemeByte
BY DEF SchemeByte, SegmentNc, Reg, Unreserved, Alpha, Digit, Upper, Lower

LEMMA TargetBytes ==
  /\ Reg \subseteq SegmentNc /\ SegmentNc \subseteq Pchar
  /\ Digit \subseteq Reg /\ Alpha \subseteq Reg /\ XDigit \subseteq SegmentNc
  /\ ":" \notin SegmentNc
  /\ Separator \cap Pchar = {}
<1>1. Reg \subseteq SegmentNc /\ SegmentNc \subseteq Pchar
  BY DEF SegmentNc, Pchar
<1>2. Digit \subseteq Reg /\ Alpha \subseteq Reg
  BY DEF Reg, Unreserved
<1>3. XDigit \subseteq SegmentNc
  BY DEF XDigit, SegmentNc, Reg, Unreserved, Alpha, Upper, Lower
<1>4. ":" \notin SegmentNc
  BY DEF SegmentNc, Reg, Unreserved, Alpha, Digit, Upper, Lower
<1>5. Separator \cap Pchar = {}
  BY DEF Separator, Pchar, SegmentNc, Reg, Unreserved, Alpha, Digit, Upper, Lower
<1> QED BY <1>1, <1>2, <1>3, <1>4, <1>5

LEMMA ItemBytes ==
  /\ Separator \cap Item = {} /\ "h16" \notin Byte /\ "octet" \notin Byte
  /\ "hex" \notin Byte /\ "future" \notin Byte /\ "more" \notin Byte /\ "gap" \notin Byte
  /\ "x" \in Byte
BY DEF Separator, Item, Byte, Alpha, Upper, Lower, Digit, Control, Raw, Marks

\* A way for a literal to go on: what is to come ends at the bracket, or
\* where colons may follow.
Ends(todo) ==
  /\ todo \in Seq(Item) /\ todo # <<>> /\ todo[Len(todo)] \in Lasts
  /\ \A i \in 1 .. Len(todo) - 1 : todo[i] \notin Lasts

LEMMA EndsAfter ==
  ASSUME NEW f \in Seq(Item \ Lasts), NEW l, Ends(l)
  PROVE  Ends(f \o l)
<1> DEFINE n == Len(f)  k == Len(l)  s == f \o l
<1>1. n \in Nat /\ k \in Nat /\ k # 0
  BY LenProperties, EmptySeq DEF Ends
<1>2. f \in Seq(Item) /\ l \in Seq(Item)
  <2>1. f \in [1 .. n -> Item \ Lasts]
    BY LenProperties
  <2>2. f \in Seq(Item)
    BY <1>1, <2>1
  <2> QED BY <2>2 DEF Ends
<1>3. /\ s \in Seq(Item) /\ Len(s) = n + k
      /\ \A i \in 1 .. n + k : s[i] = IF i <= n THEN f[i] ELSE l[i - n]
  BY <1>2, ConcatProperties
<1>4. \A i \in 1 .. n : f[i] \in Item \ Lasts
  BY ElementOfSeq
<1>5. l[k] \in Lasts /\ \A i \in 1 .. k - 1 : l[i] \notin Lasts
  BY DEF Ends
<1> HIDE DEF n, k, s
<1>6. s # <<>>
  <2>1. Len(s) # 0
    BY <1>1, <1>3
  <2> QED BY <2>1
<1>7. s[Len(s)] \in Lasts
  <2> DEFINE j == n + k
  <2>1. j \in 1 .. n + k /\ ~(j <= n) /\ j - n = k
    BY <1>1
  <2>2. Len(s) = j
    BY <1>3
  <2> HIDE DEF j
  <2>3. s[j] = l[j - n]
    BY <2>1, <1>3
  <2> QED BY <2>1, <2>2, <2>3, <1>5
<1>8. ASSUME NEW i \in 1 .. Len(s) - 1 PROVE s[i] \notin Lasts
  <2>1. i \in 1 .. n + k
    BY <1>1, <1>3
  <2>2. CASE i <= n
    BY <2>1, <2>2, <1>1, <1>3, <1>4
  <2>3. CASE ~(i <= n)
    <3>1. i - n \in 1 .. k - 1
      BY <2>1, <2>3, <1>1, <1>3
    <3> QED BY <3>1, <2>1, <2>3, <1>3, <1>5
  <2> QED BY <2>2, <2>3
<1> QED BY <1>3, <1>6, <1>7, <1>8 DEF Ends, s

Open(a) ==
  /\ a = [todo |-> a.todo, seen |-> a.seen, groups |-> a.groups]
  /\ Ends(a.todo) /\ a.seen \in Seq(Byte)

LEMMA AlternativeOpen ==
  ASSUME NEW todo, NEW k, Ends(todo)
  PROVE  Open(Alternative(todo, k))
<1>1. <<>> \in Seq(Byte)
  OBVIOUS
<1> QED BY <1>1 DEF Open, Alternative

LEMMA BracketEnds == Ends(<<"]">>) /\ Ends(<<"gap">>) /\ Ends(<<"h16", "]">>) /\ Ends(<<"h16", "more">>)
BY DEF Ends, Item, Lasts

LEMMA Ls32Ends == \A l \in Ls32 : Ends(l)
<1>1. Ends(Pair \o <<"h16", "]">>)
  <2>1. Pair \in Seq(Item \ Lasts)
    BY DEF Pair, Item, Lasts
  <2> QED BY <2>1, BracketEnds, EndsAfter
<1>2. Ends(<<"octet", ".", "octet", ".", "octet", ".", "octet", "]">>)
  BY DEF Ends, Item, Lasts
<1> QED BY <1>1, <1>2 DEF Ls32

LEMMA RestEnds == \A k : \A r \in Rest(k) : Ends(r)
<1> SUFFICES ASSUME NEW k, NEW r \in Rest(k) PROVE Ends(r)
  OBVIOUS
<1>1. ASSUME NEW f \in Lead(k) PROVE f \in Seq(Item \ Lasts)
  <2>1. Pair \in Seq(Item \ Lasts) /\ <<>> \in Seq(Item \ Lasts)
    BY DEF Pair, Item, Lasts
  <2>2. /\ <<"b5">> \in Seq(Item \ Lasts) /\ <<"b4">> \in Seq(Item \ Lasts)
        /\ <<"b3">> \in Seq(Item \ Lasts) /\ <<"b2">> \in Seq(Item \ Lasts)
    BY DEF Item, Lasts
  <2>3. f \in {<<"b5">> \o Pair, <<"b4">> \o Pair, <<"b3">> \o Pair, <<"b2">> \o Pair, Pair, <<>>}
    <3> HIDE DEF Pair
    <3> QED BY DEF Lead
  <2> HIDE DEF Pair
  <2> QED BY <2>1, <2>2, <2>3, ConcatProperties
<1>2. CASE r \in {f \o l : f \in Lead(k), l \in Ls32}
  <2>1. PICK f \in Lead(k), l \in Ls32 : r = f \o l
    BY <1>2
  <2> QED BY <2>1, <1>1, Ls32Ends, EndsAfter
<1>3. CASE r \in {<<"h16", "]">>, <<"]">>}
  BY <1>3, BracketEnds
<1>4. r \in {f \o l : f \in Lead(k), l \in Ls32} \/ r \in {<<"h16", "]">>, <<"]">>}
  <2> DEFINE A == {f \o l : f \in Lead(k), l \in Ls32}
  <2>1. r \in A \cup (IF k \in {0, 6, 7} THEN {<<"h16", "]">>} ELSE {})
                \cup (IF k \in {0, 7} THEN {<<"]">>} ELSE {})
    BY DEF Rest
  <2> HIDE DEF A
  <2> QED BY <2>1 DEF A
<1> QED BY <1>2, <1>3, <1>4

LEMMA LiteralOpen == \A a \in Literal : Open(a)
<1>1. ASSUME NEW l \in Ls32 PROVE Ends(<<"b6">> \o Pair \o l)
  <2>1. Pair \in Seq(Item \ Lasts) /\ <<"b6">> \in Seq(Item \ Lasts)
    BY DEF Pair, Item, Lasts
  <2>2. <<"b6">> \o Pair \in Seq(Item \ Lasts)
    BY <2>1, ConcatProperties
  <2> QED BY <2>2, Ls32Ends, EndsAfter
<1>2. Ends(<<":", "gap">>) /\ Ends(<<"h16", "more">>)
  BY DEF Ends, Item, Lasts
<1>3. Ends(Future)
  BY DEF Ends, Item, Lasts, Future
<1> QED BY <1>1, <1>2, <1>3, AlternativeOpen, Zenon DEF Literal

\* The first of what is to come, and what comes after it.
LEMMA HeadOfEnds ==
  ASSUME NEW todo, Ends(todo)
  PROVE  Head(todo) \in Item /\ (Head(todo) \notin Lasts => Ends(Tail(todo)))
<1> DEFINE n == Len(todo)  t == Tail(todo)
<1>1. n \in Nat /\ n # 0
  BY EmptySeq, LenProperties DEF Ends
<1>2. /\ Head(todo) \in Item /\ t \in Seq(Item) /\ Len(t) = n - 1
      /\ \A i \in 1 .. n - 1 : t[i] = todo[i + 1]
  BY HeadTailProperties DEF Ends
<1>3. Head(todo) = todo[1]
  BY DEF Ends
<1>4. ASSUME Head(todo) \notin Lasts PROVE Ends(t)
  <2>1. n # 1
    BY <1>3, <1>4 DEF Ends
  <2>2. todo[n] \in Lasts /\ \A i \in 1 .. n - 1 : todo[i] \notin Lasts
    BY DEF Ends
  <2> HIDE DEF t, n
  <2>3. n - 1 \in 1 .. n - 1 /\ n - 1 + 1 = n
    BY <1>1, <2>1
  <2>4. t[n - 1] = todo[n]
    BY <1>2, <2>3
  <2>5. t # <<>>
    BY <1>1, <1>2, <2>1, <2>3, EmptySeq
  <2>6. ASSUME NEW i \in 1 .. n - 1 - 1 PROVE t[i] \notin Lasts
    <3>1. i \in 1 .. n - 1 /\ i + 1 \in 1 .. n - 1
      BY <1>1
    <3> QED BY <3>1, <1>2, <2>2
  <2> QED BY <1>2, <2>2, <2>4, <2>5, <2>6 DEF Ends
<1> QED BY <1>2, <1>4

LEMMA ShortSequences ==
  ASSUME NEW D
  PROVE  /\ \A d \in D : <<d>> \in Seq(D)
         /\ \A d, e \in D : <<d, e>> \in Seq(D)
         /\ \A d, e, f \in D : <<d, e, f>> \in Seq(D)
OBVIOUS

LEMMA OctetDigits ==
  ASSUME NEW s \in Seq(Byte), NEW c \in Byte, NEW o \in Octet,
         Len(Append(s, c)) <= Len(o), SubSeq(o, 1, Len(Append(s, c))) = Append(s, c)
  PROVE  c \in Digit
<1> DEFINE t == Append(s, c)  k == Len(s) + 1
<1>1. o \in Seq(Digit)
  <2>1. "1" \in Digit /\ "2" \in Digit /\ "0" \in Digit /\ "5" \in Digit
    BY DEF Digit
  <2>2. /\ \A d \in Digit : <<d>> \in Seq(Digit)
        /\ \A d, e \in Digit : <<d, e>> \in Seq(Digit)
        /\ \A d, e, f \in Digit : <<d, e, f>> \in Seq(Digit)
    BY ShortSequences
  <2> HIDE DEF Digit
  <2>3. CASE o \in {<<d>> : d \in Digit}
    <3>1. PICK d \in Digit : o = <<d>>
      BY <2>3
    <3> QED BY <2>2, <3>1, Zenon
  <2>4. CASE o \in {<<"1", d>> : d \in Digit}
    <3>1. PICK d \in Digit : o = <<"1", d>>
      BY <2>4
    <3> QED BY <2>1, <2>2, <3>1, Zenon
  <2>5. CASE o \in {<<"1", d, e>> : d \in Digit, e \in Digit}
    <3>1. PICK d \in Digit, e \in Digit : o = <<"1", d, e>>
      BY <2>5
    <3> QED BY <2>1, <2>2, <3>1, Zenon
  <2>6. CASE o \in {<<"2", "0", d>> : d \in Digit}
    <3>1. PICK d \in Digit : o = <<"2", "0", d>>
      BY <2>6
    <3> QED BY <2>1, <2>2, <3>1, Zenon
  <2>7. CASE o = <<"2", "5", "0">>
    BY <2>1, <2>2, <2>7, Zenon
  <2> QED BY <2>3, <2>4, <2>5, <2>6, <2>7 DEF Octet
<1>2. Len(t) = k /\ t[k] = c /\ k \in Nat /\ k # 0
  BY AppendProperties, LenProperties
<1>3. Len(o) \in Nat /\ \A i \in 1 .. Len(o) : o[i] \in Digit
  BY <1>1, LenProperties, ElementOfSeq
<1> HIDE DEF t, k
<1>4. SubSeq(o, 1, k)[k] = o[1 + k - 1]
  <2>1. 1 \in Int /\ k \in Int /\ k \in 1 .. k - 1 + 1 /\ \A i \in 1 .. k : o[i] \in Digit
    BY <1>2, <1>3 DEF t
  <2> QED BY <2>1, SubSeqProperties
<1>5. 1 + k - 1 \in 1 .. Len(o)
  BY <1>2, <1>3 DEF t
<1> QED BY <1>2, <1>3, <1>4, <1>5 DEF t

\* A byte that a run goes on with, or that comes next, is no separator.
LEMMA LongerOpen ==
  ASSUME NEW a, Open(a), NEW c \in Byte, NEW b \in Longer(a, c)
  PROVE  c \notin Separator /\ Open(b)
<1> DEFINE S == CASE Head(a.todo) = "h16" ->
                       IF c \in XDigit /\ Len(a.seen) < 4 THEN {Append(a.seen, "x")} ELSE {}
                  [] Head(a.todo) = "octet" ->
                       {s \in {Append(a.seen, c)} :
                           \E o \in Octet : Len(s) <= Len(o) /\ SubSeq(o, 1, Len(s)) = s}
                  [] Head(a.todo) = "hex" -> IF c \in XDigit THEN {<<"x">>} ELSE {}
                  [] Head(a.todo) = "future" -> IF c \in Reg \cup {":"} THEN {<<"x">>} ELSE {}
                  [] OTHER -> {}
<1>1. PICK s \in S : b = [a EXCEPT !.seen = s]
  BY DEF Longer
<1>2. a.seen \in Seq(Byte) /\ "x" \in Byte
  BY ItemBytes DEF Open
<1>3. Append(a.seen, c) \in Seq(Byte) /\ Append(a.seen, "x") \in Seq(Byte)
  BY <1>2, AppendProperties
<1>4. <<"x">> \in Seq(Byte)
  BY <1>2
<1>5. c \in Pchar \/ c = ":" => c \notin Separator
  BY TargetBytes DEF Separator
<1>6. CASE Head(a.todo) = "h16"
  <2>1. c \in XDigit /\ s = Append(a.seen, "x")
    BY <1>1, <1>6
  <2> QED BY <2>1, <1>1, <1>3, <1>5, TargetBytes DEF Open
<1>7. CASE Head(a.todo) = "octet"
  <2>1. s = Append(a.seen, c)
        /\ \E o \in Octet : Len(s) <= Len(o) /\ SubSeq(o, 1, Len(s)) = s
    BY <1>1, <1>7
  <2>2. c \in Digit
    BY <2>1, <1>2, OctetDigits
  <2> QED BY <2>1, <2>2, <1>1, <1>3, <1>5, TargetBytes DEF Open
<1>8. CASE Head(a.todo) = "hex"
  <2>1. c \in XDigit /\ s = <<"x">>
    BY <1>1, <1>8
  <2> QED BY <2>1, <1>1, <1>4, <1>5, TargetBytes DEF Open
<1>9. CASE Head(a.todo) = "future"
  <2>1. c \in Reg \cup {":"} /\ s = <<"x">>
    BY <1>1, <1>9
  <2> QED BY <2>1, <1>1, <1>4, <1>5, TargetBytes DEF Open
<1>10. Head(a.todo) \in {"h16", "octet", "hex", "future"}
  BY <1>1
<1> QED BY <1>6, <1>7, <1>8, <1>9, <1>10

LEMMA SingleOpen ==
  ASSUME NEW a, Open(a), NEW c \in Byte, NEW b \in Single(a, c)
  PROVE  c \notin Separator /\ (c # "]" => Open(b))
<1>1. Head(a.todo) \in Item /\ (Head(a.todo) \notin Lasts => Ends(Tail(a.todo)))
  BY HeadOfEnds DEF Open
<1>2. ":" \notin Separator
  BY DEF Separator
<1>3. CASE Head(a.todo) = "more" /\ c = ":"
  <2>1. \/ b = Alternative(<<"gap">>, a.groups)
        \/ b = Alternative(<<"h16", "more">>, IF a.groups < 7 THEN a.groups + 1 ELSE 7)
    BY <1>3 DEF Single
  <2> QED BY <2>1, <1>2, <1>3, BracketEnds, AlternativeOpen
<1>4. CASE Head(a.todo) = "gap" /\ c = ":"
  <2>1. PICK r \in Rest(a.groups) : b = Alternative(r, 0)
    BY <1>4 DEF Single
  <2> QED BY <2>1, <1>2, <1>4, RestEnds, AlternativeOpen
<1>5. CASE Head(a.todo) = c
  <2>1. b = Alternative(Tail(a.todo), a.groups)
    BY <1>5, ItemBytes DEF Single
  <2>2. c \notin Separator
    BY <1>1, <1>5, ItemBytes
  <2>3. c # "]" => c \notin Lasts
    BY ItemBytes DEF Lasts
  <2> QED BY <2>1, <2>2, <2>3, <1>1, <1>5, AlternativeOpen
<1>6. \/ Head(a.todo) = "more" /\ c = ":"
      \/ Head(a.todo) = "gap" /\ c = ":"
      \/ Head(a.todo) = c
  BY DEF Single
<1> QED BY <1>3, <1>4, <1>5, <1>6

LEMMA LiteralGoesOn ==
  ASSUME NEW left, \A a \in left : Open(a), NEW c \in Byte, NEW b \in LiteralStep(left, c)
  PROVE  c \notin Separator /\ (c # "]" => Open(b))
<1>1. PICK a \in left :
        b \in Longer(a, c) \cup Single(a, c)
                \cup (IF RunEnds(a) THEN Single(Alternative(Tail(a.todo), a.groups), c) ELSE {})
  BY DEF LiteralStep
<1>2. Open(a)
  OBVIOUS
<1>3. CASE b \in Longer(a, c)
  BY <1>2, <1>3, LongerOpen
<1>4. CASE b \in Single(a, c)
  BY <1>2, <1>4, SingleOpen
<1>5. CASE RunEnds(a) /\ b \in Single(Alternative(Tail(a.todo), a.groups), c)
  <2>1. Head(a.todo) \in {"octet", "h16", "hex", "future"}
    BY <1>5 DEF RunEnds
  <2>2. Head(a.todo) \notin Lasts
    BY <2>1 DEF Lasts
  <2>3. Open(Alternative(Tail(a.todo), a.groups))
    BY <1>2, <2>2, HeadOfEnds, AlternativeOpen DEF Open
  <2> QED BY <1>5, <2>3, SingleOpen
<1> QED BY <1>1, <1>3, <1>4, <1>5

-----------------------------------------------------------------------------
(* The moves of a request: where in the line each of them leads.           *)

\* Within a path: what the machine knows of the scheme.
WithinPath(x, c, y) ==
  /\ y \in PathNames \ {"target", "relative"} /\ c \notin Separator
  /\ x = "target" => \/ y = "scheme" /\ c \in SchemeByte
                     \/ y = "noscheme" /\ c # ":"
                     \/ y = "slash" /\ c = "/"
  /\ x = "scheme" => \/ y = "scheme" /\ c \in SchemeByte
                     \/ y = "noscheme" /\ c \notin SchemeByte /\ c # ":"
                     \/ y = "segments" /\ c = "/"
                     \/ y = "hier" /\ c = ":"
  /\ x = "noscheme" => \/ y = "noscheme" /\ c # ":"
                       \/ y = "segments" /\ c = "/"
  /\ x \notin {"target", "scheme", "noscheme", "relative"} =>
        y \notin {"target", "scheme", "hier", "noscheme"}

FromPath(j, x, c, y) ==
  \/ WithinPath(x, c, y)
  \/ x \in PathStates /\ IF j THEN y = "json"
                         ELSE \/ c = " " /\ y = "version"
                              \/ c = "?" /\ y = "query0"
                              \/ c = "#" /\ y = "fragment0"

Fits(j, x, n, c, y, k) ==
  /\ x = "start" => \/ y = "method" /\ c # " "
                    \/ y \in {"xml", "relative"}
  /\ x = "method" => \/ y = "method" /\ c # " "
                     \/ y = "target" /\ c = " "
  /\ x \in PathNames => FromPath(j, x, c, y)
  /\ x \in QueryStates => \/ y = "query" /\ c \notin {" ", "#"}
                          \/ c = " " /\ y = "version"
                          \/ c = "#" /\ y = "fragment0"
  /\ x \in FragmentStates => \/ y = "fragment" /\ c # " "
                             \/ c = " " /\ y = "version"
  /\ x = "version" => \/ y = "version" /\ k # 0 /\ c \notin {"\n", "\r"}
                      \/ y \in {"line", "cr"} /\ n # 0 /\ c \in {"\n", "\r"}
  /\ x # "version" /\ y = "version" => k = 0
  /\ x \in TailNames => y \in TailNames
  /\ x \in LostNames => y \in LostNames

FitsAll(j, S) == \A m \in S : \A c \in m[3] : Fits(j, m[1], m[2], c, m[4], m[5])

LEMMA FitsJoin ==
  ASSUME NEW j, NEW S, NEW T, FitsAll(j, S), FitsAll(j, T)
  PROVE  FitsAll(j, S \cup T)
BY DEF FitsAll

\* What there is to see of a move, for each kind of state it begins in.
LEMMA PathMoveFits ==
  ASSUME NEW j, NEW x \in PathNames, NEW n, NEW c, NEW y, NEW k, FromPath(j, x, c, y),
         y = "version" => k = 0
  PROVE  Fits(j, x, n, c, y, k)
BY DEF Fits, PathNames, PathStates, QueryStates, FragmentStates, TailNames, LostNames

LEMMA OtherMoveFits ==
  ASSUME NEW j, NEW x, NEW n, NEW c, NEW y, NEW k, x # "version" /\ y = "version" => k = 0,
         \/ x = "start" /\ y = "method" /\ c # " "
         \/ x = "start" /\ y \in {"xml", "relative"}
         \/ x = "method" /\ y = "method" /\ c # " "
         \/ x = "method" /\ y = "target" /\ c = " "
         \/ x \in QueryStates /\ y = "query" /\ c \notin {" ", "#"}
         \/ x \in QueryStates /\ c = " " /\ y = "version"
         \/ x \in QueryStates /\ c = "#" /\ y = "fragment0"
         \/ x \in FragmentStates /\ y = "fragment" /\ c # " "
         \/ x \in FragmentStates /\ c = " " /\ y = "version"
         \/ x = "version" /\ y = "version" /\ k # 0 /\ c \notin {"\n", "\r"}
         \/ x = "version" /\ y \in {"line", "cr"} /\ n # 0 /\ c \in {"\n", "\r"}
         \/ x \in TailNames /\ y \in TailNames
         \/ x \in LostNames /\ y \in LostNames
  PROVE  Fits(j, x, n, c, y, k)
BY DEF Fits, PathNames, PathStates, QueryStates, FragmentStates, TailNames, LostNames

Settled == {"slash", "segments", "slashes", "user", "port?", "at", "host", "port", "closed",
            "password", "literal"}

LEMMA WithinPathFits ==
  ASSUME NEW j, NEW x, NEW n, NEW c, NEW y, NEW k, c \notin Separator,
         \/ x = "target" /\ y = "scheme" /\ c \in SchemeByte
         \/ x = "target" /\ y = "noscheme" /\ c # ":"
         \/ x = "target" /\ y = "slash" /\ c = "/"
         \/ x = "scheme" /\ y = "scheme" /\ c \in SchemeByte
         \/ x = "scheme" /\ y = "noscheme" /\ c \notin SchemeByte /\ c # ":"
         \/ x = "scheme" /\ y = "segments" /\ c = "/"
         \/ x = "scheme" /\ y = "hier" /\ c = ":"
         \/ x = "noscheme" /\ y = "noscheme" /\ c # ":"
         \/ x = "noscheme" /\ y = "segments" /\ c = "/"
         \/ x = "relative" /\ y \in {"noscheme", "slash"}
         \/ x \in Settled \cup {"hier"} /\ y \in Settled
  PROVE  Fits(j, x, n, c, y, k)
<1>1. WithinPath(x, c, y)
  BY DEF WithinPath, PathNames, PathStates, Settled
<1>2. x \in PathNames /\ y # "version"
  BY DEF PathNames, PathStates, Settled
<1> QED BY <1>1, <1>2, PathMoveFits DEF FromPath

\* The bytes of a path, none of which is a separator.
LEMMA PathBytes ==
  /\ \A c \in Pchar \cup {"/", "[", "]", ":", "@", "%"} : c \notin Separator
  /\ \A c \in SegmentNc : c # ":"
  /\ \A c \in SchemeByte : c \in Pchar /\ c # ":"
  /\ Alpha \subseteq SchemeByte /\ Digit \subseteq Reg /\ Reg \subseteq SegmentNc
  /\ SegmentNc \subseteq Pchar /\ XDigit \subseteq SegmentNc
  /\ "/" \notin SchemeByte /\ "%" \notin SchemeByte
<1>1. \A c \in {"/", "[", "]", ":", "@", "%"} : c \notin Separator
  BY DEF Separator
<1> QED BY <1>1, SchemeBytes, TargetBytes

LEMMA StartFits == ASSUME NEW j PROVE FitsAll(j, StartMoves \cup MethodMoves)
<1>1. " " \notin Upper \cup Digit
  BY DEF Upper, Digit
<1>2. ASSUME NEW m \in StartMoves, NEW c \in m[3]
      PROVE  \/ m[1] = "start" /\ m[4] = "method" /\ c # " "
             \/ m[1] = "start" /\ m[4] \in {"xml", "relative"}
  <2>1. CASE m = <<"start", 0, Upper \cup Digit, "method", 1>>
    BY <1>1, <1>2, <2>1
  <2>2. CASE m = <<"start", 0, {"<"}, "xml", 0>>
    BY <2>2
  <2>3. CASE m = <<"start", 0, {"@"}, "relative", 0>>
    BY <2>3
  <2> QED BY <2>1, <2>2, <2>3 DEF StartMoves
<1>3. ASSUME NEW m \in MethodMoves, NEW c \in m[3]
      PROVE  \/ m[1] = "method" /\ m[4] = "method" /\ c # " "
             \/ m[1] = "method" /\ m[4] = "target" /\ c = " "
  <2>1. CASE m \in {<<"method", n, Upper \cup Digit, "method", n + 1>> : n \in 1 .. 19}
    <3>1. PICK n \in 1 .. 19 : m = <<"method", n, Upper \cup Digit, "method", n + 1>>
      BY <2>1
    <3>2. m[1] = "method" /\ m[3] = Upper \cup Digit /\ m[4] = "method"
      BY <3>1
    <3> QED BY <3>2, <1>1, <1>3
  <2>2. CASE m \in {<<"method", n, {" "}, "target", 0>> : n \in 1 .. 20}
    <3>1. PICK n \in 1 .. 20 : m = <<"method", n, {" "}, "target", 0>>
      BY <2>2
    <3>2. m[1] = "method" /\ m[3] = {" "} /\ m[4] = "target"
      BY <3>1
    <3> QED BY <3>2, <1>3
  <2> QED BY <2>1, <2>2 DEF MethodMoves
<1>4. FitsAll(j, StartMoves)
  BY <1>2, OtherMoveFits DEF FitsAll
<1>5. FitsAll(j, MethodMoves)
  BY <1>3, OtherMoveFits DEF FitsAll
<1> QED BY <1>4, <1>5, FitsJoin

LEMMA TargetFits == ASSUME NEW j PROVE FitsAll(j, TargetMoves \cup RelativeMoves)
<1>1. ASSUME NEW m \in TargetMoves \cup RelativeMoves, NEW c \in m[3]
      PROVE  \/ m[1] = "target" /\ m[4] = "scheme" /\ c \in Alpha
             \/ m[1] = "target" /\ m[4] = "noscheme" /\ c \in SegmentNc
             \/ m[1] = "target" /\ m[4] = "slash" /\ c = "/"
             \/ m[1] = "relative" /\ m[4] = "noscheme" /\ c \in SegmentNc
             \/ m[1] = "relative" /\ m[4] = "slash" /\ c = "/"
  BY <1>1 DEF TargetMoves, RelativeMoves
<1>2. ASSUME NEW m \in TargetMoves \cup RelativeMoves, NEW c \in m[3]
      PROVE  Fits(j, m[1], m[2], c, m[4], m[5])
  BY <1>1, <1>2, PathBytes, WithinPathFits
<1> QED BY <1>2 DEF FitsAll

LEMMA SchemeFits == ASSUME NEW j PROVE FitsAll(j, SchemeMoves \cup NoSchemeMoves)
<1>1. ASSUME NEW m \in SchemeMoves, NEW c \in m[3]
      PROVE  \/ m[1] = "scheme" /\ m[4] = "scheme" /\ c \in SchemeByte
             \/ m[1] = "scheme" /\ m[4] = "noscheme" /\ c \in SegmentNc /\ c \notin SchemeByte
             \/ m[1] = "scheme" /\ m[4] = "segments" /\ c = "/"
             \/ m[1] = "scheme" /\ m[4] = "hier" /\ c = ":"
             \/ m[1] = "hier" /\ m[4] = "segments" /\ c \in Pchar
             \/ m[1] = "hier" /\ m[4] = "slash" /\ c = "/"
  BY <1>1 DEF SchemeMoves, SchemeByte
<1>2. ASSUME NEW m \in NoSchemeMoves, NEW c \in m[3]
      PROVE  \/ m[1] = "noscheme" /\ m[4] = "noscheme" /\ c \in SegmentNc
             \/ m[1] = "noscheme" /\ m[4] = "segments" /\ c = "/"
  BY <1>2 DEF NoSchemeMoves
<1>3. "slash" \in Settled /\ "segments" \in Settled
  BY DEF Settled
<1>4. ASSUME NEW m \in SchemeMoves, NEW c \in m[3]
      PROVE  Fits(j, m[1], m[2], c, m[4], m[5])
  BY <1>1, <1>3, <1>4, PathBytes, WithinPathFits
<1>5. ASSUME NEW m \in NoSchemeMoves, NEW c \in m[3]
      PROVE  Fits(j, m[1], m[2], c, m[4], m[5])
  BY <1>2, <1>5, PathBytes, WithinPathFits
<1> QED BY <1>4, <1>5 DEF FitsAll

LEMMA SettledFits ==
  ASSUME NEW j
  PROVE  FitsAll(j, SlashMoves \cup SegmentMoves \cup UserMoves \cup PasswordMoves
                      \cup HostMoves \cup PortMoves \cup ClosedMoves)
<1> DEFINE S == SlashMoves \cup SegmentMoves \cup UserMoves \cup PasswordMoves
                  \cup HostMoves \cup PortMoves \cup ClosedMoves
           B == Pchar \cup {"/", "[", "]", ":", "@", "%"}
<1>1. Reg \subseteq B /\ Reg \ Digit \subseteq B /\ Digit \subseteq B /\ Pchar \subseteq B
      /\ "/" \in B /\ "[" \in B /\ ":" \in B /\ "@" \in B
  BY PathBytes
<1> HIDE DEF B
<1>2. ASSUME NEW m \in SlashMoves \cup SegmentMoves \cup PortMoves \cup ClosedMoves
      PROVE  m[1] \in Settled /\ m[4] \in Settled /\ m[3] \subseteq B
  BY <1>1 DEF SlashMoves, SegmentMoves, PortMoves, ClosedMoves, Settled
<1>3. ASSUME NEW m \in UserMoves
      PROVE  m[1] \in Settled /\ m[4] \in Settled /\ m[3] \subseteq B
  BY <1>1 DEF UserMoves, Settled
<1>4. ASSUME NEW m \in HostMoves
      PROVE  m[1] \in Settled /\ m[4] \in Settled /\ m[3] \subseteq B
  BY <1>1 DEF HostMoves, Settled
<1>5. ASSUME NEW m \in PasswordMoves
      PROVE  m[1] \in Settled /\ m[4] \in Settled /\ m[3] \subseteq B
  BY <1>1 DEF PasswordMoves, Settled
<1>6. \A c \in B : c \notin Separator
  BY PathBytes DEF B
<1>7. ASSUME NEW m \in S, NEW c \in m[3]
      PROVE  Fits(j, m[1], m[2], c, m[4], m[5])
  <2>1. m[1] \in Settled /\ m[4] \in Settled /\ m[3] \subseteq B
    BY <1>2, <1>3, <1>4, <1>5
  <2> QED BY <1>6, <1>7, <2>1, WithinPathFits
<1> QED BY <1>7 DEF FitsAll

LEMMA QueryFits == ASSUME NEW j PROVE FitsAll(j, QueryMoves \cup FragmentMoves)
<1>1. ASSUME NEW m \in QueryMoves
      PROVE  m[1] \in QueryStates /\ m[4] = "query" /\ m[3] = Pchar \cup {"/", "?"}
  BY DEF QueryMoves, QueryStates
<1>2. ASSUME NEW m \in FragmentMoves
      PROVE  m[1] \in FragmentStates /\ m[4] = "fragment" /\ m[3] = Pchar \cup {"/", "?"}
  BY DEF FragmentMoves, FragmentStates
<1>3. \A c \in Pchar \cup {"/", "?"} : c \notin {" ", "#"}
  BY TargetBytes DEF Separator
<1>4. ASSUME NEW m \in QueryMoves, NEW c \in m[3]
      PROVE  Fits(j, m[1], m[2], c, m[4], m[5])
  BY <1>1, <1>3, <1>4, OtherMoveFits
<1>5. ASSUME NEW m \in FragmentMoves, NEW c \in m[3]
      PROVE  Fits(j, m[1], m[2], c, m[4], m[5])
  BY <1>2, <1>3, <1>5, OtherMoveFits
<1> QED BY <1>4, <1>5 DEF FitsAll

\* Where an escape leads, and that it is no separator.
LEMMA EscapeFits == ASSUME NEW j PROVE FitsAll(j, EscapeMoves)
<1>1. \A a \in DOMAIN Escaped :
        \/ a \in {"target", "relative", "scheme", "noscheme"} /\ Escaped[a] = "noscheme"
        \/ a \in Settled \cup {"hier"} /\ Escaped[a] \in Settled
        \/ a \in QueryStates /\ Escaped[a] = "query"
        \/ a \in FragmentStates /\ Escaped[a] = "fragment"
  BY DEF Escaped, Settled, QueryStates, FragmentStates
<1>2. "%" \notin Separator /\ "%" \notin SchemeByte
  BY PathBytes
<1>3. \A c \in XDigit : c \notin Separator /\ c # ":"
  BY PathBytes
<1>4. ASSUME NEW a \in DOMAIN Escaped, NEW n
      PROVE  /\ Fits(j, a, n, "%", Escaped[a], 2)
             /\ \A c \in XDigit : \A k : Fits(j, Escaped[a], n, c, Escaped[a], k)
  <2>1. CASE a \in {"target", "relative", "scheme", "noscheme"} /\ Escaped[a] = "noscheme"
    BY <2>1, <1>2, <1>3, WithinPathFits
  <2>2. CASE a \in Settled \cup {"hier"} /\ Escaped[a] \in Settled
    BY <2>2, <1>2, <1>3, WithinPathFits
  <2>3. "query" \in QueryStates /\ "fragment" \in FragmentStates
    BY DEF QueryStates, FragmentStates
  <2>4. CASE a \in QueryStates /\ Escaped[a] = "query"
    BY <2>3, <2>4, <1>2, <1>3, OtherMoveFits DEF Separator
  <2>5. CASE a \in FragmentStates /\ Escaped[a] = "fragment"
    BY <2>3, <2>5, <1>2, <1>3, OtherMoveFits DEF Separator
  <2> QED BY <1>1, <2>1, <2>2, <2>4, <2>5
<1>5. ASSUME NEW m \in EscapeMoves, NEW c \in m[3]
      PROVE  Fits(j, m[1], m[2], c, m[4], m[5])
  <2>1. CASE m \in {<<a, 0, {"%"}, Escaped[a], 2>> : a \in DOMAIN Escaped}
    <3>1. PICK a \in DOMAIN Escaped : m = <<a, 0, {"%"}, Escaped[a], 2>>
      BY <2>1
    <3>2. m[1] = a /\ m[2] = 0 /\ m[3] = {"%"} /\ m[4] = Escaped[a] /\ m[5] = 2
      BY <3>1
    <3>3. c = "%"
      BY <1>5, <3>2
    <3> QED BY <3>2, <3>3, <1>4
  <2>2. CASE m \in {<<a, n, XDigit, a, n - 1>> :
                      a \in {Escaped[b] : b \in DOMAIN Escaped}, n \in {1, 2}}
    <3>1. PICK b \in DOMAIN Escaped, n \in {1, 2} :
            m = <<Escaped[b], n, XDigit, Escaped[b], n - 1>>
      BY <2>2
    <3>2. m[1] = Escaped[b] /\ m[3] = XDigit /\ m[4] = Escaped[b]
      BY <3>1
    <3> QED BY <3>2, <1>5, <1>4
  <2> QED BY <2>1, <2>2 DEF EscapeMoves
<1> QED BY <1>5 DEF FitsAll

LEMMA EndFits ==
  ASSUME NEW j \in BOOLEAN
  PROVE  FitsAll(j, IF j THEN JsonEndMoves ELSE EndMoves)
<1>1. ASSUME NEW m \in JsonEndMoves
      PROVE  m[1] \in PathStates /\ m[4] = "json" /\ m[3] = {" "}
  <2>1. PICK a \in PathStates : m = <<a, 0, {" "}, "json", 0>>
    BY DEF JsonEndMoves
  <2> QED BY <2>1
<1>2. ASSUME NEW m \in EndMoves
      PROVE  \/ m[1] \in PathStates \cup QueryStates \cup FragmentStates /\ m[3] = {" "}
                  /\ m[4] = "version" /\ m[5] = 0
             \/ m[1] \in PathStates \cup QueryStates /\ m[3] = {"#"} /\ m[4] = "fragment0"
             \/ m[1] \in PathStates /\ m[3] = {"?"} /\ m[4] = "query0"
  <2>1. CASE m \in {<<a, 0, {" "}, "version", 0>> :
                      a \in PathStates \cup QueryStates \cup FragmentStates}
    <3>1. PICK a \in PathStates \cup QueryStates \cup FragmentStates :
            m = <<a, 0, {" "}, "version", 0>>
      BY <2>1
    <3> QED BY <3>1
  <2>2. CASE m \in {<<a, 0, {"#"}, "fragment0", 0>> : a \in PathStates \cup QueryStates}
    <3>1. PICK a \in PathStates \cup QueryStates : m = <<a, 0, {"#"}, "fragment0", 0>>
      BY <2>2
    <3> QED BY <3>1
  <2>3. CASE m \in {<<a, 0, {"?"}, "query0", 0>> : a \in PathStates}
    <3>1. PICK a \in PathStates : m = <<a, 0, {"?"}, "query0", 0>>
      BY <2>3
    <3> QED BY <3>1
  <2> QED BY <2>1, <2>2, <2>3 DEF EndMoves
<1>3. PathStates \subseteq PathNames
  BY DEF PathNames
<1>4. ASSUME j, NEW m \in JsonEndMoves, NEW c \in m[3]
      PROVE  Fits(j, m[1], m[2], c, m[4], m[5])
  BY <1>1, <1>3, <1>4, PathMoveFits DEF FromPath
<1>5. ASSUME ~j, NEW m \in EndMoves, NEW c \in m[3]
      PROVE  Fits(j, m[1], m[2], c, m[4], m[5])
  <2>1. CASE m[1] \in PathStates
    <3>1. \/ c = " " /\ m[4] = "version" /\ m[5] = 0
          \/ c = "#" /\ m[4] = "fragment0"
          \/ c = "?" /\ m[4] = "query0"
      BY <1>2, <1>5
    <3> QED BY <2>1, <3>1, <1>3, <1>5, PathMoveFits DEF FromPath
  <2>2. CASE m[1] \notin PathStates
    <3>1. \/ m[1] \in QueryStates \cup FragmentStates /\ c = " " /\ m[4] = "version" /\ m[5] = 0
          \/ m[1] \in QueryStates /\ c = "#" /\ m[4] = "fragment0"
      BY <1>2, <1>5, <2>2
    <3> QED BY <3>1, OtherMoveFits
  <2> QED BY <2>1, <2>2
<1> QED BY <1>4, <1>5 DEF FitsAll

LEMMA VersionFits == ASSUME NEW j PROVE FitsAll(j, VersionMoves)
<1>1. ASSUME NEW m \in VersionMoves, NEW c \in m[3]
      PROVE  \/ m[1] = "version" /\ m[4] = "version" /\ m[5] # 0 /\ c \notin {"\n", "\r"}
             \/ m[1] = "version" /\ m[4] \in {"line", "cr"} /\ m[2] # 0 /\ c \in {"\n", "\r"}
  <2>1. CASE m \in {<<"version", n, {VersionText[n + 1]}, "version", n + 1>> : n \in 0 .. 6}
    <3>1. PICK n \in 0 .. 6 : m = <<"version", n, {VersionText[n + 1]}, "version", n + 1>>
      BY <2>1
    <3>2. m[1] = "version" /\ m[3] = {VersionText[n + 1]} /\ m[4] = "version" /\ m[5] = n + 1
      BY <3>1
    <3>3. \A i \in 1 .. 7 : VersionText[i] \notin {"\n", "\r"}
      BY DEF VersionText
    <3>4. n + 1 # 0 /\ n + 1 \in 1 .. 7
      OBVIOUS
    <3> QED BY <3>2, <3>3, <3>4, <1>1
  <2>2. CASE m \in {<<"version", 7, {"0", "1"}, "version", 8>>,
                    <<"version", 8, {"\n"}, "line", 0>>, <<"version", 8, {"\r"}, "cr", 0>>}
    BY <2>2, <1>1
  <2> QED BY <2>1, <2>2 DEF VersionMoves
<1>2. ASSUME NEW m \in VersionMoves, NEW c \in m[3]
      PROVE  Fits(j, m[1], m[2], c, m[4], m[5])
  BY <1>1, <1>2, OtherMoveFits
<1> QED BY <1>2 DEF FitsAll

LEMMA TailFits ==
  ASSUME NEW j
  PROVE  FitsAll(j, NameMoves \cup ValueMoves \cup BlankMoves \cup XmlMoves \cup JsonMoves)
<1>1. ASSUME NEW m \in NameMoves \cup ValueMoves \cup BlankMoves
      PROVE  m[1] \in TailNames /\ m[4] \in TailNames
  <2>1. CASE m \in NameMoves
    <3> DEFINE A == Token \ {"\n", "\r"}
    <3>1. m \in {<<"line", 0, A, "name", 0>>, <<"line", 0, {"\n"}, "done", 0>>,
                 <<"line", 0, {"\r"}, "line_cr", 0>>, <<"name", 0, Token, "name", 0>>,
                 <<"name", 0, {":"}, "colon", 0>>}
      BY <2>1 DEF NameMoves
    <3> HIDE DEF A
    <3> QED BY <3>1 DEF TailNames
  <2>2. CASE m \in ValueMoves
    <3> DEFINE A == {" ", "\t"}
               B == Byte \ {"NUL", "DEL", " ", "\t", "\n", "\r"}
               C == Byte \ {"NUL", "DEL", "\n", "\r"}
               D == {"\n"}
               E == {"\r"}
    <3>1. \/ m \in {<<"colon", 0, A, "colon", 0>>, <<"colon", 0, B, "value", 0>>,
                    <<"value", 0, C, "value", 0>>, <<"cr", 0, D, "line", 0>>}
          \/ m \in {<<a, 0, D, "line", 0>> : a \in {"colon", "value"}}
          \/ m \in {<<a, 0, E, "cr", 0>> : a \in {"colon", "value"}}
      BY <2>2, Zenon DEF ValueMoves
    <3> HIDE DEF A, B, C, D, E
    <3>2. CASE m \in {<<"colon", 0, A, "colon", 0>>, <<"colon", 0, B, "value", 0>>,
                      <<"value", 0, C, "value", 0>>, <<"cr", 0, D, "line", 0>>}
      BY <3>2 DEF TailNames
    <3>3. CASE m \in {<<a, 0, D, "line", 0>> : a \in {"colon", "value"}}
      BY <3>3 DEF TailNames
    <3>4. CASE m \in {<<a, 0, E, "cr", 0>> : a \in {"colon", "value"}}
      BY <3>4 DEF TailNames
    <3> QED BY <3>1, <3>2, <3>3, <3>4
  <2>3. CASE m \in BlankMoves
    <3> DEFINE D == Token \ {"\n"}
    <3>1. \/ m \in {<<"line_cr", 0, D, "name", 0>>, <<"line_cr", 0, {"\n"}, "done", 0>>,
                    <<"done", 0, Token, "name", 0>>}
          \/ m \in {<<a, 0, {":"}, "colon", 0>> : a \in {"line_cr", "done"}}
      BY <2>3, Zenon DEF BlankMoves
    <3> HIDE DEF D
    <3>2. CASE m \in {<<a, 0, {":"}, "colon", 0>> : a \in {"line_cr", "done"}}
      BY <3>2 DEF TailNames
    <3> QED BY <3>1, <3>2 DEF TailNames
  <2> QED BY <2>1, <2>2, <2>3
<1>2. ASSUME NEW m \in XmlMoves \cup JsonMoves
      PROVE  m[1] \in LostNames /\ m[4] \in LostNames
  <2>1. CASE m \in XmlMoves
    <3> DEFINE I == Alpha \cup Digit \cup {"-", "."}
               J == Byte \ {">"}
               K == Byte \ {">", "NUL"}
               T == {"\t", "\n", "VT", "\r", " ", "/", ">"}
    <3>1. \/ m \in {<<"xml", 0, I, "xml", 1>>, <<"xml", 1, I, "xml", 1>>,
                    <<"xml", 1, T, "xml_text", 0>>, <<"xml_text", 0, J, "xml_text", 0>>,
                    <<"xml_text", 1, K, "xml_text", 0>>, <<"xml_text", 1, {"NUL"}, "sent", 0>>}
          \/ m \in {<<"xml_text", n, {">"}, "xml_text", 1>> : n \in {0, 1}}
      BY <2>1, Zenon DEF XmlMoves
    <3> HIDE DEF I, J, K, T
    <3>2. CASE m \in {<<"xml_text", n, {">"}, "xml_text", 1>> : n \in {0, 1}}
      BY <3>2 DEF LostNames
    <3> QED BY <3>1, <3>2 DEF LostNames
  <2>2. CASE m \in JsonMoves
    <3> DEFINE I == {"{"}
               J == Byte \ {"}"}
               K == Byte \ {"}", "NUL"}
               N == {"NUL"}
               T == {"}"}
    <3>1. \/ m \in {<<"json", 0, I, "json_text", 0>>, <<"json_text", 0, J, "json_text", 0>>,
                    <<"json_text", 1, K, "json_text", 0>>, <<"json_text", 1, N, "sent", 0>>}
          \/ m \in {<<"json_text", n, T, "json_text", 1>> : n \in {0, 1}}
      BY <2>2, Zenon DEF JsonMoves
    <3> HIDE DEF I, J, K, N, T
    <3>2. CASE m \in {<<"json_text", n, T, "json_text", 1>> : n \in {0, 1}}
      BY <3>2 DEF LostNames
    <3> QED BY <3>1, <3>2 DEF LostNames
  <2> QED BY <2>1, <2>2
<1>3. "version" \notin TailNames \cup LostNames
  BY DEF TailNames, LostNames
<1>4. ASSUME NEW m \in NameMoves \cup ValueMoves \cup BlankMoves \cup XmlMoves \cup JsonMoves,
             NEW c \in m[3]
      PROVE  Fits(j, m[1], m[2], c, m[4], m[5])
  BY <1>1, <1>2, <1>3, OtherMoveFits
<1> QED BY <1>4 DEF FitsAll

\* Every move there is.
LEMMA MovesFit ==
  ASSUME NEW j \in BOOLEAN
  PROVE  FitsAll(j, Moves[j])
<1>1. Moves[j] = StartMoves \cup MethodMoves \cup UriMoves \cup VersionMoves \cup NameMoves
            \cup ValueMoves \cup BlankMoves \cup XmlMoves \cup JsonMoves
            \cup IF j THEN JsonEndMoves ELSE EndMoves
  BY DEF Moves
<1>2. FitsAll(j, UriMoves)
  BY TargetFits, SchemeFits, SettledFits, QueryFits, EscapeFits DEF UriMoves, FitsAll
<1> QED BY <1>1, <1>2, StartFits, VersionFits, TailFits, EndFits DEF FitsAll

-----------------------------------------------------------------------------
(* A step of the machine, of a request that may be split.                  *)

IsState(s) == s = [at |-> s.at, n |-> s.n, json |-> s.json, left |-> s.left] /\ s.json \in BOOLEAN

LEMMA StepFits ==
  ASSUME NEW s, IsState(s), \A a \in s.left : Open(a), NEW c \in Byte, NEW t,
         t = RequestStep(s, c), t # RequestError
  PROVE  /\ IsState(t) /\ \A a \in t.left : Open(a)
         /\ Fits(s.json, s.at, s.n, c, t.at, t.n)
         /\ t.json = (s.json \/ t.at = "relative")
<1>1. CASE s.at = "literal"
  <2> DEFINE left == LiteralStep(s.left, c)
  <2>1. left # {} /\ t = IF c = "]" THEN [s EXCEPT !.at = "closed", !.left = {}]
                         ELSE [s EXCEPT !.left = left]
    BY <1>1 DEF RequestStep, RequestError
  <2>2. c \notin Separator /\ (c # "]" => \A b \in left : Open(b))
    BY <2>1, LiteralGoesOn
  <2> HIDE DEF left
  <2>3. /\ t.at = IF c = "]" THEN "closed" ELSE "literal"
        /\ t.left = IF c = "]" THEN {} ELSE left
        /\ t.json = s.json
        /\ t = [at |-> t.at, n |-> t.n, json |-> t.json, left |-> t.left]
    <3> DEFINE u == [s EXCEPT !.at = "closed"]
    <3>1. CASE c = "]"
      <4>1. t = [u EXCEPT !.left = {}]
        BY <2>1, <3>1 DEF IsState
      <4>2. u = [at |-> "closed", n |-> s.n, json |-> s.json, left |-> s.left]
        BY DEF IsState
      <4> HIDE DEF u
      <4> QED BY <3>1, <4>1, <4>2
    <3>2. CASE c # "]"
      <4>1. t = [s EXCEPT !.left = left]
        BY <2>1, <3>2
      <4> QED BY <1>1, <3>2, <4>1 DEF IsState
    <3> QED BY <3>1, <3>2
  <2>4. IsState(t)
    BY <2>3 DEF IsState
  <2>5. "literal" \in Settled /\ "closed" \in Settled
    BY DEF Settled
  <2>6. Fits(s.json, s.at, s.n, c, t.at, t.n)
    BY <1>1, <2>2, <2>3, <2>5, WithinPathFits
  <2>7. \A a \in t.left : Open(a)
    BY <2>2, <2>3
  <2>8. s.json \in BOOLEAN /\ t.json = s.json /\ t.at # "relative"
    BY <2>3 DEF IsState
  <2>9. t.json = (s.json \/ t.at = "relative")
    BY <2>8
  <2> QED BY <2>4, <2>6, <2>7, <2>9
<1>2. CASE s.at # "literal"
  <2> DEFINE to == {m \in Moves[s.json] : m[1] = s.at /\ m[2] = s.n /\ c \in m[3]}
             m == CHOOSE m \in to : TRUE
  <2>1. to # {} /\ t = [at |-> m[4], n |-> m[5], json |-> s.json \/ m[4] = "relative",
                        left |-> IF m[4] = "literal" THEN Literal ELSE {}]
    BY <1>2 DEF RequestStep, RequestError
  <2>2. m \in to
    BY <2>1
  <2>3. m \in Moves[s.json] /\ m[1] = s.at /\ m[2] = s.n /\ c \in m[3]
    BY <2>2
  <2> HIDE DEF m, to
  <2>4. FitsAll(s.json, Moves[s.json])
    BY MovesFit DEF IsState
  <2>5. Fits(s.json, m[1], m[2], c, m[4], m[5])
    BY <2>3, <2>4 DEF FitsAll
  <2>6. /\ t.at = m[4] /\ t.n = m[5] /\ t.json = (s.json \/ m[4] = "relative")
        /\ t.left = IF m[4] = "literal" THEN Literal ELSE {}
        /\ t = [at |-> t.at, n |-> t.n, json |-> t.json, left |-> t.left]
    BY <2>1
  <2>7. t.json \in BOOLEAN
    BY <2>6
  <2> QED BY <2>3, <2>5, <2>6, <2>7, LiteralOpen DEF IsState
<1> QED BY <1>1, <1>2

-----------------------------------------------------------------------------
(* A byte of the line: where the separators are that it can be one of, and *)
(* what the machine marks and reports there.                               *)

LEMMA AtByte ==
  ASSUME NEW st \in Seq(Byte), Blank(st) < Len(st),
         NEW p \in Nat, Blank(st) < p, p < Len(st)
  PROVE  LET c == st[p + 1]  to == To(st)  ha == Hash(st)  ma == Mark(st)  co == Colon(st)  en == End(st)
         IN  /\ c = " " => to <= p
             /\ p = to => c = " "
             /\ p < to /\ c = "#" => ha <= p
             /\ p = ha /\ ha < to => c = "#"
             /\ p < ha /\ c = "?" => ma <= p
             /\ p = ma /\ ma < ha => c = "?"
             /\ p < ma /\ c \notin SchemeByte => co <= p
             /\ p = co /\ co < ma => c \notin SchemeByte
             /\ to <= p /\ c \in {"\n", "\r"} => en <= p
             /\ p = en => c \in {"\n", "\r"}
<1> DEFINE c == st[p + 1]  n == Len(st)  bl == Blank(st)  to == To(st)  ha == Hash(st)
           ma == Mark(st)  co == Colon(st)  en == End(st)
<1>1. {bl, to, ha, ma, co, en} \subseteq Nat /\ n \in Nat
  BY Separators
<1>2. /\ p = to => c = " "
      /\ p = ha /\ ha < to => c = "#"
      /\ p = ma /\ ma < ha => c = "?"
      /\ p = co /\ co < ma => c \notin SchemeByte
      /\ p = en => c \in {"\n", "\r"}
  <2>1. /\ to < n => st[to + 1] = " "
        /\ ha < to => st[ha + 1] = "#"
        /\ ma < ha => st[ma + 1] = "?"
        /\ co < ma => st[co + 1] \notin SchemeByte
        /\ en < n => st[en + 1] \in {"\n", "\r"}
    BY Separators
  <2> HIDE DEF n, to, ha, ma, co, en
  <2>2. p < n
    BY DEF n
  <2> QED BY <2>1, <2>2, Zenon
<1>3. /\ \A x \in bl + 1 .. n - 1 : st[x + 1] = " " => to <= x
      /\ \A x \in bl + 1 .. to - 1 : st[x + 1] = "#" => ha <= x
      /\ \A x \in bl + 1 .. ha - 1 : st[x + 1] = "?" => ma <= x
      /\ \A x \in bl + 1 .. ma - 1 : st[x + 1] \notin SchemeByte => co <= x
      /\ \A x \in to .. n - 1 : st[x + 1] \in {"\n", "\r"} => en <= x
  BY Separators
<1>4. bl < p /\ p < n
  OBVIOUS
<1> HIDE DEF n, bl, to, ha, ma, co, en
<1>5. /\ p \in bl + 1 .. n - 1
      /\ p < to => p \in bl + 1 .. to - 1
      /\ p < ha => p \in bl + 1 .. ha - 1
      /\ p < ma => p \in bl + 1 .. ma - 1
      /\ to <= p => p \in to .. n - 1
  BY <1>1, <1>4
<1>6. /\ c = " " => to <= p
      /\ p < to /\ c = "#" => ha <= p
      /\ p < ha /\ c = "?" => ma <= p
      /\ p < ma /\ c \notin SchemeByte => co <= p
      /\ to <= p /\ c \in {"\n", "\r"} => en <= p
  BY <1>3, <1>5, Zenon
<1> QED BY <1>2, <1>6 DEF to, ha, ma, co, en

\* Where the bytes that mark, begin a query, and the ends of the elements are.
Marking == {"start", "target", "hier", "fragment0", "colon", "json"}
MarkAt(s, m, p) == IF s.at \in Marking \/ (s.at = "version" /\ s.n = 0) THEN p ELSE m
QueryAt(s, q, p) == IF s.at = "query0" THEN p ELSE q

Said(kind, cond, i, j) == IF cond THEN {Part(kind, i, j)} ELSE {}

EndsMethod(x, y) == x = "method" /\ y = "target"
EndsPath(x, y) == \/ x \in PathStates /\ y \in {"version", "query0", "fragment0", "json"}
                  \/ x = "xml" /\ y = "xml_text"
EndsQuery(x, y) == x \in QueryStates /\ y \in {"version", "fragment0"}
EndsUri(x, y) == x \in PathStates \cup QueryStates /\ y \in {"version", "fragment0"}
EndsFragment(x, y) == x \in FragmentStates /\ y = "version"
EndsVersion(x, y) == x = "version" /\ y \in {"line", "cr"}

NewParts(x, y, m, q, p) ==
  Said("method", EndsMethod(x, y), m, p) \cup Said("path", EndsPath(x, y), m, p)
  \cup Said("query", EndsQuery(x, y), q, p) \cup Said("uri", EndsUri(x, y), m, p)
  \cup Said("fragment", EndsFragment(x, y), m, p) \cup Said("version", EndsVersion(x, y), m, p)

\* A line goes on: the machine's step from s to t on the byte at p.
Goes(st, s, t, m, q, p, G) ==
  OnLine(st, t, MarkAt(s, m, p), QueryAt(s, q, p), p + 1,
         G \cup NewParts(s.at, t.at, MarkAt(s, m, p), QueryAt(s, q, p), p))

\* Which of the elements end, for each kind of state.
LEMMA Ending ==
  ASSUME NEW x, NEW y, NEW m, NEW q, NEW p
  PROVE  LET new == NewParts(x, y, m, q, p)
         IN  /\ x = "start" => new = {}
             /\ x = "method" => new = Said("method", y = "target", m, p)
             /\ x \in PathStates =>
                  new = Said("path", y \in {"version", "query0", "fragment0", "json"}, m, p)
                          \cup Said("uri", y \in {"version", "fragment0"}, m, p)
             /\ x \in {"password", "literal"} => new = {}
             /\ x \in QueryStates =>
                  new = Said("query", y \in {"version", "fragment0"}, q, p)
                          \cup Said("uri", y \in {"version", "fragment0"}, m, p)
             /\ x \in FragmentStates => new = Said("fragment", y = "version", m, p)
             /\ x = "version" => new = Said("version", y \in {"line", "cr"}, m, p)
             /\ x \in TailNames => new = {}
BY DEF NewParts, Said, EndsMethod, EndsPath, EndsQuery, EndsUri, EndsFragment, EndsVersion,
   PathStates, QueryStates, FragmentStates, TailNames

-----------------------------------------------------------------------------
(* The line, byte by byte: one lemma for each of its parts.                *)

LEMMA OnLineCases ==
  ASSUME NEW st, NEW s, NEW m, NEW q, NEW p, NEW G, ~s.json
  PROVE  /\ s.at = "start" => (OnLine(st, s, m, q, p, G) <=> p = 0 /\ G = {})
         /\ s.at = "method" => (OnLine(st, s, m, q, p, G) <=> InMethod(st, m, p) /\ G = {})
         /\ s.at \in PathNames \ {"relative"} =>
              (OnLine(st, s, m, q, p, G) <=> InPath(st, s.at, m, p) /\ G = OfMethod(st))
         /\ s.at \in QueryStates =>
              (OnLine(st, s, m, q, p, G) <=> InQuery(st, s.at, m, q, p) /\ G = OfPath(st))
         /\ s.at \in FragmentStates =>
              (OnLine(st, s, m, q, p, G) <=> InFragment(st, s.at, m, p) /\ G = OfTarget(st))
         /\ s.at = "version" =>
              (OnLine(st, s, m, q, p, G) <=> InVersion(st, s.n, m, p) /\ G = OfUri(st))
         /\ s.at \in TailNames => (OnLine(st, s, m, q, p, G) <=> G = OfLine(st))
         /\ s.at \in LostNames => OnLine(st, s, m, q, p, G)
BY DEF OnLine, PathNames, PathStates, QueryStates, FragmentStates, TailNames, LostNames

\* The states a line that is neither lost nor a socket request's is in.
LEMMA OnLineStates ==
  ASSUME NEW st, NEW s, NEW m, NEW q, NEW p, NEW G, OnLine(st, s, m, q, p, G), ~s.json
  PROVE  \/ s.at \in {"start", "method", "version"} \cup QueryStates \cup FragmentStates
         \/ s.at \in PathNames \ {"relative"}
         \/ s.at \in TailNames \cup LostNames
BY DEF OnLine

\* The byte after a request's name: the target has begun.
LEMMA BlankFound ==
  ASSUME NEW st \in Seq(Byte), NEW p \in Nat, p < Len(st), p <= Blank(st)
  PROVE  /\ st[p + 1] = " " => p = Blank(st)
         /\ st[p + 1] # " " => p < Blank(st)
<1> DEFINE bl == Blank(st)
<1>1. Len(st) \in Nat
  BY LenProperties
<1>2. /\ bl \in Nat /\ bl <= Len(st)
      /\ bl < Len(st) => st[bl + 1] \in {" "}
      /\ \A x \in 0 .. (Len(st) - 1) : st[x + 1] \in {" "} => bl <= x
  <2>1. 0 \in Nat /\ Len(st) \in Int /\ 0 <= Len(st)
    BY <1>1
  <2> QED BY <2>1, FirstFound DEF Blank
<1> HIDE DEF bl
<1>3. p \in 0 .. (Len(st) - 1) /\ p <= bl
  BY <1>1 DEF bl
<1>4. st[p + 1] = " " => bl <= p
  BY <1>2, <1>3, Zenon
<1>5. p = bl => st[p + 1] = " "
  <2>1. p < Len(st)
    OBVIOUS
  <2> QED BY <1>2, <2>1, Zenon
<1>6. p \in Nat /\ bl \in Nat /\ p <= bl
  BY <1>2, <1>3
<1> DEFINE c == st[p + 1]
<1>7. (c = " " => bl <= p) /\ (p = bl => c = " ")
  BY <1>4, <1>5
<1> HIDE DEF c
<1>8. (p = bl \/ p < bl) /\ (bl <= p => p = bl)
  BY <1>6
<1>9. (c = " " => p = bl) /\ (c # " " => p < bl)
  BY <1>7, <1>8, Zenon
<1> QED BY <1>9 DEF bl, c

LEMMA MethodGoes ==
  ASSUME NEW st \in Seq(Byte), NEW p \in Nat, p < Len(st), NEW s, NEW t, NEW m, NEW q, NEW G,
         ~s.json, ~t.json, s.at \in {"start", "method"}, t.at \in {"method", "target"},
         OnLine(st, s, m, q, p, G), Fits(FALSE, s.at, s.n, st[p + 1], t.at, t.n)
  PROVE  Goes(st, s, t, m, q, p, G)
<1> DEFINE c == st[p + 1]  k == MarkAt(s, m, p)  new == NewParts(s.at, t.at, k, QueryAt(s, q, p), p)
<1>1. /\ s.at = "start" => t.at = "method" /\ c # " "
      /\ s.at = "method" => \/ t.at = "method" /\ c # " "
                            \/ t.at = "target" /\ c = " "
  BY DEF Fits
<1>2. s.at = "start" => p = 0 /\ G = {} /\ k = p
  BY OnLineCases DEF MarkAt, Marking
<1>3. s.at = "method" => InMethod(st, m, p) /\ G = {} /\ k = m
  BY OnLineCases DEF MarkAt, Marking
<1>4. Blank(st) \in Nat /\ Blank(st) <= Len(st) /\ Len(st) \in Nat
  <2>1. 0 \in Nat /\ Len(st) \in Nat /\ Len(st) \in Int /\ 0 <= Len(st)
    BY LenProperties
  <2>2. Blank(st) \in Nat /\ Blank(st) <= Len(st)
    BY <2>1, FirstFound DEF Blank
  <2> QED BY <2>1, <2>2
<1>5. p <= Blank(st) /\ k = 0 /\ G = {}
  BY <1>2, <1>3, <1>4 DEF InMethod
<1>6. (c = " " => p = Blank(st)) /\ (c # " " => p < Blank(st))
  BY <1>5, BlankFound
<1>7. new = Said("method", t.at = "target", k, p)
  <2>1. s.at = "start" => new = {} /\ t.at # "target"
    BY <1>1, Ending
  <2>2. s.at = "method" => new = Said("method", t.at = "target", k, p)
    BY Ending
  <2> QED BY <2>1, <2>2 DEF Said
<1> HIDE DEF c, k, new
<1>8. CASE t.at = "method"
  <2>1. c # " " /\ new = {}
    BY <1>1, <1>7, <1>8 DEF Said
  <2>2. InMethod(st, k, p + 1)
    <3>1. k = 0 /\ p \in Nat /\ Blank(st) \in Nat /\ p < Blank(st)
      BY <1>4, <1>5, <1>6, <2>1
    <3> QED BY <3>1 DEF InMethod
  <2>3. OnLine(st, t, k, QueryAt(s, q, p), p + 1, G \cup new)
    <3>1. G \cup new = {}
      BY <1>5, <2>1
    <3> QED BY <1>8, <2>2, <3>1, OnLineCases
  <2> QED BY <2>3 DEF Goes, k, new
<1>9. CASE t.at = "target"
  <2>1. c = " " /\ new = {Part("method", k, p)}
    BY <1>1, <1>7, <1>9 DEF Said
  <2>2. p = Blank(st) /\ p < Len(st)
    BY <1>6, <2>1
  <2>3. G \cup new = OfMethod(st)
    BY <1>5, <2>1, <2>2 DEF OfMethod
  <2>4. /\ {Blank(st), Colon(st), Mark(st)} \subseteq Nat
        /\ Blank(st) < Colon(st) /\ Colon(st) <= Mark(st)
    BY <2>2, Separators
  <2>5. InPath(st, t.at, k, p + 1)
    BY <1>9, <2>2, <2>4 DEF InPath
  <2>6. t.at \in PathNames \ {"relative"}
    BY <1>9 DEF PathNames, PathStates
  <2>7. OnLine(st, t, k, QueryAt(s, q, p), p + 1, G \cup new)
    BY <2>3, <2>5, <2>6, OnLineCases
  <2> QED BY <2>7 DEF Goes, k, new
<1> QED BY <1>8, <1>9

\* Within the path.
LEMMA PathGoes ==
  ASSUME NEW st \in Seq(Byte), NEW p \in Nat, p < Len(st), NEW s, NEW t, NEW m, NEW q, NEW G,
         ~s.json, ~t.json, s.at \in PathNames \ {"relative"},
         WithinPath(s.at, st[p + 1], t.at), OnLine(st, s, m, q, p, G)
  PROVE  Goes(st, s, t, m, q, p, G)
<1> DEFINE c == st[p + 1]  k == MarkAt(s, m, p)  new == NewParts(s.at, t.at, k, QueryAt(s, q, p), p)
           bl == Blank(st)  ma == Mark(st)  co == Colon(st)  x == s.at  y == t.at
<1>1. InPath(st, x, m, p) /\ G = OfMethod(st)
  BY OnLineCases
<1>2. bl < Len(st) /\ bl < p /\ p <= ma
  BY <1>1 DEF InPath
<1>3. /\ bl \in Nat /\ co \in Nat /\ ma \in Nat /\ Hash(st) \in Nat /\ To(st) \in Nat
      /\ bl < co /\ co <= ma /\ ma <= Hash(st) /\ Hash(st) <= To(st)
  <2>1. /\ {bl, To(st), Hash(st), ma, co, End(st)} \subseteq Nat
        /\ bl < co /\ co <= ma /\ ma <= Hash(st) /\ Hash(st) <= To(st)
    BY <1>2, Separators
  <2> QED BY <2>1
<1>4. /\ p = To(st) => c = " "
      /\ p = Hash(st) /\ Hash(st) < To(st) => c = "#"
      /\ p = ma /\ ma < Hash(st) => c = "?"
      /\ p < ma /\ c \notin SchemeByte => co <= p
      /\ p = co /\ co < ma => c \notin SchemeByte
  BY <1>2, AtByte
<1>5. c # " " /\ c # "?" /\ c # "#" /\ t.at \in PathNames \ {"target", "relative"}
  BY DEF WithinPath, Separator
<1> HIDE DEF c
<1>6. p < ma
  <2>1. p # To(st) /\ ~(p = Hash(st) /\ Hash(st) < To(st)) /\ ~(p = ma /\ ma < Hash(st))
    BY <1>4, <1>5, Zenon
  <2> QED BY <1>2, <1>3, <2>1
<1>7. k = IF x \in {"target", "hier"} THEN p ELSE m
  <2>1. x \notin Marking \ {"target", "hier"} /\ x # "version"
    BY DEF PathNames, PathStates, Marking
  <2> QED BY <2>1 DEF MarkAt, Marking
<1>8. G \cup new = OfMethod(st)
  <2>1. y \notin {"version", "query0", "fragment0", "json"}
    BY <1>5 DEF PathNames, PathStates
  <2>2. x \in PathStates \/ x \in {"password", "literal"}
    BY DEF PathNames
  <2>3. new = {}
    BY <2>1, <2>2, Ending DEF Said
  <2> QED BY <1>1, <2>3
<1> HIDE DEF k, new, bl, ma, co
<1>9. c = ":" => c \notin SchemeByte
  BY SchemeBytes
<1>10. c = "/" => c \notin SchemeByte /\ c # ":"
  BY SchemeBytes
<1> DEFINE d == st[co + 1]  from == From(st)
<1>11. p = co => c = d
  BY DEF c
<1>12. from = IF co < ma /\ d = ":" THEN co + 1 ELSE bl + 1
  BY DEF From, co, ma, bl
<1>13. /\ x = "target" => p = bl + 1
       /\ x = "scheme" => p <= co /\ m = bl + 1
       /\ x = "hier" => p = co + 1 /\ co < ma /\ st[p] = ":"
       /\ x = "noscheme" => m = bl + 1 /\ (co < p => d # ":")
       /\ x \notin {"target", "scheme", "hier", "noscheme"} => co < p /\ m = from
  BY <1>1 DEF InPath, bl, co, ma
<1>14. x = "hier" => d = ":"
  BY <1>13
<1>15. WithinPath(x, c, y)
  BY DEF c
<1> HIDE DEF d, from, x, y
<1> DEFINE Now ==
      /\ y = "scheme" => p + 1 <= co /\ k = bl + 1
      /\ y = "hier" => p = co /\ c = ":"
      /\ y = "noscheme" => k = bl + 1 /\ (co < p + 1 => d # ":")
      /\ y \notin {"scheme", "hier", "noscheme"} => co < p + 1 /\ k = from
<1>16. Now
  <2>0. bl \in Nat /\ co \in Nat /\ ma \in Nat /\ bl < co /\ co <= ma /\ bl < p /\ p < ma
    BY <1>2, <1>3, <1>6
  <2>01. /\ c \notin SchemeByte => co <= p
         /\ p = co => c \notin SchemeByte
    BY <1>4, <1>6
  <2>1. CASE x = "target"
    <3>0. p = bl + 1 /\ k = bl + 1
      BY <1>7, <1>13, <2>1
    <3>1. CASE y = "scheme" /\ c \in SchemeByte
      BY <2>0, <2>01, <3>0, <3>1
    <3>2. CASE y = "noscheme" /\ c # ":"
      BY <1>11, <2>0, <3>0, <3>2
    <3>3. CASE y = "slash" /\ c = "/"
      <4>1. p = co /\ d # ":"
        BY <1>10, <1>11, <2>0, <2>01, <3>0, <3>3
      <4> QED BY <1>12, <2>0, <3>0, <3>3, <4>1
    <3> QED BY <1>15, <2>1, <3>1, <3>2, <3>3 DEF WithinPath
  <2>2. CASE x = "scheme"
    <3>0. p <= co /\ m = bl + 1 /\ k = bl + 1
      BY <1>7, <1>13, <2>2
    <3>1. CASE y = "scheme" /\ c \in SchemeByte
      BY <2>0, <2>01, <3>0, <3>1
    <3>2. CASE y = "noscheme" /\ c \notin SchemeByte /\ c # ":"
      BY <1>11, <2>0, <2>01, <3>0, <3>2
    <3>3. CASE y = "segments" /\ c = "/"
      <4>1. p = co /\ d # ":"
        BY <1>10, <1>11, <2>0, <2>01, <3>0, <3>3
      <4> QED BY <1>12, <2>0, <3>0, <3>3, <4>1
    <3>4. CASE y = "hier" /\ c = ":"
      BY <1>9, <2>0, <2>01, <3>0, <3>4
    <3> QED BY <1>15, <2>2, <3>1, <3>2, <3>3, <3>4 DEF WithinPath
  <2>3. CASE x = "noscheme"
    <3>0. m = bl + 1 /\ k = bl + 1 /\ (co < p => d # ":")
      BY <1>7, <1>13, <2>3
    <3>1. CASE y = "noscheme" /\ c # ":"
      BY <1>11, <2>0, <3>0, <3>1
    <3>2. CASE y = "segments" /\ c = "/"
      <4>1. co <= p /\ d # ":"
        BY <1>10, <1>11, <2>0, <2>01, <3>0, <3>2
      <4> QED BY <1>12, <2>0, <3>0, <3>2, <4>1
    <3> QED BY <1>15, <2>3, <3>1, <3>2 DEF WithinPath
  <2>4. CASE x \notin {"target", "scheme", "noscheme"}
    <3>1. y \notin {"target", "scheme", "hier", "noscheme"}
      BY <1>5, <1>15, <2>4 DEF WithinPath, x
    <3>2. CASE x = "hier"
      <4>1. p = co + 1 /\ co < ma /\ d = ":" /\ k = p
        BY <1>7, <1>13, <1>14, <3>2
      <4> QED BY <1>12, <2>0, <3>1, <4>1
    <3>3. CASE x # "hier"
      <4>1. co < p /\ k = from
        BY <1>7, <1>13, <2>4, <3>3
      <4> QED BY <2>0, <3>1, <4>1
    <3> QED BY <3>2, <3>3
  <2> QED BY <2>1, <2>2, <2>3, <2>4
<1>17. InPath(st, y, k, p + 1)
  <2>1. /\ bl < Len(st) /\ bl < p + 1 /\ p + 1 <= ma
        /\ y = "hier" => p + 1 = co + 1 /\ co < ma /\ st[p + 1] = ":"
    BY <1>2, <1>3, <1>6, <1>16 DEF c
  <2>2. y # "target"
    BY <1>5 DEF y
  <2> QED BY <2>1, <2>2, <1>16 DEF InPath, bl, co, ma, d, from
<1>18. OnLine(st, t, k, QueryAt(s, q, p), p + 1, G \cup new)
  BY <1>5, <1>8, <1>17, OnLineCases DEF y
<1> QED BY <1>18 DEF Goes, k, new

-----------------------------------------------------------------------------
(* The ends of a path, of a query, of a fragment and of a version.         *)

\* The order of the separators, in numbers.
LEMMA Places5 ==
  ASSUME NEW st \in Seq(Byte), Blank(st) < Len(st)
  PROVE  /\ Blank(st) \in Nat /\ Colon(st) \in Nat /\ Mark(st) \in Nat
         /\ Hash(st) \in Nat /\ To(st) \in Nat /\ End(st) \in Nat
         /\ Blank(st) < Colon(st) /\ Colon(st) <= Mark(st) /\ Mark(st) <= Hash(st)
         /\ Hash(st) <= To(st) /\ To(st) <= End(st)
<1>1. /\ {Blank(st), To(st), Hash(st), Mark(st), Colon(st), End(st)} \subseteq Nat
      /\ Blank(st) < Colon(st) /\ Colon(st) <= Mark(st) /\ Mark(st) <= Hash(st)
      /\ Hash(st) <= To(st) /\ To(st) <= End(st)
  BY Separators
<1> QED BY <1>1

\* Where a path ends, its beginning has been marked.
LEMMA PathMarked ==
  ASSUME NEW st \in Seq(Byte), NEW x, NEW m, NEW p \in Nat, NEW k, InPath(st, x, m, p),
         p = Mark(st), k = IF x \in {"target", "hier"} THEN p ELSE m
  PROVE  k = From(st)
<1> DEFINE bl == Blank(st)  co == Colon(st)  d == st[co + 1]  from == From(st)
<1>1. bl \in Nat /\ co \in Nat /\ bl < co /\ co <= p
  BY Places5 DEF InPath
<1>2. from = IF co < p /\ d = ":" THEN co + 1 ELSE bl + 1
  BY DEF From
<1>3. /\ x = "target" => p = bl + 1
      /\ x = "scheme" => p <= co /\ m = bl + 1
      /\ x = "hier" => p = co + 1 /\ co < p /\ st[p] = ":"
      /\ x = "noscheme" => m = bl + 1 /\ (co < p => d # ":")
      /\ x \notin {"target", "scheme", "hier", "noscheme"} => m = from
  BY DEF InPath
<1>4. x = "hier" => d = ":"
  BY <1>3
<1> HIDE DEF bl, co, d, from
<1>5. CASE x = "target"
  <2>1. k = p /\ p = bl + 1 /\ ~(co < p)
    BY <1>1, <1>3, <1>5
  <2> QED BY <1>2, <2>1 DEF from
<1>6. CASE x = "scheme"
  <2>1. k = bl + 1 /\ ~(co < p)
    BY <1>1, <1>3, <1>6
  <2> QED BY <1>2, <2>1 DEF from
<1>7. CASE x = "hier"
  BY <1>2, <1>3, <1>4, <1>7 DEF from
<1>8. CASE x = "noscheme"
  BY <1>2, <1>3, <1>8 DEF from
<1>9. CASE x \notin {"target", "scheme", "hier", "noscheme"}
  BY <1>3, <1>9 DEF from
<1> QED BY <1>5, <1>6, <1>7, <1>8, <1>9

\* The second blank is followed by the version.
LEMMA VersionBegins ==
  ASSUME NEW st \in Seq(Byte), NEW p \in Nat, p < Len(st), Blank(st) < Len(st), Blank(st) < p,
         p = To(st), NEW k
  PROVE  InVersion(st, 0, k, p + 1)
<1>1. st[p + 1] = " "
  BY AtByte
<1>2. st[p + 1] \notin {"\n", "\r"}
  BY <1>1
<1>3. p # End(st)
  BY <1>2, AtByte
<1>4. To(st) \in Nat /\ End(st) \in Nat /\ To(st) <= End(st)
  BY Places5
<1> QED BY <1>3, <1>4 DEF InVersion

\* How a path ends, and how a query goes on or ends.
PathEndsOn(c, t) == \/ c = " " /\ t.at = "version" /\ t.n = 0
                    \/ c = "?" /\ t.at = "query0"
                    \/ c = "#" /\ t.at = "fragment0"
QueryGoesOn(c, t) == \/ c \notin {" ", "#"} /\ t.at = "query"
                     \/ c = " " /\ t.at = "version" /\ t.n = 0
                     \/ c = "#" /\ t.at = "fragment0"
FragmentGoesOn(c, t) == \/ c # " " /\ t.at = "fragment"
                        \/ c = " " /\ t.at = "version" /\ t.n = 0
VersionGoesOn(c, s, t) == \/ c \notin {"\n", "\r"} /\ t.at = "version" /\ t.n # 0
                          \/ c \in {"\n", "\r"} /\ t.at \in {"line", "cr"} /\ s.n # 0

LEMMA PathEnds ==
  ASSUME NEW st \in Seq(Byte), NEW p \in Nat, p < Len(st), NEW s, NEW t, NEW m, NEW q, NEW G,
         ~s.json, ~t.json, s.at \in PathStates \ {"relative"}, OnLine(st, s, m, q, p, G),
         PathEndsOn(st[p + 1], t)
  PROVE  Goes(st, s, t, m, q, p, G)
<1> DEFINE c == st[p + 1]  k == MarkAt(s, m, p)  i == QueryAt(s, q, p)
           new == NewParts(s.at, t.at, k, i, p)
           ma == Mark(st)  ha == Hash(st)  to == To(st)
<1>1. InPath(st, s.at, m, p) /\ G = OfMethod(st)
  <2>1. s.at \in PathNames \ {"relative"}
    BY DEF PathNames
  <2> QED BY <2>1, OnLineCases
<1>2. Blank(st) < Len(st) /\ Blank(st) < p /\ p <= ma
  BY <1>1 DEF InPath
<1>3. ma \in Nat /\ ha \in Nat /\ to \in Nat /\ ma <= ha /\ ha <= to
  BY <1>2, Places5
<1>4. /\ c = " " => to <= p
      /\ p = to => c = " "
      /\ p < to /\ c = "#" => ha <= p
      /\ p = ha /\ ha < to => c = "#"
      /\ p < ha /\ c = "?" => ma <= p
  BY <1>2, AtByte
<1>5. k = IF s.at \in {"target", "hier"} THEN p ELSE m
  <2>1. s.at \notin Marking \ {"target", "hier"} /\ s.at # "version"
    BY DEF PathStates, Marking
  <2> QED BY <2>1 DEF MarkAt, Marking
<1>6. new = Said("path", t.at \in {"version", "query0", "fragment0", "json"}, k, p)
              \cup Said("uri", t.at \in {"version", "fragment0"}, k, p)
  BY Ending
<1>7. p = ma => k = From(st)
  BY <1>1, <1>5, PathMarked
<1> HIDE DEF c, k, i, new
<1>8. CASE c = " " /\ t.at = "version" /\ t.n = 0
  <2>1. to <= p
    BY <1>4, <1>8
  <2>2. p = to /\ p = ha /\ p = ma
    BY <1>2, <1>3, <2>1
  <2>3. new = {Part("path", From(st), ma), Part("uri", From(st), ha)}
    BY <1>6, <1>7, <1>8, <2>2 DEF Said
  <2>4. ~(ma < ha) /\ ~(ha < to)
    BY <1>3, <2>2
  <2>5. G \cup new = OfUri(st)
    BY <1>1, <2>3, <2>4 DEF OfUri, OfTarget, OfPath
  <2>6. InVersion(st, t.n, k, p + 1)
    BY <1>2, <1>8, <2>2, VersionBegins
  <2>7. OnLine(st, t, k, i, p + 1, G \cup new)
    BY <1>8, <2>5, <2>6, OnLineCases
  <2> QED BY <2>7 DEF Goes, k, i, new
<1>9. CASE c = "?" /\ t.at = "query0"
  <2>1. p # to /\ ~(p = ha /\ ha < to)
    BY <1>4, <1>9
  <2>2. p < ha
    BY <1>2, <1>3, <2>1
  <2>3. p = ma
    <3>1. ma <= p
      BY <1>4, <1>9, <2>2
    <3> QED BY <1>2, <1>3, <3>1
  <2>4. new = {Part("path", From(st), ma)}
    BY <1>6, <1>7, <1>9, <2>3 DEF Said
  <2>5. G \cup new = OfPath(st)
    BY <1>1, <2>4 DEF OfPath
  <2>6. InQuery(st, t.at, k, i, p + 1)
    <3>1. ma < p + 1 /\ p + 1 <= ha /\ p + 1 = ma + 1
      BY <1>3, <2>2, <2>3
    <3> QED BY <1>2, <1>7, <1>9, <2>3, <3>1 DEF InQuery
  <2>7. OnLine(st, t, k, i, p + 1, G \cup new)
    <3>1. t.at \in QueryStates
      BY <1>9 DEF QueryStates
    <3> QED BY <3>1, <2>5, <2>6, OnLineCases
  <2> QED BY <2>7 DEF Goes, k, i, new
<1>10. CASE c = "#" /\ t.at = "fragment0"
  <2>1. p # to
    BY <1>4, <1>10
  <2>2. p < to
    BY <1>2, <1>3, <2>1
  <2>3. ha <= p
    BY <1>4, <1>10, <2>2
  <2>4. p = ha /\ p = ma
    BY <1>2, <1>3, <2>3
  <2>5. new = {Part("path", From(st), ma), Part("uri", From(st), ha)}
    BY <1>6, <1>7, <1>10, <2>4 DEF Said
  <2>6. ~(ma < ha)
    BY <1>3, <2>4
  <2>7. G \cup new = OfTarget(st)
    BY <1>1, <2>5, <2>6 DEF OfTarget, OfPath
  <2>8. InFragment(st, t.at, k, p + 1)
    <3>1. ha < p + 1 /\ p + 1 <= to /\ p + 1 = ha + 1
      BY <1>3, <2>2, <2>4
    <3> QED BY <1>2, <1>10, <3>1 DEF InFragment
  <2>9. OnLine(st, t, k, i, p + 1, G \cup new)
    <3>1. t.at \in FragmentStates
      BY <1>10 DEF FragmentStates
    <3> QED BY <3>1, <2>7, <2>8, OnLineCases
  <2> QED BY <2>9 DEF Goes, k, i, new
<1> QED BY <1>8, <1>9, <1>10 DEF c, PathEndsOn

LEMMA QueryGoes ==
  ASSUME NEW st \in Seq(Byte), NEW p \in Nat, p < Len(st), NEW s, NEW t, NEW m, NEW q, NEW G,
         ~s.json, ~t.json, s.at \in QueryStates, OnLine(st, s, m, q, p, G),
         QueryGoesOn(st[p + 1], t)
  PROVE  Goes(st, s, t, m, q, p, G)
<1> DEFINE c == st[p + 1]  k == MarkAt(s, m, p)  i == QueryAt(s, q, p)
           new == NewParts(s.at, t.at, k, i, p)
           ma == Mark(st)  ha == Hash(st)  to == To(st)
<1>1. InQuery(st, s.at, m, q, p) /\ G = OfPath(st)
  BY OnLineCases
<1>2. Blank(st) < Len(st) /\ ma < p /\ p <= ha /\ m = From(st)
  BY <1>1 DEF InQuery
<1>3. /\ ma \in Nat /\ ha \in Nat /\ to \in Nat /\ ma <= ha /\ ha <= to
      /\ Blank(st) \in Nat /\ Blank(st) < p
  <2>1. /\ Blank(st) \in Nat /\ Colon(st) \in Nat /\ ma \in Nat /\ ha \in Nat /\ to \in Nat
        /\ Blank(st) < Colon(st) /\ Colon(st) <= ma /\ ma <= ha /\ ha <= to
    BY <1>2, Places5
  <2> HIDE DEF ma
  <2> QED BY <1>2, <2>1
<1>4. /\ c = " " => to <= p
      /\ p = to => c = " "
      /\ p < to /\ c = "#" => ha <= p
      /\ p = ha /\ ha < to => c = "#"
  <2>1. Blank(st) < Len(st) /\ Blank(st) < p
    BY <1>2, <1>3
  <2> QED BY <2>1, AtByte
<1>5. k = m
  <2>1. s.at \notin Marking /\ s.at # "version"
    BY DEF QueryStates, Marking
  <2> QED BY <2>1 DEF MarkAt
<1>6. i = ma + 1
  BY <1>1 DEF QueryAt, InQuery
<1>7. new = Said("query", t.at \in {"version", "fragment0"}, i, p)
              \cup Said("uri", t.at \in {"version", "fragment0"}, k, p)
  BY Ending
<1> HIDE DEF c, k, i, new
<1>8. CASE c \notin {" ", "#"} /\ t.at = "query"
  <2>1. p # to /\ ~(p = ha /\ ha < to)
    BY <1>4, <1>8
  <2>2. ma < p + 1 /\ p + 1 <= ha
    BY <1>2, <1>3, <2>1
  <2>3. G \cup new = OfPath(st)
    BY <1>1, <1>7, <1>8 DEF Said
  <2>4. InQuery(st, t.at, k, i, p + 1)
    BY <1>2, <1>5, <1>6, <1>8, <2>2 DEF InQuery
  <2>5. OnLine(st, t, k, i, p + 1, G \cup new)
    <3>1. t.at \in QueryStates
      BY <1>8 DEF QueryStates
    <3> QED BY <3>1, <2>3, <2>4, OnLineCases
  <2> QED BY <2>5 DEF Goes, k, i, new
<1>9. CASE c = " " /\ t.at = "version" /\ t.n = 0
  <2>1. to <= p
    BY <1>4, <1>9
  <2>2. p = to /\ p = ha
    BY <1>2, <1>3, <2>1
  <2>3. new = {Part("query", ma + 1, ha), Part("uri", From(st), ha)}
    BY <1>2, <1>5, <1>6, <1>7, <1>9, <2>2 DEF Said
  <2>4. ma < ha /\ ~(ha < to)
    BY <1>2, <1>3, <2>2
  <2>5. G \cup new = OfUri(st)
    BY <1>1, <2>3, <2>4 DEF OfUri, OfTarget
  <2>6. InVersion(st, t.n, k, p + 1)
    BY <1>2, <1>3, <1>9, <2>2, VersionBegins
  <2>7. OnLine(st, t, k, i, p + 1, G \cup new)
    BY <1>9, <2>5, <2>6, OnLineCases
  <2> QED BY <2>7 DEF Goes, k, i, new
<1>10. CASE c = "#" /\ t.at = "fragment0"
  <2>1. p # to
    BY <1>4, <1>10
  <2>2. p < to
    BY <1>2, <1>3, <2>1
  <2>3. ha <= p
    BY <1>4, <1>10, <2>2
  <2>4. p = ha
    BY <1>2, <1>3, <2>3
  <2>5. new = {Part("query", ma + 1, ha), Part("uri", From(st), ha)}
    BY <1>2, <1>5, <1>6, <1>7, <1>10, <2>4 DEF Said
  <2>6. ma < ha
    BY <1>2, <2>4
  <2>7. G \cup new = OfTarget(st)
    BY <1>1, <2>5, <2>6 DEF OfTarget
  <2>8. InFragment(st, t.at, k, p + 1)
    <3>1. ha < p + 1 /\ p + 1 <= to /\ p + 1 = ha + 1
      BY <1>3, <2>2, <2>4
    <3> QED BY <1>2, <1>10, <3>1 DEF InFragment
  <2>9. OnLine(st, t, k, i, p + 1, G \cup new)
    <3>1. t.at \in FragmentStates
      BY <1>10 DEF FragmentStates
    <3> QED BY <3>1, <2>7, <2>8, OnLineCases
  <2> QED BY <2>9 DEF Goes, k, i, new
<1> QED BY <1>8, <1>9, <1>10 DEF c, QueryGoesOn

LEMMA FragmentGoes ==
  ASSUME NEW st \in Seq(Byte), NEW p \in Nat, p < Len(st), NEW s, NEW t, NEW m, NEW q, NEW G,
         ~s.json, ~t.json, s.at \in FragmentStates, OnLine(st, s, m, q, p, G),
         FragmentGoesOn(st[p + 1], t)
  PROVE  Goes(st, s, t, m, q, p, G)
<1> DEFINE c == st[p + 1]  k == MarkAt(s, m, p)  i == QueryAt(s, q, p)
           new == NewParts(s.at, t.at, k, i, p)
           ha == Hash(st)  to == To(st)
<1>1. InFragment(st, s.at, m, p) /\ G = OfTarget(st)
  BY OnLineCases
<1>2. Blank(st) < Len(st) /\ ha < p /\ p <= to
  BY <1>1 DEF InFragment
<1>3. /\ ha \in Nat /\ to \in Nat /\ ha <= to /\ Blank(st) \in Nat /\ Blank(st) < p
  <2>1. /\ Blank(st) \in Nat /\ Colon(st) \in Nat /\ Mark(st) \in Nat /\ ha \in Nat /\ to \in Nat
        /\ Blank(st) < Colon(st) /\ Colon(st) <= Mark(st) /\ Mark(st) <= ha /\ ha <= to
    BY <1>2, Places5
  <2> QED BY <1>2, <2>1
<1>4. /\ c = " " => to <= p
      /\ p = to => c = " "
  <2>1. Blank(st) < Len(st) /\ Blank(st) < p
    BY <1>2, <1>3
  <2> QED BY <2>1, AtByte
<1>5. k = ha + 1
  <2>1. CASE s.at = "fragment0"
    <3>1. p = ha + 1 /\ k = p
      BY <1>1, <2>1 DEF InFragment, MarkAt, Marking
    <3> QED BY <3>1
  <2>2. CASE s.at = "fragment"
    BY <1>1, <2>2 DEF InFragment, MarkAt, Marking
  <2> QED BY <2>1, <2>2 DEF FragmentStates
<1>6. new = Said("fragment", t.at = "version", k, p)
  BY Ending
<1> HIDE DEF c, k, i, new
<1>7. CASE c # " " /\ t.at = "fragment"
  <2>1. p # to
    BY <1>4, <1>7
  <2>2. ha < p + 1 /\ p + 1 <= to
    BY <1>2, <1>3, <2>1
  <2>3. G \cup new = OfTarget(st)
    BY <1>1, <1>6, <1>7 DEF Said
  <2>4. InFragment(st, t.at, k, p + 1)
    BY <1>2, <1>5, <1>7, <2>2 DEF InFragment
  <2>5. OnLine(st, t, k, i, p + 1, G \cup new)
    <3>1. t.at \in FragmentStates
      BY <1>7 DEF FragmentStates
    <3> QED BY <3>1, <2>3, <2>4, OnLineCases
  <2> QED BY <2>5 DEF Goes, k, i, new
<1>8. CASE c = " " /\ t.at = "version" /\ t.n = 0
  <2>1. to <= p
    BY <1>4, <1>8
  <2>2. p = to
    BY <1>2, <1>3, <2>1
  <2>3. new = {Part("fragment", ha + 1, to)}
    BY <1>5, <1>6, <1>8, <2>2 DEF Said
  <2>4. ha < to
    BY <1>2, <2>2
  <2>5. G \cup new = OfUri(st)
    BY <1>1, <2>3, <2>4 DEF OfUri
  <2>6. InVersion(st, t.n, k, p + 1)
    BY <1>2, <1>3, <1>8, <2>2, VersionBegins
  <2>7. OnLine(st, t, k, i, p + 1, G \cup new)
    BY <1>8, <2>5, <2>6, OnLineCases
  <2> QED BY <2>7 DEF Goes, k, i, new
<1> QED BY <1>7, <1>8 DEF c, FragmentGoesOn

\* Whether the line has a blank or not, the version's bytes end it.
LEMMA VersionEnds ==
  ASSUME NEW st \in Seq(Byte), NEW p \in Nat, p < Len(st), To(st) < p, p <= End(st)
  PROVE  /\ To(st) \in Nat /\ End(st) \in Nat
         /\ st[p + 1] \in {"\n", "\r"} => p = End(st)
         /\ st[p + 1] \notin {"\n", "\r"} => p < End(st)
<1> DEFINE n == Len(st)  to == To(st)  en == End(st)  c == st[p + 1]
<1>1. n \in Nat
  BY LenProperties
<1>2. to \in Nat
  <2>1. Blank(st) \in Nat /\ Blank(st) <= n
    <3>1. 0 \in Nat /\ n \in Int /\ 0 <= n
      BY <1>1
    <3> QED BY <3>1, FirstFound DEF Blank
  <2>2. CASE Blank(st) + 1 <= n
    <3>1. Blank(st) + 1 \in Nat /\ n \in Int
      BY <1>1, <2>1
    <3> QED BY <2>2, <3>1, FirstFound DEF To
  <2>3. CASE ~(Blank(st) + 1 <= n)
    <3>1. (Blank(st) + 1) .. (n - 1) = {}
      BY <1>1, <2>1, <2>3
    <3>2. to = n
      BY <3>1 DEF To, FirstOf
    <3> QED BY <1>1, <3>2
  <2> QED BY <2>2, <2>3
<1> HIDE DEF to
<1>3. to <= n
  BY <1>1, <1>2 DEF to
<1>4. /\ en \in Nat /\ en <= n
      /\ en < n => st[en + 1] \in {"\n", "\r"}
      /\ \A x \in to .. (n - 1) : st[x + 1] \in {"\n", "\r"} => en <= x
  <2>1. to \in Nat /\ n \in Int /\ to <= n
    BY <1>1, <1>2, <1>3
  <2> QED BY <2>1, FirstFound DEF End, to
<1> HIDE DEF n, en
<1>5. p < n /\ to < p /\ p <= en /\ p \in to .. (n - 1)
  BY <1>1, <1>2 DEF n, to, en
<1>6. /\ c \in {"\n", "\r"} => en <= p
      /\ p = en => c \in {"\n", "\r"}
  BY <1>4, <1>5, Zenon
<1>7. (p = en \/ p < en) /\ (en <= p => p = en)
  BY <1>4, <1>5
<1>8. (c \in {"\n", "\r"} => p = en) /\ (c \notin {"\n", "\r"} => p < en)
  BY <1>6, <1>7, Zenon
<1> QED BY <1>2, <1>4, <1>8 DEF to, en

LEMMA VersionGoes ==
  ASSUME NEW st \in Seq(Byte), NEW p \in Nat, p < Len(st), NEW s, NEW t, NEW m, NEW q, NEW G,
         ~s.json, ~t.json, s.at = "version", OnLine(st, s, m, q, p, G),
         VersionGoesOn(st[p + 1], s, t)
  PROVE  Goes(st, s, t, m, q, p, G)
<1> DEFINE c == st[p + 1]  k == MarkAt(s, m, p)  i == QueryAt(s, q, p)
           new == NewParts(s.at, t.at, k, i, p)
           en == End(st)  to == To(st)
<1>1. InVersion(st, s.n, m, p) /\ G = OfUri(st)
  BY OnLineCases
<1>2. to < p /\ p <= en
  BY <1>1 DEF InVersion
<1>3. /\ to \in Nat /\ en \in Nat
      /\ c \in {"\n", "\r"} => p = en
      /\ c \notin {"\n", "\r"} => p < en
  BY <1>2, VersionEnds
<1>4. k = to + 1
  <2>1. CASE s.n = 0
    <3>1. p = to + 1 /\ k = p
      BY <1>1, <2>1 DEF InVersion, MarkAt
    <3> QED BY <3>1
  <2>2. CASE s.n # 0
    BY <1>1, <2>2 DEF InVersion, MarkAt, Marking
  <2> QED BY <2>1, <2>2
<1>5. new = Said("version", t.at \in {"line", "cr"}, k, p)
  BY Ending
<1> HIDE DEF c, k, i, new
<1>6. CASE c \notin {"\n", "\r"} /\ t.at = "version" /\ t.n # 0
  <2>1. p < en
    BY <1>3, <1>6
  <2>2. to < p + 1 /\ p + 1 <= en
    BY <1>2, <1>3, <2>1
  <2>3. G \cup new = OfUri(st)
    BY <1>1, <1>5, <1>6 DEF Said
  <2>4. InVersion(st, t.n, k, p + 1)
    BY <1>4, <1>6, <2>2 DEF InVersion
  <2>5. OnLine(st, t, k, i, p + 1, G \cup new)
    BY <1>6, <2>3, <2>4, OnLineCases
  <2> QED BY <2>5 DEF Goes, k, i, new
<1>7. CASE c \in {"\n", "\r"} /\ t.at \in {"line", "cr"}
  <2>1. p = en
    BY <1>3, <1>7
  <2>2. new = {Part("version", to + 1, en)}
    BY <1>4, <1>5, <1>7, <2>1 DEF Said
  <2>3. G \cup new = OfLine(st)
    BY <1>1, <2>2 DEF OfLine
  <2>4. t.at \in TailNames
    BY <1>7 DEF TailNames
  <2>5. OnLine(st, t, k, i, p + 1, G \cup new)
    BY <2>3, <2>4, OnLineCases
  <2> QED BY <2>5 DEF Goes, k, i, new
<1> QED BY <1>6, <1>7 DEF c, VersionGoesOn

\* A line goes on, whichever part of it the machine is in.
LEMMA LineGoes ==
  ASSUME NEW st \in Seq(Byte), NEW p \in Nat, p < Len(st), NEW s, NEW t, NEW m, NEW q, NEW G,
         IsState(s), IsState(t), OnLine(st, s, m, q, p, G),
         Fits(s.json, s.at, s.n, st[p + 1], t.at, t.n), t.json = (s.json \/ t.at = "relative")
  PROVE  Goes(st, s, t, m, q, p, G)
<1> DEFINE c == st[p + 1]
<1>1. CASE t.json /\ t.at \in PathNames \cup LostNames
  BY <1>1 DEF Goes, OnLine
<1>2. CASE ~t.json /\ t.at \in LostNames
  BY <1>2, OnLineCases DEF Goes
<1> HIDE DEF c
<1>3. Fits(s.json, s.at, s.n, c, t.at, t.n)
  BY DEF c
<1>4. CASE s.json
  <2>1. s.at \in PathNames \cup LostNames /\ t.json
    BY <1>4 DEF OnLine
  <2>2. s.at \in PathNames => t.at \in PathNames \/ t.at = "json"
    BY <1>3, <1>4 DEF Fits, FromPath, WithinPath
  <2>3. t.at \in PathNames \cup LostNames
    BY <1>3, <2>1, <2>2 DEF Fits, LostNames
  <2> QED BY <1>1, <2>1, <2>3
<1>5. CASE ~s.json /\ t.at = "relative"
  <2>1. t.json /\ t.at \in PathNames
    BY <1>5 DEF PathNames, PathStates
  <2> QED BY <1>1, <2>1
<1>6. CASE ~s.json /\ t.at # "relative" /\ t.at \notin LostNames
  <2>1. ~t.json
    BY <1>6
  <2>2. CASE s.at \in {"start", "method"}
    <3>1. t.at \in {"method", "target"}
      BY <1>3, <1>6, <2>2 DEF Fits, LostNames
    <3>2. Fits(FALSE, s.at, s.n, st[p + 1], t.at, t.n)
      BY <1>6 DEF IsState
    <3> QED BY <1>6, <2>1, <2>2, <3>1, <3>2, MethodGoes
  <2>3. CASE s.at \in PathNames \ {"relative"}
    <3>1. FromPath(FALSE, s.at, c, t.at)
      BY <1>3, <1>6, <2>3 DEF Fits, IsState
    <3>2. CASE WithinPath(s.at, c, t.at)
      BY <1>6, <2>1, <2>3, <3>2, PathGoes DEF c
    <3>3. CASE ~WithinPath(s.at, c, t.at)
      <4>1. /\ s.at \in PathStates \ {"relative"}
            /\ \/ c = " " /\ t.at = "version"
               \/ c = "?" /\ t.at = "query0"
               \/ c = "#" /\ t.at = "fragment0"
        BY <2>3, <3>1, <3>3 DEF FromPath
      <4>2. t.at = "version" => t.n = 0
        <5>1. s.at # "version"
          BY <4>1 DEF PathStates
        <5> QED BY <1>3, <5>1 DEF Fits
      <4>3. PathEndsOn(st[p + 1], t)
        BY <4>1, <4>2 DEF PathEndsOn, c
      <4> QED BY <1>6, <2>1, <4>1, <4>3, PathEnds
    <3> QED BY <3>2, <3>3
  <2>4. CASE s.at \in QueryStates
    <3>1. QueryGoesOn(c, t)
      BY <1>3, <2>4 DEF Fits, QueryGoesOn, QueryStates
    <3> QED BY <1>6, <2>1, <2>4, <3>1, QueryGoes DEF c
  <2>5. CASE s.at \in FragmentStates
    <3>1. FragmentGoesOn(c, t)
      BY <1>3, <2>5 DEF Fits, FragmentGoesOn, FragmentStates
    <3> QED BY <1>6, <2>1, <2>5, <3>1, FragmentGoes DEF c
  <2>6. CASE s.at = "version"
    <3>1. VersionGoesOn(c, s, t)
      BY <1>3, <2>6 DEF Fits, VersionGoesOn
    <3> QED BY <1>6, <2>1, <2>6, <3>1, VersionGoes DEF c
  <2>7. CASE s.at \in TailNames
    <3>1. t.at \in TailNames
      BY <1>3, <2>7 DEF Fits
    <3>2. G = OfLine(st)
      BY <1>6, <2>7, OnLineCases
    <3>3. NewParts(s.at, t.at, MarkAt(s, m, p), QueryAt(s, q, p), p) = {}
      BY <2>7, Ending
    <3> QED BY <2>1, <3>1, <3>2, <3>3, OnLineCases DEF Goes
  <2>8. CASE s.at \in LostNames
    <3>1. t.at \in LostNames
      BY <1>3, <2>8 DEF Fits
    <3> QED BY <1>6, <3>1
  <2> QED BY <1>6, <2>2, <2>3, <2>4, <2>5, <2>6, <2>7, <2>8, OnLineStates
<1>7. s.json \in BOOLEAN /\ t.json \in BOOLEAN
  BY DEF IsState
<1>8. CASE ~s.json /\ t.at # "relative" /\ t.at \in LostNames
  BY <1>2, <1>7, <1>8
<1> QED BY <1>4, <1>5, <1>6, <1>7, <1>8

-----------------------------------------------------------------------------
(* What the step of a request does, one action after another.              *)

Do(cond, d, a) == IF cond THEN Perform(d, a) ELSE d

\* Performing a longer list begins with performing the shorter one.
LEMMA PerformedAppend ==
  ASSUME NEW C, NEW r \in Calls(C), NEW acts \in Seq(Action), NEW a \in Action
  PROVE  Performed(r, Append(acts, a)) = Perform(Performed(r, acts), a)
<1> DEFINE n == Len(acts)  more == Append(acts, a)
<1>1. /\ n \in Nat /\ more \in Seq(Action) /\ Len(more) = n + 1 /\ more[n + 1] = a
      /\ \A i \in 1 .. n : more[i] = acts[i]
  BY AppendProperties, LenProperties
<1>2. PICK f : /\ f[0] = r /\ \A i \in 1 .. n : f[i] = Perform(f[i - 1], acts[i])
               /\ Performed(r, acts) = f[n]
  BY PerformedSteps
<1>3. PICK g : /\ g[0] = r /\ \A i \in 1 .. Len(more) : g[i] = Perform(g[i - 1], more[i])
               /\ Performed(r, more) = g[Len(more)]
  <2>1. more \in Seq(Action)
    BY <1>1
  <2> HIDE DEF more
  <2> QED BY <2>1, PerformedSteps
<1> HIDE DEF n, more
<1> DEFINE T == {i \in 0 .. n : f[i] = g[i]}
<1>4. 0 \in T
  BY <1>1, <1>2, <1>3
<1>5. ASSUME NEW i \in 1 .. n, i - 1 \in T PROVE i \in T
  <2>1. f[i - 1] = g[i - 1] /\ i \in 0 .. n /\ i \in 1 .. Len(more)
    BY <1>1, <1>5
  <2>2. f[i] = Perform(f[i - 1], acts[i]) /\ g[i] = Perform(g[i - 1], more[i])
    BY <1>2, <1>3, <2>1
  <2> QED BY <1>1, <2>1, <2>2
<1>6. n \in T
  <2> HIDE DEF T
  <2>1. \A i \in 0 .. n : i \in T
    BY <1>1, <1>4, <1>5, InductionUpTo
  <2> QED BY <1>1, <2>1
<1> DEFINE j == n + 1
<1>7. j \in 1 .. Len(more) /\ j - 1 = n /\ Len(more) = j /\ more[j] = a
  BY <1>1
<1> HIDE DEF j
<1>8. g[j] = Perform(g[j - 1], more[j])
  BY <1>3, <1>7
<1>9. Performed(r, more) = Perform(Performed(r, acts), a)
  BY <1>2, <1>3, <1>6, <1>7, <1>8
<1> QED BY <1>9 DEF more

LEMMA PerformedNone ==
  ASSUME NEW C, NEW r \in Calls(C)
  PROVE  Performed(r, <<>>) = r
<1>1. <<>> \in Seq(Action) /\ Len(<<>>) = 0
  OBVIOUS
<1> QED BY <1>1, PerformedSteps

LEMMA PerformedAct ==
  ASSUME NEW C, NEW r \in Calls(C), NEW acts \in Seq(Action), NEW a \in Action, NEW cond
  PROVE  Performed(r, acts \o Act(cond, a)) = Do(cond, Performed(r, acts), a)
<1>1. acts \o <<>> = acts /\ acts \o <<a>> = Append(acts, a)
  OBVIOUS
<1>2. CASE cond
  <2>1. Act(cond, a) = <<a>>
    BY <1>2 DEF Act
  <2>2. Performed(r, Append(acts, a)) = Perform(Performed(r, acts), a)
    BY PerformedAppend
  <2> QED BY <1>1, <1>2, <2>1, <2>2 DEF Do
<1>3. CASE ~cond
  <2>1. Act(cond, a) = <<>>
    BY <1>3 DEF Act
  <2> QED BY <1>1, <1>3, <2>1 DEF Do
<1> QED BY <1>2, <1>3

LEMMA PerformedOne ==
  ASSUME NEW C, NEW r \in Calls(C), NEW a \in Action, NEW cond
  PROVE  Performed(r, Act(cond, a)) = Do(cond, r, a)
<1>1. <<>> \in Seq(Action)
  OBVIOUS
<1>2. Performed(r, <<>> \o Act(cond, a)) = Do(cond, Performed(r, <<>>), a)
  BY <1>1, PerformedAct
<1>3. Act(cond, a) \in Seq(Action)
  BY ActIsAction
<1>4. <<>> \o Act(cond, a) = Act(cond, a)
  BY <1>3
<1> QED BY <1>2, <1>4, PerformedNone

\* What a call has come to: its marks, its place, and the elements of the
\* line it has reported.
Lines(list) == {e \in Places(list, 0) : e.kind # "field"}
Tracks(C, d, M, Q, P, S) ==
  /\ d \in Calls(C) /\ d.parser.mark = M /\ d.parser.query_start = Q /\ d.p = P
  /\ Lines(d.got) = S

LineParts == {"method", "path", "uri", "fragment", "version"}

LEMMA ReportTracked ==
  ASSUME NEW C, NEW d, NEW M, NEW Q, NEW P, NEW S, Tracks(C, d, M, Q, P, S), NEW a \in Reported
  PROVE  LET at == IF a = "query" THEN Q ELSE M
         IN  Tracks(C, Perform(d, a), M, Q, P, IF a = "field" THEN S ELSE S \cup {Part(a, at, P)})
<1> DEFINE e == Element(d, a)  g == Append(d.got, e)  q == Perform(d, a)
           at == IF a = "query" THEN Q ELSE M
<1>1. d \in Calls(C) /\ d.parser.mark = M /\ d.parser.query_start = Q /\ d.p = P
      /\ Lines(d.got) = S /\ a \in Action
  BY DEF Tracks, Reported
<1>2. e \in Elements /\ e.kind = a /\ e.at + e.len = P
  BY <1>1, ElementType
<1>3. a # "field" => e.name = at
  BY <1>1 DEF Element
<1>4. q = [d EXCEPT !.got = g]
  BY PerformCases DEF Reported
<1>5. q \in Calls(C) /\ q.p = P
  BY <1>1, PerformType
<1> HIDE DEF e
<1>6. d.got \in Seq(Elements)
  BY <1>1 DEF Calls
<1>7. Places(g, 0) = Places(d.got, 0) \cup {Place(e, 0)}
  BY <1>2, <1>6, PlacesAppend
<1>8. Place(e, 0) = [kind |-> a, from |-> e.name, to |-> P]
  <2>1. 0 + e.name = e.name /\ 0 + e.at + e.len = e.at + e.len
    BY <1>2 DEF Elements
  <2> QED BY <1>2, <2>1 DEF Place
<1> HIDE DEF g, q, at
<1>9. q.got = g /\ q.parser = d.parser
  BY <1>1, <1>4 DEF Calls
<1>10. CASE a = "field"
  <2>1. Place(e, 0).kind = "field"
    BY <1>8, <1>10
  <2>2. Lines(g) = Lines(d.got)
    BY <1>7, <2>1 DEF Lines
  <2> QED BY <1>1, <1>5, <1>9, <1>10, <2>2 DEF Tracks, q
<1>11. CASE a # "field"
  <2>1. Place(e, 0) = Part(a, at, P)
    BY <1>3, <1>8, <1>11 DEF Part
  <2>2. Part(a, at, P).kind # "field"
    BY <1>11 DEF Part
  <2>3. Lines(g) = Lines(d.got) \cup {Part(a, at, P)}
    BY <1>7, <2>1, <2>2 DEF Lines
  <2> QED BY <1>1, <1>5, <1>9, <1>11, <2>3 DEF Tracks, q, at
<1> QED BY <1>10, <1>11

LEMMA OthersTracked ==
  ASSUME NEW C, NEW d, NEW M, NEW Q, NEW P, NEW S, Tracks(C, d, M, Q, P, S)
  PROVE  /\ Tracks(C, Perform(d, "mark"), P, Q, P, S)
         /\ Tracks(C, Perform(d, "start_query"), M, P, P, S)
         /\ \A a \in {"start_field", "write_field", "done", "sent"} :
              Tracks(C, Perform(d, a), M, Q, P, S)
<1>1. d \in Calls(C) /\ d.parser.mark = M /\ d.parser.query_start = Q /\ d.p = P
      /\ Lines(d.got) = S
  BY DEF Tracks
<1>2. Tracks(C, Perform(d, "mark"), P, Q, P, S)
  <2> DEFINE q == Perform(d, "mark")
  <2>1. q = [d EXCEPT !.parser.mark = d.p]
    BY PerformCases
  <2>2. "mark" \in Action
    BY DEF Action
  <2>3. q \in Calls(C) /\ q.p = d.p
    BY <1>1, <2>2, PerformType
  <2> HIDE DEF q
  <2>4. q.parser.mark = P /\ q.parser.query_start = Q /\ q.got = d.got
    BY <1>1, <2>1 DEF Calls, Parsers
  <2> QED BY <1>1, <2>3, <2>4 DEF Tracks, q
<1>3. Tracks(C, Perform(d, "start_query"), M, P, P, S)
  <2> DEFINE q == Perform(d, "start_query")
  <2>1. q = [d EXCEPT !.parser.query_start = d.p]
    BY PerformCases
  <2>2. "start_query" \in Action
    BY DEF Action
  <2>3. q \in Calls(C) /\ q.p = d.p
    BY <1>1, <2>2, PerformType
  <2> HIDE DEF q
  <2>4. q.parser.mark = M /\ q.parser.query_start = P /\ q.got = d.got
    BY <1>1, <2>1 DEF Calls, Parsers
  <2> QED BY <1>1, <2>3, <2>4 DEF Tracks, q
<1>4. ASSUME NEW a \in {"start_field", "write_field", "done", "sent"}
      PROVE  Tracks(C, Perform(d, a), M, Q, P, S)
  <2> DEFINE q == Perform(d, a)
  <2>1. a \in Action
    BY DEF Action
  <2>2. q \in Calls(C) /\ q.p = d.p
    BY <1>1, <2>1, PerformType
  <2>3. \/ q = [d EXCEPT !.parser.field_start = d.p]
        \/ q = [d EXCEPT !.parser.field_len = d.p - d.parser.field_start]
        \/ \E i \in Int : q = CallOver(d, i)
    <3>1. a \in {"sent", "done"} => \E i \in Int : q = CallOver(d, i)
      BY <1>1, PerformEnds
    <3> QED BY <3>1, PerformCases
  <2> HIDE DEF q
  <2>4. q.parser.mark = M /\ q.parser.query_start = Q /\ q.got = d.got
    <3>1. CASE \E i \in Int : q = CallOver(d, i)
      <4>1. PICK i \in Int : q = CallOver(d, i)
        BY <3>1
      <4>2. /\ CallOver(d, i).got = d.got /\ CallOver(d, i).parser.mark = d.parser.mark
            /\ CallOver(d, i).parser.query_start = d.parser.query_start
        BY <1>1, EndsType
      <4> QED BY <1>1, <4>1, <4>2
    <3>2. CASE ~\E i \in Int : q = CallOver(d, i)
      BY <1>1, <2>3, <3>2 DEF Calls, Parsers
    <3> QED BY <3>1, <3>2
  <2> QED BY <1>1, <2>2, <2>4 DEF Tracks, q
<1> QED BY <1>2, <1>3, <1>4

\* An action under a condition.
LEMMA DoTracked ==
  ASSUME NEW C, NEW d, NEW M, NEW Q, NEW P, NEW S, Tracks(C, d, M, Q, P, S), NEW cond
  PROVE  /\ Tracks(C, Do(cond, d, "mark"), IF cond THEN P ELSE M, Q, P, S)
         /\ Tracks(C, Do(cond, d, "start_query"), M, IF cond THEN P ELSE Q, P, S)
         /\ \A a \in {"start_field", "write_field", "field", "done", "sent"} :
              Tracks(C, Do(cond, d, a), M, Q, P, S)
         /\ \A a \in LineParts : Tracks(C, Do(cond, d, a), M, Q, P, S \cup Said(a, cond, M, P))
         /\ Tracks(C, Do(cond, d, "query"), M, Q, P, S \cup Said("query", cond, Q, P))
<1>1. /\ "query" \in Reported /\ "field" \in Reported /\ LineParts \subseteq Reported
      /\ \A a \in LineParts : a # "query" /\ a # "field"
  BY DEF Reported, Action, LineParts
<1>2. CASE cond
  <2>1. /\ Tracks(C, Do(cond, d, "mark"), P, Q, P, S)
        /\ Tracks(C, Do(cond, d, "start_query"), M, P, P, S)
        /\ \A a \in {"start_field", "write_field", "done", "sent"} :
             Tracks(C, Do(cond, d, a), M, Q, P, S)
    BY <1>2, OthersTracked DEF Do
  <2>2. Tracks(C, Do(cond, d, "field"), M, Q, P, S)
    BY <1>1, <1>2, ReportTracked DEF Do
  <2>3. ASSUME NEW a \in LineParts PROVE Tracks(C, Do(cond, d, a), M, Q, P, S \cup {Part(a, M, P)})
    <3>1. a \in Reported /\ a # "query" /\ a # "field"
      BY <1>1
    <3>2. Tracks(C, Perform(d, a), M, Q, P, S \cup {Part(a, M, P)})
      BY <3>1, ReportTracked
    <3> QED BY <1>2, <3>2 DEF Do
  <2>4. Tracks(C, Do(cond, d, "query"), M, Q, P, S \cup {Part("query", Q, P)})
    <3>1. Tracks(C, Perform(d, "query"), M, Q, P, S \cup {Part("query", Q, P)})
      BY <1>1, ReportTracked
    <3> QED BY <1>2, <3>1 DEF Do
  <2> QED BY <1>2, <2>1, <2>2, <2>3, <2>4 DEF Said
<1>3. CASE ~cond
  <2>1. \A a : Do(cond, d, a) = d
    BY <1>3 DEF Do
  <2>2. \A a, i : S \cup Said(a, cond, i, P) = S
    BY <1>3 DEF Said
  <2> QED BY <1>3, <2>1, <2>2
<1> QED BY <1>2, <1>3

\* The whole of what a step of a request does.
LEMMA RequestTracked ==
  ASSUME NEW C, NEW r \in Calls(C), NEW s, NEW t, t.at # "error"
  PROVE  LET k == MarkAt(s, r.parser.mark, r.p)
             i == QueryAt(s, r.parser.query_start, r.p)
         IN  Tracks(C, Performed(r, RequestActs(s, t)), k, i, r.p,
                    Lines(r.got) \cup NewParts(s.at, t.at, k, i, r.p))
<1> DEFINE p == r.p
           k == MarkAt(s, r.parser.mark, p)
           i == QueryAt(s, r.parser.query_start, p)
           S == Lines(r.got)
           leaves(from, to) == s.at \in from /\ t.at \in to
           act(cond, a) == Act(cond /\ t.at # "error", a)
           c1 == s.at \in {"start", "target", "hier", "fragment0", "colon", "json"}
                   \/ (s.at = "version" /\ s.n = 0)
           c5 == leaves(PathStates, {"version", "query0", "fragment0", "json"})
                   \/ leaves({"xml"}, {"xml_text"})
           x1 == act(c1, "mark")
           x2 == x1 \o act(s.at = "query0", "start_query")
           x3 == x2 \o act(s.at = "line", "start_field")
           x4 == x3 \o act(leaves({"method"}, {"target"}), "method")
           x5 == x4 \o act(c5, "path")
           x6 == x5 \o act(leaves(QueryStates, {"version", "fragment0"}), "query")
           x7 == x6 \o act(leaves(PathStates \cup QueryStates, {"version", "fragment0"}), "uri")
           x8 == x7 \o act(leaves(FragmentStates, {"version"}), "fragment")
           x9 == x8 \o act(leaves({"version"}, {"line", "cr"}), "version")
           x10 == x9 \o act(t.at = "colon" /\ s.at # "colon", "write_field")
           x11 == x10 \o act(leaves({"colon", "value"}, {"line", "cr"}), "field")
           x12 == x11 \o act(leaves({"line", "line_cr"}, {"done"}), "done")
           x13 == x12 \o act(t.at = "sent", "sent")
<1>0. RequestActs(s, t) = x13
  BY DEF RequestActs
<1>00. /\ {"mark", "start_query", "start_field", "write_field", "field", "done", "sent", "query"}
            \subseteq Action
       /\ LineParts \subseteq Action
       /\ {"method", "path", "uri", "fragment", "version"} \subseteq LineParts
  BY DEF Action, LineParts
<1>1. x1 \in Seq(Action) /\ Tracks(C, Performed(r, x1), k, r.parser.query_start, p, S)
  <2>1. Performed(r, x1) = Do(c1 /\ t.at # "error", r, "mark")
    <3> DEFINE c == c1 /\ t.at # "error"
    <3>1. x1 = Act(c, "mark") /\ "mark" \in Action
      BY <1>00
    <3> HIDE DEF c, c1, x1
    <3>2. Performed(r, Act(c, "mark")) = Do(c, r, "mark")
      BY <3>1, PerformedOne
    <3> QED BY <3>1, <3>2 DEF c
  <2>2. Tracks(C, r, r.parser.mark, r.parser.query_start, p, S)
    BY DEF Tracks
  <2>3. k = IF c1 /\ t.at # "error" THEN p ELSE r.parser.mark
    BY DEF MarkAt, Marking
  <2> HIDE DEF c1
  <2>4. Tracks(C, Do(c1 /\ t.at # "error", r, "mark"), IF c1 /\ t.at # "error" THEN p ELSE r.parser.mark,
               r.parser.query_start, p, S)
    BY <2>2, DoTracked
  <2> QED BY <1>00, <2>1, <2>3, <2>4, ActIsAction
<1> HIDE DEF x1, k, S
<1>2. x2 \in Seq(Action) /\ Tracks(C, Performed(r, x2), k, i, p, S)
  <2> DEFINE c == s.at = "query0" /\ t.at # "error"
  <2>1. Performed(r, x2) = Do(c, Performed(r, x1), "start_query")
    BY <1>00, <1>1, PerformedAct
  <2>2. i = IF c THEN p ELSE r.parser.query_start
    BY DEF QueryAt
  <2>3. Act(c, "start_query") \in Seq(Action)
    BY <1>00, ActIsAction
  <2> HIDE DEF c
  <2>4. Tracks(C, Do(c, Performed(r, x1), "start_query"), k, IF c THEN p ELSE r.parser.query_start,
               p, S)
    BY <1>1, DoTracked
  <2>5. x2 = x1 \o Act(c, "start_query")
    BY DEF c
  <2> QED BY <1>1, <2>1, <2>2, <2>3, <2>4, <2>5, Joined
<1> HIDE DEF x2, i, p
\* A part more, and a silent action more.
<1>3. ASSUME NEW x \in Seq(Action), NEW G, Tracks(C, Performed(r, x), k, i, p, G), NEW cond
      PROVE  /\ \A a \in {"start_field", "write_field", "field", "done", "sent"} :
                  /\ x \o Act(cond, a) \in Seq(Action)
                  /\ Tracks(C, Performed(r, x \o Act(cond, a)), k, i, p, G)
             /\ \A a \in LineParts :
                  /\ x \o Act(cond, a) \in Seq(Action)
                  /\ Tracks(C, Performed(r, x \o Act(cond, a)), k, i, p, G \cup Said(a, cond, k, p))
             /\ x \o Act(cond, "query") \in Seq(Action)
             /\ Tracks(C, Performed(r, x \o Act(cond, "query")), k, i, p,
                       G \cup Said("query", cond, i, p))
  <2>1. \A a \in Action : /\ x \o Act(cond, a) \in Seq(Action)
                          /\ Performed(r, x \o Act(cond, a)) = Do(cond, Performed(r, x), a)
    BY ActIsAction, Joined, PerformedAct
  <2>2. /\ \A a \in {"start_field", "write_field", "field", "done", "sent"} :
             Tracks(C, Do(cond, Performed(r, x), a), k, i, p, G)
        /\ \A a \in LineParts :
             Tracks(C, Do(cond, Performed(r, x), a), k, i, p, G \cup Said(a, cond, k, p))
        /\ Tracks(C, Do(cond, Performed(r, x), "query"), k, i, p, G \cup Said("query", cond, i, p))
    BY <1>3, DoTracked
  <2>3. /\ \A a \in {"start_field", "write_field", "field", "done", "sent"} : a \in Action
        /\ \A a \in LineParts : a \in Action
        /\ "query" \in Action
    BY <1>00
  <2> QED BY <2>1, <2>2, <2>3, Zenon
<1> DEFINE b4 == leaves({"method"}, {"target"}) /\ t.at # "error"
           b5 == c5 /\ t.at # "error"
           b6 == leaves(QueryStates, {"version", "fragment0"}) /\ t.at # "error"
           b7 == leaves(PathStates \cup QueryStates, {"version", "fragment0"}) /\ t.at # "error"
           b8 == leaves(FragmentStates, {"version"}) /\ t.at # "error"
           b9 == leaves({"version"}, {"line", "cr"}) /\ t.at # "error"
           S4 == S \cup Said("method", b4, k, p)
           S5 == S4 \cup Said("path", b5, k, p)
           S6 == S5 \cup Said("query", b6, i, p)
           S7 == S6 \cup Said("uri", b7, k, p)
           S8 == S7 \cup Said("fragment", b8, k, p)
           S9 == S8 \cup Said("version", b9, k, p)
<1>4. x3 \in Seq(Action) /\ Tracks(C, Performed(r, x3), k, i, p, S)
  BY <1>2, <1>3
<1> HIDE DEF x3
<1>5. x4 \in Seq(Action) /\ Tracks(C, Performed(r, x4), k, i, p, S4)
  <2>1. x4 = x3 \o Act(b4, "method")
    OBVIOUS
  <2> HIDE DEF b4, x4
  <2> QED BY <1>00, <1>3, <1>4, <2>1
<1> HIDE DEF x4, S4
<1>6. x5 \in Seq(Action) /\ Tracks(C, Performed(r, x5), k, i, p, S5)
  <2>1. x5 = x4 \o Act(b5, "path")
    OBVIOUS
  <2> HIDE DEF b5, x5
  <2> QED BY <1>00, <1>3, <1>5, <2>1
<1> HIDE DEF x5, S5
<1>7. x6 \in Seq(Action) /\ Tracks(C, Performed(r, x6), k, i, p, S6)
  <2>1. x6 = x5 \o Act(b6, "query")
    OBVIOUS
  <2> HIDE DEF b6, x6
  <2> QED BY <1>3, <1>6, <2>1
<1> HIDE DEF x6, S6
<1>8. x7 \in Seq(Action) /\ Tracks(C, Performed(r, x7), k, i, p, S7)
  <2>1. x7 = x6 \o Act(b7, "uri")
    OBVIOUS
  <2> HIDE DEF b7, x7
  <2> QED BY <1>00, <1>3, <1>7, <2>1
<1> HIDE DEF x7, S7
<1>9. x8 \in Seq(Action) /\ Tracks(C, Performed(r, x8), k, i, p, S8)
  <2>1. x8 = x7 \o Act(b8, "fragment")
    OBVIOUS
  <2> HIDE DEF b8, x8
  <2> QED BY <1>00, <1>3, <1>8, <2>1
<1> HIDE DEF x8, S8
<1>10. x9 \in Seq(Action) /\ Tracks(C, Performed(r, x9), k, i, p, S9)
  <2>1. x9 = x8 \o Act(b9, "version")
    OBVIOUS
  <2> HIDE DEF b9, x9
  <2> QED BY <1>00, <1>3, <1>9, <2>1
<1> HIDE DEF x9, S9
<1>11. x10 \in Seq(Action) /\ Tracks(C, Performed(r, x10), k, i, p, S9)
  BY <1>3, <1>10
<1> HIDE DEF x10
<1>12. x11 \in Seq(Action) /\ Tracks(C, Performed(r, x11), k, i, p, S9)
  BY <1>3, <1>11
<1> HIDE DEF x11
<1>13. x12 \in Seq(Action) /\ Tracks(C, Performed(r, x12), k, i, p, S9)
  BY <1>3, <1>12
<1> HIDE DEF x12
<1>14. Tracks(C, Performed(r, x13), k, i, p, S9)
  BY <1>3, <1>13
<1> HIDE DEF x13
<1>15. S9 = S \cup NewParts(s.at, t.at, k, i, p)
  <2>1. /\ b4 <=> EndsMethod(s.at, t.at)
        /\ b5 <=> EndsPath(s.at, t.at)
        /\ b6 <=> EndsQuery(s.at, t.at)
        /\ b7 <=> EndsUri(s.at, t.at)
        /\ b8 <=> EndsFragment(s.at, t.at)
        /\ b9 <=> EndsVersion(s.at, t.at)
    BY DEF EndsMethod, EndsPath, EndsQuery, EndsUri, EndsFragment, EndsVersion
  <2> HIDE DEF b4, b5, b6, b7, b8, b9
  <2>2. \A a, c, e, x, y : (c <=> e) => Said(a, c, x, y) = Said(a, e, x, y)
    BY DEF Said
  <2> QED BY <2>1, <2>2 DEF S9, S8, S7, S6, S5, S4, NewParts
<1> QED BY <1>0, <1>14, <1>15 DEF S, k, i, p

-----------------------------------------------------------------------------
(* The calls of a request, and the theorem.                                *)

\* What is known of a call that had reported G before it began.
Sound(st, w, G) ==
  /\ IsState(w.parser.cs) /\ \A a \in w.parser.cs.left : Open(a)
  /\ OnLine(st, w.parser.cs, w.parser.mark, w.parser.query_start, w.p, G \cup Lines(w.got))

LEMMA ErrorSound ==
  ASSUME NEW s, s.at = "error", IsState(s)
  PROVE  \A st, m, q, p, G : OnLine(st, s, m, q, p, G)
BY DEF OnLine, LostNames

LEMMA ConsumeSound ==
  ASSUME NEW st \in Seq(Byte), NEW w, w \in Calls({w.parser.cs}), w.p < Len(st), NEW G,
         Sound(st, w, G)
  PROVE  LET v == Consume("request", w, st[w.p + 1])
         IN  /\ v \in Calls({v.parser.cs}) /\ Sound(st, v, G)
             /\ v.over \/ v.p = w.p + 1
<1> DEFINE C == {w.parser.cs}  s == w.parser.cs  c == st[w.p + 1]
           t == RequestStep(s, c)
           v == Consume("request", w, c)
           m == MarkAt(s, w.parser.mark, w.p)  q == QueryAt(s, w.parser.query_start, w.p)
<1>1. w.p \in Nat /\ c \in Byte
  <2>1. w.p \in Nat /\ Len(st) \in Nat
    BY LenProperties DEF Calls
  <2>2. w.p + 1 \in 1 .. Len(st)
    BY <2>1
  <2> QED BY <2>1, <2>2, ElementOfSeq
<1>2. IsState(s) /\ \A a \in s.left : Open(a)
  BY DEF Sound
<1>3. /\ Step("request", s, c) = t
      /\ Acts("request", s, c, t) = RequestActs(s, t)
      /\ Failed("request", t) = (t.at = "error")
  BY DEF Step, Acts, Failed
<1>4. IsState(t) /\ \A a \in t.left : Open(a)
  <2>1. CASE t = RequestError
    BY <2>1 DEF RequestError, IsState
  <2>2. CASE t # RequestError
    BY <1>1, <1>2, <2>2, StepFits
  <2> QED BY <2>1, <2>2
<1>5. CASE t.at = "error"
  <2>1. v = [w EXCEPT !.parser.cs = t, !.over = TRUE]
    BY <1>3, <1>5 DEF Consume
  <2> HIDE DEF v, t
  <2>2. v.parser.cs = t /\ v.over = TRUE /\ v \in Calls({t})
    BY <2>1 DEF Calls, Parsers
  <2>3. Sound(st, v, G)
    BY <1>4, <1>5, <2>2, ErrorSound DEF Sound
  <2> QED BY <2>2, <2>3 DEF v
<1>6. CASE t.at # "error"
  <2> DEFINE d == Performed(w, RequestActs(s, t))
  <2>1. v = Advanced(d, t)
    BY <1>3, <1>6 DEF Consume, Advanced
  <2>2. t # RequestError
    BY <1>6 DEF RequestError
  <2>3. Fits(s.json, s.at, s.n, c, t.at, t.n) /\ t.json = (s.json \/ t.at = "relative")
    BY <1>1, <1>2, <2>2, StepFits
  <2> HIDE DEF t
  <2>4. Goes(st, s, t, w.parser.mark, w.parser.query_start, w.p, G \cup Lines(w.got))
    BY <1>1, <1>2, <1>4, <2>3, LineGoes DEF Sound
  <2>5. Tracks(C, d, m, q, w.p, Lines(w.got) \cup NewParts(s.at, t.at, m, q, w.p))
    BY <1>6, RequestTracked
  <2> HIDE DEF v, d, m, q
  <2>6. d \in Calls(C) /\ d.parser.mark = m /\ d.parser.query_start = q /\ d.p = w.p
        /\ Lines(d.got) = Lines(w.got) \cup NewParts(s.at, t.at, m, q, w.p)
    BY <2>5 DEF Tracks
  <2>7. /\ v.parser.cs = t /\ v.p = d.p + 1 /\ v.got = d.got /\ v.parser.mark = d.parser.mark
        /\ v.parser.query_start = d.parser.query_start /\ v \in Calls({t})
    BY <2>1, <2>6, Entered
  <2>8. OnLine(st, t, m, q, w.p + 1, (G \cup Lines(w.got)) \cup NewParts(s.at, t.at, m, q, w.p))
    BY <2>4 DEF Goes, m, q
  <2>9. (G \cup Lines(w.got)) \cup NewParts(s.at, t.at, m, q, w.p) = G \cup Lines(v.got)
    BY <2>6, <2>7
  <2>10. OnLine(st, v.parser.cs, v.parser.mark, v.parser.query_start, v.p, G \cup Lines(v.got))
    BY <2>6, <2>7, <2>8, <2>9
  <2>11. Sound(st, v, G)
    BY <1>4, <2>7, <2>10 DEF Sound
  <2> QED BY <2>6, <2>7, <2>11 DEF v
<1> QED BY <1>5, <1>6

LEMMA RunSound ==
  ASSUME stream \in Seq(Byte), NEW n \in Nat, NEW w, w \in Calls({w.parser.cs}),
         n <= Len(stream) - w.p, NEW G, Sound(stream, w, G)
  PROVE  Sound(stream, Run("request", w, Bytes(w.p, n)), G)
<1> DEFINE at == w.p  bytes == Bytes(at, n)
<1>1. at \in Nat /\ Len(stream) \in Nat
  BY LenProperties DEF Calls
<1>2. bytes \in Seq(Byte)
  BY <1>1, BytesType
<1>3. Len(bytes) = n /\ \A i \in 1 .. n : bytes[i] = stream[at + i]
  <2>1. at + 1 \in Int /\ at + n \in Int
    BY <1>1
  <2>2. \A i \in at + 1 .. at + n : stream[i] \in Byte
    <3> SUFFICES ASSUME NEW i \in at + 1 .. at + n PROVE stream[i] \in Byte
      OBVIOUS
    <3>1. i \in 1 .. Len(stream)
      BY <1>1
    <3> QED BY <3>1, ElementOfSeq
  <2>3. /\ Len(bytes) = IF at + 1 <= at + n THEN (at + n) - (at + 1) + 1 ELSE 0
        /\ \A i \in 1 .. (at + n) - (at + 1) + 1 : bytes[i] = stream[(at + 1) + i - 1]
    BY <2>1, <2>2, SubSeqProperties DEF Bytes
  <2>4. ASSUME NEW i \in 1 .. n PROVE bytes[i] = stream[at + i]
    <3>1. i \in 1 .. (at + n) - (at + 1) + 1 /\ (at + 1) + i - 1 = at + i
      BY <1>1
    <3> QED BY <2>3, <3>1
  <2>5. Len(bytes) = n
    BY <1>1, <2>3
  <2> QED BY <2>4, <2>5
<1> HIDE DEF bytes
<1>4. PICK g : /\ g[0] = w /\ \A i \in 1 .. n : g[i] = Go("request", g[i - 1], bytes[i])
               /\ Run("request", w, bytes) = g[n]
  BY <1>2, <1>3, RunSteps
<1> DEFINE T == {i \in 0 .. n : /\ g[i] \in Calls({g[i].parser.cs}) /\ Sound(stream, g[i], G)
                                /\ g[i].over \/ g[i].p = at + i}
<1>5. 0 \in T
  <2>1. g[0] = w /\ 0 \in 0 .. n /\ at = at + 0
    BY <1>1, <1>4
  <2>2. g[0].p = at + 0
    BY <2>1
  <2> HIDE DEF at
  <2> QED BY <2>1, <2>2
<1>6. ASSUME NEW i \in 1 .. n, i - 1 \in T PROVE i \in T
  <2> DEFINE d == g[i - 1]  e == g[i]
  <2>1. /\ d \in Calls({d.parser.cs}) /\ Sound(stream, d, G)
        /\ d.over \/ d.p = at + (i - 1)
    BY <1>6
  <2>2. e = Go("request", d, bytes[i]) /\ i \in 0 .. n
    BY <1>4
  <2> HIDE DEF d, e
  <2>3. CASE d.over
    <3>1. e = d
      BY <2>2, <2>3 DEF Go
    <3>2. e \in Calls({e.parser.cs}) /\ Sound(stream, e, G) /\ e.over
      BY <2>1, <2>3, <3>1
    <3> QED BY <2>2, <3>2 DEF e
  <2>4. CASE ~d.over
    <3>1. d.p = at + (i - 1) /\ d.p \in Nat /\ d.p < Len(stream) /\ d.p + 1 = at + i
      <4>1. d.p = at + (i - 1)
        BY <2>1, <2>4
      <4>2. at + (i - 1) \in Nat /\ at + (i - 1) < Len(stream) /\ at + (i - 1) + 1 = at + i
        BY <1>1
      <4> HIDE DEF at
      <4> QED BY <4>1, <4>2
    <3>2. bytes[i] = stream[d.p + 1]
      BY <1>3, <3>1
    <3>3. e = Consume("request", d, stream[d.p + 1])
      BY <2>2, <2>4, <3>2 DEF Go
    <3>4. /\ e \in Calls({e.parser.cs}) /\ Sound(stream, e, G)
          /\ e.over \/ e.p = d.p + 1
      BY <2>1, <3>1, <3>3, ConsumeSound
    <3>5. e.over \/ e.p = at + i
      BY <3>1, <3>4
    <3> QED BY <2>2, <3>4, <3>5 DEF e
  <2> QED BY <2>3, <2>4
<1>7. n \in T
  <2> HIDE DEF T
  <2>1. \A i \in 0 .. n : i \in T
    BY <1>5, <1>6, InductionUpTo
  <2> QED BY <2>1
<1>8. Sound(stream, g[n], G)
  BY <1>7
<1> QED BY <1>4, <1>8 DEF bytes

\* The elements of a set that are of the line.
OfTheLine(S) == {e \in S : e.kind # "field"}

SInv ==
  side = "request" =>
    /\ IsState(whole.parser.cs) /\ \A a \in whole.parser.cs.left : Open(a)
    /\ OnLine(stream, whole.parser.cs, whole.parser.mark, whole.parser.query_start, whole.p,
              OfTheLine(whole.got))

\* A parser that has begun is at the start of the line.
LEMMA StartSound ==
  ASSUME NEW w, w = [Called(Initial("request"), 0) EXCEPT !.got = {}], NEW st
  PROVE  /\ IsState(w.parser.cs) /\ \A a \in w.parser.cs.left : Open(a)
         /\ OnLine(st, w.parser.cs, w.parser.mark, w.parser.query_start, w.p, OfTheLine(w.got))
<1>1. w.parser = Initial("request") /\ w.p = 0 /\ w.got = {}
  BY DEF Called
<1>2. w.parser.cs = RequestStart
  BY <1>1 DEF Initial, Start
<1>3. /\ w.parser.cs.at = "start" /\ w.parser.cs.json = FALSE /\ w.parser.cs.left = {}
      /\ IsState(w.parser.cs)
  <2> DEFINE s == w.parser.cs  no == FALSE
  <2>1. s = [at |-> "start", n |-> 0, json |-> no, left |-> {}]
    BY <1>2 DEF RequestStart
  <2> HIDE DEF s, no
  <2>2. /\ s.at = "start" /\ s.json = no /\ s.left = {}
        /\ s = [at |-> s.at, n |-> s.n, json |-> s.json, left |-> s.left]
    BY <2>1
  <2>3. s.json = FALSE /\ s.json \in BOOLEAN
    BY <2>2 DEF no
  <2> QED BY <2>2, <2>3 DEF IsState, s
<1>4. OfTheLine(w.got) = {}
  BY <1>1 DEF OfTheLine
<1> QED BY <1>1, <1>3, <1>4 DEF OnLine

\* A call takes the line on.
LEMMA ExecuteSound ==
  ASSUME HInv, SInv, NEW n \in 0 .. Len(stream), NEW chunck \in BOOLEAN, Execute(n, chunck)
  PROVE  SInv'
<1> DEFINE w == [parser |-> whole.parser, p |-> pos, got |-> <<>>, over |-> FALSE]
           G == OfTheLine(whole.got)
<1>1. side' = side /\ stream' = stream
  BY DEF Execute, Return
<1>2. CASE side # "request"
  BY <1>1, <1>2 DEF SInv
<1>3. CASE side = "request"
  <2>1. PICK q, v : /\ Return(n, q, v) /\ v = Run(side, w, Bytes(pos, n))
                    /\ v \in Calls({v.parser.cs})
    BY <1>3, ExecuteReturns DEF Begun
  <2>2. stream \in Seq(Byte) /\ pos \in Nat /\ whole.p = pos
        /\ whole.parser \in Parsers({whole.parser.cs})
    BY DEF HInv, InStep
  <2>3. w \in Calls({w.parser.cs}) /\ w.parser = whole.parser /\ w.p = pos /\ w.got = <<>>
    <3>1. <<>> \in Seq(Elements)
      OBVIOUS
    <3> QED BY <2>2, <3>1 DEF Calls
  <2> HIDE DEF w
  <2>4. Lines(w.got) = {}
    BY <2>3 DEF Lines, Places
  <2>5. Sound(stream, w, G)
    <3>1. G \cup Lines(w.got) = G
      BY <2>4
    <3> QED BY <1>3, <2>2, <2>3, <3>1 DEF SInv, Sound
  <2>6. n \in Nat /\ n <= Len(stream) - w.p
    <3>1. n <= Len(stream) - pos
      BY DEF Execute
    <3>2. Len(stream) \in Nat
      BY <2>2, LenProperties
    <3> QED BY <2>3, <3>1, <3>2
  <2>7. Sound(stream, v, G)
    <3>1. Sound(stream, Run("request", w, Bytes(w.p, n)), G)
      BY <2>2, <2>3, <2>5, <2>6, RunSound
    <3> QED BY <1>3, <2>1, <2>3, <3>1
  <2>8. CASE \E i \in 1 .. Len(q.got) : q.got[i].len < 0
    <3>1. whole' = whole
      BY <2>1, <2>8 DEF Return
    <3> QED BY <1>1, <3>1 DEF SInv
  <2>9. CASE ~ \E i \in 1 .. Len(q.got) : q.got[i].len < 0
    <3> DEFINE H == whole.got \cup Places(v.got, 0)
    <3>1. whole' = [v EXCEPT !.got = H]
      BY <2>1, <2>9 DEF Return
    <3>2. OfTheLine(H) = G \cup Lines(v.got)
      BY DEF OfTheLine, Lines
    <3> HIDE DEF H, G
    <3>3. whole'.parser = v.parser /\ whole'.p = v.p /\ whole'.got = H
      BY <2>1, <3>1 DEF Calls
    <3>4. /\ IsState(whole'.parser.cs) /\ \A a \in whole'.parser.cs.left : Open(a)
          /\ OnLine(stream, whole'.parser.cs, whole'.parser.mark, whole'.parser.query_start,
                    whole'.p, OfTheLine(whole'.got))
      BY <2>7, <3>2, <3>3 DEF Sound
    <3> QED BY <1>1, <3>4 DEF SInv
  <2> QED BY <2>8, <2>9
<1> QED BY <1>2, <1>3

LEMMA SplitInit == MessageInit => SInv
<1> SUFFICES ASSUME MessageInit, side = "request"
             PROVE  /\ IsState(whole.parser.cs) /\ \A a \in whole.parser.cs.left : Open(a)
                    /\ OnLine(stream, whole.parser.cs, whole.parser.mark,
                              whole.parser.query_start, whole.p, OfTheLine(whole.got))
  BY DEF SInv
<1>1. whole = [Called(Initial("request"), 0) EXCEPT !.got = {}]
  BY DEF MessageInit, HttpInit
<1> QED BY <1>1, StartSound

LEMMA SplitNext ==
  ASSUME HInv, SInv, [MessageNext]_msgVars
  PROVE  SInv'
<1>1. CASE Parse
  <2>1. PICK n \in 0 .. Len(stream), chunck \in BOOLEAN : Execute(n, chunck)
    BY <1>1 DEF Parse, HttpNext
  <2> QED BY <2>1, ExecuteSound
<1>2. CASE Take
  <2>1. side = "request" /\ side' = side
        /\ whole' = [Called(Initial(side), 0) EXCEPT !.got = {}]
    BY <1>2 DEF Take
  <2>2. /\ IsState(whole'.parser.cs) /\ \A a \in whole'.parser.cs.left : Open(a)
        /\ OnLine(stream', whole'.parser.cs, whole'.parser.mark, whole'.parser.query_start,
                  whole'.p, OfTheLine(whole'.got))
    BY <2>1, StartSound
  <2> QED BY <2>2 DEF SInv
<1>3. CASE Use \/ UNCHANGED msgVars
  <2>1. UNCHANGED <<side, stream, whole>>
    BY <1>3 DEF Use, msgVars, httpVars, Used, GetParam, GetCookie, InitParam, InitConnection,
         DelParam, DelCookie, SetParam, SetCookie, SetBody, SetHeader, DelHeader
  <2> QED BY <2>1 DEF SInv
<1> QED BY <1>1, <1>2, <1>3 DEF MessageNext

\* What a finished line has reported is what its separators say.
LEMMA LineDeclared == OfLine(stream) = Declared
<1>1. \A set, i, j : First(set, i, j) = FirstOf(stream, set, i, j)
  BY DEF First, FirstOf
<1> DEFINE blank == First({" "}, 0, Len(stream))
           to == First({" "}, blank + 1, Len(stream))
           hash == First({"#"}, blank + 1, to)
           mark == First({"?"}, blank + 1, hash)
           colon == First(Byte \ (Alpha \cup Digit \cup {"+", "-", "."}), blank + 1, mark)
           from == IF colon < mark /\ stream[colon + 1] = ":" THEN colon + 1 ELSE blank + 1
           end == First({"\n", "\r"}, to, Len(stream))
<1>2. Blank(stream) = blank
  BY <1>1 DEF Blank
<1>3. To(stream) = to
  BY <1>1, <1>2 DEF To
<1>4. Hash(stream) = hash
  BY <1>1, <1>2, <1>3 DEF Hash
<1>5. Mark(stream) = mark
  BY <1>1, <1>2, <1>4 DEF Mark
<1>6. Colon(stream) = colon
  BY <1>1, <1>2, <1>5 DEF Colon, SchemeByte
<1>7. End(stream) = end
  BY <1>1, <1>3 DEF End
<1>8. From(stream) = from
  BY <1>2, <1>5, <1>6 DEF From
<1>9. Declared = {Part("method", 0, blank), Part("path", from, mark), Part("uri", from, hash),
                  Part("version", to + 1, end)}
                   \cup (IF mark < hash THEN {Part("query", mark + 1, hash)} ELSE {})
                   \cup (IF hash < to THEN {Part("fragment", hash + 1, to)} ELSE {})
  BY DEF Declared, Part
<1> HIDE DEF blank, to, hash, mark, colon, from, end
<1> QED BY <1>2, <1>3, <1>4, <1>5, <1>7, <1>8, <1>9 DEF OfLine, OfUri, OfTarget, OfPath, OfMethod

\* Whatever the streams, the machine that gets a request in one piece has split
\* the line of a finished request where its separators are: the method, the
\* path, the query, the fragment, the target and the version, each from its
\* first byte to its last, and nothing else.  With ElementsAreWhole this is
\* what is reported of a stream in buffers, where no boundary cuts an element.
THEOREM TargetIsSplit == MessageSpec => []TargetSplit
<1>1. MessageInit => HInv /\ SInv
  BY MessageInitInv, SplitInit
<1>2. (HInv /\ SInv) /\ [MessageNext]_msgVars => (HInv /\ SInv)'
  BY MessageNextInv, SplitNext
<1>3. HInv /\ SInv => TargetSplit
  <2> SUFFICES ASSUME SInv, side = "request", whole.parser.cs.at = "done"
               PROVE  {e \in whole.got : e.kind # "field"} = Declared
    BY DEF TargetSplit
  <2>1. "done" \notin PathNames \cup LostNames /\ "done" \in TailNames
    BY DEF PathNames, PathStates, LostNames, TailNames
  <2>2. OnLine(stream, whole.parser.cs, whole.parser.mark, whole.parser.query_start, whole.p,
               OfTheLine(whole.got))
    BY DEF SInv
  <2>3. ~whole.parser.cs.json
    BY <2>1, <2>2 DEF OnLine
  <2>4. OfTheLine(whole.got) = OfLine(stream)
    BY <2>1, <2>2, <2>3, OnLineCases
  <2> QED BY <2>4, LineDeclared DEF OfTheLine
<1> QED BY <1>1, <1>2, <1>3, PTL DEF MessageSpec
=============================================================================
