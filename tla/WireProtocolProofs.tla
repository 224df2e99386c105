------------------------- MODULE WireProtocolProofs -------------------------
(***************************************************************************)
(* Proofs about the wire protocol: the types, that the reader stays in     *)
(* step, that packets are handled in order, and that texts fit their       *)
(* buffers.                                                                *)
(*                                                                         *)
(* First, the fields of every packet are the ones the reader expects, for  *)
(* lists of any length (PacketLaidOut).  Then Sound, that both ends are    *)
(* inside packets with what is left to send and to expect, holds in every  *)
(* state.  Last, InOrder, that the wire holds the bytes sent and not yet   *)
(* read, all of them and in order, holds until two threads write at once;  *)
(* so the bytes in front are those of the field whose turn it is.          *)
(***************************************************************************)
EXTENDS WireProtocol, WellFoundedInduction, SequenceTheorems, TLAPS

----------------------------------------------------------------------------
(* Numbers and sequences.                                                  *)

\* A set of numbers that is not empty has a least one.
LEMMA LeastNumber ==
    ASSUME NEW S \in SUBSET Nat, S # {}
    PROVE  \E n \in S : \A m \in S : n <= m
<1> DEFINE R == OpToRel(<, Nat)
<1>1. IsWellFoundedOn(R, Nat)
  BY NatLessThanWellFounded
<1>2. \A x, y \in Nat : <<x, y>> \in R <=> x < y
  BY DEF OpToRel
<1> HIDE DEF R
<1>3. PICK n \in S : \A m \in S : ~ (<<m, n>> \in R)
  BY <1>1, WFMin
<1>4. \A m \in S : m \in Nat /\ n \in Nat /\ ~ (m < n)
  BY <1>2, <1>3
<1> QED
  BY <1>4

\* Induction, as a fact about sets.
LEMMA Induction ==
    ASSUME NEW S, 0 \in S, \A n \in Nat : n \in S => n + 1 \in S
    PROVE  Nat \subseteq S
<1> SUFFICES ASSUME Nat \ S # {} PROVE FALSE
  OBVIOUS
<1>1. PICK n \in Nat \ S : \A m \in Nat \ S : n <= m
  BY LeastNumber
<1>2. n # 0
  OBVIOUS
<1>3. n - 1 \in Nat /\ n - 1 \in S
  BY <1>1, <1>2
<1> QED
  BY <1>1, <1>2, <1>3

\* What FlattenSeq computes: the concatenations of the first, the first two, ...
Concats(s, g) ==
    /\ DOMAIN g = 1 .. Len(s)
    /\ \A i \in DOMAIN s : g[i] = IF i = 1 THEN s[i] ELSE g[i - 1] \o s[i]

\* FlattenSeq, which lays the rows of a list behind one another, accumulates
\* them from the first on.
LEMMA Flattened ==
    ASSUME NEW V, NEW s \in Seq(Seq(V)), s # <<>>
    PROVE  \E g : Concats(s, g) /\ FlattenSeq(s) = g[Len(s)]
<1> DEFINE Step(g) == [i \in 1 .. Len(s) |-> IF i = 1 THEN s[i] ELSE g[i - 1] \o s[i]]
           T == {n \in Nat : \E g : \A i \in 1 .. Len(s) : i <= n =>
                                g[i] = IF i = 1 THEN s[i] ELSE g[i - 1] \o s[i]}
           fl == CHOOSE g : g = Step(g)
<1>1. 0 \in T
  OBVIOUS
<1>2. ASSUME NEW n \in Nat, n \in T PROVE n + 1 \in T
  <2>1. PICK g : \A i \in 1 .. Len(s) : i <= n =>
                     g[i] = IF i = 1 THEN s[i] ELSE g[i - 1] \o s[i]
    BY <1>2
  <2> DEFINE h == [i \in 0 .. n + 1 |->
                      IF i = n + 1 THEN IF i = 1 THEN s[i] ELSE g[i - 1] \o s[i] ELSE g[i]]
  <2>2. \A i \in 1 .. Len(s) : i <= n + 1 =>
            h[i] = IF i = 1 THEN s[i] ELSE h[i - 1] \o s[i]
    <3> SUFFICES ASSUME NEW i \in 1 .. Len(s), i <= n + 1
                 PROVE  h[i] = IF i = 1 THEN s[i] ELSE h[i - 1] \o s[i]
      OBVIOUS
    <3>1. i \in 0 .. n + 1 /\ i - 1 \in 0 .. n + 1 /\ i - 1 # n + 1 /\ h[i - 1] = g[i - 1]
      OBVIOUS
    <3>2. CASE i = n + 1
      BY <3>1, <3>2
    <3>3. CASE i # n + 1
      BY <2>1, <3>1, <3>3
    <3> QED
      BY <3>2, <3>3
  <2> HIDE DEF h
  <2> QED
    BY <2>2
<1>3. PICK g : \A i \in 1 .. Len(s) : g[i] = IF i = 1 THEN s[i] ELSE g[i - 1] \o s[i]
  <2> HIDE DEF T
  <2>1. Len(s) \in T
    BY <1>1, <1>2, Induction
  <2> QED
    BY <2>1 DEF T
<1>4. [i \in 1 .. Len(s) |-> g[i]] = Step([i \in 1 .. Len(s) |-> g[i]])
  BY <1>3
<1>5. fl = Step(fl)
  BY <1>4
<1>6. FlattenSeq(s) = fl[Len(s)]
  BY DEF FlattenSeq
<1>7. DOMAIN s = 1 .. Len(s)
  OBVIOUS
<1> HIDE DEF fl
<1> QED
  BY <1>5, <1>6, <1>7 DEF Concats

----------------------------------------------------------------------------
(* Fields and what the reader expects.                                     *)

\* Fields and expectations as sets of records.
FieldName == {"type", "id", "flag", "count", "size", "text"}
FieldRecord == [is : FieldName, value : Nat, width : Nat]
Expectation == [is : FieldName, capacity : Nat]

\* A text comes after its size.
WellFormed(q) ==
    \A f \in DOMAIN q :
        /\ q[f].is \in {"id", "count", "size"} => q[f].width = NumberWidth
        /\ q[f].is \in {"type", "flag"} => q[f].width = 1
        /\ q[f].is = "text" =>
              f - 1 \in DOMAIN q /\ q[f - 1].is = "size" /\ q[f - 1].value = q[f].width

\* The reader expects the field and has room for it.
Meets(e, x) ==
    /\ e.is = x.is
    /\ e.is \in {"id", "flag", "count", "size", "text"}
    /\ e.is = "text" => x.width < e.capacity

\* The expectations are met, one field each, without a list among them.
Readable(l, q) ==
    /\ l \in Seq(Expectation) /\ q \in Seq(FieldRecord)
    /\ Len(l) = Len(q)
    /\ WellFormed(q)
    /\ \A j \in 1 .. Len(q) : Meets(l[j], q[j]) /\ q[j].is # "count"

\* Where the elements of two sequences are in the two laid end to end.
LEMMA Concatenation ==
    ASSUME NEW S, NEW a \in Seq(S), NEW b \in Seq(S)
    PROVE  /\ a \o b \in Seq(S) /\ Len(a \o b) = Len(a) + Len(b)
           /\ DOMAIN (a \o b) = 1 .. Len(a) + Len(b)
           /\ \A j \in 1 .. Len(a) : (a \o b)[j] = a[j]
           /\ \A j \in 1 .. Len(b) : (a \o b)[Len(a) + j] = b[j]
OBVIOUS

\* What reads two parts reads the two in turn: the handlers of server.cpp and
\* client.cpp read a packet by one such part after another.
LEMMA Joined ==
    ASSUME NEW l, NEW m, NEW q, NEW r, Readable(l, q), Readable(m, r)
    PROVE  Readable(l \o m, q \o r)
<1>1. /\ l \in Seq(Expectation) /\ m \in Seq(Expectation)
      /\ q \in Seq(FieldRecord) /\ r \in Seq(FieldRecord)
      /\ Len(l) = Len(q) /\ Len(m) = Len(r) /\ Len(q) \in Nat /\ Len(r) \in Nat
      /\ DOMAIN q = 1 .. Len(q) /\ DOMAIN r = 1 .. Len(r)
  BY DEF Readable
<1> DEFINE ll == l \o m  qq == q \o r
<1>2. /\ ll \in Seq(Expectation) /\ Len(ll) = Len(q) + Len(r)
      /\ \A j \in 1 .. Len(q) : ll[j] = l[j]
      /\ \A j \in 1 .. Len(r) : ll[Len(q) + j] = m[j]
  BY <1>1
<1>3. /\ qq \in Seq(FieldRecord) /\ Len(qq) = Len(q) + Len(r)
      /\ DOMAIN qq = 1 .. Len(q) + Len(r)
      /\ \A j \in 1 .. Len(q) : qq[j] = q[j]
      /\ \A j \in 1 .. Len(r) : qq[Len(q) + j] = r[j]
  BY <1>1
<1>4. \A j \in 1 .. Len(q) + Len(r) :
          j \in 1 .. Len(q) \/ \E k \in 1 .. Len(r) : j = Len(q) + k
  <2> SUFFICES ASSUME NEW j \in 1 .. Len(q) + Len(r), j > Len(q)
               PROVE  \E k \in 1 .. Len(r) : j = Len(q) + k
    BY <1>1
  <2>1. j - Len(q) \in 1 .. Len(r) /\ j = Len(q) + (j - Len(q))
    BY <1>1
  <2> QED
    BY <2>1
<1> HIDE DEF ll, qq
<1>5. \A j \in 1 .. Len(q) + Len(r) : Meets(ll[j], qq[j]) /\ qq[j].is # "count"
  <2> SUFFICES ASSUME NEW j \in 1 .. Len(q) + Len(r)
               PROVE  Meets(ll[j], qq[j]) /\ qq[j].is # "count"
    OBVIOUS
  <2>1. CASE j \in 1 .. Len(q)
    <3>1. ll[j] = l[j] /\ qq[j] = q[j]
      BY <1>2, <1>3, <2>1
    <3> QED
      BY <2>1, <3>1 DEF Readable
  <2>2. CASE \E k \in 1 .. Len(r) : j = Len(q) + k
    <3>1. PICK k \in 1 .. Len(r) : ll[j] = m[k] /\ qq[j] = r[k]
      BY <1>2, <1>3, <2>2
    <3> QED
      BY <3>1 DEF Readable
  <2> QED
    BY <1>4, <2>1, <2>2
<1>6. WellFormed(qq)
  <2> SUFFICES ASSUME NEW f \in DOMAIN qq
               PROVE  /\ qq[f].is \in {"id", "count", "size"} => qq[f].width = NumberWidth
                      /\ qq[f].is \in {"type", "flag"} => qq[f].width = 1
                      /\ qq[f].is = "text" =>
                            /\ f - 1 \in DOMAIN qq /\ qq[f - 1].is = "size"
                            /\ qq[f - 1].value = qq[f].width
    BY DEF WellFormed
  <2>1. CASE f \in 1 .. Len(q)
    <3>1. qq[f] = q[f] /\ f \in DOMAIN q
      BY <1>1, <1>3, <2>1
    <3>2. f - 1 \in DOMAIN q => f - 1 \in DOMAIN qq /\ qq[f - 1] = q[f - 1]
      BY <1>1, <1>3
    <3>3. WellFormed(q)
      BY DEF Readable
    <3> QED
      BY <3>1, <3>2, <3>3 DEF WellFormed
  <2>2. CASE \E k \in 1 .. Len(r) : f = Len(q) + k
    <3>1. PICK k \in DOMAIN r : f = Len(q) + k /\ qq[f] = r[k]
      BY <1>1, <1>3, <2>2
    <3>2. k - 1 \in DOMAIN r => f - 1 \in DOMAIN qq /\ qq[f - 1] = r[k - 1]
      <4> SUFFICES ASSUME k - 1 \in DOMAIN r
                   PROVE  f - 1 \in DOMAIN qq /\ qq[f - 1] = r[k - 1]
        OBVIOUS
      <4>1. f - 1 = Len(q) + (k - 1) /\ k - 1 \in 1 .. Len(r)
        BY <1>1, <3>1
      <4> QED
        BY <1>1, <1>3, <4>1
    <3>3. WellFormed(r)
      BY DEF Readable
    <3> QED
      BY <3>1, <3>2, <3>3 DEF WellFormed
  <2> QED
    BY <1>3, <1>4, <2>1, <2>2
<1>7. Readable(ll, qq)
  BY <1>2, <1>3, <1>5, <1>6 DEF Readable
<1> QED
  BY <1>7 DEF ll, qq

\* One recv() for one send().
LEMMA OneField ==
    ASSUME NEW e \in Expectation, NEW x \in FieldRecord, Meets(e, x),
           x.is \in {"id", "size"} => x.width = NumberWidth, x.is = "flag" => x.width = 1,
           x.is \notin {"text", "count", "type"}
    PROVE  Readable(<<e>>, <<x>>)
<1> DEFINE l == <<e>>  q == <<x>>
<1>1. /\ l \in Seq(Expectation) /\ q \in Seq(FieldRecord) /\ Len(l) = 1 /\ Len(q) = 1
      /\ DOMAIN q = 1 .. 1 /\ l[1] = e /\ q[1] = x
  OBVIOUS
<1>2. \A j \in 1 .. 1 : j = 1
  OBVIOUS
<1> HIDE DEF l, q
<1>3. Readable(l, q)
  BY <1>1, <1>2 DEF Readable, WellFormed
<1> QED
  BY <1>3 DEF l, q

\* The parts all packets are made of: an id, a flag, and a text after its size.
LEMMA Parts ==
    /\ Readable(<<AnId>>, <<Id>>)
    /\ Readable(<<AFlag>>, <<Flag>>)
    /\ \A c \in Nat : \A n \in TextFor(c) : Readable(SizedInto(c), Sized(n))
<1>1. Readable(<<AnId>>, <<Id>>)
  <2>1. /\ AnId = [is |-> "id", capacity |-> 0]
        /\ Id = [is |-> "id", value |-> 0, width |-> NumberWidth]
    BY DEF AnId, Id, Expect, Field
  <2>2. AnId \in Expectation /\ Id \in FieldRecord /\ Meets(AnId, Id)
    BY <2>1, WireAssumption DEF Meets, FieldRecord, Expectation, FieldName
  <2> QED
    BY <2>1, <2>2, OneField
<1>2. Readable(<<AFlag>>, <<Flag>>)
  <2>1. /\ AFlag = [is |-> "flag", capacity |-> 0]
        /\ Flag = [is |-> "flag", value |-> 0, width |-> 1]
    BY DEF AFlag, Flag, Expect, Field
  <2>2. AFlag \in Expectation /\ Flag \in FieldRecord /\ Meets(AFlag, Flag)
    BY <2>1 DEF Meets, FieldRecord, Expectation, FieldName
  <2> QED
    BY <2>1, <2>2, OneField
<1>3. ASSUME NEW c \in Nat, NEW n \in TextFor(c) PROVE Readable(SizedInto(c), Sized(n))
  <2> DEFINE x == [is |-> "size", value |-> n, width |-> NumberWidth]
             y == [is |-> "text", value |-> n, width |-> n]
             d == [is |-> "size", capacity |-> 0]
             e == [is |-> "text", capacity |-> c]
             q == <<x, y>>
             l == <<d, e>>
  <2>1. n \in Nat /\ n < c
    BY DEF TextFor
  <2>2. x \in FieldRecord /\ y \in FieldRecord /\ d \in Expectation /\ e \in Expectation
    BY <2>1, WireAssumption DEF FieldRecord, Expectation, FieldName
  <2>3. Meets(d, x) /\ Meets(e, y)
    BY <2>1 DEF Meets
  <2>4. x.is = "size" /\ y.is = "text" /\ x.width = NumberWidth /\ x.value = y.width
    OBVIOUS
  <2>5. q = Sized(n) /\ l = SizedInto(c)
    BY DEF Sized, SizedInto, Expect, Field
  <2> HIDE DEF x, y, d, e
  <2>6. /\ q \in Seq(FieldRecord) /\ l \in Seq(Expectation) /\ Len(q) = 2 /\ Len(l) = 2
        /\ DOMAIN q = 1 .. 2 /\ q[1] = x /\ q[2] = y /\ l[1] = d /\ l[2] = e
    BY <2>2
  <2> HIDE DEF q, l
  <2>7. \A j \in 1 .. 2 : j = 1 \/ (j = 2 /\ j - 1 = 1)
    OBVIOUS
  <2>8. WellFormed(q)
    BY <2>4, <2>6, <2>7 DEF WellFormed
  <2>9. \A j \in 1 .. 2 : Meets(l[j], q[j]) /\ q[j].is # "count"
    BY <2>3, <2>4, <2>6, <2>7
  <2>10. Readable(l, q)
    BY <2>6, <2>8, <2>9 DEF Readable
  <2> QED
    BY <2>5, <2>10
<1> QED
  BY <1>1, <1>2, <1>3

\* g holds the first of s, the first two, and so on; its rows are read by
\* those of t, are fields, and come first in a longer list.
Accumulates(g, s, n) == g[1] = s[1] /\ \A i \in 1 .. n - 1 : g[i + 1] = g[i] \o s[i + 1]
RowsReadable(t, s, m) == \A i \in 1 .. m : Readable(t[i], s[i])
RowsOfFields(s, n) == \A i \in 1 .. n : s[i] \in Seq(FieldRecord)
IsPrefixOf(q, r) ==
    /\ r \in Seq(FieldRecord) /\ Len(q) <= Len(r)
    /\ \A j \in 1 .. Len(q) : r[j] = q[j]

\* The first rows of a list are read row by row, and they come first in it.
LEMMA RowsUpTo ==
    ASSUME NEW n \in Nat, NEW m \in 1 .. n, NEW s, NEW t, NEW g, NEW h,
           RowsOfFields(s, n), RowsReadable(t, s, m),
           Accumulates(g, s, n), Accumulates(h, t, m)
    PROVE  Readable(h[m], g[m]) /\ IsPrefixOf(g[m], g[n])
<1>0. /\ \A i \in 1 .. n : s[i] \in Seq(FieldRecord)
      /\ \A i \in 1 .. m : Readable(t[i], s[i])
      /\ g[1] = s[1] /\ \A i \in 1 .. n - 1 : g[i + 1] = g[i] \o s[i + 1]
      /\ h[1] = t[1] /\ \A i \in 1 .. m - 1 : h[i + 1] = h[i] \o t[i + 1]
  BY DEF RowsOfFields, RowsReadable, Accumulates
<1> USE <1>0
<1> DEFINE T == {i \in Nat : i + 1 <= m => Readable(h[i + 1], g[i + 1])}
<1>1. Nat \subseteq T
  <2>1. 0 \in T
    OBVIOUS
  <2>2. ASSUME NEW i \in Nat, i \in T PROVE i + 1 \in T
    <3> SUFFICES ASSUME i + 2 <= m PROVE Readable(h[i + 2], g[i + 2])
      OBVIOUS
    <3>1. Readable(h[i + 1], g[i + 1])
      BY <2>2
    <3>2. Readable(t[i + 2], s[i + 2])
      OBVIOUS
    <3>3. i + 1 \in 1 .. m - 1 /\ i + 1 \in 1 .. n - 1 /\ (i + 1) + 1 = i + 2
      OBVIOUS
    <3>4. h[i + 2] = h[i + 1] \o t[i + 2] /\ g[i + 2] = g[i + 1] \o s[i + 2]
      BY <3>3
    <3> QED
      BY <3>1, <3>2, <3>4, Joined
  <2> HIDE DEF T
  <2> QED
    BY <2>1, <2>2, Induction
<1>2. Readable(h[m], g[m])
  <2>1. m - 1 \in Nat /\ (m - 1) + 1 = m /\ m <= m
    OBVIOUS
  <2>2. m - 1 \in T
    BY <1>1, <2>1
  <2> QED
    BY ONLY <2>1, <2>2
<1> HIDE DEF T
<1> DEFINE q == g[m]
           Extends(r) == IsPrefixOf(q, r)
           U == {i \in Nat : m + i <= n => Extends(g[m + i])}
<1>3. q \in Seq(FieldRecord)
  BY <1>2 DEF Readable
<1>4. ASSUME NEW r, Extends(r), NEW x \in Seq(FieldRecord) PROVE Extends(r \o x)
  <2> USE DEF IsPrefixOf
  <2> HIDE DEF q
  <2>1. /\ r \o x \in Seq(FieldRecord) /\ Len(r \o x) >= Len(r) /\ Len(r) \in Nat
        /\ \A j \in 1 .. Len(r) : (r \o x)[j] = r[j]
    BY <1>4
  <2> QED
    BY <1>3, <1>4, <2>1
<1> HIDE DEF q, Extends
<1>5. Nat \subseteq U
  <2>1. 0 \in U
    BY <1>3 DEF q, Extends, IsPrefixOf
  <2>2. ASSUME NEW i \in Nat, i \in U PROVE i + 1 \in U
    <3> SUFFICES ASSUME m + (i + 1) <= n PROVE Extends(g[m + (i + 1)])
      OBVIOUS
    <3>1. Extends(g[m + i])
      BY <2>2
    <3>2. m + i \in 1 .. n - 1 /\ m + (i + 1) = (m + i) + 1
      OBVIOUS
    <3>3. PICK k \in 1 .. n - 1 : k = m + i
      BY <3>2
    <3>4. g[k + 1] = g[k] \o s[k + 1]
      BY ZenonT(30)
    <3>5. s[k + 1] \in Seq(FieldRecord)
      <4>1. k + 1 \in 1 .. n
        OBVIOUS
      <4> QED
        BY <4>1
    <3>6. Extends(g[k] \o s[k + 1])
      BY <1>4, <3>1, <3>3, <3>5
    <3> QED
      BY <3>2, <3>3, <3>4, <3>6
  <2> HIDE DEF U
  <2> QED
    BY <2>1, <2>2, Induction
<1>6. Extends(g[n])
  <2>1. n - m \in Nat /\ m + (n - m) = n /\ n <= n
    OBVIOUS
  <2>2. n - m \in U
    BY <1>5, <2>1
  <2> QED
    BY <2>1, <2>2
<1> QED
  BY <1>2, <1>6 DEF q, Extends

\* A list that is cut short is read as far as the rows that are asked for.
LEMMA Rows ==
    ASSUME NEW s \in Seq(Seq(FieldRecord)), NEW t \in Seq(Seq(Expectation)),
           t # <<>>, Len(t) <= Len(s), \A i \in 1 .. Len(t) : Readable(t[i], s[i])
    PROVE  \E q : /\ Readable(FlattenSeq(t), q) /\ IsPrefixOf(q, FlattenSeq(s))
                  /\ Len(t) = Len(s) => FlattenSeq(s) = q
<1> DEFINE n == Len(s)  m == Len(t)
<1>1. /\ s # <<>> /\ n \in Nat /\ m \in 1 .. n /\ DOMAIN s = 1 .. n /\ DOMAIN t = 1 .. m
      /\ \A i \in 1 .. n : s[i] \in Seq(FieldRecord)
  OBVIOUS
<1>2. PICK g : Concats(s, g) /\ FlattenSeq(s) = g[n]
  <2> HIDE DEF n, m
  <2> QED
    BY <1>1, Flattened DEF n
<1>3. PICK h : Concats(t, h) /\ FlattenSeq(t) = h[m]
  <2> HIDE DEF n, m
  <2> QED
    BY <1>1, Flattened DEF m
<1> HIDE DEF n, m
<1>4. g[1] = s[1] /\ \A i \in 1 .. n - 1 : g[i + 1] = g[i] \o s[i + 1]
  <2>1. \A i \in 1 .. n : g[i] = IF i = 1 THEN s[i] ELSE g[i - 1] \o s[i]
    BY ONLY <1>1, <1>2 DEF Concats
  <2>2. g[1] = s[1]
    BY ONLY <1>1, <2>1
  <2>3. ASSUME NEW i \in 1 .. n - 1 PROVE g[i + 1] = g[i] \o s[i + 1]
    <3>1. i + 1 \in 1 .. n /\ i + 1 # 1 /\ (i + 1) - 1 = i
      BY ONLY <1>1, i \in 1 .. n - 1
    <3> QED
      BY ONLY <2>1, <3>1
  <2> QED
    BY ONLY <2>2, <2>3
<1>5. h[1] = t[1] /\ \A i \in 1 .. m - 1 : h[i + 1] = h[i] \o t[i + 1]
  <2>1. \A i \in 1 .. m : h[i] = IF i = 1 THEN t[i] ELSE h[i - 1] \o t[i]
    BY ONLY <1>1, <1>3 DEF Concats
  <2>2. h[1] = t[1]
    BY ONLY <1>1, <2>1
  <2>3. ASSUME NEW i \in 1 .. m - 1 PROVE h[i + 1] = h[i] \o t[i + 1]
    <3>1. i + 1 \in 1 .. m /\ i + 1 # 1 /\ (i + 1) - 1 = i
      BY ONLY <1>1, i \in 1 .. m - 1
    <3> QED
      BY ONLY <2>1, <3>1
  <2> QED
    BY ONLY <2>2, <2>3
<1>6. RowsReadable(t, s, m) /\ RowsOfFields(s, n)
  BY <1>1 DEF m, RowsReadable, RowsOfFields
<1>7. Accumulates(g, s, n) /\ Accumulates(h, t, m)
  BY <1>4, <1>5 DEF Accumulates
<1>8. Readable(h[m], g[m]) /\ IsPrefixOf(g[m], g[n])
  BY <1>1, <1>6, <1>7, RowsUpTo
<1>9. Len(t) = Len(s) => g[n] = g[m]
  BY DEF n, m
<1> QED
  BY <1>2, <1>3, <1>8, <1>9

----------------------------------------------------------------------------
(* Packets, and the lists in them.                                         *)

\* What is expected from field f on, and what comes.
Aligned(l, q, f) ==
    /\ l \in Seq(Expectation)
    /\ \A j \in 1 .. Len(l) : f + j - 1 \in DOMAIN q /\ Meets(l[j], q[f + j - 1])

\* The packet of a kind, as the reader goes through it.
LaidOut(q, kind) ==
    /\ q \in Seq(FieldRecord) /\ Len(q) >= 2 /\ WellFormed(q)
    /\ q[1].is = "type" /\ q[1].width = 1
    /\ \A j \in 1 .. Len(q) : q[j].is = "count" => j = 2
    /\ Aligned(Expected(kind), q, 2) /\ Len(Expected(kind)) >= 1
    /\ q[2].is # "count" => Len(Expected(kind)) = Len(q) - 1
    /\ q[2].is = "count" =>
          /\ Len(Expected(kind)) = 1
          /\ \A v \in 0 .. q[2].value :
                /\ Aligned(ExpectedRows(kind, v), q, 3)
                /\ v = q[2].value => Len(ExpectedRows(kind, v)) = Len(q) - 2

\* What is expected of so many rows.
RowsOf(row, v) == FlattenSeq([i \in 1 .. v |-> row])

\* A list without rows has no fields but its count.
LEMMA NoRows == FlattenSeq(<<>>) = <<>>
BY DEF FlattenSeq

\* The loops of client.cpp 186-300 expect the same row again and again.
LEMMA Repeated ==
    ASSUME NEW S, NEW x \in S, NEW v \in Nat, v > 0
    PROVE  LET t == [i \in 1 .. v |-> x]
           IN  t \in Seq(S) /\ Len(t) = v /\ t # <<>> /\ \A i \in 1 .. v : t[i] = x
OBVIOUS

\* Who expects nothing may be content with any fields.
LEMMA NothingExpected ==
    ASSUME NEW b, Len(b) \in Nat, NEW r, r = <<>>
    PROVE  /\ r \in Seq(Expectation) /\ Len(r) <= Len(b) /\ Len(r) = 0
           /\ \A j \in 1 .. Len(r) : Meets(r[j], b[j])
<1>1. Len(r) = 0 /\ 1 .. Len(r) = {} /\ r \in Seq(Expectation)
  OBVIOUS
<1> QED
  BY <1>1

\* Whatever number of its rows is asked for, a list holds what is expected
\* (client.cpp 186-300).
LEMMA ListBody ==
    ASSUME NEW row, NEW s \in Seq(Seq(FieldRecord)), \A i \in 1 .. Len(s) : Readable(row, s[i])
    PROVE  LET b == FlattenSeq(s) IN
           /\ b \in Seq(FieldRecord) /\ WellFormed(b)
           /\ \A j \in 1 .. Len(b) : b[j].is # "count"
           /\ \A v \in 0 .. Len(s) :
                /\ RowsOf(row, v) \in Seq(Expectation) /\ Len(RowsOf(row, v)) <= Len(b)
                /\ \A j \in 1 .. Len(RowsOf(row, v)) : Meets(RowsOf(row, v)[j], b[j])
                /\ v = Len(s) => Len(RowsOf(row, v)) = Len(b)
<1> DEFINE b == FlattenSeq(s)
           Up(v) == /\ RowsOf(row, v) \in Seq(Expectation) /\ Len(RowsOf(row, v)) <= Len(b)
                    /\ \A j \in 1 .. Len(RowsOf(row, v)) : Meets(RowsOf(row, v)[j], b[j])
                    /\ v = Len(s) => Len(RowsOf(row, v)) = Len(b)
           Shape == /\ b \in Seq(FieldRecord) /\ WellFormed(b)
                    /\ \A j \in 1 .. Len(b) : b[j].is # "count"
<1>0. Len(s) \in Nat
  OBVIOUS
<1>1. RowsOf(row, 0) = <<>>
  <2>1. [i \in 1 .. 0 |-> row] = <<>>
    OBVIOUS
  <2> QED
    BY <2>1, NoRows DEF RowsOf
<1>2. ASSUME NEW v \in 1 .. Len(s)
      PROVE  \E q : /\ Readable(RowsOf(row, v), q) /\ IsPrefixOf(q, b)
                    /\ v = Len(s) => b = q
  <2> DEFINE t == [i \in 1 .. v |-> row]
  <2>1. row \in Seq(Expectation)
    BY <1>2 DEF Readable
  <2>2. /\ t \in Seq(Seq(Expectation)) /\ Len(t) = v /\ t # <<>>
        /\ \A i \in 1 .. v : t[i] = row
    <3>1. v \in Nat /\ v > 0
      BY <1>2
    <3> QED
      BY <2>1, <3>1, Repeated
  <2>3. \A i \in 1 .. Len(t) : Readable(t[i], s[i])
    <3> HIDE DEF t
    <3> QED
      BY <1>2, <2>2
  <2>4. Len(t) <= Len(s)
    <3> HIDE DEF t
    <3> QED
      BY <1>2, <2>2
  <2>5. FlattenSeq(t) = RowsOf(row, v)
    BY DEF RowsOf
  <2> HIDE DEF t, b
  <2>6. PICK q : /\ Readable(FlattenSeq(t), q) /\ IsPrefixOf(q, FlattenSeq(s))
                 /\ Len(t) = Len(s) => FlattenSeq(s) = q
    <3> HIDE DEF RowsOf
    <3>1. \A i \in 1 .. Len(t) : Readable(t[i], s[i])
      BY <2>3
    <3> QED
      BY ONLY s \in Seq(Seq(FieldRecord)), <2>2, <2>4, <3>1, Rows
  <2>7. /\ Readable(RowsOf(row, v), q) /\ IsPrefixOf(q, b)
        /\ v = Len(s) => b = q
    BY <2>2, <2>5, <2>6 DEF b
  <2> QED
    BY <2>7
<1> HIDE DEF b
<1>3. CASE s = <<>>
  <2>1. b = <<>> /\ Len(s) = 0
    BY <1>3, NoRows DEF b
  <2>2. Shape
    BY <2>1 DEF WellFormed
  <2>3. ASSUME NEW v \in 0 .. Len(s) PROVE Up(v)
    <3>1. v = 0
      BY <2>1, <2>3
    <3>2. RowsOf(row, v) = <<>> /\ Len(b) = 0
      BY <1>1, <2>1, <3>1
    <3> QED
      BY ONLY <2>1, <3>1, <3>2, NothingExpected
  <2> QED
    BY <2>2, <2>3 DEF b
<1>4. CASE s # <<>>
  <2>1. Len(s) \in 1 .. Len(s)
    BY <1>4
  <2>2. PICK q : Readable(RowsOf(row, Len(s)), q) /\ b = q
    BY <1>2, <2>1
  <2>3. Shape
    BY <2>2 DEF Readable
  <2>4. ASSUME NEW v \in 0 .. Len(s) PROVE Up(v)
    <3>1. CASE v = 0
      <4>1. Len(s) # 0 /\ Len(b) \in Nat
        BY <1>4, <2>3
      <4>2. RowsOf(row, v) = <<>>
        BY <1>1, <3>1
      <4> QED
        BY ONLY <3>1, <4>1, <4>2, NothingExpected
    <3>2. CASE v # 0
      <4>1. v \in 1 .. Len(s)
        BY <1>0, <2>4, <3>2
      <4>2. PICK r : Readable(RowsOf(row, v), r) /\ IsPrefixOf(r, b) /\ (v = Len(s) => b = r)
        BY <1>2, <4>1
      <4> QED
        BY <4>2 DEF Readable, IsPrefixOf
    <3> QED
      BY <3>1, <3>2
  <2> QED
    BY <2>3, <2>4 DEF b
<1> QED
  BY <1>3, <1>4

\* The ActionType.
TypeField == Field("type", 0, 1)

\* Where the fields are when one comes before them.
LEMMA Headed ==
    ASSUME NEW x \in FieldRecord, NEW b \in Seq(FieldRecord)
    PROVE  /\ <<x>> \o b \in Seq(FieldRecord) /\ Len(<<x>> \o b) = Len(b) + 1
           /\ DOMAIN (<<x>> \o b) = 1 .. Len(b) + 1
           /\ (<<x>> \o b)[1] = x
           /\ \A j \in 1 .. Len(b) : (<<x>> \o b)[j + 1] = b[j]
OBVIOUS

\* The ActionType or a count before them leaves the fields well formed.
LEMMA HeadedWellFormed ==
    ASSUME NEW x \in FieldRecord, NEW b \in Seq(FieldRecord), WellFormed(b),
           x.is \in {"type", "count"}, x.is = "type" => x.width = 1,
           x.is = "count" => x.width = NumberWidth
    PROVE  WellFormed(<<x>> \o b)
<1> DEFINE q == <<x>> \o b
<1>1. /\ Len(b) \in Nat /\ DOMAIN q = 1 .. Len(b) + 1 /\ q[1] = x
      /\ \A j \in 1 .. Len(b) : q[j + 1] = b[j]
  BY Headed
<1> HIDE DEF q
<1> SUFFICES ASSUME NEW f \in DOMAIN q
             PROVE  /\ q[f].is \in {"id", "count", "size"} => q[f].width = NumberWidth
                    /\ q[f].is \in {"type", "flag"} => q[f].width = 1
                    /\ q[f].is = "text" =>
                          /\ f - 1 \in DOMAIN q /\ q[f - 1].is = "size"
                          /\ q[f - 1].value = q[f].width
  BY DEF WellFormed, q
<1>2. CASE f = 1
  BY <1>1, <1>2
<1>3. CASE f # 1
  <2>1. PICK j \in DOMAIN b : f = j + 1
    <3>1. f - 1 \in 1 .. Len(b) /\ f = (f - 1) + 1
      BY <1>1, <1>3
    <3> QED
      BY <3>1
  <2>2. q[f] = b[j]
    BY <1>1, <2>1
  <2>3. j - 1 \in DOMAIN b => f - 1 \in DOMAIN q /\ q[f - 1] = b[j - 1]
    <3> SUFFICES ASSUME j - 1 \in 1 .. Len(b) PROVE f - 1 \in DOMAIN q /\ q[f - 1] = b[j - 1]
      OBVIOUS
    <3>1. f - 1 = (j - 1) + 1
      BY <2>1
    <3> QED
      BY <1>1, <3>1
  <2> QED
    BY <2>1, <2>2, <2>3 DEF WellFormed
<1> QED
  BY <1>2, <1>3

\* The ActionType's byte and the count of a list.
LEMMA TypeFields ==
    /\ TypeField \in FieldRecord /\ TypeField.is = "type" /\ TypeField.width = 1
    /\ \A n \in Nat : /\ Field("count", n, NumberWidth) \in FieldRecord
                      /\ Field("count", n, NumberWidth).is = "count"
                      /\ Field("count", n, NumberWidth).value = n
                      /\ Field("count", n, NumberWidth).width = NumberWidth
    /\ ACount \in Expectation /\ ACount.is = "count"
BY WireAssumption DEF TypeField, Field, FieldRecord, FieldName, ACount, Expect, Expectation

\* Every place but the first is the one after another.
LEMMA Shifted ==
    ASSUME NEW n \in Nat, NEW j \in 1 .. n + 1, j # 1
    PROVE  \E k \in 1 .. n : j = k + 1
<1>1. j - 1 \in 1 .. n /\ j = (j - 1) + 1
  OBVIOUS
<1> QED
  BY <1>1

\* A packet without a list: the ActionType and then what its handler expects.
LEMMA PlainLaidOut ==
    ASSUME NEW kind, NEW b, Readable(Expected(kind), b), Len(b) >= 1
    PROVE  LaidOut(<<TypeField>> \o b, kind)
<1> DEFINE q == <<TypeField>> \o b  l == Expected(kind)
<1>1. /\ l \in Seq(Expectation) /\ b \in Seq(FieldRecord) /\ Len(l) = Len(b) /\ WellFormed(b)
      /\ \A j \in 1 .. Len(b) : Meets(l[j], b[j]) /\ b[j].is # "count"
      /\ Len(b) \in Nat
  BY DEF Readable
<1>2. /\ q \in Seq(FieldRecord) /\ Len(q) = Len(b) + 1 /\ DOMAIN q = 1 .. Len(b) + 1
      /\ q[1] = TypeField /\ \A j \in 1 .. Len(b) : q[j + 1] = b[j]
  BY <1>1, TypeFields, Headed
<1>3. WellFormed(q)
  BY <1>1, TypeFields, HeadedWellFormed
<1> HIDE DEF q, l
<1>4. ASSUME NEW j \in 1 .. Len(q) PROVE q[j].is # "count"
  <2>1. CASE j = 1
    BY <1>2, <2>1, TypeFields
  <2>2. CASE j # 1
    <3>1. PICK k \in 1 .. Len(b) : j = k + 1
      BY <1>1, <1>2, <2>2, Shifted
    <3> QED
      BY <1>1, <1>2, <3>1
  <2> QED
    BY <2>1, <2>2
<1>5. Aligned(l, q, 2)
  <2>1. ASSUME NEW j \in 1 .. Len(l) PROVE 2 + j - 1 \in DOMAIN q /\ Meets(l[j], q[2 + j - 1])
    <3>1. 2 + j - 1 = j + 1 /\ j + 1 \in 1 .. Len(b) + 1 /\ j \in 1 .. Len(b)
      BY <1>1
    <3> QED
      BY <1>1, <1>2, <3>1
  <2> QED
    BY <1>1, <2>1 DEF Aligned
<1>6. LaidOut(q, kind)
  <2>1. 2 \in 1 .. Len(q)
    BY <1>1, <1>2
  <2> QED
    BY <1>1, <1>2, <1>3, <1>4, <1>5, <2>1, TypeFields DEF LaidOut, l
<1> QED
  BY <1>6 DEF q

\* A packet with a list: the ActionType, the count, and that many rows.
LEMMA ListLaidOut ==
    ASSUME NEW kind, NEW row, NEW s \in Seq(Seq(FieldRecord)),
           \A i \in 1 .. Len(s) : Readable(row, s[i]),
           Expected(kind) = <<ACount>>,
           \A v \in Nat : ExpectedRows(kind, v) = RowsOf(row, v)
    PROVE  LaidOut(<<TypeField>> \o (<<Field("count", Len(s), NumberWidth)>> \o FlattenSeq(s)),
                   kind)
<1> DEFINE n == Len(s)
           c == Field("count", n, NumberWidth)
           b == FlattenSeq(s)
           r == <<c>> \o b
           q == <<TypeField>> \o r
<1>1. /\ b \in Seq(FieldRecord) /\ WellFormed(b)
      /\ \A j \in 1 .. Len(b) : b[j].is # "count"
      /\ \A v \in 0 .. n :
            /\ RowsOf(row, v) \in Seq(Expectation) /\ Len(RowsOf(row, v)) <= Len(b)
            /\ \A j \in 1 .. Len(RowsOf(row, v)) : Meets(RowsOf(row, v)[j], b[j])
            /\ v = n => Len(RowsOf(row, v)) = Len(b)
  BY ListBody
<1>2. n \in Nat /\ Len(b) \in Nat
  BY <1>1
<1>3. /\ c \in FieldRecord /\ c.is = "count" /\ c.value = n /\ c.width = NumberWidth
      /\ TypeField \in FieldRecord /\ TypeField.is = "type" /\ TypeField.width = 1
  BY <1>2, TypeFields
<1> HIDE DEF n, c, b
<1>4. /\ r \in Seq(FieldRecord) /\ Len(r) = Len(b) + 1 /\ DOMAIN r = 1 .. Len(b) + 1
      /\ r[1] = c /\ \A j \in 1 .. Len(b) : r[j + 1] = b[j]
  BY <1>1, <1>3, Headed
<1>5. WellFormed(r)
  BY <1>1, <1>3, HeadedWellFormed
<1> HIDE DEF r
<1>6. /\ q \in Seq(FieldRecord) /\ Len(q) = Len(r) + 1 /\ DOMAIN q = 1 .. Len(r) + 1
      /\ q[1] = TypeField /\ \A j \in 1 .. Len(r) : q[j + 1] = r[j]
  BY <1>3, <1>4, Headed
<1>7. WellFormed(q)
  BY <1>3, <1>4, <1>5, HeadedWellFormed
<1> HIDE DEF q
<1>8. q[2] = c
  <2>1. 1 \in 1 .. Len(r) /\ 1 + 1 = 2
    BY <1>2, <1>4
  <2> QED
    BY <1>4, <1>6, <2>1
<1>9. ASSUME NEW j \in 1 .. Len(b) PROVE q[j + 2] = b[j] /\ j + 2 \in DOMAIN q
  <2>1. PICK k \in 1 .. Len(r) : k = j + 1
    BY <1>2, <1>4
  <2>2. k + 1 = j + 2 /\ k + 1 \in 1 .. Len(r) + 1
    BY <1>2, <1>4, <2>1
  <2>3. q[k + 1] = r[k]
    BY <1>6
  <2>4. r[j + 1] = b[j]
    BY <1>4
  <2> QED
    BY <1>6, <2>1, <2>2, <2>3, <2>4
<1>10. Len(q) = Len(b) + 2
  BY <1>2, <1>4, <1>6
<1>11. ASSUME NEW j \in 1 .. Len(q), q[j].is = "count" PROVE j = 2
  <2> SUFFICES ASSUME j # 2 PROVE FALSE
    OBVIOUS
  <2>1. CASE j = 1
    BY <1>3, <1>6, <1>11, <2>1
  <2>2. CASE j # 1
    <3>1. PICK k \in 1 .. Len(b) : j = k + 2
      <4>1. j - 2 \in 1 .. Len(b) /\ j = (j - 2) + 2
        BY <1>2, <1>10, <2>2
      <4> QED
        BY <4>1
    <3>2. q[j] = b[k]
      BY <1>9, <3>1
    <3> QED
      BY <1>1, <1>11, <3>2
  <2> QED
    BY <2>1, <2>2
<1>12. Aligned(<<ACount>>, q, 2) /\ Len(<<ACount>>) = 1
  <2> DEFINE l == <<ACount>>
  <2>1. l \in Seq(Expectation) /\ Len(l) = 1 /\ l[1] = ACount
    BY TypeFields
  <2>2. Meets(ACount, c)
    BY <1>3, TypeFields DEF Meets
  <2>3. 2 \in DOMAIN q
    BY <1>2, <1>4, <1>6
  <2> HIDE DEF l
  <2>4. ASSUME NEW j \in 1 .. Len(l) PROVE 2 + j - 1 \in DOMAIN q /\ Meets(l[j], q[2 + j - 1])
    <3>1. j = 1 /\ 2 + j - 1 = 2
      BY <2>1
    <3> QED
      BY <1>8, <2>1, <2>2, <2>3, <3>1
  <2> QED
    BY <2>1, <2>4 DEF Aligned, l
<1>13. ASSUME NEW v \in 0 .. n
       PROVE  /\ Aligned(ExpectedRows(kind, v), q, 3)
              /\ v = n => Len(ExpectedRows(kind, v)) = Len(q) - 2
  <2>1. PICK l : l = RowsOf(row, v)
    OBVIOUS
  <2>2. ExpectedRows(kind, v) = l
    BY <1>2, <2>1
  <2>3. /\ l \in Seq(Expectation) /\ Len(l) <= Len(b)
        /\ \A j \in 1 .. Len(l) : Meets(l[j], b[j])
        /\ v = n => Len(l) = Len(b)
    BY <1>1, <2>1, Zenon
  <2>4. ASSUME NEW j \in 1 .. Len(l) PROVE 3 + j - 1 \in DOMAIN q /\ Meets(l[j], q[3 + j - 1])
    <3>1. 3 + j - 1 = j + 2 /\ j \in 1 .. Len(b) /\ Len(l) \in Nat
      BY <1>2, <2>3
    <3>2. q[j + 2] = b[j] /\ j + 2 \in DOMAIN q
      BY <1>9, <3>1
    <3> QED
      BY <2>3, <3>1, <3>2
  <2>5. Len(l) = Len(b) => Len(l) = Len(q) - 2
    BY <1>2, <1>10
  <2> QED
    BY <2>2, <2>3, <2>4, <2>5 DEF Aligned
<1>14. LaidOut(q, kind)
  <2> HIDE DEF Aligned, WellFormed
  <2>1. Len(q) >= 2 /\ Len(<<ACount>>) >= 1
    BY <1>2, <1>10, <1>12
  <2> QED
    BY <1>3, <1>6, <1>7, <1>8, <1>11, <1>12, <1>13, <2>1, Zenon DEF LaidOut
<1> QED
  BY <1>14 DEF q, r, c, b, n

----------------------------------------------------------------------------
(* Both sides agree on every packet.                                       *)

\* As Joined, for fields that are not none.
LEMMA LongEnough ==
    ASSUME NEW l, NEW q, Readable(l, q), NEW m, NEW r, Readable(m, r), Len(r) >= 1
    PROVE  Readable(l \o m, q \o r) /\ Len(q \o r) >= 1
<1>1. q \in Seq(FieldRecord) /\ r \in Seq(FieldRecord)
  BY DEF Readable
<1>2. Len(q \o r) = Len(q) + Len(r) /\ Len(q) \in Nat /\ Len(r) \in Nat
  BY <1>1
<1> QED
  BY <1>2, Joined

\* Two of the same.
LEMMA Pair == ASSUME NEW S, NEW x \in S PROVE <<x>> \o <<x>> = <<x, x>>
<1>1. <<x>> \in Seq(S) /\ <<x, x>> \in Seq(S) /\ Len(<<x>>) = 1 /\ Len(<<x, x>>) = 2
  OBVIOUS
<1>2. <<x>> \o <<x>> \in Seq(S) /\ Len(<<x>> \o <<x>>) = 2
  BY <1>1, ConcatProperties
<1>3. (<<x>> \o <<x>>)[1] = x /\ (<<x>> \o <<x>>)[2] = x
  BY <1>1, ConcatProperties
<1> DEFINE a == <<x>> \o <<x>>  b == <<x, x>>
<1>4. a \in Seq(S) /\ b \in Seq(S) /\ Len(a) = Len(b)
  BY <1>1, <1>2
<1>5. \A i \in 1 .. Len(a) : a[i] = b[i]
  BY <1>2, <1>3
<1> HIDE DEF a, b
<1>6. a = b
  BY <1>4, <1>5, SeqEqual
<1> QED
  BY <1>6 DEF a, b

\* Two ids in a row, as SendChatInfoPacket sends them.
LEMMA TwoIds == Readable(<<AnId, AnId>>, <<Id, Id>>) /\ Len(<<Id, Id>>) >= 1
<1>1. Readable(<<AnId>> \o <<AnId>>, <<Id>> \o <<Id>>)
  BY Parts, Joined
<1>2. <<AnId>> \o <<AnId>> = <<AnId, AnId>> /\ <<Id>> \o <<Id>> = <<Id, Id>>
  BY Pair
<1>3. Len(<<Id, Id>>) >= 1
  OBVIOUS
<1> QED
  BY <1>1, <1>2, <1>3

\* An id alone, as most replies have it.
LEMMA OneId == Readable(<<AnId>>, <<Id>>) /\ Len(<<Id>>) >= 1
BY Parts

\* A text after its size, in a buffer that has room for it.
LEMMA ASizedText ==
    ASSUME NEW c \in Nat, NEW n \in TextFor(c)
    PROVE  Readable(SizedInto(c), Sized(n)) /\ Len(Sized(n)) >= 1
<1>1. Len(Sized(n)) = 2
  BY DEF Sized
<1> QED
  BY <1>1, Parts

\* The text of a forwarded message has the size of the sender's whole buffer,
\* and client.cpp:144-154 has one byte more for it (server.cpp:322).
LEMMA InputFits == InputSize \in TextFor(InputSize + 1)
BY WireAssumption DEF TextFor

\* Client and server agree on every request (client.cpp 47-118 against
\* server.cpp 161-173, 243-255, 837-841, 918-948).
LEMMA RequestLaidOut ==
    ASSUME direction = "requests", NEW p \in Request
    PROVE  LaidOut(Fields(p), p.kind)
<1> DEFINE b == RequestFields(p)  l == ExpectRequest(p.kind)
<1>1. Fields(p) = <<TypeField>> \o b /\ Expected(p.kind) = l
  BY DEF Fields, Expected, TypeField
<1> SUFFICES Readable(l, b) /\ Len(b) >= 1
  <2> HIDE DEF b, l
  <2> QED
    BY <1>1, PlainLaidOut
<1> USE WireAssumption
<1>2. CASE p.kind = "chatPacket"
  <2>1. b = <<Id, Id>> /\ l = <<AnId, AnId>>
    BY <1>2 DEF RequestFields, ChatPacketFields, ExpectRequest
  <2> QED
    BY <2>1, TwoIds
<1>3. CASE p.kind = "userPacket" /\ p.rows[1] \in TextFor(NameSize) \X TextFor(NameSize)
  <2>1. PICK n, m \in TextFor(NameSize) : p.rows[1] = <<n, m>>
    BY <1>3
  <2>2. b = UserPacketFields(p.rows[1]) /\ l = ExpectUserPacket
    BY <1>3 DEF RequestFields, ExpectRequest
  <2>3. p.rows[1][1] = n /\ p.rows[1][2] = m
    BY <2>1
  <2>4. b = Sized(n) \o Sized(m) \o <<Id, Id>>
    BY <2>2, <2>3 DEF UserPacketFields
  <2>5. l = SizedInto(NameSize) \o SizedInto(NameSize) \o <<AnId, AnId>>
    BY <2>2 DEF ExpectUserPacket
  <2>6. Readable(SizedInto(NameSize) \o SizedInto(NameSize), Sized(n) \o Sized(m))
    BY ASizedText, Joined
  <2> QED
    BY <2>4, <2>5, <2>6, TwoIds, LongEnough, Zenon
<1>4. CASE p.kind = "createNewPersonalChat" /\ p.rows[1][1] \in TextFor(InputSize)
  <2>1. PICK n \in TextFor(InputSize) : n = p.rows[1][1]
    BY <1>4
  <2>2. b = <<Id>> \o Sized(n) /\ l = <<AnId>> \o SizedInto(InputSize)
    BY <1>4, <2>1 DEF RequestFields, NewChatFields, ExpectRequest
  <2> QED
    BY <2>2, OneId, ASizedText, LongEnough
<1>5. CASE p.kind = "sendChatMessage" /\ p.rows[1][1] \in TextFor(InputSize)
  <2>1. PICK n \in TextFor(InputSize) : n = p.rows[1][1]
    BY <1>5
  <2>2. b = <<Id, Id>> \o Sized(n) /\ l = <<AnId, AnId>> \o SizedInto(InputSize)
    BY <1>5, <2>1 DEF RequestFields, MessageFields, ExpectRequest, ExpectMessage
  <2> QED
    BY <2>2, TwoIds, ASizedText, LongEnough
<1> QED
  BY <1>2, <1>3, <1>4, <1>5, PacketAssumption

\* The rows of a list that is read are rows of fields.
LEMMA ListOfRows ==
    ASSUME NEW row, NEW n \in Nat, NEW s, DOMAIN s = 1 .. n, s = [i \in 1 .. n |-> s[i]],
           \A i \in 1 .. n : Readable(row, s[i])
    PROVE  s \in Seq(Seq(FieldRecord)) /\ Len(s) = n
<1>1. \A i \in 1 .. n : s[i] \in Seq(FieldRecord)
  BY DEF Readable
<1>2. s \in Seq(Seq(FieldRecord))
  BY <1>1
<1> QED
  BY <1>2

\* The lengths in the rows of the two lists.
ChatRow == TextFor(NameSize) \X TextFor(InputSize + 1) \X TextFor(InputSize + 1) \X TextFor(TimeSize)
HistoryRow == TextFor(InputSize + 1) \X TextFor(TimeSize)

\* A row of the list of chats is read as it was sent.
LEMMA ChatRowReadable ==
    ASSUME NEW r \in ChatRow
    PROVE  Readable(ExpectChatRow, ChatRowFields(r))
<1>1. PICK n \in TextFor(NameSize), m, k \in TextFor(InputSize + 1), t \in TextFor(TimeSize) :
          r[1] = n /\ r[2] = m /\ r[3] = k /\ r[4] = t
  BY DEF ChatRow
<1>2. ChatRowFields(r) = <<Id>> \o Sized(n) \o Sized(m) \o Sized(k) \o Sized(t)
  BY <1>1 DEF ChatRowFields
<1>3. InputSize + 1 \in Nat /\ NameSize \in Nat /\ TimeSize \in Nat
  BY WireAssumption
<1>4. Readable(<<AnId>> \o SizedInto(NameSize), <<Id>> \o Sized(n))
  BY <1>3, Parts, Joined
<1>5. Readable(<<AnId>> \o SizedInto(NameSize) \o SizedInto(InputSize + 1),
               <<Id>> \o Sized(n) \o Sized(m))
  BY <1>3, <1>4, Parts, Joined
<1>6. Readable(<<AnId>> \o SizedInto(NameSize) \o SizedInto(InputSize + 1)
                   \o SizedInto(InputSize + 1),
               <<Id>> \o Sized(n) \o Sized(m) \o Sized(k))
  BY <1>3, <1>5, Parts, Joined
<1>7. Readable(<<AnId>> \o SizedInto(NameSize) \o SizedInto(InputSize + 1)
                   \o SizedInto(InputSize + 1) \o SizedInto(TimeSize),
               <<Id>> \o Sized(n) \o Sized(m) \o Sized(k) \o Sized(t))
  BY <1>3, <1>6, Parts, Joined
<1> QED
  BY <1>2, <1>7 DEF ExpectChatRow

\* A row of the list of messages is read as it was sent.
LEMMA HistoryRowReadable ==
    ASSUME NEW r \in HistoryRow
    PROVE  Readable(ExpectHistoryRow, HistoryRowFields(r))
<1>1. PICK n \in TextFor(InputSize + 1), t \in TextFor(TimeSize) : r[1] = n /\ r[2] = t
  BY DEF HistoryRow
<1>2. HistoryRowFields(r) = Sized(n) \o <<Flag>> \o Sized(t)
  BY <1>1 DEF HistoryRowFields
<1>3. InputSize + 1 \in Nat /\ TimeSize \in Nat
  BY WireAssumption
<1>4. Readable(SizedInto(InputSize + 1) \o <<AFlag>>, Sized(n) \o <<Flag>>)
  BY <1>3, Parts, Joined
<1>5. Readable(SizedInto(InputSize + 1) \o <<AFlag>> \o SizedInto(TimeSize),
               Sized(n) \o <<Flag>> \o Sized(t))
  BY <1>3, <1>4, Parts, Joined
<1> QED
  BY <1>2, <1>5 DEF ExpectHistoryRow

\* Server and client agree on every reply (server.cpp's replies against
\* client.cpp 126-349).
LEMMA ReplyLaidOut ==
    ASSUME direction = "replies", NEW p \in Reply
    PROVE  LaidOut(Fields(p), p.kind)
<1> DEFINE b == ReplyFields(p)  l == ExpectReply(p.kind)
<1>1. Fields(p) = <<TypeField>> \o b /\ Expected(p.kind) = l
  BY DEF Fields, Expected, TypeField
<1> HIDE DEF b, l
<1>2. ASSUME Readable(l, b), Len(b) >= 1 PROVE LaidOut(Fields(p), p.kind)
  BY <1>1, <1>2, PlainLaidOut
<1>3. /\ ResponseSize \in Nat /\ TimeSize \in Nat /\ InputSize + 1 \in Nat
  BY WireAssumption
<1>4. CASE p.kind = "id"
  <2>1. b = <<Id>> /\ l = <<AnId>>
    BY <1>4 DEF ReplyFields, IdReplyFields, ExpectReply, b, l
  <2> QED
    BY <1>2, <2>1, OneId
<1>5. CASE p.kind = "result"
  <2>1. b = <<Flag>> /\ l = <<AFlag>>
    BY <1>5 DEF ReplyFields, ResultReplyFields, ExpectReply, b, l
  <2>2. Len(<<Flag>>) = 1
    OBVIOUS
  <2> QED
    BY <1>2, <2>1, <2>2, Parts
<1>6. CASE p.kind \in {"userName", "serverError"} /\ p.rows[1][1] \in TextFor(ResponseSize)
  <2>1. PICK n \in TextFor(ResponseSize) : n = p.rows[1][1]
    BY <1>6
  <2>2. b = TextReplyFields(p.rows[1]) /\ l = SizedInto(ResponseSize)
    BY <1>6 DEF ReplyFields, ExpectReply, b, l
  <2>3. b = Sized(n)
    BY <2>1, <2>2 DEF TextReplyFields
  <2> QED
    BY <1>2, <1>3, <2>2, <2>3, ASizedText
<1>7. CASE p.kind = "sendChatMessage" /\ p.rows[1][2] \in TextFor(TimeSize)
  <2>1. PICK n \in TextFor(TimeSize) : n = p.rows[1][2]
    BY <1>7
  <2>2. b = ForwardedFields(p.rows[1]) /\ l = ExpectForwarded
    BY <1>7 DEF ReplyFields, ExpectReply, b, l
  <2>3. b = Sized(InputSize) \o Sized(n) \o <<Id>>
    BY <2>1, <2>2 DEF ForwardedFields
  <2>4. l = SizedInto(InputSize + 1) \o SizedInto(TimeSize) \o <<AnId>>
    BY <2>2 DEF ExpectForwarded
  <2>5. Readable(SizedInto(InputSize + 1) \o SizedInto(TimeSize), Sized(InputSize) \o Sized(n))
    BY <1>3, InputFits, Parts, Joined
  <2> QED
    BY <1>2, <2>3, <2>4, <2>5, OneId, LongEnough, Zenon
<1>8. CASE p.kind = "chats" /\ p.rows \in Seq(ChatRow)
  <2> DEFINE n == Len(p.rows)
             s == [i \in DOMAIN p.rows |-> ChatRowFields(p.rows[i])]
  <2>1. n \in Nat /\ DOMAIN p.rows = 1 .. n /\ \A i \in 1 .. n : p.rows[i] \in ChatRow
    BY <1>8
  <2>2. \A i \in 1 .. n : Readable(ExpectChatRow, s[i])
    BY <2>1, ChatRowReadable
  <2>3. DOMAIN s = 1 .. n /\ s = [i \in 1 .. n |-> s[i]]
    BY <2>1
  <2>4. b = <<Field("count", Len(s), NumberWidth)>> \o FlattenSeq(s) /\ l = <<ACount>>
    BY <1>8 DEF ReplyFields, Counted, ExpectReply, b, l
  <2> HIDE DEF n, s
  <2>5. s \in Seq(Seq(FieldRecord)) /\ Len(s) = n
    BY <2>1, <2>2, <2>3, ListOfRows
  <2>6. \A v \in Nat : ExpectedRows(p.kind, v) = RowsOf(ExpectChatRow, v)
    BY <1>8 DEF ExpectedRows, RowsOf
  <2>7. \A i \in 1 .. Len(s) : Readable(ExpectChatRow, s[i])
    BY <2>2, <2>5
  <2> QED
    BY <1>1, <2>4, <2>5, <2>6, <2>7, ListLaidOut
<1>9. CASE p.kind = "allMessages" /\ p.rows \in Seq(HistoryRow)
  <2> DEFINE n == Len(p.rows)
             s == [i \in DOMAIN p.rows |-> HistoryRowFields(p.rows[i])]
  <2>1. n \in Nat /\ DOMAIN p.rows = 1 .. n /\ \A i \in 1 .. n : p.rows[i] \in HistoryRow
    BY <1>9
  <2>2. \A i \in 1 .. n : Readable(ExpectHistoryRow, s[i])
    BY <2>1, HistoryRowReadable
  <2>3. DOMAIN s = 1 .. n /\ s = [i \in 1 .. n |-> s[i]]
    BY <2>1
  <2>4. b = <<Field("count", Len(s), NumberWidth)>> \o FlattenSeq(s) /\ l = <<ACount>>
    BY <1>9 DEF ReplyFields, Counted, ExpectReply, b, l
  <2> HIDE DEF n, s
  <2>5. s \in Seq(Seq(FieldRecord)) /\ Len(s) = n
    BY <2>1, <2>2, <2>3, ListOfRows
  <2>6. \A v \in Nat : ExpectedRows(p.kind, v) = RowsOf(ExpectHistoryRow, v)
    BY <1>9 DEF ExpectedRows, RowsOf
  <2>7. \A i \in 1 .. Len(s) : Readable(ExpectHistoryRow, s[i])
    BY <2>2, <2>5
  <2> QED
    BY <1>1, <2>4, <2>5, <2>6, <2>7, ListLaidOut
<1> QED
  BY <1>4, <1>5, <1>6, <1>7, <1>8, <1>9, PacketAssumption DEF ChatRow, HistoryRow

\* Both sides agree on every packet, in either direction.
LEMMA PacketLaidOut ==
    ASSUME direction \in {"requests", "replies"}, NEW p \in Packet
    PROVE  LaidOut(Fields(p), p.kind)
BY RequestLaidOut, ReplyLaidOut DEF Packet

----------------------------------------------------------------------------
(* The invariant of the two ends.                                          *)

\* The fields of a packet that has been begun.
FieldsOf(i) == Fields(written[i])

\* Every byte of the packets begun so far.
Position == Nat \X Nat \X Nat
Byte == {b \in Position : /\ b[1] \in 1 .. Len(written) /\ b[2] \in DOMAIN FieldsOf(b[1])
                          /\ b[3] \in 1 .. FieldsOf(b[1])[b[2]].width}

\* Where a writer and the reader are.
Turn == [packet : Nat, field : Nat]
Reader == [packet : Nat, field : Nat, left : Seq(Expectation), size : Nat, whole : BOOLEAN]

\* Types, as the proofs need them.
Typed ==
    /\ direction \in {"requests", "replies"}
    /\ written \in Seq(Packet) /\ Len(written) <= MaxPackets
    /\ sending \in [Writer -> Turn]
    /\ wire \in Seq(Position)
    /\ handled \in Seq([packet : PacketNumber, whole : BOOLEAN])
    /\ reading \in Reader
    /\ ended \in BOOLEAN /\ inStep \in BOOLEAN
    /\ interleaved \in BOOLEAN /\ shortRead \in BOOLEAN

\* A writer is inside a packet, and only while the stream is open.
WritersOnFields ==
    \A w \in Writer : sending[w] # Idle =>
        /\ sending[w].packet \in 1 .. Len(written)
        /\ sending[w].field \in DOMAIN FieldsOf(sending[w].packet)
        /\ sending[w].field >= 2
        /\ ~ended

\* Nothing is on the wire that is no packet's.
BytesOfPackets == \A k \in 1 .. Len(wire) : wire[k] \in Byte

\* What the reader still expects are the fields that are still to come.
ReaderOnFields ==
    reading.packet # 0 =>
        /\ reading.packet = NextPacket /\ reading.packet <= Len(written)
        /\ reading.field >= 2 /\ reading.left # <<>>
        /\ Aligned(reading.left, FieldsOf(reading.packet), reading.field)
        /\ Next1.is = "count" => Len(reading.left) = 1
        /\ reading.whole /\ Next1.is # "count"
              => Len(reading.left) = Len(FieldsOf(reading.packet)) - reading.field + 1
        /\ Next1.is = "text" =>
              /\ reading.size <= FieldsOf(reading.packet)[reading.field].width
              /\ reading.whole => reading.size = FieldsOf(reading.packet)[reading.field].width

\* Between packets the reader expects an ActionType.
ReaderBetween ==
    /\ reading.packet = 0 => reading = AtType
    /\ Len(handled) <= Len(written)

\* Something was cut short only if the stream is over.
CutShort == ~reading.whole => ended /\ wire = <<>>

\* The invariant of both ends, in step or not.
Sound ==
    /\ Typed /\ WritersOnFields /\ BytesOfPackets
    /\ ReaderOnFields /\ ReaderBetween /\ CutShort /\ HandledInOrder

\* So they do for the packets that have been begun.
LEMMA Layouts ==
    ASSUME Typed
    PROVE  \A i \in 1 .. Len(written) : LaidOut(FieldsOf(i), written[i].kind)
<1> SUFFICES ASSUME NEW i \in 1 .. Len(written) PROVE LaidOut(FieldsOf(i), written[i].kind)
  OBVIOUS
<1>1. PICK p \in Packet : p = written[i]
  BY DEF Typed
<1>2. LaidOut(Fields(p), p.kind)
  BY PacketLaidOut DEF Typed
<1> QED
  BY <1>1, <1>2 DEF FieldsOf

\* What is in a packet's fields, as far as the proofs below need it.
PacketFields ==
    \A i \in 1 .. Len(written) : LET q == FieldsOf(i) IN
        /\ q \in Seq(FieldRecord) /\ Len(q) \in Nat /\ Len(q) >= 2
        /\ DOMAIN q = 1 .. Len(q) /\ q[1].is = "type" /\ q[1].width = 1
        /\ \A f \in 1 .. Len(q) : /\ q[f] \in FieldRecord
                                  /\ q[f].width \in Nat /\ q[f].value \in Nat

\* What is in a packet's fields follows.
LEMMA LayoutFacts == Typed => PacketFields
<1> SUFFICES ASSUME Typed, NEW i \in 1 .. Len(written)
             PROVE  LET q == FieldsOf(i) IN
                    /\ q \in Seq(FieldRecord) /\ Len(q) \in Nat /\ Len(q) >= 2
                    /\ DOMAIN q = 1 .. Len(q) /\ q[1].is = "type" /\ q[1].width = 1
                    /\ \A f \in 1 .. Len(q) : /\ q[f] \in FieldRecord
                                              /\ q[f].width \in Nat /\ q[f].value \in Nat
  BY DEF PacketFields
<1> DEFINE q == FieldsOf(i)
<1>1. LaidOut(q, written[i].kind)
  BY Layouts
<1> HIDE DEF q
<1>2. q \in Seq(FieldRecord) /\ Len(q) >= 2 /\ q[1].is = "type" /\ q[1].width = 1
  BY <1>1 DEF LaidOut
<1>3. Len(q) \in Nat /\ DOMAIN q = 1 .. Len(q) /\ \A f \in 1 .. Len(q) : q[f] \in FieldRecord
  BY <1>2
<1>4. \A x \in FieldRecord : x.width \in Nat /\ x.value \in Nat
  BY DEF FieldRecord
<1> QED
  BY <1>2, <1>3, <1>4 DEF q

\* Packets keep their fields and their bytes when more are written.
LEMMA FieldsStay ==
    ASSUME Typed, direction' = direction, Len(written') >= Len(written), Len(written') \in Nat,
           \A i \in 1 .. Len(written) : written'[i] = written[i]
    PROVE  /\ \A i \in 1 .. Len(written) : FieldsOf(i)' = FieldsOf(i)
           /\ Byte \subseteq Byte'
           /\ \A b \in Byte' : b[1] <= Len(written) => b \in Byte
<1>0. Len(written) \in Nat
  BY DEF Typed
<1>1. ASSUME NEW i \in 1 .. Len(written) PROVE FieldsOf(i)' = FieldsOf(i)
  BY <1>1 DEF FieldsOf, Fields
<1>2. ASSUME NEW b \in Byte PROVE b \in Byte'
  BY <1>0, <1>1 DEF Byte
<1>3. ASSUME NEW b \in Byte', b[1] <= Len(written) PROVE b \in Byte
  BY <1>0, <1>1, <1>3 DEF Byte
<1> QED
  BY <1>1, <1>2, <1>3

\* A new connection is sound.
LEMMA SoundAtFirst ==
    ASSUME Init
    PROVE  Sound
<1> USE DEF Init
<1>1. AtType \in Reader /\ AtType.packet = 0 /\ AtType.whole
  BY DEF AtType, Reader
<1>2. Typed
  <2>1. [w \in Writer |-> Idle] \in [Writer -> Turn]
    BY DEF Idle, Turn
  <2>2. MaxPackets \in Nat
    BY WireAssumption
  <2>3. reading \in Reader /\ sending \in [Writer -> Turn]
    BY <1>1, <2>1
  <2>4. written \in Seq(Packet) /\ Len(written) <= MaxPackets
    BY <2>2
  <2>5. wire \in Seq(Position) /\ handled \in Seq([packet : PacketNumber, whole : BOOLEAN])
    OBVIOUS
  <2> QED
    BY <2>3, <2>4, <2>5 DEF Typed
<1>3. WritersOnFields
  BY DEF WritersOnFields
<1> QED
  BY <1>1, <1>2, <1>3 DEF Sound, BytesOfPackets, ReaderOnFields, ReaderBetween, CutShort, HandledInOrder

\* The reader is as sound as before when only writers move.
LEMMA ReaderUntouched ==
    ASSUME Sound, direction' = direction, Len(written') >= Len(written), Len(written') \in Nat,
           \A i \in 1 .. Len(written) : written'[i] = written[i],
           reading' = reading, handled' = handled
    PROVE  ReaderOnFields' /\ ReaderBetween'
<1>1. Typed
  BY DEF Sound
<1>2. \A i \in 1 .. Len(written) : FieldsOf(i)' = FieldsOf(i)
  BY <1>1, FieldsStay
<1>3. ReaderOnFields'
  <2> SUFFICES ASSUME reading.packet # 0
               PROVE  ReaderOnFields'
    BY DEF ReaderOnFields
  <2>1. PICK i : i = reading.packet
    OBVIOUS
  <2>2. i \in 1 .. Len(written) /\ Len(written) \in Nat
    BY <1>1, <2>1 DEF Sound, ReaderOnFields, Typed, Reader
  <2>3. FieldsOf(reading.packet)' = FieldsOf(reading.packet)
    BY <1>2, <2>1, <2>2
  <2>4. reading.packet <= Len(written')
    BY <2>1, <2>2
  <2>5. ReaderOnFields
    BY DEF Sound
  <2> QED
    BY <2>3, <2>4, <2>5 DEF ReaderOnFields, NextPacket, Next1
<1>4. ReaderBetween'
  <2>1. Len(handled) \in Nat /\ Len(written) \in Nat
    BY <1>1 DEF Typed
  <2> QED
    BY <2>1 DEF Sound, ReaderBetween
<1> QED
  BY <1>3, <1>4

\* The first byte of a packet keeps the connection sound.
LEMMA SoundBeginPacket ==
    ASSUME Sound, NEW w \in Writer, BeginPacket(w)
    PROVE  Sound'
<1>1. Typed /\ PacketFields /\ ~ended
  BY LayoutFacts DEF Sound, BeginPacket, CanSend
<1>2. PICK n \in Nat : n = Len(written)
  BY <1>1 DEF Typed
<1>3. PICK p \in Packet : written' = Append(written, p)
  BY DEF BeginPacket
<1>4. /\ written' \in Seq(Packet) /\ Len(written') = n + 1 /\ n + 1 <= MaxPackets
      /\ \A i \in 1 .. n : written'[i] = written[i]
  BY <1>1, <1>2, <1>3, WireAssumption DEF Typed, BeginPacket
<1>5. /\ direction' = direction /\ ended' = ended /\ reading' = reading
      /\ handled' = handled /\ inStep' = inStep /\ shortRead' = shortRead
      /\ wire' = Append(wire, <<n + 1, 1, 1>>)
      /\ sending' = [sending EXCEPT ![w] = [packet |-> n + 1, field |-> 2]]
      /\ interleaved' \in BOOLEAN
  BY <1>1, <1>2 DEF BeginPacket, NoteInterleaving, Typed
<1>6. Typed'
  <2>1. [packet |-> n + 1, field |-> 2] \in Turn /\ <<n + 1, 1, 1>> \in Position
    BY DEF Turn, Position
  <2>2. sending' \in [Writer -> Turn]
    BY <1>1, <1>5, <2>1 DEF Typed
  <2>3. wire' \in Seq(Position)
    BY <1>1, <1>5, <2>1 DEF Typed
  <2>4. Packet' = Packet
    BY <1>5 DEF Packet
  <2> QED
    BY <1>1, <1>4, <1>5, <2>2, <2>3, <2>4 DEF Typed
<1>7. PacketFields'
  BY <1>6, LayoutFacts, PTL
<1>8. /\ \A i \in 1 .. n : FieldsOf(i)' = FieldsOf(i)
      /\ Byte \subseteq Byte'
  <2>1. /\ Len(written') >= Len(written) /\ Len(written') \in Nat
        /\ \A i \in 1 .. Len(written) : written'[i] = written[i]
    BY <1>2, <1>4
  <2>2. direction' = direction
    BY <1>5
  <2> QED
    BY ONLY <1>1, <1>2, <2>1, <2>2, FieldsStay
<1>9. WritersOnFields'
  <2> SUFFICES ASSUME NEW v \in Writer, sending'[v] # Idle
               PROVE  /\ sending'[v].packet \in 1 .. n + 1
                      /\ sending'[v].field \in DOMAIN FieldsOf(sending[v].packet)'
                      /\ sending'[v].field >= 2
    BY <1>1, <1>4, <1>5 DEF WritersOnFields
  <2>1. CASE v = w
    <3>1. sending'[v] = [packet |-> n + 1, field |-> 2]
      BY <1>1, <1>5, <2>1 DEF Typed
    <3>2. 2 \in DOMAIN FieldsOf(n + 1)'
      BY <1>4, <1>7 DEF PacketFields
    <3> QED
      BY <3>1, <3>2
  <2>2. CASE v # w
    <3>1. sending'[v] = sending[v]
      BY <1>1, <1>5, <2>2 DEF Typed
    <3>2. PICK i, f : i = sending[v].packet /\ f = sending[v].field
      OBVIOUS
    <3>3. i \in 1 .. n /\ f \in DOMAIN FieldsOf(i) /\ f >= 2
      BY <1>2, <3>1, <3>2 DEF Sound, WritersOnFields
    <3>4. FieldsOf(i)' = FieldsOf(i) /\ i \in 1 .. n + 1
      BY <1>8, <3>3
    <3> QED
      BY <3>1, <3>2, <3>3, <3>4
  <2> QED
    BY <2>1, <2>2
<1>10. BytesOfPackets'
  <2>1. <<n + 1, 1, 1>> \in Byte'
    BY <1>4, <1>7 DEF PacketFields, Byte, Position
  <2>2. /\ Len(wire') = Len(wire) + 1 /\ Len(wire) \in Nat
        /\ \A k \in 1 .. Len(wire) : wire'[k] = wire[k]
        /\ wire'[Len(wire) + 1] = <<n + 1, 1, 1>>
    BY <1>1, <1>5 DEF Typed
  <2>3. \A k \in 1 .. Len(wire) + 1 : k \in 1 .. Len(wire) \/ k = Len(wire) + 1
    BY <2>2
  <2> QED
    BY <1>8, <2>1, <2>2, <2>3 DEF Sound, BytesOfPackets
<1>11. ReaderOnFields' /\ ReaderBetween'
  BY <1>2, <1>4, <1>5, ReaderUntouched
<1>12. CutShort' /\ HandledInOrder'
  BY <1>1, <1>5 DEF Sound, CutShort, HandledInOrder
<1> QED
  BY <1>6, <1>9, <1>10, <1>11, <1>12 DEF Sound

\* So does every further send().
LEMMA SoundSendField ==
    ASSUME Sound, NEW w \in Writer, SendField(w)
    PROVE  Sound'
<1>1. Typed /\ PacketFields /\ ~ended /\ sending[w] # Idle
  BY LayoutFacts DEF Sound, SendField, CanSend
<1>2. PICK i, f : i = sending[w].packet /\ f = sending[w].field
  OBVIOUS
<1>3. i \in 1 .. Len(written) /\ f \in DOMAIN FieldsOf(i) /\ f >= 2 /\ Len(written) \in Nat
  BY <1>1, <1>2 DEF Sound, WritersOnFields, Typed
<1>4. PICK n \in Nat : n = Len(FieldsOf(i))
  BY <1>1, <1>3 DEF PacketFields
<1>5. f \in 1 .. n /\ FieldsOf(i)[f].width \in Nat
  BY <1>1, <1>3, <1>4 DEF PacketFields
<1>6. PICK m \in Nat : m = FieldsOf(i)[f].width
  BY <1>5
<1>7. PICK bs : bs = [k \in 1 .. m |-> <<i, f, k>>]
  OBVIOUS
<1>8. /\ bs \in Seq(Position) /\ Len(bs) = m /\ \A k \in 1 .. m : bs[k] = <<i, f, k>> 
  BY <1>3, <1>5, <1>7 DEF Position
<1>9. /\ direction' = direction /\ written' = written /\ ended' = ended /\ reading' = reading
      /\ handled' = handled /\ inStep' = inStep /\ shortRead' = shortRead
      /\ wire' = wire \o bs
      /\ interleaved' \in BOOLEAN
  BY <1>1, <1>2, <1>6, <1>7 DEF SendField, NoteInterleaving, Typed, Bytes, FieldsOf
<1>10. sending' = [sending EXCEPT ![w] = IF f = n THEN Idle ELSE [packet |-> i, field |-> f + 1]]
  <2>1. sending[w] \in Turn
    BY <1>1 DEF Typed
  <2>2. [sending[w] EXCEPT !.field = @ + 1] = [packet |-> i, field |-> f + 1]
    BY <1>2, <2>1 DEF Turn
  <2> QED
    BY <1>2, <1>4, <2>2 DEF SendField, FieldsOf
<1>11. Typed'
  <2>1. Idle \in Turn /\ [packet |-> i, field |-> f + 1] \in Turn
    BY <1>3, <1>5 DEF Turn, Idle
  <2>2. sending' \in [Writer -> Turn]
    BY <1>1, <1>10, <2>1 DEF Typed
  <2>3. wire' \in Seq(Position)
    BY <1>1, <1>8, <1>9 DEF Typed
  <2>4. Packet' = Packet
    BY <1>9 DEF Packet
  <2> QED
    BY <1>1, <1>9, <2>2, <2>3, <2>4 DEF Typed
<1>12. \A j : FieldsOf(j)' = FieldsOf(j)
  BY <1>9 DEF FieldsOf, Fields
<1>13. Byte' = Byte
  BY <1>9, <1>12 DEF Byte
<1>14. WritersOnFields'
  <2> SUFFICES ASSUME NEW v \in Writer, sending'[v] # Idle
               PROVE  /\ sending'[v].packet \in 1 .. Len(written)
                      /\ sending'[v].field \in DOMAIN FieldsOf(sending[v].packet)'
                      /\ sending'[v].field >= 2
    BY <1>1, <1>9, <1>12 DEF WritersOnFields
  <2>1. CASE v = w
    <3>1. sending'[v] = IF f = n THEN Idle ELSE [packet |-> i, field |-> f + 1]
      BY <1>1, <1>10, <2>1 DEF Typed
    <3>2. f # n /\ sending'[v].packet = i /\ sending'[v].field = f + 1
      BY <3>1
    <3>3. f + 1 \in DOMAIN FieldsOf(i)
      BY <1>1, <1>3, <1>4, <1>5, <3>2 DEF PacketFields
    <3>4. FieldsOf(i)' = FieldsOf(i)
      BY <1>12
    <3> QED
      BY <1>3, <1>5, <3>2, <3>3, <3>4
  <2>2. CASE v # w
    <3>1. sending'[v] = sending[v]
      BY <1>1, <1>10, <2>2 DEF Typed
    <3>2. PICK j : j = sending[v].packet
      OBVIOUS
    <3>3. FieldsOf(sending[v].packet)' = FieldsOf(j)
      <4>1. FieldsOf(j)' = FieldsOf(j)
        BY <1>12
      <4> QED
        BY <3>1, <3>2, <4>1
    <3> QED
      BY <3>1, <3>2, <3>3 DEF Sound, WritersOnFields
  <2> QED
    BY <2>1, <2>2
<1>15. BytesOfPackets'
  <2>1. ASSUME NEW k \in 1 .. m PROVE bs[k] \in Byte
    <3>1. bs[k] = <<i, f, k>> /\ <<i, f, k>> \in Position
      BY <1>3, <1>5, <1>8 DEF Position
    <3> QED
      BY <1>3, <1>6, <3>1 DEF Byte
  <2>2. /\ Len(wire') = Len(wire) + m /\ Len(wire) \in Nat
        /\ \A k \in 1 .. Len(wire) : wire'[k] = wire[k]
        /\ \A k \in 1 .. m : wire'[Len(wire) + k] = bs[k]
    <3>1. wire \in Seq(Position)
      BY <1>1 DEF Typed
    <3> QED
      BY <1>8, <1>9, <3>1, Concatenation
  <2>3. ASSUME NEW k \in 1 .. Len(wire) + m PROVE wire'[k] \in Byte
    <3>1. CASE k \in 1 .. Len(wire)
      BY <2>2, <3>1 DEF Sound, BytesOfPackets
    <3>2. CASE k \notin 1 .. Len(wire)
      <4>1. PICK j \in 1 .. m : k = Len(wire) + j
        <5>1. k - Len(wire) \in 1 .. m /\ k = Len(wire) + (k - Len(wire))
          BY <2>2, <3>2
        <5> QED
          BY <5>1
      <4> QED
        BY <2>1, <2>2, <4>1
    <3> QED
      BY <3>1, <3>2
  <2> QED
    BY <1>13, <2>2, <2>3 DEF BytesOfPackets
<1>16. ReaderOnFields' /\ ReaderBetween'
  <2>1. Len(written') >= Len(written) /\ Len(written') \in Nat
    BY <1>3, <1>9
  <2> QED
    BY <1>9, <2>1, ReaderUntouched
<1>17. CutShort' /\ HandledInOrder'
  BY <1>1, <1>9 DEF Sound, CutShort, HandledInOrder
<1> QED
  BY <1>11, <1>14, <1>15, <1>16, <1>17 DEF Sound

----------------------------------------------------------------------------
(* Sequences the reader takes apart.                                       *)

\* A sequence without its first elements.
LEMMA Rest ==
    ASSUME NEW S, NEW s \in Seq(S), NEW n \in 0 .. Len(s)
    PROVE  LET t == SubSeq(s, n + 1, Len(s)) IN
           /\ t \in Seq(S) /\ Len(t) = Len(s) - n
           /\ \A k \in 1 .. Len(s) - n : t[k] = s[n + k]
OBVIOUS

\* The first elements of a sequence.
LEMMA Start ==
    ASSUME NEW S, NEW s \in Seq(S), NEW n \in 0 .. Len(s)
    PROVE  LET t == SubSeq(s, 1, n) IN
           t \in Seq(S) /\ Len(t) = n /\ \A k \in 1 .. n : t[k] = s[k]
OBVIOUS

\* A sequence without its first element.
LEMMA TailOf ==
    ASSUME NEW S, NEW s \in Seq(S), s # <<>>
    PROVE  /\ Tail(s) \in Seq(S) /\ Len(Tail(s)) = Len(s) - 1 /\ Head(s) = s[1]
           /\ Len(s) \in Nat \ {0} /\ (Len(s) = 1 => Tail(s) = <<>>)
           /\ \A k \in 1 .. Len(s) - 1 : Tail(s)[k] = s[k + 1]
OBVIOUS

\* Nothing added to a sequence.
LEMMA WithNothing ==
    ASSUME NEW S, NEW s \in Seq(S)
    PROVE  s \o <<>> = s /\ <<>> \o s = s
OBVIOUS

\* The reader is at a field of a packet and comes by v, or all of it.
AtField(q, kind, l, f, whole, v) ==
    /\ LaidOut(q, kind) /\ l # <<>> /\ f \in Nat /\ f >= 2 /\ Aligned(l, q, f)
    /\ l[1].is = "count" => Len(l) = 1
    /\ whole \in BOOLEAN /\ v \in Nat /\ v <= q[f].value
    /\ whole => v = q[f].value
    /\ whole /\ l[1].is # "count" => Len(l) = Len(q) - f + 1

\* It is past the field, with m still to come.
PastField(q, m, f, size, whole) ==
    /\ Aligned(m, q, f + 1)
    /\ m # <<>> => m[1].is # "count"
    /\ whole => Len(m) = Len(q) - (f + 1) + 1
    /\ m # <<>> /\ m[1].is = "text" =>
          /\ size <= q[f + 1].width
          /\ whole => size = q[f + 1].width

\* What is still expected then, and the size of a text that comes next.
ToCome(l, kind, v) ==
    Tail(l) \o (IF l[1].is = "count" THEN ExpectedRows(kind, v) ELSE <<>>)
SizeFrom(l, v) == IF l[1].is = "size" THEN v ELSE 0

\* What is still expected after one field is aligned with the fields that come
\* after it, whatever part of a count has come.
LEMMA GoOn ==
    ASSUME NEW q, NEW kind, NEW l, NEW f, NEW whole, NEW v, AtField(q, kind, l, f, whole, v)
    PROVE  PastField(q, ToCome(l, kind, v), f, SizeFrom(l, v), whole)
<1> SUFFICES ASSUME NEW more, more = IF l[1].is = "count" THEN ExpectedRows(kind, v) ELSE <<>>,
                    NEW size, size = IF l[1].is = "size" THEN v ELSE 0,
                    NEW m, m = Tail(l) \o more
             PROVE  PastField(q, m, f, size, whole)
  BY DEF ToCome, SizeFrom
<1>0. /\ LaidOut(q, kind) /\ l # <<>> /\ f \in Nat /\ f >= 2 /\ Aligned(l, q, f)
      /\ l[1].is = "count" => Len(l) = 1
      /\ whole \in BOOLEAN /\ v \in Nat /\ v <= q[f].value
      /\ whole => v = q[f].value
      /\ whole /\ l[1].is # "count" => Len(l) = Len(q) - f + 1
  BY DEF AtField
<1> USE <1>0
<1> DEFINE Goal(t) == /\ Aligned(t, q, f + 1)
                      /\ t # <<>> => t[1].is # "count"
                      /\ whole => Len(t) = Len(q) - (f + 1) + 1
                      /\ t # <<>> /\ t[1].is = "text" =>
                            /\ size <= q[f + 1].width
                            /\ whole => size = q[f + 1].width
<1> SUFFICES Goal(m)
  BY DEF PastField
<1>1. /\ q \in Seq(FieldRecord) /\ Len(q) \in Nat /\ DOMAIN q = 1 .. Len(q) /\ WellFormed(q)
      /\ \A j \in 1 .. Len(q) : q[j].is = "count" => j = 2
      /\ \A j \in 1 .. Len(q) : q[j].value \in Nat /\ q[j].width \in Nat
  <2>1. q \in Seq(FieldRecord) /\ WellFormed(q) /\ \A j \in 1 .. Len(q) : q[j].is = "count" => j = 2
    BY DEF LaidOut
  <2>2. Len(q) \in Nat /\ DOMAIN q = 1 .. Len(q) /\ \A j \in 1 .. Len(q) : q[j] \in FieldRecord
    BY <2>1
  <2> QED
    BY <2>1, <2>2 DEF FieldRecord
<1>2. /\ l \in Seq(Expectation) /\ Len(l) \in Nat \ {0}
      /\ \A j \in 1 .. Len(l) : f + j - 1 \in DOMAIN q /\ Meets(l[j], q[f + j - 1])
  BY DEF Aligned
<1>3. f \in 1 .. Len(q) /\ Meets(l[1], q[f])
  <2>1. 1 \in 1 .. Len(l) /\ f + 1 - 1 = f
    BY <1>2
  <2> QED
    BY <1>1, <1>2, <2>1
<1>4. l[1].is = q[f].is
  BY <1>3 DEF Meets
<1>5. ASSUME NEW t, t # <<>>, Aligned(t, q, f + 1)
      PROVE  /\ t[1].is # "count" /\ f + 1 \in 1 .. Len(q)
             /\ t[1].is = "text" => q[f].is = "size" /\ q[f].value = q[f + 1].width
  <2>1. t \in Seq(Expectation) /\ 1 \in 1 .. Len(t) /\ (f + 1) + 1 - 1 = f + 1
    BY <1>5 DEF Aligned
  <2>2. f + 1 \in DOMAIN q /\ Meets(t[1], q[f + 1])
    BY <1>5, <2>1 DEF Aligned
  <2>3. t[1].is = q[f + 1].is /\ f + 1 \in 1 .. Len(q) /\ (f + 1) - 1 = f /\ f + 1 # 2
    BY <1>1, <2>2 DEF Meets
  <2> QED
    BY <1>1, <2>3 DEF WellFormed
<1>6. CASE l[1].is = "count"
  <2>1. f = 2 /\ Len(l) = 1 /\ q[f].is = "count"
    BY <1>1, <1>3, <1>4, <1>6
  <2>2. Aligned(more, q, 3) /\ (v = q[f].value => Len(more) = Len(q) - 2)
    <3>1. q[2].is = "count" /\ v \in 0 .. q[2].value /\ more = ExpectedRows(kind, v)
      BY <1>1, <1>6, <2>1
    <3>2. /\ Aligned(ExpectedRows(kind, v), q, 3)
          /\ v = q[2].value => Len(ExpectedRows(kind, v)) = Len(q) - 2
      BY <3>1, Zenon DEF LaidOut
    <3> QED
      BY <2>1, <3>1, <3>2
  <2>3. Tail(l) = <<>>
    BY <1>2, <2>1, TailOf
  <2>4. Tail(l) \o more = more
    BY <2>2, <2>3, WithNothing DEF Aligned
  <2>5. more # <<>> => more[1].is # "count" /\ more[1].is # "text"
    <3>1. Aligned(more, q, f + 1)
      BY <2>1, <2>2
    <3> QED
      BY <1>5, <2>1, <3>1
  <2>6. Aligned(more, q, f + 1) /\ (whole => Len(more) = Len(q) - (f + 1) + 1)
    <3>1. f + 1 = 3 /\ Len(q) - (f + 1) + 1 = Len(q) - 2
      BY ONLY <1>0, <1>1, <2>1
    <3> QED
      BY <2>2, <3>1
  <2>7. Goal(more)
    BY ONLY <2>5, <2>6
  <2> QED
    BY <2>4, <2>7
<1>7. CASE l[1].is # "count"
  <2> DEFINE t == Tail(l)
  <2>1. /\ t \in Seq(Expectation) /\ Len(t) = Len(l) - 1
        /\ \A k \in 1 .. Len(l) - 1 : t[k] = l[k + 1]
    BY <1>2, TailOf
  <2>2. t \o more = t
    BY <1>7, <2>1, WithNothing
  <2> HIDE DEF t
  <2>3. Aligned(t, q, f + 1)
    <3>1. ASSUME NEW j \in 1 .. Len(t)
          PROVE  (f + 1) + j - 1 \in DOMAIN q /\ Meets(t[j], q[(f + 1) + j - 1])
      <4>1. (f + 1) + j - 1 = f + (j + 1) - 1 /\ j + 1 \in 1 .. Len(l) /\ t[j] = l[j + 1]
        <5>1. Len(l) \in Nat
          BY <1>2
        <5> QED
          BY ONLY <1>0, <2>1, <5>1, j \in 1 .. Len(t)
      <4>2. PICK k \in 1 .. Len(l) : k = j + 1
        BY <4>1
      <4>3. f + k - 1 \in DOMAIN q /\ Meets(l[k], q[f + k - 1])
        BY <1>2
      <4> QED
        BY <4>1, <4>2, <4>3
    <3> QED
      BY <2>1, <3>1 DEF Aligned
  <2>4. whole => Len(t) = Len(q) - (f + 1) + 1
    BY <1>1, <1>2, <1>7, <2>1
  <2>5. t # <<>> => /\ t[1].is # "count" /\ f + 1 \in 1 .. Len(q)
                    /\ t[1].is = "text" => q[f].is = "size" /\ q[f].value = q[f + 1].width
    BY <1>5, <2>3
  <2>6. Goal(t)
    BY <1>1, <1>4, <2>3, <2>4, <2>5
  <2> QED
    BY <2>2, <2>6 DEF t
<1> QED
  BY <1>6, <1>7

\* What a reader's step leaves alone, and what becomes of the wire.
LEMMA ReaderStep ==
    ASSUME Sound, UNCHANGED <<direction, written, sending, ended, interleaved>>,
           NEW n \in 0 .. Len(wire), Take(n)
    PROVE  /\ \A j : FieldsOf(j)' = FieldsOf(j)
           /\ Byte' = Byte /\ Packet' = Packet
           /\ WritersOnFields' /\ BytesOfPackets' /\ wire' \in Seq(Position)
           /\ Len(wire') = Len(wire) - n /\ \A k \in 1 .. Len(wire) - n : wire'[k] = wire[n + k]
           /\ n = Len(wire) \/ wire = <<>> => wire' = <<>>
<1>1. \A j : FieldsOf(j)' = FieldsOf(j)
  BY DEF FieldsOf, Fields
<1>2. Byte' = Byte /\ Packet' = Packet
  BY <1>1 DEF Byte, Packet
<1>3. Typed /\ wire \in Seq(Position) /\ Len(wire) \in Nat
  BY DEF Sound, Typed
<1>4. /\ wire' \in Seq(Position) /\ Len(wire') = Len(wire) - n
      /\ \A k \in 1 .. Len(wire) - n : wire'[k] = wire[n + k]
  BY <1>3, Rest DEF Take
<1>5. BytesOfPackets'
  <2>1. ASSUME NEW k \in 1 .. Len(wire) - n PROVE wire[n + k] \in Byte
    <3>1. n + k \in 1 .. Len(wire)
      BY <1>3
    <3> QED
      BY <3>1 DEF Sound, BytesOfPackets
  <2> QED
    BY <1>2, <1>4, <2>1 DEF BytesOfPackets
<1>6. WritersOnFields'
  <2> SUFFICES ASSUME NEW w \in Writer, sending[w] # Idle
               PROVE  /\ sending[w].packet \in 1 .. Len(written)
                      /\ sending[w].field \in DOMAIN FieldsOf(sending[w].packet)'
                      /\ sending[w].field >= 2 /\ ~ended
    BY DEF WritersOnFields
  <2>1. PICK j : j = sending[w].packet
    OBVIOUS
  <2>2. FieldsOf(sending[w].packet)' = FieldsOf(j)
    <3>1. FieldsOf(j)' = FieldsOf(j)
      BY <1>1
    <3> QED
      BY <2>1, <3>1
  <2> QED
    BY <2>1, <2>2 DEF Sound, WritersOnFields
<1>7. n = Len(wire) \/ wire = <<>> => wire' = <<>>
  BY <1>3, <1>4
<1> QED
  BY <1>1, <1>2, <1>4, <1>5, <1>6, <1>7

\* A handler that goes on with a value, all of it or what has come of it,
\* leaves the reader sound.
LEMMA SoundAdvance ==
    ASSUME Sound, reading.packet # 0, MeantField(Next1),
           UNCHANGED <<direction, written>>, ended \in BOOLEAN, ended => ended',
           NEW whole \in BOOLEAN,
           NEW v \in Nat, v <= FieldsOf(reading.packet)[reading.field].value,
           whole => v = FieldsOf(reading.packet)[reading.field].value,
           wire = <<>> => wire' = <<>>, ~whole => ended' /\ wire' = <<>>,
           Advance(v, whole)
    PROVE  /\ reading' \in Reader /\ handled' \in Seq([packet : PacketNumber, whole : BOOLEAN])
           /\ ReaderOnFields' /\ ReaderBetween' /\ CutShort' /\ HandledInOrder'
           /\ reading'.packet # 0 => /\ reading'.packet = reading.packet
                                     /\ reading'.field = reading.field + 1 /\ handled' = handled
           /\ reading'.packet = 0 => /\ reading' = AtType /\ Len(handled') = Len(handled) + 1
                                     /\ whole /\ reading.whole
                                           => reading.field = Len(FieldsOf(reading.packet))
<1> DEFINE more == IF Next1.is = "count" THEN ExpectedRows(written[reading.packet].kind, v) ELSE <<>>
           size == IF Next1.is = "size" THEN v ELSE 0
<1>1. Typed /\ PacketFields /\ ReaderOnFields /\ HandledInOrder /\ CutShort
  BY LayoutFacts DEF Sound
<1>2. PICK i, f, l, q, kind, wh, m, s :
          /\ i = reading.packet /\ f = reading.field /\ l = reading.left
          /\ q = FieldsOf(reading.packet) /\ kind = written[reading.packet].kind
          /\ wh = reading.whole /\ m = more /\ s = size
  OBVIOUS
<1>3. /\ reading \in Reader
      /\ i \in Nat \ {0} /\ f \in Nat /\ l \in Seq(Expectation) /\ wh \in BOOLEAN
  BY <1>1, <1>2 DEF Typed, Reader
<1>4. /\ i = NextPacket /\ i \in 1 .. Len(written) /\ f >= 2 /\ l # <<>>
      /\ Aligned(l, q, f)
      /\ Next1.is = "count" => Len(l) = 1
      /\ wh /\ Next1.is # "count" => Len(l) = Len(q) - f + 1
  <2>1. Len(written) \in Nat
    BY <1>1 DEF Typed
  <2> QED
    BY <1>1, <1>2, <1>3, <2>1 DEF ReaderOnFields
<1>5. Next1 = l[1]
  BY <1>2, <1>3, <1>4, TailOf DEF Next1
<1>6. LaidOut(q, kind)
  BY <1>1, <1>2, <1>4, Layouts
<1>7. f \in DOMAIN q /\ q[f].value \in Nat /\ Len(q) \in Nat /\ DOMAIN q = 1 .. Len(q)
  <2>1. f \in DOMAIN q
    BY <1>2 DEF MeantField, FieldsOf
  <2> QED
    BY <1>1, <1>2, <1>4, <2>1 DEF PacketFields
<1>8. PICK n : n = Tail(l) \o m
  OBVIOUS
<1>9. PICK w2 \in BOOLEAN : w2 = (wh /\ whole)
  OBVIOUS
<1>10. /\ Aligned(n, q, f + 1)
       /\ n # <<>> => n[1].is # "count"
       /\ w2 => Len(n) = Len(q) - (f + 1) + 1
       /\ n # <<>> /\ n[1].is = "text" =>
             /\ s <= q[f + 1].width
             /\ w2 => s = q[f + 1].width
  <2>1. m = IF l[1].is = "count" THEN ExpectedRows(kind, v) ELSE <<>>
    BY <1>2, <1>5
  <2>2. s = IF l[1].is = "size" THEN v ELSE 0
    BY <1>2, <1>5
  <2>3. v <= q[f].value /\ (w2 => v = q[f].value)
    BY <1>2, <1>9
  <2>4. w2 /\ l[1].is # "count" => Len(l) = Len(q) - f + 1
    BY <1>4, <1>5, <1>9
  <2>5. l[1].is = "count" => Len(l) = 1
    BY <1>4, <1>5
  <2>6. AtField(q, kind, l, f, w2, v)
    BY <1>3, <1>4, <1>6, <2>3, <2>4, <2>5 DEF AtField
  <2> QED
    <3>1. n = ToCome(l, kind, v) /\ s = SizeFrom(l, v)
      BY ONLY <1>8, <2>1, <2>2 DEF ToCome, SizeFrom
    <3>2. PastField(q, ToCome(l, kind, v), f, SizeFrom(l, v), w2)
      BY ONLY <2>6, GoOn
    <3> QED
      BY ONLY <3>1, <3>2 DEF PastField
<1>11. PICK r : r = [reading EXCEPT !.field = f + 1, !.left = n, !.size = s, !.whole = w2]
  OBVIOUS
<1>13. /\ n \in Seq(Expectation) /\ s \in Nat /\ r \in Reader /\ AtType \in Reader
       /\ r.packet = i /\ r.field = f + 1 /\ r.left = n /\ r.size = s /\ r.whole = w2
  <2>1. n \in Seq(Expectation) /\ s \in Nat /\ f + 1 \in Nat
    BY <1>2, <1>3, <1>10 DEF Aligned
  <2>2. reading \in Reader
    BY <1>1 DEF Typed
  <2>3. /\ r \in Reader /\ r.packet = i /\ r.field = f + 1 /\ r.left = n
        /\ r.size = s /\ r.whole = w2
    BY ONLY <1>2, <1>11, <2>1, <2>2, w2 \in BOOLEAN DEF Reader
  <2> QED
    BY <2>1, <2>3 DEF Reader, AtType
<1>12. IF n # <<>>
       THEN reading' = r /\ handled' = handled
       ELSE reading' = AtType /\ handled' = Append(handled, [packet |-> i, whole |-> w2])
  <2>1. [reading EXCEPT !.field = @ + 1, !.left = Tail(@) \o more, !.size = size,
                        !.whole = @ /\ whole] = r
    <3> HIDE DEF more, size
    <3> QED
      BY <1>2, <1>8, <1>9, <1>11, Zenon
  <2> QED
    BY <1>2, <1>13, <2>1 DEF Advance
<1>14. /\ handled \in Seq([packet : PacketNumber, whole : BOOLEAN]) /\ Len(handled) \in Nat
       /\ i = Len(handled) + 1 /\ i \in PacketNumber /\ Len(written) \in Nat
  BY <1>1, <1>4, WireAssumption DEF Typed, NextPacket, PacketNumber
<1>15. ~wh => ended /\ wire = <<>>
  BY <1>1, <1>2 DEF CutShort
<1>16. ~w2 => ended' /\ wire' = <<>>
  BY <1>9, <1>15
<1>17. \A k \in 1 .. Len(handled) : handled[k].packet = k /\ handled[k].whole
  <2>1. reading # AtType
    BY DEF AtType
  <2> QED
    BY <1>1, <1>14, <2>1 DEF HandledInOrder
<1>18. FieldsOf(i)' = FieldsOf(i) /\ FieldsOf(i) = q
  BY <1>2 DEF FieldsOf, Fields
<1>19. CASE n # <<>>
  <2>1. reading' = r /\ handled' = handled
    BY <1>12, <1>19
  <2>2. /\ r.packet = i /\ r.field = f + 1 /\ r.left = n /\ r.size = s /\ r.whole = w2
    BY <1>13
  <2>3. Head(n) = n[1]
    BY <1>13, <1>19, TailOf
  <2>4. FieldsOf(reading.packet)' = q
    BY <1>18, <2>1, <2>2
  <2>5. ReaderOnFields'
    <3>1. f + 1 >= 2 /\ i <= Len(written) /\ i # 0
      BY <1>3, <1>4, <1>14
    <3>2. i = Len(handled') + 1 /\ written' = written
      BY <1>14, <2>1
    <3>3. reading'.packet = i /\ reading'.field = f + 1 /\ reading'.left = n
          /\ reading'.size = s /\ reading'.whole = w2 /\ Head(reading'.left) = n[1]
      BY <2>1, <2>2, <2>3
    <3> QED
      BY ONLY <1>10, <1>19, <2>4, <3>1, <3>2, <3>3 DEF ReaderOnFields, NextPacket, Next1
  <2>6. ReaderBetween' /\ CutShort'
    BY <1>3, <1>4, <1>14, <1>16, <2>1, <2>2 DEF ReaderBetween, CutShort
  <2>7. HandledInOrder'
    BY <1>14, <1>17, <2>1 DEF HandledInOrder
  <2> QED
    BY <1>2, <1>3, <1>13, <1>14, <2>1, <2>2, <2>5, <2>6, <2>7
<1>20. CASE n = <<>>
  <2>1. reading' = AtType /\ handled' = Append(handled, [packet |-> i, whole |-> w2])
    BY <1>12, <1>20
  <2>2. AtType.packet = 0 /\ AtType.whole
    BY DEF AtType
  <2>3. [packet |-> i, whole |-> w2] \in [packet : PacketNumber, whole : BOOLEAN]
    BY <1>14
  <2>4. /\ handled' \in Seq([packet : PacketNumber, whole : BOOLEAN])
        /\ Len(handled') = Len(handled) + 1 /\ DOMAIN handled' = 1 .. Len(handled) + 1
        /\ \A k \in 1 .. Len(handled) : handled'[k] = handled[k]
        /\ handled'[Len(handled) + 1] = [packet |-> i, whole |-> w2]
    BY <1>14, <2>1, <2>3
  <2>5. ReaderOnFields' /\ ReaderBetween' /\ CutShort'
    BY <1>4, <1>14, <2>1, <2>2, <2>4 DEF ReaderOnFields, ReaderBetween, CutShort
  <2>6. HandledInOrder'
    <3> SUFFICES ASSUME NEW k \in 1 .. Len(handled) + 1
                 PROVE  /\ handled'[k].packet = k
                        /\ ~handled'[k].whole => /\ ended' /\ k = Len(handled) + 1
                                                 /\ reading' = AtType /\ wire' = <<>>
      BY <2>4 DEF HandledInOrder
    <3>1. CASE k \in 1 .. Len(handled)
      BY <1>17, <2>4, <3>1
    <3>2. CASE k = Len(handled) + 1
      BY <1>14, <1>16, <2>1, <2>4, <3>2
    <3> QED
      BY <1>14, <3>1, <3>2
  <2>7. w2 => f = Len(q)
    <3>1. Len(n) = 0
      BY <1>20
    <3> QED
      BY <1>3, <1>7, <1>10, <3>1
  <2> QED
    BY <1>2, <1>9, <1>13, <2>1, <2>2, <2>4, <2>5, <2>6, <2>7
<1> QED
  BY <1>19, <1>20

\* The field the reader is at is the one it expects.
LEMMA FieldAsMeant ==
    ASSUME Sound, reading.packet # 0
    PROVE  /\ MeantField(Next1)
           /\ reading.packet \in 1 .. Len(written)
           /\ reading.field \in 1 .. Len(FieldsOf(reading.packet)) /\ reading.field \in Nat
           /\ Meets(Next1, FieldsOf(reading.packet)[reading.field])
           /\ reading.whole => WidthOf(Next1) = MeantWidth
           /\ MeantWidth \in Nat
           /\ FieldsOf(reading.packet)[reading.field].value \in Nat
<1>1. Typed /\ PacketFields /\ ReaderOnFields
  BY LayoutFacts DEF Sound
<1>2. PICK i, f, l, q : /\ i = reading.packet /\ f = reading.field /\ l = reading.left
                        /\ q = FieldsOf(reading.packet)
  OBVIOUS
<1>3. /\ i \in 1 .. Len(written) /\ f \in Nat /\ l \in Seq(Expectation) /\ l # <<>>
      /\ Aligned(l, q, f) /\ reading.whole \in BOOLEAN
  BY <1>1, <1>2 DEF ReaderOnFields, Typed, Reader
<1>4. Next1 = l[1] /\ 1 \in 1 .. Len(l)
  BY <1>2, <1>3, TailOf DEF Next1
<1>5. f \in DOMAIN q /\ Meets(l[1], q[f])
  <2>1. f + 1 - 1 = f
    BY <1>3
  <2> QED
    BY <1>3, <1>4, <2>1 DEF Aligned
<1>6. /\ DOMAIN q = 1 .. Len(q) /\ q[f].width \in Nat /\ q[f].value \in Nat /\ q[f] \in FieldRecord
  BY <1>1, <1>2, <1>3, <1>5 DEF PacketFields
<1>7. WellFormed(q)
  <2>1. LaidOut(q, written[i].kind)
    BY <1>1, <1>2, <1>3, Layouts
  <2> QED
    BY <2>1 DEF LaidOut
<1>8. MeantWidth = q[f].width
  BY <1>2 DEF MeantWidth, FieldsOf
<1>9. MeantField(Next1)
  BY <1>2, <1>4, <1>5 DEF MeantField, FieldsOf, Meets
<1>10. reading.whole => WidthOf(Next1) = q[f].width
  <2> SUFFICES ASSUME reading.whole PROVE WidthOf(Next1) = q[f].width
    OBVIOUS
  <2> DEFINE e == Next1
  <2>1. e.is = q[f].is /\ e.is \in {"id", "flag", "count", "size", "text"}
    BY <1>4, <1>5 DEF Meets
  <2>2. CASE e.is \in {"id", "count", "size"}
    <3>1. q[f].width = NumberWidth
      BY <1>5, <1>7, <2>1, <2>2 DEF WellFormed
    <3> QED
      BY <2>2, <3>1 DEF WidthOf
  <2>3. CASE e.is = "flag"
    <3>1. q[f].width = 1
      BY <1>5, <1>7, <2>1, <2>3 DEF WellFormed
    <3> QED
      BY <2>3, <3>1 DEF WidthOf
  <2>4. CASE e.is = "text"
    <3>1. reading.size = q[f].width
      BY <1>1, <1>2, <2>4 DEF ReaderOnFields
    <3> QED
      BY <2>4, <3>1 DEF WidthOf
  <2> QED
    BY <2>1, <2>2, <2>3, <2>4
<1> QED
  BY <1>2, <1>3, <1>4, <1>5, <1>6, <1>8, <1>9, <1>10

\* The end of the connection keeps it sound.
LEMMA SoundEnd ==
    ASSUME Sound, End
    PROVE  Sound'
<1>1. Typed /\ ~ended /\ wire \in Seq(Position) /\ Len(wire) \in Nat
  BY DEF Sound, Typed, End
<1>2. PICK n \in 0 .. Len(wire) : wire' = SubSeq(wire, 1, n)
  BY DEF End
<1>3. wire' \in Seq(Position) /\ Len(wire') = n /\ \A k \in 1 .. n : wire'[k] = wire[k]
  BY <1>1, <1>2, Start
<1>4. /\ UNCHANGED <<direction, written, reading, handled, inStep, interleaved, shortRead>>
      /\ ended' = TRUE /\ sending' = [w \in Writer |-> Idle]
  BY DEF End, auxVars
<1>5. Typed'
  <2>1. Packet' = Packet
    BY <1>4 DEF Packet
  <2>2. sending' \in [Writer -> Turn]
    BY <1>4 DEF Turn, Idle
  <2> QED
    BY <1>1, <1>3, <1>4, <2>1, <2>2 DEF Typed
<1>6. WritersOnFields'
  BY <1>4 DEF WritersOnFields
<1>7. BytesOfPackets'
  <2>1. \A j : FieldsOf(j)' = FieldsOf(j)
    BY <1>4 DEF FieldsOf, Fields
  <2>2. Byte' = Byte
    BY <1>4, <2>1 DEF Byte
  <2>3. \A k \in 1 .. n : k \in 1 .. Len(wire)
    BY <1>1
  <2> QED
    BY <1>3, <2>2, <2>3 DEF Sound, BytesOfPackets
<1>8. ReaderOnFields' /\ ReaderBetween'
  <2>1. Len(written') >= Len(written) /\ Len(written') \in Nat
    BY <1>1, <1>4 DEF Typed
  <2> QED
    BY <1>4, <2>1, ReaderUntouched
<1>9. CutShort' /\ HandledInOrder'
  BY <1>1, <1>4 DEF Sound, CutShort, HandledInOrder
<1> QED
  BY <1>5, <1>6, <1>7, <1>8, <1>9 DEF Sound

\* So does the recv() of an ActionType.
LEMMA SoundReadType ==
    ASSUME Sound, ReadType
    PROVE  Sound' /\ reading'.packet = NextPacket /\ reading'.field = 2
<1>1. Typed /\ PacketFields /\ HandledInOrder /\ wire \in Seq(Position) /\ wire # <<>>
  BY LayoutFacts DEF Sound, Typed, ReadType
<1>2. PICK i : i = NextPacket
  OBVIOUS
<1>3. 1 \in 1 .. Len(wire) /\ Len(wire) \in Nat /\ wire[1] = <<i, 1, 1>>
  BY <1>1, <1>2 DEF ReadType
<1>4. i \in 1 .. Len(written) /\ Len(written) \in Nat /\ i = Len(handled) + 1 /\ Len(handled) \in Nat
  <2>1. wire[1] \in Byte
    BY <1>3 DEF Sound, BytesOfPackets
  <2> QED
    BY <1>1, <1>2, <1>3, <2>1 DEF Byte, NextPacket, Typed
<1>5. PICK q, kind, l : q = FieldsOf(i) /\ kind = written[i].kind /\ l = Expected(kind)
  OBVIOUS
<1>6. LaidOut(q, kind)
  BY <1>1, <1>4, <1>5, Layouts
<1>7. /\ UNCHANGED <<direction, written, sending, ended, handled, inStep, interleaved, shortRead>>
      /\ 1 \in 0 .. Len(wire) /\ Take(1)
  BY <1>3 DEF ReadType, auxVars
<1>8. /\ \A j : FieldsOf(j)' = FieldsOf(j)
      /\ Byte' = Byte /\ Packet' = Packet
      /\ WritersOnFields' /\ BytesOfPackets' /\ wire' \in Seq(Position)
  BY <1>7, ReaderStep
<1>9. /\ Aligned(l, q, 2) /\ Len(l) >= 1 /\ l \in Seq(Expectation) /\ l # <<>>
      /\ 2 \in 1 .. Len(q) /\ Len(q) \in Nat /\ q[1].is = "type"
      /\ Head(l) = l[1] /\ l[1].is = q[2].is
  <2>1. Aligned(l, q, 2) /\ Len(l) >= 1 /\ q \in Seq(FieldRecord) /\ Len(q) >= 2 /\ q[1].is = "type"
    BY <1>5, <1>6 DEF LaidOut
  <2>2. l \in Seq(Expectation) /\ l # <<>> /\ 1 \in 1 .. Len(l) /\ Len(q) \in Nat
    BY <2>1 DEF Aligned
  <2>3. Meets(l[1], q[2])
    BY <2>1, <2>2 DEF Aligned
  <2> QED
    BY <2>1, <2>2, <2>3, TailOf DEF Meets
<1>10. /\ reading' \in Reader /\ reading'.packet = i /\ reading'.field = 2 /\ reading'.left = l
       /\ reading'.size = 0 /\ reading'.whole
  <2>1. AtType \in Reader /\ AtType.size = 0 /\ AtType.whole
    BY DEF AtType, Reader
  <2>2. reading' = [AtType EXCEPT !.packet = i, !.field = 2, !.left = l]
    BY <1>2, <1>5 DEF ReadType
  <2> QED
    <3>1. i \in Nat /\ 2 \in Nat /\ l \in Seq(Expectation)
      BY <1>4, <1>9
    <3> QED
      BY ONLY <3>1, <2>1, <2>2 DEF Reader
<1>11. Typed'
  BY <1>1, <1>7, <1>8, <1>10 DEF Typed
<1>12. ReaderOnFields'
  <2>1. FieldsOf(reading.packet)' = q
    <3>1. FieldsOf(i)' = q
      BY <1>5, <1>8
    <3> QED
      BY <1>10, <3>1
  <2>2. i = Len(handled') + 1 /\ i <= Len(written') /\ i # 0
    BY <1>4, <1>7
  <2>3. Head(reading'.left) = l[1] /\ Len(l) \in Nat
    BY <1>9, <1>10
  <2>4. l[1].is = "count" => Len(l) = 1
    BY <1>5, <1>6, <1>9 DEF LaidOut
  <2>5. l[1].is # "count" => Len(l) = Len(q) - 2 + 1
    <3>1. l[1].is # "count" => Len(l) = Len(q) - 1
      BY <1>5, <1>6, <1>9 DEF LaidOut
    <3> QED
      BY <1>9, <3>1
  <2>6. l[1].is # "text"
    <3> SUFFICES ASSUME q[2].is = "text" PROVE FALSE
      BY <1>9
    <3>1. 2 \in DOMAIN q /\ WellFormed(q)
      BY <1>6, <1>9 DEF LaidOut
    <3>2. q[2 - 1].is = "size"
      BY <3>1 DEF WellFormed
    <3> QED
      BY <1>9, <3>2
  <2> QED
    BY ONLY <1>9, <1>10, <2>1, <2>2, <2>3, <2>4, <2>5, <2>6 DEF ReaderOnFields, NextPacket, Next1
<1>13. ReaderBetween' /\ CutShort'
  BY <1>4, <1>7, <1>10 DEF Sound, ReaderBetween, CutShort
<1>14. HandledInOrder'
  BY <1>1, <1>7 DEF HandledInOrder
<1> QED
  BY <1>2, <1>8, <1>10, <1>11, <1>12, <1>13, <1>14 DEF Sound

\* So does the recv() of a field.
LEMMA SoundReadField ==
    ASSUME Sound, ReadField
    PROVE  /\ Sound'
           /\ reading'.packet # 0 => /\ reading'.packet = reading.packet
                                     /\ reading'.field = reading.field + 1 /\ handled' = handled
           /\ reading'.packet = 0 => /\ Len(handled') = Len(handled) + 1
                                     /\ reading.whole
                                           => reading.field = Len(FieldsOf(reading.packet))
<1>1. Typed /\ reading.packet # 0
  BY DEF Sound, ReadField
<1>2. PICK n : n = WidthOf(Next1)
  OBVIOUS
<1>3. n \in Recv(n) /\ Take(n)
  BY <1>2 DEF ReadField
<1>4. n \in 0 .. Len(wire)
  BY <1>1, <1>3 DEF Recv, Typed
<1>5. UNCHANGED <<direction, written, sending, ended, inStep, interleaved, shortRead>>
  BY DEF ReadField, auxVars
<1>6. /\ Byte' = Byte /\ Packet' = Packet
      /\ WritersOnFields' /\ BytesOfPackets' /\ wire' \in Seq(Position)
      /\ wire = <<>> => wire' = <<>>
  BY <1>3, <1>4, <1>5, ReaderStep
<1>7. PICK v \in Nat : v = FieldsOf(reading.packet)[reading.field].value
  BY <1>1, FieldAsMeant
<1>8. Advance(v, TRUE) /\ MeantField(Next1)
  BY <1>7 DEF ReadField, FieldsOf
<1>9. v <= FieldsOf(reading.packet)[reading.field].value /\ ended \in BOOLEAN
  BY <1>1, <1>7 DEF Typed
<1>10. /\ reading' \in Reader /\ handled' \in Seq([packet : PacketNumber, whole : BOOLEAN])
       /\ ReaderOnFields' /\ ReaderBetween' /\ CutShort' /\ HandledInOrder'
       /\ reading'.packet # 0 => /\ reading'.packet = reading.packet
                                 /\ reading'.field = reading.field + 1 /\ handled' = handled
       /\ reading'.packet = 0 => /\ Len(handled') = Len(handled) + 1
                                 /\ reading.whole
                                       => reading.field = Len(FieldsOf(reading.packet))
  BY <1>1, <1>5, <1>6, <1>7, <1>8, <1>9, SoundAdvance
<1>11. Typed'
  BY <1>1, <1>5, <1>6, <1>10 DEF Typed
<1> QED
  BY <1>6, <1>10, <1>11 DEF Sound

\* So does a recv() past the end, which leaves nothing on the wire.
LEMMA SoundReadPastEnd ==
    ASSUME Sound, ReadPastEnd
    PROVE  Sound' /\ ended /\ wire' = <<>>
<1>1. Typed /\ reading.packet # 0 /\ ended
  BY DEF Sound, ReadPastEnd
<1>2. PICK n : n = Len(wire)
  OBVIOUS
<1>3. n \in 0 .. Len(wire) /\ Take(n)
  BY <1>1, <1>2 DEF Typed, ReadPastEnd
<1>4. UNCHANGED <<direction, written, sending, ended, inStep, interleaved, shortRead>>
  BY DEF ReadPastEnd, auxVars
<1>5. /\ Byte' = Byte /\ Packet' = Packet
      /\ WritersOnFields' /\ BytesOfPackets' /\ wire' \in Seq(Position)
      /\ wire' = <<>>
  BY <1>2, <1>3, <1>4, ReaderStep
<1>6. PICK z \in Nat : z = FieldsOf(reading.packet)[reading.field].value
  BY <1>1, FieldAsMeant
<1>7. PICK v \in 0 .. z : Advance(v, FALSE)
  BY <1>6 DEF ReadPastEnd, FieldsOf
<1>8. /\ v \in Nat /\ v <= FieldsOf(reading.packet)[reading.field].value
      /\ ended' /\ MeantField(Next1)
  BY <1>1, <1>4, <1>6 DEF ReadPastEnd
<1>9. /\ reading' \in Reader /\ handled' \in Seq([packet : PacketNumber, whole : BOOLEAN])
      /\ ReaderOnFields' /\ ReaderBetween' /\ CutShort' /\ HandledInOrder'
  BY <1>1, <1>4, <1>5, <1>7, <1>8, SoundAdvance
<1>10. Typed'
  BY <1>1, <1>4, <1>5, <1>9 DEF Typed
<1> QED
  BY <1>1, <1>5, <1>9, <1>10 DEF Sound

\* So does a recv() that loses step: nothing is followed after it.
LEMMA SoundLoseStep ==
    ASSUME Sound, LoseStep
    PROVE  Sound'
<1>1. Typed /\ HandledInOrder /\ Len(wire) \in Nat
  BY DEF Sound, Typed
<1>2. /\ UNCHANGED <<direction, written, sending, ended, reading, handled, interleaved>>
      /\ inStep' = FALSE /\ shortRead' \in BOOLEAN
  BY <1>1 DEF LoseStep, Typed
<1>3. PICK n \in 0 .. Len(wire) : Take(n)
  <2>1. CASE reading.packet = 0 /\ wire # <<>> /\ Take(1)
    BY <1>1, <2>1 DEF Typed
  <2>2. CASE \E n \in Recv(WidthOf(Next1)) : Take(n)
    BY <1>1, <2>2 DEF Recv
  <2> QED
    BY <2>1, <2>2 DEF LoseStep
<1>4. /\ Byte' = Byte /\ Packet' = Packet
      /\ WritersOnFields' /\ BytesOfPackets' /\ wire' \in Seq(Position)
      /\ wire = <<>> => wire' = <<>>
  BY <1>2, <1>3, ReaderStep
<1>5. Typed'
  BY <1>1, <1>2, <1>4 DEF Typed
<1>6. ReaderOnFields' /\ ReaderBetween'
  <2>1. Len(written') >= Len(written) /\ Len(written') \in Nat
    BY <1>1, <1>2 DEF Typed
  <2> QED
    BY <1>2, <2>1, ReaderUntouched
<1>7. CutShort' /\ HandledInOrder'
  BY <1>1, <1>2, <1>4 DEF Sound, CutShort, HandledInOrder
<1> QED
  BY <1>4, <1>5, <1>6, <1>7 DEF Sound

\* Every step keeps the connection sound.
LEMMA SoundStep == Sound /\ [Next]_vars => Sound'
<1> SUFFICES ASSUME Sound, [Next]_vars PROVE Sound'
  OBVIOUS
<1>1. ASSUME NEW w \in Writer, BeginPacket(w) PROVE Sound'
  BY <1>1, SoundBeginPacket
<1>2. ASSUME NEW w \in Writer, SendField(w) PROVE Sound'
  BY <1>2, SoundSendField
<1>3. CASE End
  BY <1>3, SoundEnd
<1>4. CASE ReadType
  BY <1>4, SoundReadType
<1>5. CASE ReadField
  BY <1>5, SoundReadField
<1>6. CASE ReadPastEnd
  BY <1>6, SoundReadPastEnd
<1>7. CASE LoseStep
  BY <1>7, SoundLoseStep
<1>8. CASE UNCHANGED vars
  <2>1. /\ UNCHANGED <<direction, written, sending, wire, ended, reading, handled, inStep>>
        /\ UNCHANGED <<interleaved, shortRead>>
    BY <1>8 DEF vars, auxVars
  <2>2. \A j : FieldsOf(j)' = FieldsOf(j)
    BY <2>1 DEF FieldsOf, Fields
  <2>3. Typed' /\ ReaderBetween' /\ CutShort' /\ HandledInOrder'
    BY <2>1 DEF Sound, Typed, Packet, ReaderBetween, CutShort, HandledInOrder
  <2>4. Typed /\ 0 \in 0 .. Len(wire) /\ Take(0)
    BY <2>1 DEF Sound, Typed, Take
  <2>5. WritersOnFields' /\ BytesOfPackets'
    BY <2>1, <2>4, ReaderStep
  <2>6. ReaderOnFields'
    <3>1. Len(written') >= Len(written) /\ Len(written') \in Nat
      BY <2>1, <2>4 DEF Typed
    <3> QED
      BY <2>1, <3>1, ReaderUntouched
  <2> QED
    BY <2>3, <2>5, <2>6 DEF Sound
<1> QED
  BY <1>1, <1>2, <1>3, <1>4, <1>5, <1>6, <1>7, <1>8 DEF Next, Read

----------------------------------------------------------------------------
(* The order of the stream.                                                *)

\* The field whose turn it is.
ReaderField == IF reading.packet = 0 THEN 1 ELSE reading.field

\* The reader is past the byte; no writer has yet to send it; it is on its way.
Passed(b) == b[1] < NextPacket \/ (b[1] = NextPacket /\ b[2] < ReaderField)
Sent(b) ==
    \A w \in Writer : sending[w] # Idle /\ sending[w].packet = b[1] => b[2] < sending[w].field
OnWire(b) == \E k \in 1 .. Len(wire) : wire[k] = b

\* The order the bytes are read in.
Precedes(b, c) ==
    \/ b[1] < c[1]
    \/ b[1] = c[1] /\ b[2] < c[2]
    \/ b[1] = c[1] /\ b[2] = c[2] /\ b[3] < c[3]

\* Only the last packet is still being written, by one thread.
OneWriter ==
    \A w \in Writer : sending[w] # Idle =>
        /\ sending[w].packet = Len(written)
        /\ \A v \in Writer : sending[v] # Idle => v = w

\* What is on the wire has been sent and not been read.
Ahead == \A k \in 1 .. Len(wire) : ~Passed(wire[k]) /\ Sent(wire[k])
\* It is in order.
Sorted == \A k, m \in 1 .. Len(wire) : k < m => Precedes(wire[k], wire[m])
\* Nothing is missing before a byte that is on the wire.
NoGap ==
    \A k \in 1 .. Len(wire) : \A b \in Byte :
        ~Passed(b) /\ Precedes(b, wire[k]) => OnWire(b)
\* All that has been sent and not read is there, until the stream ends.
NothingLost == ~ended => \A b \in Byte : Sent(b) /\ ~Passed(b) => OnWire(b)
\* All that has been read has been sent.
NothingMadeUp == \A b \in Byte : Passed(b) => Sent(b)

\* The invariant of a stream that one thread at a time writes to.
InOrder == OneWriter /\ Ahead /\ Sorted /\ NoGap /\ NothingLost /\ NothingMadeUp

\* It holds as long as no two have written at once.
StreamInv == inStep /\ ~interleaved => InOrder

\* The order of bytes is linear.
LEMMA Order ==
    ASSUME NEW b \in Position, NEW c \in Position
    PROVE  /\ b[1] \in Nat /\ b[2] \in Nat /\ b[3] \in Nat /\ b = <<b[1], b[2], b[3]>>
           /\ ~Precedes(b, b)
           /\ Precedes(b, c) => ~Precedes(c, b)
           /\ Precedes(b, c) \/ Precedes(c, b) \/ b = c
BY DEF Position, Precedes

\* What the numbers of a byte can be.
LEMMA ByteFacts ==
    ASSUME Sound, NEW b \in Byte
    PROVE  /\ b \in Position /\ b[1] \in Nat /\ b[2] \in Nat /\ b[3] \in Nat
           /\ b[1] >= 1 /\ b[1] <= Len(written) /\ b[2] >= 1
           /\ b[2] <= Len(FieldsOf(b[1])) /\ Len(FieldsOf(b[1])) \in Nat
           /\ b[3] >= 1 /\ b[3] <= FieldsOf(b[1])[b[2]].width
           /\ b = <<b[1], b[2], b[3]>>
<1>1. PacketFields /\ Len(written) \in Nat
  BY LayoutFacts DEF Sound, Typed
<1>2. /\ b \in Position /\ b[1] \in 1 .. Len(written) /\ b[2] \in DOMAIN FieldsOf(b[1])
      /\ b[3] \in 1 .. FieldsOf(b[1])[b[2]].width
  BY DEF Byte
<1>3. DOMAIN FieldsOf(b[1]) = 1 .. Len(FieldsOf(b[1])) /\ Len(FieldsOf(b[1])) \in Nat
  BY <1>1, <1>2 DEF PacketFields
<1>4. FieldsOf(b[1])[b[2]].width \in Nat
  BY <1>1, <1>2, <1>3 DEF PacketFields
<1> QED
  BY <1>1, <1>2, <1>3, <1>4 DEF Position

\* A new connection's stream is in order.
LEMMA StreamEmpty ==
    ASSUME Init
    PROVE  InOrder
<1> USE DEF Init
<1>1. Byte = {}
  BY DEF Byte
<1> QED
  BY <1>1 DEF InOrder, OneWriter, Ahead, Sorted, NoGap, NothingLost, NothingMadeUp

Over == ended /\ wire = <<>>

\* Once the stream has ended and all of it has been read nothing can go wrong.
LEMMA StreamOver == Sound /\ Over => InOrder
<1> SUFFICES ASSUME Sound, ended, wire = <<>> PROVE InOrder
  BY DEF Over
<1>1. \A w \in Writer : sending[w] = Idle
  BY DEF Sound, WritersOnFields
<1> QED
  BY <1>1 DEF InOrder, OneWriter, Ahead, Sorted, NoGap, NothingLost, NothingMadeUp, Sent

\* The reader takes bytes and they are what it passes.
LEMMA StreamTake ==
    ASSUME Sound, InOrder, UNCHANGED <<direction, written, sending, ended, interleaved>>,
           NEW n \in 0 .. Len(wire), Take(n),
           \A b \in Byte : Passed(b)' <=> Passed(b) \/ \E k \in 1 .. n : wire[k] = b
    PROVE  InOrder'
<1>1. /\ Byte' = Byte /\ Len(wire') = Len(wire) - n
      /\ \A k \in 1 .. Len(wire) - n : wire'[k] = wire[n + k]
  BY ReaderStep
<1>2. Len(wire) \in Nat /\ n \in Nat
  BY DEF Sound, Typed
<1>3. \A b : Sent(b)' <=> Sent(b)
  BY DEF Sent
<1>4. ASSUME NEW k \in 1 .. Len(wire) - n
      PROVE  /\ wire'[k] = wire[n + k] /\ n + k \in 1 .. Len(wire) /\ wire[n + k] \in Byte
             /\ wire[n + k] \in Position
             /\ \A j \in 1 .. n : Precedes(wire[j], wire[n + k]) /\ wire[j] \in Position
             /\ \A j \in 1 .. n : wire[j] # wire[n + k]
  <2>1. n + k \in 1 .. Len(wire)
    BY <1>2
  <2>2. \A j \in 1 .. Len(wire) : wire[j] \in Byte /\ wire[j] \in Position
    BY DEF Sound, BytesOfPackets, Byte
  <2>3. ASSUME NEW j \in 1 .. n
        PROVE  Precedes(wire[j], wire[n + k]) /\ wire[j] \in Position /\ wire[j] # wire[n + k]
    <3>1. j \in 1 .. Len(wire) /\ j < n + k
      BY <1>2
    <3>2. Precedes(wire[j], wire[n + k])
      BY <2>1, <3>1 DEF InOrder, Sorted
    <3> QED
      BY <2>1, <2>2, <3>1, <3>2, Order
  <2> QED
    BY <1>1, <2>1, <2>2, <2>3
<1>5. ASSUME NEW b \in Byte, ~Passed(b)', OnWire(b)
      PROVE  OnWire(b)'
  <2>1. PICK j \in 1 .. Len(wire) : wire[j] = b
    BY <1>5 DEF OnWire
  <2>2. j \notin 1 .. n
    BY <1>5, <2>1
  <2>3. PICK k \in 1 .. Len(wire) - n : j = n + k
    <3>1. j - n \in 1 .. Len(wire) - n /\ j = n + (j - n)
      BY <1>2, <2>2
    <3> QED
      BY <3>1
  <2> QED
    BY <1>1, <2>1, <2>3 DEF OnWire
<1>6. OneWriter'
  BY DEF InOrder, OneWriter
<1>7. Ahead'
  <2> SUFFICES ASSUME NEW k \in 1 .. Len(wire) - n, NEW c, c = wire'[k]
               PROVE  ~Passed(c)' /\ Sent(c)'
    BY <1>1 DEF Ahead
  <2>1. c = wire[n + k] /\ n + k \in 1 .. Len(wire) /\ c \in Byte /\ \A j \in 1 .. n : wire[j] # c
    BY <1>4
  <2>2. ~Passed(c) /\ Sent(c)
    BY <2>1 DEF InOrder, Ahead
  <2> QED
    BY <1>3, <2>1, <2>2
<1>8. Sorted'
  <2> SUFFICES ASSUME NEW k \in 1 .. Len(wire) - n, NEW m \in 1 .. Len(wire) - n, k < m
               PROVE  Precedes(wire'[k], wire'[m])
    BY <1>1 DEF Sorted
  <2>1. n + k < n + m
    BY <1>2
  <2>2. Precedes(wire[n + k], wire[n + m])
    BY <1>4, <2>1 DEF InOrder, Sorted
  <2> QED
    BY <1>4, <2>2
<1>9. NoGap'
  <2> SUFFICES ASSUME NEW k \in 1 .. Len(wire) - n, NEW b \in Byte, ~Passed(b)',
                      Precedes(b, wire'[k])
               PROVE  OnWire(b)'
    BY <1>1 DEF NoGap
  <2>1. ~Passed(b)
    OBVIOUS
  <2>2. Precedes(b, wire[n + k]) /\ n + k \in 1 .. Len(wire)
    BY <1>4
  <2>3. OnWire(b)
    BY <2>1, <2>2 DEF InOrder, NoGap
  <2> QED
    BY <1>5, <2>3
<1>10. NothingLost'
  <2> SUFFICES ASSUME ~ended, NEW b \in Byte, Sent(b)', ~Passed(b)'
               PROVE  OnWire(b)'
    BY <1>1 DEF NothingLost
  <2>1. OnWire(b)
    BY <1>3 DEF InOrder, NothingLost
  <2> QED
    BY <1>5, <2>1
<1>11. NothingMadeUp'
  <2> SUFFICES ASSUME NEW b \in Byte, Passed(b)' PROVE Sent(b)'
    BY <1>1 DEF NothingMadeUp
  <2>1. CASE Passed(b)
    BY <1>3, <2>1 DEF InOrder, NothingMadeUp
  <2>2. CASE \E k \in 1 .. n : wire[k] = b
    <3>1. PICK k \in 1 .. n : wire[k] = b
      BY <2>2
    <3>2. k \in 1 .. Len(wire)
      BY <1>2
    <3> QED
      BY <1>3, <3>1, <3>2 DEF InOrder, Ahead
  <2> QED
    BY <2>1, <2>2
<1> QED
  BY <1>6, <1>7, <1>8, <1>9, <1>10, <1>11 DEF InOrder

\* The recv() of an ActionType passes its one byte.
LEMMA StreamReadType ==
    ASSUME Sound, InOrder, ReadType
    PROVE  InOrder'
<1>1. /\ reading'.packet = NextPacket /\ reading'.field = 2 /\ Typed /\ Sound'
  BY SoundReadType DEF Sound
<1>2. /\ UNCHANGED <<direction, written, sending, ended, handled, interleaved>>
      /\ Take(1) /\ wire # <<>> /\ reading.packet = 0
  BY DEF ReadType, auxVars
<1>3. PICK i : i = NextPacket
  OBVIOUS
<1>4. wire[1] = <<i, 1, 1>> /\ 1 \in 1 .. Len(wire) /\ 1 \in 0 .. Len(wire) /\ i \in Nat \ {0}
      /\ PacketFields
  BY <1>1, <1>3, LayoutFacts DEF ReadType, Typed, NextPacket
<1>5. NextPacket' = i /\ ReaderField' = 2 /\ ReaderField = 1
  BY <1>1, <1>2, <1>3, <1>4 DEF NextPacket, ReaderField
<1>6. ASSUME NEW b \in Byte
      PROVE  Passed(b)' <=> Passed(b) \/ \E k \in 1 .. 1 : wire[k] = b
  <2>1. /\ b[1] \in Nat /\ b[2] \in Nat /\ b[2] >= 1 /\ b[3] \in Nat /\ b[3] >= 1
        /\ b[1] \in 1 .. Len(written) /\ b[3] <= FieldsOf(b[1])[b[2]].width
        /\ b = <<b[1], b[2], b[3]>>
    BY ByteFacts DEF Byte
  <2>2. Passed(b)' <=> b[1] < i \/ (b[1] = i /\ b[2] < 2)
    BY <1>5 DEF Passed
  <2>3. Passed(b) <=> b[1] < i \/ (b[1] = i /\ b[2] < 1)
    BY <1>3, <1>5 DEF Passed
  <2>4. b[1] = i /\ b[2] < 2 => b = <<i, 1, 1>>
    <3> SUFFICES ASSUME b[1] = i, b[2] < 2 PROVE b = <<i, 1, 1>>
      OBVIOUS
    <3>1. b[2] = 1
      BY <2>1
    <3>2. FieldsOf(i)[1].width = 1
      BY <1>4, <2>1 DEF PacketFields
    <3>3. b[3] = 1
      BY <2>1, <3>1, <3>2
    <3> QED
      BY <2>1, <3>1, <3>3
  <2>5. (\E k \in 1 .. 1 : wire[k] = b) <=> b = <<i, 1, 1>>
    BY <1>4
  <2>6. b = <<i, 1, 1>> => b[1] = i /\ b[2] < 2
    OBVIOUS
  <2> QED
    BY <2>1, <2>2, <2>3, <2>4, <2>5, <2>6
<1> QED
  BY <1>2, <1>4, <1>6, StreamTake

\* The recv() of a field passes the field's bytes.
LEMMA StreamReadField ==
    ASSUME Sound, InOrder, ReadField
    PROVE  InOrder'
<1>1. /\ Sound'
      /\ reading'.packet # 0 => /\ reading'.packet = reading.packet
                                /\ reading'.field = reading.field + 1 /\ handled' = handled
      /\ reading'.packet = 0 => /\ Len(handled') = Len(handled) + 1
                                /\ reading.whole
                                      => reading.field = Len(FieldsOf(reading.packet))
  BY SoundReadField
<1>2. /\ UNCHANGED <<direction, written, sending, ended, inStep, interleaved, shortRead>>
      /\ reading.packet # 0 /\ Typed /\ Len(wire) \in Nat /\ PacketFields
  BY LayoutFacts DEF ReadField, auxVars, Sound, Typed
<1>3. PICK n : n = WidthOf(Next1)
  OBVIOUS
<1>4. n \in 0 .. Len(wire) /\ Take(n)
  <2>1. n \in Recv(n) /\ Take(n)
    BY <1>3 DEF ReadField
  <2> QED
    BY <1>2, <2>1 DEF Recv
<1>5. CASE ~reading.whole
  <2>1. ended /\ wire = <<>>
    BY <1>5 DEF Sound, CutShort
  <2>2. Over'
    BY <1>2, <1>4, <2>1, ReaderStep DEF Over
  <2> QED
    BY <1>1, <2>2, StreamOver, PTL
<1>6. CASE reading.whole
  <2>1. PICK i, f, q : i = reading.packet /\ f = reading.field /\ q = FieldsOf(reading.packet)
    OBVIOUS
  <2>2. /\ i \in 1 .. Len(written) /\ f \in 1 .. Len(q) /\ f \in Nat /\ Len(q) \in Nat
        /\ i \in Nat \ {0} /\ q = FieldsOf(i)
    BY <1>2, <2>1, FieldAsMeant DEF PacketFields, Typed
  <2>3. i = NextPacket /\ i = Len(handled) + 1 /\ Len(handled) \in Nat
    BY <1>2, <2>1 DEF Sound, ReaderOnFields, NextPacket, Typed
  <2>4. q[f].width \in Nat
    BY <1>2, <2>2 DEF PacketFields
  <2>5. PICK m \in Nat : m = q[f].width
    BY <2>4
  <2>6. SubSeq(wire, 1, n) = [k \in 1 .. m |-> <<i, f, k>>]
    BY <1>3, <2>1, <2>5 DEF ReadField, Bytes, FieldsOf
  <2>7. n = m /\ \A k \in 1 .. n : wire[k] = <<i, f, k>>
    <3>1. wire \in Seq(Position)
      BY <1>2 DEF Typed
    <3>2. PICK t : t = SubSeq(wire, 1, n)
      OBVIOUS
    <3>3. t \in Seq(Position) /\ Len(t) = n /\ \A k \in 1 .. n : t[k] = wire[k]
      BY <1>4, <3>1, <3>2, Start
    <3>4. DOMAIN t = 1 .. n /\ DOMAIN t = 1 .. m
      BY <2>6, <3>2, <3>3
    <3>5. n = m
      BY <1>4, <2>5, <3>4
    <3> QED
      BY <2>6, <3>2, <3>3, <3>5
  <2>8. ASSUME NEW b \in Byte
        PROVE  Passed(b)' <=> Passed(b) \/ \E k \in 1 .. n : wire[k] = b
    <3>1. /\ b[1] \in Nat /\ b[2] \in Nat /\ b[2] >= 1 /\ b[3] \in Nat /\ b[3] >= 1
          /\ b[2] <= Len(FieldsOf(b[1])) /\ b[3] <= FieldsOf(b[1])[b[2]].width
          /\ b = <<b[1], b[2], b[3]>>
      BY ByteFacts
    <3>2. Passed(b) <=> b[1] < i \/ (b[1] = i /\ b[2] < f)
      BY <1>2, <2>1, <2>3 DEF Passed, ReaderField
    <3>3. Passed(b)' <=> b[1] < i \/ (b[1] = i /\ b[2] < f + 1)
      <4>1. CASE reading'.packet # 0
        <5>1. NextPacket' = i /\ ReaderField' = f + 1
          BY <1>1, <2>1, <2>3, <4>1 DEF NextPacket, ReaderField
        <5> QED
          BY <5>1 DEF Passed
      <4>2. CASE reading'.packet = 0
        <5>1. NextPacket' = i + 1 /\ ReaderField' = 1 /\ f = Len(q)
          BY <1>1, <1>6, <2>1, <2>3, <4>2 DEF NextPacket, ReaderField
        <5>2. b[1] = i => b[2] < f + 1
          BY <2>2, <3>1, <5>1
        <5>3. Passed(b)' <=> b[1] < i + 1 \/ (b[1] = i + 1 /\ b[2] < 1)
          BY <5>1 DEF Passed
        <5> QED
          BY <2>2, <3>1, <5>2, <5>3
      <4> QED
        BY <4>1, <4>2
    <3>4. (\E k \in 1 .. n : wire[k] = b) <=> b[1] = i /\ b[2] = f
      <4>1. ASSUME NEW k \in 1 .. n, wire[k] = b PROVE b[1] = i /\ b[2] = f
        BY <2>7, <4>1
      <4>2. ASSUME b[1] = i, b[2] = f PROVE \E k \in 1 .. n : wire[k] = b
        <5>1. b[3] \in 1 .. n
          BY <2>2, <2>5, <2>7, <3>1, <4>2
        <5>2. b = <<i, f, b[3]>>
          BY <3>1, <4>2
        <5> QED
          BY <2>7, <5>1, <5>2
      <4> QED
        BY <4>1, <4>2
    <3> QED
      BY <2>2, <3>1, <3>2, <3>3, <3>4
  <2> QED
    BY <1>2, <1>4, <2>8, StreamTake
<1> QED
  BY <1>2, <1>5, <1>6 DEF Typed, Reader

\* A packet begun while no other is under way comes last.
LEMMA StreamBeginPacket ==
    ASSUME Sound, InOrder, NEW w \in Writer, BeginPacket(w), ~interleaved'
    PROVE  InOrder'
<1>1. /\ Typed /\ PacketFields /\ ~ended /\ Sound'
      /\ Len(wire) \in Nat /\ wire \in Seq(Position)
  <2>1. Sound'
    BY SoundBeginPacket
  <2>2. Typed /\ ~ended
    BY DEF Sound, BeginPacket, CanSend
  <2>3. Len(wire) \in Nat /\ wire \in Seq(Position)
    BY <2>2 DEF Typed
  <2> QED
    BY <2>1, <2>2, <2>3, LayoutFacts
<1>2. PICK n \in Nat : n = Len(written)
  BY <1>1 DEF Typed
<1>3. PICK p \in Packet : written' = Append(written, p)
  BY DEF BeginPacket
<1>4. /\ written' \in Seq(Packet) /\ Len(written') = n + 1
      /\ \A i \in 1 .. n : written'[i] = written[i]
  BY <1>1, <1>2, <1>3 DEF Typed
<1>5. PICK c \in Position : c = <<n + 1, 1, 1>>
  <2>1. <<n + 1, 1, 1>> \in Position
    BY <1>2 DEF Position
  <2> QED
    BY <2>1
<1>6. /\ UNCHANGED <<direction, ended, reading, handled>>
      /\ wire' = Append(wire, c)
      /\ sending' = [sending EXCEPT ![w] = [packet |-> n + 1, field |-> 2]]
  <2>1. /\ UNCHANGED <<direction, ended, reading, handled>>
        /\ wire' = Append(wire, <<Len(written) + 1, 1, 1>>)
        /\ sending' = [sending EXCEPT ![w] = [packet |-> Len(written) + 1, field |-> 2]]
    BY DEF BeginPacket
  <2> QED
    BY ONLY <1>2, <1>5, <2>1, Zenon
<1>7. \A v \in Writer : sending[v] = Idle
  BY DEF BeginPacket, NoteInterleaving
<1>8. /\ Byte \subseteq Byte' /\ \A b \in Byte' : b[1] <= n => b \in Byte
      /\ \A b \in Byte : b[1] <= n /\ b[1] \in Nat
  <2>1. /\ Len(written') >= Len(written) /\ Len(written') \in Nat
        /\ \A i \in 1 .. Len(written) : written'[i] = written[i]
    BY <1>2, <1>4
  <2>2. direction' = direction
    BY <1>6
  <2>3. Byte \subseteq Byte' /\ \A b \in Byte' : b[1] <= n => b \in Byte
    BY ONLY <1>1, <1>2, <2>1, <2>2, FieldsStay
  <2> QED
    BY <1>2, <2>3, ByteFacts
<1>9. ASSUME NEW b \in Byte', b \notin Byte
      PROVE  /\ b[1] = n + 1 /\ b \in Position /\ b[1] \in Nat /\ b[2] \in Nat /\ b[3] \in Nat
             /\ b[2] >= 1 /\ b[3] >= 1
             /\ b[2] = 1 => b = c
  <2>1. PacketFields'
    <3>1. Typed'
      BY <1>1 DEF Sound
    <3> QED
      BY <3>1, LayoutFacts, PTL
  <2>2. /\ b \in Position /\ b[1] \in 1 .. n + 1 /\ b[2] \in DOMAIN FieldsOf(b[1])'
        /\ b[3] \in 1 .. FieldsOf(b[1])'[b[2]].width
    BY <1>4 DEF Byte
  <2>3. b[1] = n + 1
    BY <1>2, <1>8, <1>9, <2>2
  <2>4. /\ DOMAIN FieldsOf(n + 1)' = 1 .. Len(FieldsOf(n + 1)') /\ Len(FieldsOf(n + 1)') \in Nat
        /\ FieldsOf(n + 1)'[1].width = 1
    BY <1>2, <1>4, <2>1 DEF PacketFields
  <2>5. b[1] \in Nat /\ b[2] \in Nat /\ b[3] \in Nat /\ b = <<b[1], b[2], b[3]>>
    BY <2>2 DEF Position
  <2>6. b[2] >= 1 /\ b[3] >= 1
    BY <2>2, <2>3, <2>4, <2>5
  <2>7. b[2] = 1 => b[3] = 1
    BY <2>2, <2>3, <2>4, <2>5
  <2> QED
    BY <1>5, <2>2, <2>3, <2>5, <2>6, <2>7
<1>10. /\ Len(wire') = Len(wire) + 1 /\ \A k \in 1 .. Len(wire) : wire'[k] = wire[k]
       /\ wire'[Len(wire) + 1] = c
       /\ \A k \in 1 .. Len(wire) + 1 : k \in 1 .. Len(wire) \/ k = Len(wire) + 1
  BY <1>1, <1>6
<1>11. \A b : Passed(b)' <=> Passed(b)
  BY <1>6 DEF Passed, NextPacket, ReaderField
<1>12. \A b : Sent(b)
  BY <1>7 DEF Sent
<1>13. \A b : Sent(b)' <=> (b[1] = n + 1 => b[2] < 2)
  <2>1. [packet |-> n + 1, field |-> 2] # Idle
    BY DEF Idle
  <2>2. sending'[w] = [packet |-> n + 1, field |-> 2] /\ \A v \in Writer \ {w} : sending'[v] = Idle
    BY <1>1, <1>6, <1>7 DEF Typed
  <2> QED
    BY <2>1, <2>2 DEF Sent
<1>14. /\ NextPacket \in Nat /\ NextPacket <= n + 1
       /\ ReaderField \in Nat /\ (NextPacket = n + 1 => ReaderField = 1)
  <2>1. reading.packet # 0 => NextPacket <= n
    BY <1>2 DEF Sound, ReaderOnFields
  <2>2. Len(handled) \in Nat /\ Len(handled) <= n /\ reading.field \in Nat
    BY <1>1, <1>2 DEF Sound, ReaderBetween, Typed, Reader
  <2> QED
    BY <1>2, <2>1, <2>2 DEF NextPacket, ReaderField
<1>15. \A k \in 1 .. Len(wire) : /\ wire[k] \in Byte /\ wire[k][1] <= n /\ wire[k][1] \in Nat
  BY <1>8 DEF Sound, BytesOfPackets
<1>16. \A b \in Byte : OnWire(b) => OnWire(b)'
  BY <1>10, <1>1 DEF OnWire
<1>17. OnWire(c)'
  BY <1>10, <1>1 DEF OnWire
<1>18. c[1] = n + 1 /\ c[2] = 1 /\ c[3] = 1
  BY <1>5
<1>19. ~Passed(c)
  BY <1>14, <1>18 DEF Passed
<1>20. OneWriter'
  BY <1>1, <1>4, <1>6, <1>7 DEF OneWriter, Typed
<1>21. Ahead'
  <2> SUFFICES ASSUME NEW k \in 1 .. Len(wire) + 1, NEW d, d = wire'[k]
               PROVE  ~Passed(d)' /\ Sent(d)'
    BY <1>10 DEF Ahead
  <2>1. CASE k \in 1 .. Len(wire)
    <3>1. d = wire[k] /\ d[1] <= n /\ d[1] \in Nat
      BY <1>10, <1>15, <2>1
    <3>2. ~Passed(d)
      BY <2>1, <3>1 DEF InOrder, Ahead
    <3>3. d[1] # n + 1
      BY <1>2, <3>1
    <3> QED
      BY <1>11, <1>13, <3>2, <3>3
  <2>2. CASE k = Len(wire) + 1
    BY <1>10, <1>11, <1>13, <1>18, <1>19, <2>2
  <2> QED
    BY <1>10, <2>1, <2>2
<1>22. Sorted'
  <2> SUFFICES ASSUME NEW k \in 1 .. Len(wire) + 1, NEW m \in 1 .. Len(wire) + 1, k < m
               PROVE  Precedes(wire'[k], wire'[m])
    BY <1>10 DEF Sorted
  <2>1. k \in 1 .. Len(wire) /\ wire'[k] = wire[k]
    BY <1>1, <1>10
  <2>2. CASE m \in 1 .. Len(wire)
    BY <1>10, <2>1, <2>2 DEF InOrder, Sorted
  <2>3. CASE m = Len(wire) + 1
    <3>1. wire[k][1] < c[1]
      BY <1>2, <1>15, <1>18, <2>1
    <3> QED
      BY <1>10, <2>1, <2>3, <3>1 DEF Precedes
  <2> QED
    BY <1>10, <2>2, <2>3
<1>23. NoGap'
  <2> SUFFICES ASSUME NEW k \in 1 .. Len(wire) + 1, NEW b \in Byte', ~Passed(b),
                      Precedes(b, wire'[k])
               PROVE  OnWire(b)'
    BY <1>10, <1>11 DEF NoGap
  <2>1. b \in Byte
    <3> SUFFICES ASSUME b \notin Byte PROVE FALSE
      OBVIOUS
    <3>1. b[1] = n + 1 /\ b[2] \in Nat /\ b[3] \in Nat /\ b[2] >= 1 /\ b[3] >= 1
      BY <1>9
    <3>2. CASE k \in 1 .. Len(wire)
      <4>1. wire'[k][1] <= n /\ wire'[k][1] \in Nat
        BY <1>10, <1>15, <3>2
      <4> QED
        BY <1>2, <3>1, <4>1 DEF Precedes
    <3>3. CASE k = Len(wire) + 1
      BY <1>10, <1>18, <3>1, <3>3 DEF Precedes
    <3> QED
      BY <1>10, <3>2, <3>3
  <2>2. OnWire(b)
    BY <1>1, <1>12, <2>1 DEF InOrder, NothingLost
  <2> QED
    BY <1>16, <2>1, <2>2
<1>24. NothingLost'
  <2> SUFFICES ASSUME NEW b \in Byte', Sent(b)', ~Passed(b)
               PROVE  OnWire(b)'
    BY <1>11 DEF NothingLost
  <2>1. CASE b \in Byte
    BY <1>1, <1>12, <1>16, <2>1 DEF InOrder, NothingLost
  <2>2. CASE b \notin Byte
    <3>1. b[1] = n + 1 /\ b[2] \in Nat /\ b[2] >= 1 /\ (b[2] = 1 => b = c)
      BY <1>9, <2>2
    <3>2. b[2] < 2
      BY <1>13, <3>1
    <3> QED
      BY <1>17, <3>1, <3>2
  <2> QED
    BY <2>1, <2>2
<1>25. NothingMadeUp'
  <2> SUFFICES ASSUME NEW b \in Byte', Passed(b)
               PROVE  Sent(b)'
    BY <1>11 DEF NothingMadeUp
  <2>1. CASE b \in Byte
    <3>1. b[1] # n + 1
      BY <1>2, <1>8, <2>1
    <3> QED
      BY <1>13, <3>1
  <2>2. CASE b \notin Byte
    <3>1. b[1] = n + 1 /\ b[2] \in Nat /\ b[2] >= 1
      BY <1>9, <2>2
    <3> QED
      BY <1>2, <1>14, <3>1 DEF Passed
  <2> QED
    BY <2>1, <2>2
<1> QED
  BY <1>20, <1>21, <1>22, <1>23, <1>24, <1>25 DEF InOrder

\* The fields of one packet go out one after another.
LEMMA StreamSendField ==
    ASSUME Sound, InOrder, NEW w \in Writer, SendField(w), ~interleaved'
    PROVE  InOrder'
<1>1. /\ Typed /\ PacketFields /\ ~ended /\ sending[w] # Idle
      /\ Len(wire) \in Nat /\ wire \in Seq(Position)
  BY LayoutFacts DEF Sound, SendField, CanSend, Typed
<1>2. PICK n, f, q : n = sending[w].packet /\ f = sending[w].field /\ q = FieldsOf(n)
  OBVIOUS
<1>3. /\ n = Len(written) /\ n \in Nat /\ n \in 1 .. Len(written) /\ f \in DOMAIN q
      /\ \A v \in Writer : sending[v] # Idle => v = w
  BY <1>1, <1>2 DEF Sound, WritersOnFields, Typed, InOrder, OneWriter
<1>4. f \in 1 .. Len(q) /\ Len(q) \in Nat /\ q[f].width \in Nat /\ f \in Nat
  BY <1>1, <1>2, <1>3 DEF PacketFields
<1>5. PICK m \in Nat : m = q[f].width
  BY <1>4
<1>6. PICK bs : bs = [k \in 1 .. m |-> <<n, f, k>>]
  OBVIOUS
<1>7. /\ bs \in Seq(Position) /\ Len(bs) = m /\ \A k \in 1 .. m : bs[k] = <<n, f, k>>
  BY <1>3, <1>4, <1>6 DEF Position
<1>8. /\ UNCHANGED <<direction, written, ended, reading, handled>>
      /\ wire' = wire \o bs
      /\ sending' = [sending EXCEPT ![w] =
                        IF f = Len(q) THEN Idle ELSE [sending[w] EXCEPT !.field = @ + 1]]
  BY <1>2, <1>5, <1>6 DEF SendField, Bytes, FieldsOf
<1>9. /\ Len(wire') = Len(wire) + m
      /\ \A k \in 1 .. Len(wire) : wire'[k] = wire[k]
      /\ \A k \in 1 .. m : wire'[Len(wire) + k] = <<n, f, k>>
      /\ \A k \in 1 .. Len(wire) + m :
            k \in 1 .. Len(wire) \/ \E j \in 1 .. m : k = Len(wire) + j
  <2>1. /\ Len(wire') = Len(wire) + m
        /\ \A k \in 1 .. Len(wire) : wire'[k] = wire[k]
        /\ \A k \in 1 .. m : wire'[Len(wire) + k] = bs[k]
    <3>1. wire \in Seq(Position) /\ bs \in Seq(Position) /\ wire' = wire \o bs /\ Len(bs) = m
      BY <1>1, <1>7, <1>8
    <3>2. /\ Len(wire \o bs) = Len(wire) + Len(bs)
          /\ \A k \in 1 .. Len(wire) : (wire \o bs)[k] = wire[k]
          /\ \A k \in 1 .. Len(bs) : (wire \o bs)[Len(wire) + k] = bs[k]
      <4>1. wire \in Seq(Position) /\ bs \in Seq(Position)
        BY <3>1
      <4>2. ASSUME NEW s \in Seq(Position), NEW t \in Seq(Position)
            PROVE  /\ Len(s \o t) = Len(s) + Len(t)
                   /\ \A k \in 1 .. Len(s) : (s \o t)[k] = s[k]
                   /\ \A k \in 1 .. Len(t) : (s \o t)[Len(s) + k] = t[k]
        OBVIOUS
      <4> QED
        BY ONLY <4>1, <4>2, Zenon
    <3> QED
      BY ONLY <3>1, <3>2, Zenon
  <2>2. ASSUME NEW k \in 1 .. Len(wire) + m, k \notin 1 .. Len(wire)
        PROVE  \E j \in 1 .. m : k = Len(wire) + j
    <3>1. k - Len(wire) \in 1 .. m /\ k = Len(wire) + (k - Len(wire))
      BY <1>1, <2>2
    <3> QED
      BY <3>1
  <2> QED
    BY <1>7, <2>1, <2>2
<1>10. \A i : FieldsOf(i)' = FieldsOf(i)
  BY <1>8 DEF FieldsOf, Fields
<1>11. Byte' = Byte
  BY <1>8, <1>10 DEF Byte
<1>12. \A b : Passed(b)' <=> Passed(b)
  BY <1>8 DEF Passed, NextPacket, ReaderField
<1>13. ASSUME NEW b \in Byte
       PROVE  /\ b[1] \in Nat /\ b[2] \in Nat /\ b[3] \in Nat
              /\ b[1] <= n /\ b[2] >= 1 /\ b = <<b[1], b[2], b[3]>>
              /\ b[1] = n => b[2] <= Len(q)
              /\ b[1] = n /\ b[2] = f => b[3] \in 1 .. m
  <2>1. /\ b[1] \in Nat /\ b[2] \in Nat /\ b[3] \in Nat
        /\ b[1] <= n /\ b[2] >= 1 /\ b = <<b[1], b[2], b[3]>>
        /\ b[2] <= Len(FieldsOf(b[1])) /\ b[3] >= 1 /\ b[3] <= FieldsOf(b[1])[b[2]].width
    BY <1>3, ByteFacts
  <2> QED
    BY <1>2, <1>5, <2>1
<1>14. ASSUME NEW b
       PROVE  Sent(b) <=> (b[1] = n => b[2] < f)
  BY <1>1, <1>2, <1>3 DEF Sent
<1>15. ASSUME NEW b \in Byte
       PROVE  Sent(b)' <=> (b[1] = n => b[2] < f + 1)
  <2>1. \A v \in Writer \ {w} : sending'[v] = Idle
    BY <1>1, <1>3, <1>8 DEF Typed
  <2>2. CASE f = Len(q)
    <3>1. sending'[w] = Idle
      BY <1>1, <1>8, <2>2 DEF Typed
    <3>2. b[1] = n => b[2] < f + 1
      BY <1>4, <1>13, <2>2
    <3> QED
      BY <2>1, <3>1, <3>2 DEF Sent
  <2>3. CASE f # Len(q)
    <3>1. sending'[w] = [sending[w] EXCEPT !.field = @ + 1] /\ sending[w] \in Turn
      BY <1>1, <1>8, <2>3 DEF Typed
    <3>2. sending'[w].packet = n /\ sending'[w].field = f + 1
      BY <1>2, <1>4, <3>1 DEF Turn
    <3>3. sending'[w] # Idle
      BY <1>3, <3>2 DEF Idle
    <3> QED
      BY <2>1, <3>2, <3>3 DEF Sent
  <2> QED
    BY <2>2, <2>3
<1>16. ASSUME NEW b \in Byte, Sent(b)
       PROVE  Sent(b)'
  BY <1>4, <1>13, <1>14, <1>15, <1>16
<1>17. ASSUME NEW b, OnWire(b)
       PROVE  OnWire(b)'
  <2>1. PICK k \in 1 .. Len(wire) : wire[k] = b
    BY <1>17 DEF OnWire
  <2>2. k \in 1 .. Len(wire')
    BY <1>1, <1>9
  <2> QED
    BY <1>9, <2>1, <2>2 DEF OnWire
<1>18. ASSUME NEW j \in 1 .. m
       PROVE  OnWire(<<n, f, j>>)' /\ <<n, f, j>> \in Byte
  <2>1. Len(wire) + j \in 1 .. Len(wire')
    BY <1>1, <1>9
  <2>2. OnWire(<<n, f, j>>)'
    BY <1>9, <2>1 DEF OnWire
  <2>3. <<n, f, j>> \in Byte
    <3>1. <<n, f, j>> \in Position /\ j \in 1 .. FieldsOf(n)[f].width
      <4>1. n \in Nat /\ f \in Nat /\ j \in Nat
        BY <1>3, <1>4
      <4>2. FieldsOf(n)[f].width = m
        BY <1>2, <1>5
      <4>3. <<n, f, j>> \in Position
        BY ONLY <4>1 DEF Position
      <4> QED
        BY ONLY <4>2, <4>3
    <3>2. n \in 1 .. Len(written) /\ f \in DOMAIN FieldsOf(n)
      BY <1>2, <1>3
    <3>3. PICK b \in Position : b = <<n, f, j>>
      BY <3>1
    <3>4. b[1] = n /\ b[2] = f /\ b[3] = j
      BY <3>3
    <3>5. b \in Byte
      BY ONLY <3>1, <3>2, <3>4 DEF Byte
    <3> QED
      BY <3>3, <3>5
  <2> QED
    BY <2>2, <2>3
<1>19. ASSUME NEW b \in Byte, ~Passed(b), Sent(b)
       PROVE  OnWire(b)'
  <2>1. OnWire(b)
    BY <1>1, <1>19 DEF InOrder, NothingLost
  <2> QED
    BY <1>17, <2>1
<1>20. \A k \in 1 .. Len(wire) : wire[k] \in Byte /\ ~Passed(wire[k]) /\ Sent(wire[k])
  BY DEF Sound, BytesOfPackets, InOrder, Ahead
<1>21. OneWriter'
  <2>1. \A v \in Writer : sending'[v] # Idle => v = w
    BY <1>1, <1>3, <1>8 DEF Typed
  <2>2. sending'[w] # Idle => sending'[w].packet = n
    <3>1. sending[w] \in Turn
      BY <1>1 DEF Typed
    <3>2. [sending[w] EXCEPT !.field = @ + 1].packet = n
      BY <1>2, <3>1 DEF Turn
    <3> QED
      BY <1>1, <1>8, <3>2 DEF Typed
  <2> QED
    BY <1>3, <1>8, <2>1, <2>2 DEF OneWriter
<1>22. Ahead'
  <2> SUFFICES ASSUME NEW k \in 1 .. Len(wire) + m, NEW d, d = wire'[k]
               PROVE  ~Passed(d)' /\ Sent(d)'
    BY <1>9 DEF Ahead
  <2>1. CASE k \in 1 .. Len(wire)
    BY <1>9, <1>12, <1>16, <1>20, <2>1
  <2>2. CASE \E j \in 1 .. m : k = Len(wire) + j
    <3>1. PICK j \in 1 .. m : d = <<n, f, j>>
      BY <1>9, <2>2
    <3>2. d \in Byte /\ d[1] = n /\ d[2] = f
      BY <1>18, <3>1
    <3>3. ~Sent(d) /\ Sent(d)'
      BY <1>4, <1>14, <1>15, <3>2
    <3>4. ~Passed(d)
      BY <3>2, <3>3 DEF InOrder, NothingMadeUp
    <3> QED
      BY <1>12, <3>3, <3>4
  <2> QED
    BY <1>9, <2>1, <2>2
<1>23. Sorted'
  <2> SUFFICES ASSUME NEW k \in 1 .. Len(wire) + m, NEW j \in 1 .. Len(wire) + m, k < j
               PROVE  Precedes(wire'[k], wire'[j])
    BY <1>9 DEF Sorted
  <2>1. CASE j \in 1 .. Len(wire)
    <3>1. k \in 1 .. Len(wire)
      BY <1>1, <2>1
    <3> QED
      BY <1>9, <2>1, <3>1 DEF InOrder, Sorted
  <2>2. CASE \E i \in 1 .. m : j = Len(wire) + i
    <3>1. PICK i \in 1 .. m : j = Len(wire) + i
      BY <2>2
    <3>2. wire'[j] = <<n, f, i>>
      BY <1>9, <3>1
    <3>3. CASE k \in 1 .. Len(wire)
      <4>1. PICK d \in Byte : d = wire[k] /\ Sent(d)
        BY <1>20, <3>3
      <4>2. d[1] < n \/ (d[1] = n /\ d[2] < f)
        BY <1>3, <1>13, <1>14, <4>1
      <4> QED
        BY <1>9, <3>2, <3>3, <4>1, <4>2 DEF Precedes
    <3>4. CASE \E h \in 1 .. m : k = Len(wire) + h
      <4>1. PICK h \in 1 .. m : k = Len(wire) + h
        BY <3>4
      <4>2. h < i /\ wire'[k] = <<n, f, h>>
        BY <1>1, <1>9, <3>1, <4>1
      <4> QED
        BY <3>2, <4>2 DEF Precedes
    <3> QED
      BY <1>9, <3>3, <3>4
  <2> QED
    BY <1>9, <2>1, <2>2
<1>24. NoGap'
  <2> SUFFICES ASSUME NEW k \in 1 .. Len(wire) + m, NEW b \in Byte, ~Passed(b),
                      Precedes(b, wire'[k])
               PROVE  OnWire(b)'
    BY <1>9, <1>11, <1>12 DEF NoGap
  <2>1. CASE k \in 1 .. Len(wire)
    <3>1. OnWire(b)
      BY <1>9, <2>1 DEF InOrder, NoGap
    <3> QED
      BY <1>17, <3>1
  <2>2. CASE \E j \in 1 .. m : k = Len(wire) + j
    <3>1. PICK j \in 1 .. m : wire'[k] = <<n, f, j>>
      BY <1>9, <2>2
    <3>2. b[1] < n \/ (b[1] = n /\ b[2] < f) \/ (b[1] = n /\ b[2] = f)
      BY <3>1 DEF Precedes
    <3>3. CASE b[1] = n /\ b[2] = f
      <4>1. b[3] \in 1 .. m /\ b = <<n, f, b[3]>>
        BY <1>13, <3>3
      <4> QED
        BY <1>18, <4>1
    <3>4. CASE ~(b[1] = n /\ b[2] = f)
      <4>1. Sent(b)
        BY <1>3, <1>13, <1>14, <3>2, <3>4
      <4> QED
        BY <1>19, <4>1
    <3> QED
      BY <3>3, <3>4
  <2> QED
    BY <1>9, <2>1, <2>2
<1>25. NothingLost'
  <2> SUFFICES ASSUME NEW b \in Byte, Sent(b)', ~Passed(b)
               PROVE  OnWire(b)'
    BY <1>11, <1>12 DEF NothingLost
  <2>1. CASE Sent(b)
    BY <1>19, <2>1
  <2>2. CASE ~Sent(b)
    <3>1. b[1] = n /\ b[2] = f
      BY <1>4, <1>13, <1>14, <1>15, <2>2
    <3>2. b[3] \in 1 .. m /\ b = <<n, f, b[3]>>
      BY <1>13, <3>1
    <3> QED
      BY <1>18, <3>2
  <2> QED
    BY <2>1, <2>2
<1>26. NothingMadeUp'
  <2> SUFFICES ASSUME NEW b \in Byte, Passed(b)
               PROVE  Sent(b)'
    BY <1>11, <1>12 DEF NothingMadeUp
  <2>1. Sent(b)
    BY DEF InOrder, NothingMadeUp
  <2> QED
    BY <1>16, <2>1
<1> QED
  BY <1>21, <1>22, <1>23, <1>24, <1>25, <1>26 DEF InOrder

\* What arrives of a stream that has ended is its beginning.
LEMMA StreamEnd ==
    ASSUME Sound, InOrder, End
    PROVE  InOrder'
<1>1. /\ UNCHANGED <<direction, written, reading, handled>> /\ ended' = TRUE
      /\ \A v \in Writer : sending'[v] = Idle
  BY DEF End
<1>2. Len(wire) \in Nat /\ wire \in Seq(Position)
  BY DEF Sound, Typed
<1>3. PICK n \in 0 .. Len(wire) : wire' = SubSeq(wire, 1, n)
  BY DEF End
<1>4. Len(wire') = n /\ \A k \in 1 .. n : wire'[k] = wire[k] /\ k \in 1 .. Len(wire)
  <2>1. PICK t : t = SubSeq(wire, 1, n)
    OBVIOUS
  <2>2. Len(t) = n /\ \A k \in 1 .. n : t[k] = wire[k]
    BY <1>2, <2>1, Start
  <2> QED
    BY <1>2, <1>3, <2>1, <2>2
<1>5. Byte' = Byte
  BY <1>1 DEF Byte, FieldsOf, Fields
<1>6. \A b : Passed(b)' <=> Passed(b)
  BY <1>1 DEF Passed, NextPacket, ReaderField
<1>7. \A b : Sent(b)'
  BY <1>1 DEF Sent
<1>8. OneWriter'
  BY <1>1 DEF OneWriter
<1>9. Ahead'
  BY <1>4, <1>6, <1>7 DEF InOrder, Ahead
<1>10. Sorted'
  BY <1>4 DEF InOrder, Sorted
<1>11. NoGap'
  <2> SUFFICES ASSUME NEW k \in 1 .. n, NEW b \in Byte, ~Passed(b), Precedes(b, wire[k])
               PROVE  OnWire(b)'
    BY <1>4, <1>5, <1>6 DEF NoGap
  <2>1. k \in 1 .. Len(wire)
    BY <1>4
  <2>2. PICK m \in 1 .. Len(wire) : wire[m] = b
    BY <2>1 DEF InOrder, NoGap, OnWire
  <2>3. wire[k] \in Position /\ b \in Position
    BY <2>1 DEF Sound, BytesOfPackets, Byte
  <2>4. ~ Precedes(wire[k], b) /\ wire[k] # b
    BY <2>3, Order
  <2>5. ~ (k < m) /\ m # k
    BY <2>1, <2>2, <2>4 DEF InOrder, Sorted
  <2>6. m \in 1 .. n
    BY <1>2, <2>5
  <2> QED
    BY <1>4, <2>2, <2>6 DEF OnWire
<1>12. NothingLost' /\ NothingMadeUp'
  BY <1>1, <1>7 DEF NothingLost, NothingMadeUp
<1> QED
  BY <1>8, <1>9, <1>10, <1>11, <1>12 DEF InOrder

\* The bytes in front are those of the field whose turn it is.
LEMMA FieldInFront ==
    ASSUME Sound, InOrder, NEW i, i = NextPacket, i <= Len(written), NEW f, f = ReaderField,
           f \in 1 .. Len(FieldsOf(i))
    PROVE  \A k \in 1 .. Len(wire) : k <= FieldsOf(i)[f].width => wire[k] = <<i, f, k>>
<1>1. PacketFields /\ Len(written) \in Nat /\ Len(wire) \in Nat /\ Len(handled) \in Nat
  BY LayoutFacts DEF Sound, Typed
<1>2. i \in 1 .. Len(written) /\ i \in Nat
  BY <1>1 DEF NextPacket
<1>3. /\ f \in Nat /\ DOMAIN FieldsOf(i) = 1 .. Len(FieldsOf(i))
      /\ FieldsOf(i)[f].width \in Nat
  BY <1>1, <1>2 DEF PacketFields
<1>4. PICK width \in Nat : width = FieldsOf(i)[f].width
  BY <1>3
<1> DEFINE S == {k \in 1 .. Len(wire) : k <= width /\ wire[k] # <<i, f, k>>}
<1>5. SUFFICES ASSUME S # {} PROVE FALSE
  BY <1>4
<1>6. PICK k \in S : \A j \in S : k <= j
  <2>1. S \in SUBSET Nat
    OBVIOUS
  <2> HIDE DEF S
  <2> QED
    BY <1>5, <2>1, LeastNumber
<1>7. k \in 1 .. Len(wire) /\ k <= width /\ wire[k] # <<i, f, k>>
  BY <1>6
<1>8. ASSUME NEW j \in 1 .. Len(wire), j < k PROVE wire[j] = <<i, f, j>>
  <2>1. j \notin S /\ j <= width
    BY <1>6, <1>7, <1>8
  <2> QED
    BY <2>1
<1> HIDE DEF S
<1>9. PICK b \in Position : b = <<i, f, k>>
  <2>1. <<i, f, k>> \in Position
    BY <1>2, <1>3, <1>7 DEF Position
  <2> QED
    BY <2>1
<1>10. b[1] = i /\ b[2] = f /\ b[3] = k
  BY <1>9
<1>11. b \in Byte
  BY <1>2, <1>3, <1>4, <1>7, <1>10 DEF Byte
<1>12. ~ Passed(b)
  BY <1>2, <1>3, <1>10 DEF Passed
<1>13. PICK c \in Byte : c = wire[k]
  BY <1>7 DEF Sound, BytesOfPackets
<1>14. ~ Passed(c) /\ c \in Position /\ c # b
  BY <1>7, <1>9, <1>13 DEF InOrder, Ahead, Byte
<1>15. CASE Precedes(b, c)
  <2>1. PICK m \in 1 .. Len(wire) : wire[m] = b
    BY <1>7, <1>11, <1>12, <1>13, <1>15 DEF InOrder, NoGap, OnWire
  <2>2. ~ (k < m)
    BY <1>7, <1>13, <1>14, <1>15, <2>1, Order DEF InOrder, Sorted
  <2>3. m # k
    BY <1>13, <1>14, <2>1
  <2>4. m < k
    BY <1>7, <2>2, <2>3
  <2>5. b = <<i, f, m>>
    BY <1>8, <2>1, <2>4
  <2> QED
    BY <1>10, <2>3, <2>5
<1>16. CASE Precedes(c, b)
  <2>1. /\ c[1] \in Nat /\ c[2] \in Nat /\ c[3] \in Nat /\ c[3] >= 1
        /\ c = <<c[1], c[2], c[3]>>
    BY ByteFacts
  <2>2. c[1] = i /\ c[2] = f /\ c[3] < k
    BY <1>2, <1>3, <1>10, <1>14, <1>16, <2>1 DEF Precedes, Passed
  <2>3. PICK m \in 1 .. Len(wire) : m = c[3] /\ m < k
    BY <1>7, <2>1, <2>2
  <2>4. wire[m] = c
    BY <1>8, <2>1, <2>2, <2>3
  <2>5. Precedes(c, c)
    BY <1>7, <1>13, <2>3, <2>4 DEF InOrder, Sorted
  <2> QED
    BY <1>14, <2>5, Order
<1> QED
  BY <1>14, <1>15, <1>16, Order

\* In an ordered stream the reader gets out of step by a short read only.
LEMMA OnlyShortReads ==
    ASSUME Sound, InOrder, LoseStep
    PROVE  shortRead'
<1>1. Typed /\ PacketFields /\ Len(wire) \in Nat /\ wire \in Seq(Position)
  BY LayoutFacts DEF Sound, Typed
<1>2. CASE reading.packet = 0
  <2>1. wire # <<>> /\ wire[1] # <<NextPacket, 1, 1>>
    BY <1>2 DEF LoseStep
  <2>2. 1 \in 1 .. Len(wire)
    BY <1>1, <2>1
  <2>3. wire[1] \in Byte /\ ~ Passed(wire[1])
    BY <2>2 DEF Sound, BytesOfPackets, InOrder, Ahead
  <2>4. PICK i : i = NextPacket
    OBVIOUS
  <2>5. PICK c \in Byte : c = wire[1]
    BY <2>3
  <2>6. i <= c[1] /\ c[1] <= Len(written) /\ c[1] \in Nat /\ i \in Nat /\ i >= 1
    <3>1. c[1] \in Nat /\ c[1] <= Len(written)
      BY ByteFacts
    <3>2. i \in Nat /\ i >= 1
      BY <1>1, <2>4 DEF NextPacket, Typed
    <3> QED
      BY <2>3, <2>4, <2>5, <3>1, <3>2 DEF Passed
  <2>7. i \in 1 .. Len(written) /\ i <= Len(written) /\ Len(written) \in Nat
    BY <1>1, <2>6 DEF Typed
  <2>8. 1 \in 1 .. Len(FieldsOf(i)) /\ FieldsOf(i)[1].width = 1
    BY <1>1, <2>7 DEF PacketFields
  <2>9. ReaderField = 1
    BY <1>2 DEF ReaderField
  <2>10. wire[1] = <<i, 1, 1>>
    BY <2>2, <2>4, <2>7, <2>8, <2>9, FieldInFront
  <2> QED
    BY <2>1, <2>4, <2>10
<1>3. CASE reading.packet # 0
  <2>1. PICK i, f, e : i = reading.packet /\ f = reading.field /\ e = Next1
    OBVIOUS
  <2>2. PICK n \in Recv(WidthOf(Next1)) :
            /\ n > 0 \/ ~MeantField(Next1)
            /\ \/ ~(MeantField(Next1) /\ Meant(n))
               \/ shortRead' = TRUE
    BY <1>3 DEF LoseStep
  <2>3. /\ MeantField(Next1) /\ i \in 1 .. Len(written) /\ f \in 1 .. Len(FieldsOf(i))
        /\ f \in Nat /\ (reading.whole => WidthOf(Next1) = MeantWidth) /\ MeantWidth \in Nat
    BY <1>3, <2>1, FieldAsMeant
  <2>4. n > 0 /\ n # 0
    BY <2>2, <2>3
  <2>5. n \in Nat /\ n <= WidthOf(Next1) /\ n <= Len(wire) /\ wire # <<>>
    BY <1>1, <2>2, <2>4 DEF Recv
  <2>6. reading.whole
    BY <2>5 DEF Sound, CutShort
  <2>7. PICK m \in Nat : m = MeantWidth
    BY <2>3
  <2>8. m = FieldsOf(i)[f].width /\ n <= m
    BY <2>1, <2>3, <2>5, <2>6, <2>7 DEF MeantWidth, FieldsOf
  <2>9. i = NextPacket /\ f = ReaderField /\ i <= Len(written)
    BY <1>3, <2>1 DEF Sound, ReaderOnFields, ReaderField
  <2>10. \A k \in 1 .. Len(wire) : k <= m => wire[k] = <<i, f, k>>
    BY <2>3, <2>8, <2>9, FieldInFront
  <2>11. PICK bs : bs = Bytes(i, f)
    OBVIOUS
  <2>12. bs = [k \in 1 .. m |-> <<i, f, k>>]
    BY <2>8, <2>11 DEF Bytes, FieldsOf
  <2>13. bs \in Seq(Position) /\ Len(bs) = m /\ \A k \in 1 .. m : bs[k] = <<i, f, k>>
    <3>1. i \in Nat
      BY <2>3
    <3>2. \A k \in 1 .. m : <<i, f, k>> \in Position
      BY <2>3, <3>1 DEF Position
    <3> QED
      BY <2>12, <3>2
  <2>14. PICK s, t : s = SubSeq(wire, 1, n) /\ t = SubSeq(bs, 1, n)
    OBVIOUS
  <2>15. s \in Seq(Position) /\ Len(s) = n /\ \A k \in 1 .. n : s[k] = wire[k]
    BY <1>1, <2>5, <2>14, Start
  <2>16. t \in Seq(Position) /\ Len(t) = n /\ \A k \in 1 .. n : t[k] = bs[k]
    <3>1. n \in 0 .. Len(bs)
      BY <2>5, <2>8, <2>13
    <3> QED
      BY <2>13, <2>14, <3>1, Start
  <2>17. \A k \in 1 .. n : s[k] = t[k]
    <3> SUFFICES ASSUME NEW k \in 1 .. n PROVE s[k] = t[k]
      OBVIOUS
    <3>1. k \in 1 .. Len(wire) /\ k \in 1 .. m /\ k <= m
      BY <1>1, <2>5, <2>8
    <3>2. wire[k] = <<i, f, k>> /\ bs[k] = <<i, f, k>>
      BY <2>10, <2>13, <3>1
    <3> QED
      BY <2>15, <2>16, <3>2
  <2>18. s = t
    BY ONLY <2>15, <2>16, <2>17
  <2>19. Meant(n)
    BY <2>1, <2>11, <2>14, <2>18 DEF Meant
  <2> QED
    BY <2>2, <2>3, <2>19
<1> QED
  BY <1>2, <1>3

----------------------------------------------------------------------------
(* The inductive invariant and the theorems.                               *)

\* The inductive invariant.
IInv == Sound /\ StreamInv /\ ReaderInStep

\* A new connection fulfils the inductive invariant.
LEMMA IInvAtFirst == Init => IInv
<1> SUFFICES ASSUME Init PROVE IInv
  OBVIOUS
<1>1. Sound /\ InOrder
  BY SoundAtFirst, StreamEmpty
<1> QED
  BY <1>1 DEF IInv, StreamInv, ReaderInStep, Init

\* Every step keeps it.
LEMMA IInvStep == IInv /\ [Next]_vars => IInv'
<1> SUFFICES ASSUME IInv, [Next]_vars PROVE IInv'
  OBVIOUS
<1>1. Sound /\ Sound' /\ StreamInv /\ ReaderInStep
  BY SoundStep DEF IInv
<1> SUFFICES StreamInv' /\ ReaderInStep'
  BY <1>1 DEF IInv
<1>2. CASE UNCHANGED vars
  <2>1. /\ UNCHANGED <<direction, written, sending, wire, ended, reading, handled>>
        /\ UNCHANGED <<inStep, interleaved, shortRead>>
    BY <1>2 DEF vars, auxVars
  <2>2. /\ NextPacket' = NextPacket /\ ReaderField' = ReaderField /\ \A i : FieldsOf(i)' = FieldsOf(i)
    BY <2>1 DEF NextPacket, ReaderField, FieldsOf, Fields
  <2>3. Byte' = Byte
    BY <2>1, <2>2 DEF Byte
  <2>4. /\ \A b : Passed(b)' <=> Passed(b)
        /\ \A b : Sent(b)' <=> Sent(b)
        /\ \A b : OnWire(b)' <=> OnWire(b)
    BY <2>1, <2>2 DEF Passed, Sent, OnWire
  <2>5. InOrder => InOrder'
    BY <2>1, <2>3, <2>4
       DEF InOrder, OneWriter, Ahead, Sorted, NoGap, NothingLost, NothingMadeUp
  <2> QED
    BY <1>1, <2>1, <2>5 DEF StreamInv, ReaderInStep
<1>3. CASE Next /\ interleaved'
  BY <1>3 DEF StreamInv, ReaderInStep
<1>4. CASE Next /\ ~interleaved'
  <2>1. inStep /\ ~interleaved
    <3>1. \A w \in Writer : BeginPacket(w) \/ SendField(w) => (interleaved => interleaved')
      BY DEF BeginPacket, SendField, NoteInterleaving
    <3>2. End \/ Read => (interleaved => interleaved')
      BY DEF End, Read, ReadType, ReadField, ReadPastEnd, LoseStep, auxVars
    <3> QED
      BY <1>4, <3>1, <3>2 DEF Next
  <2>2. InOrder
    BY <1>1, <2>1 DEF StreamInv
  <2>3. ASSUME NEW w \in Writer, BeginPacket(w)
        PROVE  InOrder' /\ inStep'
    <3>1. InOrder'
      BY <1>1, <1>4, <2>2, <2>3, StreamBeginPacket
    <3> QED
      BY <2>1, <2>3, <3>1 DEF BeginPacket
  <2>4. ASSUME NEW w \in Writer, SendField(w)
        PROVE  InOrder' /\ inStep'
    <3>1. InOrder'
      BY <1>1, <1>4, <2>2, <2>4, StreamSendField
    <3> QED
      BY <2>1, <2>4, <3>1 DEF SendField
  <2>5. CASE End
    <3>1. InOrder'
      BY <1>1, <2>2, <2>5, StreamEnd
    <3> QED
      BY <2>1, <2>5, <3>1 DEF End, StreamInv, ReaderInStep
  <2>6. CASE ReadType
    <3>1. InOrder'
      BY <1>1, <2>2, <2>6, StreamReadType
    <3> QED
      BY <2>1, <2>6, <3>1 DEF ReadType, StreamInv, ReaderInStep
  <2>7. CASE ReadField
    <3>1. InOrder'
      BY <1>1, <2>2, <2>7, StreamReadField
    <3> QED
      BY <2>1, <2>7, <3>1 DEF ReadField, StreamInv, ReaderInStep
  <2>8. CASE ReadPastEnd
    <3>1. Over'
      <4>1. ended /\ wire' = <<>>
        BY <1>1, <2>8, SoundReadPastEnd
      <4> QED
        BY <2>8, <4>1 DEF ReadPastEnd, Over
    <3>2. InOrder'
      BY <1>1, <3>1, StreamOver, PTL
    <3> QED
      BY <2>1, <2>8, <3>2 DEF ReadPastEnd, StreamInv, ReaderInStep
  <2>9. CASE LoseStep
    <3>1. shortRead'
      BY <1>1, <2>2, <2>9, OnlyShortReads
    <3> QED
      BY <2>9, <3>1 DEF LoseStep, StreamInv, ReaderInStep
  <2> QED
    BY <1>4, <2>3, <2>4, <2>5, <2>6, <2>7, <2>8, <2>9 DEF Next, Read, StreamInv, ReaderInStep
<1> QED
  BY <1>2, <1>3, <1>4

\* So it always holds.
LEMMA IInvAlways == Spec => []IInv
BY IInvAtFirst, IInvStep, PTL DEF Spec

\* The invariant implies the types.
LEMMA SoundIsTyped == Sound => TypeOK
<1> SUFFICES ASSUME Sound PROVE TypeOK
  OBVIOUS
<1>1. /\ Typed /\ PacketFields /\ Len(written) \in Nat /\ Len(written) <= MaxPackets
      /\ MaxPackets \in Nat
  BY LayoutFacts, WireAssumption DEF Sound, Typed
<1>2. \A i \in 1 .. Len(written) : i \in PacketNumber
  BY <1>1 DEF PacketNumber
<1>3. ASSUME NEW w \in Writer, sending[w] # Idle
      PROVE  /\ sending[w].packet \in DOMAIN written
             /\ sending[w].field \in DOMAIN Fields(written[sending[w].packet])
  <2>1. DOMAIN written = 1 .. Len(written)
    BY DEF Sound, Typed
  <2> QED
    BY <1>3, <2>1 DEF Sound, WritersOnFields, FieldsOf
<1>4. wire \in Seq(PacketNumber \X (Nat \ {0}) \X (Nat \ {0}))
  <2>1. ASSUME NEW k \in 1 .. Len(wire)
        PROVE  wire[k] \in PacketNumber \X (Nat \ {0}) \X (Nat \ {0})
    <3>1. PICK b \in Byte : b = wire[k]
      BY DEF Sound, BytesOfPackets
    <3>2. /\ b = <<b[1], b[2], b[3]>> /\ b[2] \in Nat \ {0} /\ b[3] \in Nat \ {0}
          /\ b[1] \in PacketNumber
      BY <1>2, ByteFacts DEF Byte
    <3> QED
      BY <3>1, <3>2
  <2>2. wire \in Seq(Position)
    BY <1>1 DEF Typed
  <2> QED
    BY <2>1, <2>2
<1>5. reading.packet \in PacketNumber \cup {0} /\ reading.field \in Nat \ {0}
  <2>1. CASE reading.packet = 0
    BY <2>1 DEF Sound, ReaderBetween, AtType
  <2>2. CASE reading.packet # 0
    <3>1. /\ reading.packet \in 1 .. Len(written) /\ reading.field \in Nat /\ reading.field >= 2
      BY <2>2, FieldAsMeant DEF Sound, ReaderOnFields
    <3> QED
      BY <1>2, <3>1
  <2> QED
    BY <2>1, <2>2
<1>6. /\ reading.size \in Nat /\ reading.whole \in BOOLEAN
      /\ {ended, inStep, interleaved, shortRead} \subseteq BOOLEAN
  BY <1>1 DEF Typed, Reader
<1> QED
  BY <1>1, <1>3, <1>4, <1>5, <1>6 DEF TypeOK, Typed

\* The invariant implies that the text that is read next fits its buffer.
LEMMA TextsFit == Sound => FitsBuffer
<1> SUFFICES ASSUME Sound, reading.packet # 0, Next1.is = "text"
             PROVE  reading.size < Next1.capacity
  BY DEF FitsBuffer
<1>1. PICK q, f : q = FieldsOf(reading.packet) /\ f = reading.field
  OBVIOUS
<1>2. /\ f \in 1 .. Len(q) /\ Meets(Next1, q[f]) /\ PacketFields
      /\ reading.packet \in 1 .. Len(written)
  BY <1>1, FieldAsMeant, LayoutFacts DEF Sound
<1>3. q[f].width \in Nat /\ q[f] \in FieldRecord
  BY <1>1, <1>2 DEF PacketFields
<1>4. q[f].width < Next1.capacity /\ Next1.capacity \in Nat
  <2>1. reading.left \in Seq(Expectation) /\ reading.left # <<>>
    BY DEF Sound, ReaderOnFields, Typed, Reader
  <2>2. Next1 \in Expectation
    BY <2>1 DEF Next1
  <2> QED
    BY <1>2, <2>2 DEF Meets, Expectation
<1>5. reading.size <= q[f].width /\ reading.size \in Nat
  BY <1>1 DEF Sound, ReaderOnFields, Typed, Reader
<1> QED
  BY <1>3, <1>4, <1>5

\* Types.  Above all, the bytes on the wire are bytes of packets that were begun.
THEOREM WireTypes == Spec => []TypeOK
BY IInvAlways, SoundIsTyped, PTL DEF IInv

\* Client and server agree on every packet, field by field, for all packets
\* the two may send and any number of writers: the reader takes a field for
\* another one only if two threads wrote at once or a recv() returned a part
\* of a field (client.cpp 47-118 against server.cpp 161-173, 243-255, 837-841,
\* 918-948; server.cpp's replies against client.cpp 126-349).
THEOREM StaysInStep == Spec => []ReaderInStep
BY IInvAlways, PTL DEF IInv

\* Packets are handled in the order they were begun, none twice and none left
\* out, each whole but the last one of a connection that ended inside it
\* (the loops of Client::ReceiveThread and Server::ClientHandler).
THEOREM PacketsInOrder == Spec => []HandledInOrder
<1>1. IInv => HandledInOrder
  BY DEF IInv, Sound
<1> QED
  BY <1>1, IInvAlways, PTL

\* A text and its final zero fit the buffer they are received into, forwarded
\* messages too (server.cpp:322, client.cpp:144-154).
THEOREM TextsFitBuffers == Spec => []FitsBuffer
<1>1. IInv => FitsBuffer
  BY TextsFit DEF IInv
<1> QED
  BY <1>1, IInvAlways, PTL
=============================================================================
