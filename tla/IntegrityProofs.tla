---------------------------- MODULE IntegrityProofs ----------------------------
(******************************************************************************)
(* Integrity and IntegrityUntilRefused, for every program that gives each     *)
(* file one writer and one reader: the stream of every file, told from what   *)
(* the threads are doing with it, is an invariant.  First, where the messages *)
(* of a history lie in a ring buffer, and what a message put in, a chunk      *)
(* taken out and a reader that has a part of a message in its hands make of   *)
(* it.                                                                        *)
(******************************************************************************)
EXTENDS ChannelProofs

--------------------------------------------------------------------------------
(* Whole words *)

\* The lengths that are multiples of a header.
Words == {HdrSize * i : i \in Nat}

LEMMA WordFacts ==
  ASSUME NEW a \in Words, NEW b \in Words
  PROVE  /\ a \in Nat
         /\ a + b \in Words
         /\ b <= a => a - b \in Words
         /\ a < HdrSize => a = 0
         /\ Least(a, b) \in Words
<1>1. HdrSize \in Nat \ {0}
  BY ChannelAssumption
<1>2. PICK i \in Nat, j \in Nat : a = HdrSize * i /\ b = HdrSize * j
  BY DEF Words
<1>3. a \in Nat /\ b \in Nat
  BY <1>1, <1>2
<1>4. a + b = HdrSize * (i + j)
  BY <1>1, <1>2
<1>5. ASSUME b <= a PROVE a - b \in Words
  <2>1. a - b = HdrSize * (i - j)
    BY <1>1, <1>2
  <2>2. i - j \in Nat
    <3>1. CASE i < j
      <4>1. HdrSize * (i - j) < 0
        BY <1>1, <3>1
      <4> QED
        BY <1>3, <1>5, <2>1, <4>1
    <3> QED
      BY <3>1
  <2> QED
    BY <2>1, <2>2 DEF Words
<1>6. a < HdrSize => a = 0
  <2>1. CASE i = 0
    BY <1>1, <1>2, <2>1
  <2>2. CASE i >= 1
    <3>1. HdrSize * i >= HdrSize
      BY <1>1, <2>2
    <3> QED
      BY <1>1, <1>2, <3>1
  <2> QED
    BY <2>1, <2>2
<1>7. a + b \in Words
  BY <1>4 DEF Words
<1> QED
  BY <1>3, <1>5, <1>6, <1>7 DEF Least

LEMMA HeaderIsWord == 0 \in Words /\ HdrSize \in Words
<1>1. HdrSize \in Nat /\ 0 = HdrSize * 0 /\ HdrSize = HdrSize * 1
  BY ChannelAssumption
<1> QED
  BY <1>1 DEF Words

--------------------------------------------------------------------------------
(* Where the messages lie *)

\* Message s[i] begins behind position pos[i] of the ring buffer q and ends at
\* pos[i + 1]; what was taken out lies at positions up to 0, what is still to come
\* behind Len(q).
Laid(pos, q, s) ==
  /\ pos \in [1..Len(s) + 1 -> Int]
  /\ \A i \in 1..Len(s) : pos[i + 1] = pos[i] + HdrSize + s[i].size
  /\ \A i, j \in 1..Len(s) + 1 : i <= j => pos[i] <= pos[j]
  /\ \A i \in 1..Len(s), j \in 1..Len(q) :
       pos[i] < j /\ j <= pos[i + 1] => q[j] = [msg |-> s[i], off |-> j - pos[i]]

\* The messages s went into q, all but the last owed bytes, and d came out of it,
\* with the first took bytes of the next.
Stream(q, s, d, owed, took) ==
  /\ {Len(q), owed, took} \subseteq Words
  /\ \A i \in 1..Len(s) : s[i].size \in Words
  /\ Len(d) <= Len(s)
  /\ \A i \in 1..Len(d) : d[i] = Payload(s[i])
  /\ \E pos : /\ Laid(pos, q, s)
              /\ pos[Len(s) + 1] = Len(q) + owed
              /\ pos[Len(d) + 1] = 0 - took

\* The bytes of a header and of a part of the data.
LEMMA CellAt ==
  ASSUME NEW m \in Messages, NEW from \in Nat, NEW n \in Nat, NEW i \in 1..n
  PROVE  Cells(m, from, n)[i] = [msg |-> m, off |-> from + i]
BY DEF Cells

LEMMA HeaderCells ==
  ASSUME NEW m \in Messages
  PROVE  /\ Header(m) \in Seq(CellSet) /\ Len(Header(m)) = HdrSize
         /\ \A i \in 1..HdrSize : Header(m)[i] = [msg |-> m, off |-> i]
<1>1. HdrSize \in Nat /\ 0 \in Nat
  BY ChannelAssumption
<1>2. ASSUME NEW i \in 1..HdrSize PROVE Header(m)[i] = [msg |-> m, off |-> i]
  <2>1. Header(m)[i] = [msg |-> m, off |-> 0 + i]
    BY <1>1, CellAt DEF Header
  <2>2. 0 + i = i
    BY <1>1
  <2> QED
    BY <2>1, <2>2
<1> QED
  BY <1>1, <1>2, CellsType DEF Header

LEMMA EmptyStream == Stream(<<>>, <<>>, <<>>, 0, 0)
<1> DEFINE pos == [i \in 1..1 |-> 0]
<1>1. Len(<<>>) = 0
  OBVIOUS
<1>2. Laid(pos, <<>>, <<>>) /\ pos[1] = 0
  BY <1>1 DEF Laid
<1> HIDE DEF pos
<1>3. \E p : /\ Laid(p, <<>>, <<>>)
             /\ p[Len(<<>>) + 1] = Len(<<>>) + 0
             /\ p[Len(<<>>) + 1] = 0 - 0
  BY <1>1, <1>2
<1> QED
  BY <1>1, <1>3, HeaderIsWord DEF Stream

\* One more position behind the last.
LEMMA OneMore ==
  ASSUME NEW n \in Nat, NEW pos \in [1..n + 1 -> Int], NEW last \in Int, pos[n + 1] <= last,
         \A i, j \in 1..n + 1 : i <= j => pos[i] <= pos[j]
  PROVE  LET more == [i \in 1..n + 2 |-> IF i = n + 2 THEN last ELSE pos[i]]
         IN  /\ more \in [1..n + 2 -> Int]
             /\ more[n + 2] = last
             /\ \A i \in 1..n + 1 : more[i] = pos[i] /\ i \in 1..n + 2
             /\ \A i, j \in 1..n + 2 : i <= j => more[i] <= more[j]
<1> DEFINE more == [i \in 1..n + 2 |-> IF i = n + 2 THEN last ELSE pos[i]]
<1>1. n + 2 \in 1..n + 2 /\ \A i \in 1..n + 1 : i \in 1..n + 2 /\ i # n + 2
  OBVIOUS
<1>2. \A i \in 1..n + 2 : i = n + 2 \/ i \in 1..n + 1
  OBVIOUS
<1>3. more[n + 2] = last /\ \A i \in 1..n + 1 : more[i] = pos[i]
  BY <1>1
<1>4. more \in [1..n + 2 -> Int]
  BY <1>2
<1>5. \A i, j \in 1..n + 2 : i <= j => more[i] <= more[j]
  <2> TAKE i, j \in 1..n + 2
  <2> HIDE DEF more
  <2>1. CASE i \in 1..n + 1 /\ j \in 1..n + 1
    BY <1>3, <2>1
  <2>2. CASE i \in 1..n + 1 /\ j = n + 2
    <3>1. i <= n + 1 /\ n + 1 \in 1..n + 1
      BY <2>2
    <3>2. pos[i] <= pos[n + 1] /\ pos[i] \in Int /\ pos[n + 1] \in Int
      BY <2>2, <3>1
    <3> QED
      BY <1>3, <2>2, <3>2
  <2>3. CASE i = n + 2
    BY <1>3, <2>3
  <2> QED
    BY <1>2, <2>1, <2>2, <2>3
<1> QED
  BY <1>1, <1>3, <1>4, <1>5

\* The header of a new message goes in behind a stream that owes nothing.
LEMMA HeaderGoesIn ==
  ASSUME NEW q \in Rings, NEW s \in Seq(Messages), NEW d \in Seq(Seq(CellSet)), NEW took,
         Stream(q, s, d, 0, took), NEW m \in Messages, m.size \in Words, RbFree(q) >= HdrSize
  PROVE  Stream(RbAdd(q, Header(m)), Append(s, m), d, m.size, took)
<1> DEFINE r == RbAdd(q, Header(m))
           z == Append(s, m)
           n == Len(s)
           l == Len(q)
           last == l + HdrSize + m.size
<1>1. /\ HdrSize \in Nat \ {0} /\ m.size \in Nat /\ n \in Nat /\ l \in Nat /\ Len(d) \in Nat
      /\ RbFree(q) \in Nat
  BY ChannelAssumption, RingFacts, AddFits, LenProperties DEF Messages, Rings
<1>2. /\ Header(m) \in Seq(CellSet) /\ Len(Header(m)) = HdrSize
      /\ \A i \in 1..HdrSize : Header(m)[i] = [msg |-> m, off |-> i]
  BY HeaderCells
<1>3. Len(r) = l + HdrSize
  BY <1>1, <1>2, AddFits DEF Rings, Least
<1>4. Len(z) = n + 1 /\ z[n + 1] = m /\ \A i \in 1..n : z[i] = s[i]
  BY AppendProperties
<1>5. /\ {l, 0, took} \subseteq Words /\ \A i \in 1..n : s[i].size \in Words
      /\ Len(d) <= n /\ \A i \in 1..Len(d) : d[i] = Payload(s[i])
  BY DEF Stream
<1>6. PICK pos : Laid(pos, q, s) /\ pos[n + 1] = l + 0 /\ pos[Len(d) + 1] = 0 - took
  BY DEF Stream
<1>7. /\ pos \in [1..n + 1 -> Int] /\ pos[n + 1] = l
      /\ \A i \in 1..n : pos[i + 1] = pos[i] + HdrSize + s[i].size
      /\ \A i, j \in 1..n + 1 : i <= j => pos[i] <= pos[j]
      /\ \A i \in 1..n, j \in 1..l :
           pos[i] < j /\ j <= pos[i + 1] => q[j] = [msg |-> s[i], off |-> j - pos[i]]
  BY <1>1, <1>6 DEF Laid
<1>8. \A j \in 1..l + HdrSize :
        (j \in 1..l => r[j] = q[j]) /\ (j - l \in 1..HdrSize => r[j] = Header(m)[j - l])
  <2> TAKE j \in 1..l + HdrSize
  <2>1. j \in 1..Len(r)
    BY <1>3
  <2>2. ASSUME j \in 1..l PROVE r[j] = q[j]
    BY <1>2, <2>1, <2>2, AddedCells
  <2>3. ASSUME j - l \in 1..HdrSize PROVE r[j] = Header(m)[j - l]
    <3>1. j > l
      BY <1>1, <2>3
    <3> QED
      BY <1>2, <2>1, <3>1, AddedCells
  <2> QED
    BY <2>2, <2>3
<1> DEFINE more == [i \in 1..n + 2 |-> IF i = n + 2 THEN last ELSE pos[i]]
<1> HIDE DEF n, l, r, z
<1>9. /\ more \in [1..n + 2 -> Int]
      /\ more[n + 2] = last
      /\ \A i \in 1..n + 1 : more[i] = pos[i] /\ i \in 1..n + 2
      /\ \A i, j \in 1..n + 2 : i <= j => more[i] <= more[j]
  <2>1. last \in Int /\ pos[n + 1] <= last
    BY <1>1, <1>7
  <2> HIDE DEF last
  <2> QED
    BY <1>1, <1>7, <2>1, OneMore
<1> HIDE DEF more
<1>10. \A i \in 1..n + 1 : more[i + 1] = more[i] + HdrSize + z[i].size
  <2> TAKE i \in 1..n + 1
  <2>1. CASE i = n + 1
    BY <1>1, <1>4, <1>7, <1>9, <2>1
  <2>2. CASE i \in 1..n
    <3>1. i + 1 \in 1..n + 1
      BY <1>1, <2>2
    <3> QED
      BY <1>4, <1>7, <1>9, <2>2, <3>1
  <2> QED
    BY <1>1, <2>1, <2>2
<1>11. ASSUME NEW i \in 1..n + 1, NEW j \in 1..l + HdrSize, more[i] < j, j <= more[i + 1]
       PROVE  r[j] = [msg |-> z[i], off |-> j - more[i]]
  <2>1. CASE i = n + 1
    <3>1. more[i] = l /\ z[i] = m
      BY <1>1, <1>4, <1>7, <1>9, <2>1
    <3>2. j - l \in 1..HdrSize
      BY <1>1, <1>11, <3>1
    <3>3. r[j] = Header(m)[j - l]
      BY <1>8, <3>2
    <3>4. Header(m)[j - l] = [msg |-> m, off |-> j - l]
      BY <1>2, <3>2
    <3> QED
      BY <3>1, <3>3, <3>4
  <2>2. CASE i \in 1..n
    <3>1. i + 1 \in 1..n + 1 /\ n + 1 \in 1..n + 1 /\ i + 1 <= n + 1 /\ i \in 1..n + 1
      BY <1>1, <2>2
    <3>2. more[i] = pos[i] /\ more[i + 1] = pos[i + 1] /\ z[i] = s[i] /\ pos[i + 1] \in Int
      BY <1>4, <1>7, <1>9, <2>2, <3>1
    <3>3. pos[i + 1] <= l
      BY <1>7, <3>1
    <3>4. j \in 1..l
      BY <1>1, <1>11, <3>2, <3>3
    <3>5. r[j] = q[j]
      BY <1>8, <3>4
    <3>6. q[j] = [msg |-> s[i], off |-> j - pos[i]]
      BY <1>7, <1>11, <2>2, <3>2, <3>4
    <3> QED
      BY <3>2, <3>5, <3>6
  <2> QED
    BY <1>1, <2>1, <2>2
<1>12. Laid(more, r, z)
  BY <1>1, <1>3, <1>4, <1>9, <1>10, <1>11 DEF Laid
<1>13. {Len(r), m.size, took} \subseteq Words
  BY <1>3, <1>5, WordFacts, HeaderIsWord
<1>14. more[Len(z) + 1] = Len(r) + m.size /\ more[Len(d) + 1] = 0 - took
  <2>1. Len(d) + 1 \in 1..n + 1
    BY <1>1, <1>5
  <2> QED
    BY <1>1, <1>3, <1>4, <1>6, <1>9, <2>1 DEF n
<1>15. /\ \A i \in 1..Len(z) : z[i].size \in Words
       /\ Len(d) <= Len(z) /\ \A i \in 1..Len(d) : d[i] = Payload(z[i])
  <2>1. \A i \in 1..n + 1 : i = n + 1 \/ i \in 1..n
    BY <1>1
  <2>2. \A i \in 1..Len(d) : i \in 1..n
    BY <1>1, <1>5
  <2>3. \A i \in 1..n + 1 : z[i].size \in Words
    BY <1>4, <1>5, <2>1
  <2>4. \A i \in 1..Len(d) : d[i] = Payload(z[i])
    BY <1>4, <1>5, <2>2
  <2> QED
    BY <1>1, <1>4, <1>5, <2>3, <2>4
<1> QED
  BY <1>12, <1>13, <1>14, <1>15 DEF Stream, r, z

\* As much of the rest of the last message as there is room for goes in.
LEMMA DataGoesIn ==
  ASSUME BufSize \in Words,
         NEW q \in Rings, NEW s \in Seq(Messages), NEW d \in Seq(Seq(CellSet)),
         NEW owed, NEW took, Stream(q, s, d, owed, took),
         Len(s) > 0, NEW bytes \in Nat, bytes + owed = s[Len(s)].size
  PROVE  Stream(RbAdd(q, Rest(s[Len(s)], bytes)), s, d, owed - Least(RbFree(q), owed), took)
<1> DEFINE n == Len(s)
           m == s[n]
           l == Len(q)
           rest == Rest(m, bytes)
           r == RbAdd(q, rest)
           a == Least(RbFree(q), owed)
<1>1. /\ HdrSize \in Nat \ {0} /\ n \in Nat /\ l \in Nat /\ Len(d) \in Nat
      /\ RbFree(q) \in Nat /\ RbFree(q) = BufSize - l
  BY ChannelAssumption, RingFacts, AddFits, LenProperties DEF Rings, RbFree
<1>2. {l, owed, took} \subseteq Words /\ owed \in Nat
  BY WordFacts DEF Stream
<1>3. m \in Messages /\ m.size \in Nat /\ m.size - bytes = owed /\ HdrSize + bytes \in Nat
  <2>1. m \in Messages
    BY <1>1, ElementOfSeq
  <2>2. bytes + owed = m.size
    OBVIOUS
  <2> HIDE DEF m
  <2>3. m.size \in Nat
    BY <2>1 DEF Messages
  <2> QED
    BY <1>1, <1>2, <2>1, <2>2, <2>3
<1>4. /\ rest \in Seq(CellSet) /\ Len(rest) = owed
      /\ \A i \in 1..owed : rest[i] = [msg |-> m, off |-> HdrSize + bytes + i]
  <2>1. rest = Cells(m, HdrSize + bytes, owed)
    BY <1>3 DEF Rest
  <2> HIDE DEF rest, m
  <2> QED
    BY <1>2, <1>3, <2>1, CellsType, CellAt, ZenonT(40)
<1>5. a \in Words /\ a \in 0..owed /\ owed - a \in Words
  <2>1. RbFree(q) \in Words
    BY <1>1, <1>2, WordFacts
  <2>2. a \in Words
    BY <1>2, <2>1, WordFacts
  <2>3. a \in 0..owed
    BY <1>1, <1>2 DEF Least
  <2> QED
    BY <1>2, <2>2, <2>3, WordFacts
<1>6. Len(r) = l + a
  <2>1. \A x, y \in Nat : Least(x, y) = Least(y, x)
    BY DEF Least
  <2>2. Least(owed, RbFree(q)) = a
    BY <1>1, <1>2, <2>1
  <2>3. Len(r) = l + Least(Len(rest), RbFree(q))
    <3> HIDE DEF rest
    <3>1. q \in Seq(CellSet) /\ Len(q) <= BufSize
      BY RingFacts
    <3> QED
      BY <1>4, <3>1, AddFits
  <2> QED
    BY <1>4, <2>2, <2>3
<1>7. \A j \in 1..l + a :
        (j \in 1..l => r[j] = q[j]) /\ (j > l => j - l \in 1..owed /\ r[j] = rest[j - l])
  <2> TAKE j \in 1..l + a
  <2>1. j \in 1..Len(r)
    BY <1>6
  <2> QED
    BY <1>1, <1>4, <2>1, AddedCells, SMTT(20)
<1>8. PICK pos : Laid(pos, q, s) /\ pos[n + 1] = l + owed /\ pos[Len(d) + 1] = 0 - took
  BY DEF Stream
<1> HIDE DEF l, r, a, rest
<1>9. /\ pos \in [1..n + 1 -> Int]
      /\ \A i \in 1..n : pos[i + 1] = pos[i] + HdrSize + s[i].size
      /\ \A i, j \in 1..n + 1 : i <= j => pos[i] <= pos[j]
      /\ \A i \in 1..n, j \in 1..l :
           pos[i] < j /\ j <= pos[i + 1] => q[j] = [msg |-> s[i], off |-> j - pos[i]]
  BY <1>8 DEF Laid, l
<1>10. pos[n] = l - bytes - HdrSize /\ pos[n] < l
  <2>1. n \in 1..n /\ n \in 1..n + 1 /\ n + 1 \in 1..n + 1
    BY <1>1
  <2>2. pos[n] \in Int /\ pos[n + 1] = pos[n] + HdrSize + m.size
    BY <1>9, <2>1
  <2>3. pos[n + 1] = l + owed
    BY <1>8
  <2> DEFINE p == pos[n]
             size == m.size
  <2>4. /\ p \in Int /\ l + owed = p + HdrSize + size /\ size - bytes = owed
        /\ size \in Nat /\ owed \in Nat /\ l \in Nat /\ HdrSize \in Nat \ {0}
    BY <1>1, <1>2, <1>3, <2>2, <2>3
  <2> HIDE DEF p, size
  <2>5. p = l - bytes - HdrSize /\ p < l
    BY <2>4
  <2> QED
    BY <2>5 DEF p
<1>11. ASSUME NEW i \in 1..n, NEW j \in 1..l + a, pos[i] < j, j <= pos[i + 1]
       PROVE  r[j] = [msg |-> s[i], off |-> j - pos[i]]
  <2>1. CASE j \in 1..l
    <3>1. r[j] = q[j]
      BY <1>7, <2>1
    <3>2. q[j] = [msg |-> s[i], off |-> j - pos[i]]
      BY <1>9, <1>11, <2>1
    <3> QED
      BY <3>1, <3>2
  <2>2. CASE j > l
    <3>1. i = n
      <4>1. CASE i < n
        <5>1. i + 1 \in 1..n + 1 /\ n \in 1..n + 1 /\ i + 1 <= n
          BY <1>1, <4>1
        <5>2. pos[i + 1] <= pos[n] /\ pos[i + 1] \in Int /\ pos[n] \in Int
          BY <1>9, <5>1
        <5> QED
          BY <1>1, <1>5, <1>10, <1>11, <2>2, <5>2
      <4> QED
        BY <1>1, <4>1
    <3>2. j - l \in 1..owed /\ r[j] = rest[j - l]
      BY <1>7, <2>2
    <3>3. rest[j - l] = [msg |-> m, off |-> HdrSize + bytes + (j - l)]
      BY <1>4, <3>2
    <3>4. HdrSize + bytes + (j - l) = j - pos[i]
      <4>1. PICK p \in Int : p = pos[i] /\ p = l - bytes - HdrSize
        BY <1>1, <1>10, <3>1
      <4>2. \A x, y, b, h \in Int : h + b + (x - y) = x - (y - b - h)
        OBVIOUS
      <4> QED
        BY <1>1, <1>5, <4>1, <4>2, SMTT(20)
    <3> QED
      BY <3>1, <3>2, <3>3, <3>4
  <2> QED
    BY <1>1, <1>5, <2>1, <2>2
<1>12. Laid(pos, r, s)
  BY <1>6, <1>9, <1>11 DEF Laid
<1>13. {Len(r), owed - a, took} \subseteq Words
  <2>1. l \in Words /\ took \in Words
    BY <1>2
  <2>2. l + a \in Words
    BY <1>5, <2>1, WordFacts
  <2>3. Len(r) \in Words /\ owed - a \in Words
    BY <1>5, <1>6, <2>2
  <2> QED
    BY <2>1, <2>3
<1>14. pos[Len(s) + 1] = Len(r) + (owed - a) /\ pos[Len(d) + 1] = 0 - took
  BY <1>1, <1>2, <1>5, <1>6, <1>8
<1>15. Stream(r, s, d, owed - a, took)
  <2> HIDE DEF n
  <2> QED
  BY <1>12, <1>13, <1>14 DEF Stream
<1> QED
  BY <1>15 DEF r, a, rest

\* What comes out of the ring buffer moves all that lies in it.
LEMMA BytesComeOut ==
  ASSUME NEW q \in Rings, NEW s \in Seq(Messages), NEW d \in Seq(Seq(CellSet)),
         NEW owed, NEW took, Stream(q, s, d, owed, took), NEW e \in Words, e <= Len(q)
  PROVE  Stream(RbDrop(q, e), s, d, owed, took + e)
<1> DEFINE n == Len(s)
           l == Len(q)
           r == RbDrop(q, e)
<1>1. n \in Nat /\ l \in Nat /\ Len(d) \in Nat /\ e \in Nat /\ Least(e, l) = e
  BY RingFacts, LenProperties, WordFacts DEF Least
<1>2. Len(r) = l - e
  BY <1>1, RingFacts, GetAndDrop
<1>3. \A j \in 1..l - e : j + e \in 1..l /\ r[j] = q[j + e]
  BY <1>1, <1>2, DroppedCells
<1>4. {l, owed, took} \subseteq Words /\ owed \in Nat /\ took \in Nat /\ Len(d) <= n
  BY WordFacts DEF Stream
<1>5. PICK pos : Laid(pos, q, s) /\ pos[n + 1] = l + owed /\ pos[Len(d) + 1] = 0 - took
  BY DEF Stream
<1>6. /\ pos \in [1..n + 1 -> Int]
      /\ \A i \in 1..n : pos[i + 1] = pos[i] + HdrSize + s[i].size
      /\ \A i, j \in 1..n + 1 : i <= j => pos[i] <= pos[j]
      /\ \A i \in 1..n, j \in 1..l :
           pos[i] < j /\ j <= pos[i + 1] => q[j] = [msg |-> s[i], off |-> j - pos[i]]
  BY <1>5 DEF Laid
<1> DEFINE moved == [i \in 1..n + 1 |-> pos[i] - e]
<1>7. /\ moved \in [1..n + 1 -> Int]
      /\ \A i \in 1..n + 1 : moved[i] = pos[i] - e /\ pos[i] \in Int /\ moved[i] \in Int
  <2> HIDE DEF n
  <2>1. \A i \in 1..n + 1 : pos[i] \in Int /\ pos[i] - e \in Int
    BY <1>1, <1>6
  <2> QED
    BY <2>1
<1> HIDE DEF n, l, r, moved
<1>8. \A i \in 1..n : /\ i \in 1..n + 1 /\ i + 1 \in 1..n + 1
                     /\ HdrSize \in Nat /\ s[i].size \in Nat
  <2> TAKE i \in 1..n
  <2>1. s[i] \in Messages
    BY ElementOfSeq DEF n
  <2>2. s[i].size \in Nat
    BY <2>1 DEF Messages
  <2> QED
    BY <1>1, <2>2, ChannelAssumption
<1>9. \A i \in 1..n : moved[i + 1] = moved[i] + HdrSize + s[i].size
  <2> TAKE i \in 1..n
  <2>1. moved[i] = pos[i] - e /\ moved[i + 1] = pos[i + 1] - e /\ pos[i] \in Int
    BY <1>7, <1>8
  <2>2. pos[i + 1] = pos[i] + HdrSize + s[i].size
    BY <1>6
  <2> DEFINE size == s[i].size
             p == pos[i]
  <2>3. size \in Nat /\ p \in Int /\ HdrSize \in Nat
    BY <1>8, <2>1
  <2> HIDE DEF size, p
  <2>4. (p + HdrSize + size) - e = (p - e) + HdrSize + size
    BY <1>1, <2>3
  <2> QED
    BY <2>1, <2>2, <2>4 DEF size, p
<1>10. \A i, j \in 1..n + 1 : i <= j => moved[i] <= moved[j]
  BY <1>1, <1>6, <1>7
<1>11. ASSUME NEW i \in 1..n, NEW j \in 1..l - e, moved[i] < j, j <= moved[i + 1]
       PROVE  r[j] = [msg |-> s[i], off |-> j - moved[i]]
  <2>0. /\ moved[i] = pos[i] - e /\ moved[i + 1] = pos[i + 1] - e
        /\ pos[i] \in Int /\ pos[i + 1] \in Int /\ j \in Int /\ e \in Int
    <3>1. i \in 1..n + 1 /\ i + 1 \in 1..n + 1
      BY <1>8
    <3>2. j \in Int /\ e \in Int
      BY <1>1
    <3> QED
      BY <1>7, <3>1, <3>2
  <2>1. pos[i] < j + e /\ j + e <= pos[i + 1]
    BY <1>11, <2>0
  <2>2. j + e \in 1..l /\ r[j] = q[j + e]
    BY <1>3
  <2>3. q[j + e] = [msg |-> s[i], off |-> (j + e) - pos[i]]
    <3> DEFINE x == j + e
    <3>1. x \in 1..l /\ pos[i] < x /\ x <= pos[i + 1]
      BY <2>1, <2>2
    <3> HIDE DEF x
    <3>2. q[x] = [msg |-> s[i], off |-> x - pos[i]]
      BY <1>6, <3>1
    <3> QED
      BY <3>2 DEF x
  <2>4. r[j] = [msg |-> s[i], off |-> (j + e) - pos[i]]
    BY <2>2, <2>3
  <2>5. (j + e) - pos[i] = j - moved[i]
    BY <2>0
  <2> QED
    BY <2>4, <2>5
<1>12. Laid(moved, r, s)
  BY <1>2, <1>7, <1>9, <1>10, <1>11 DEF Laid, n
<1>13. {Len(r), owed, took + e} \subseteq Words
  BY <1>1, <1>2, <1>4, WordFacts
<1>14. moved[Len(s) + 1] = Len(r) + owed /\ moved[Len(d) + 1] = 0 - (took + e)
  <2>1. n + 1 \in 1..n + 1 /\ Len(d) + 1 \in 1..n + 1
    BY <1>1, <1>4
  <2>2. moved[n + 1] = Len(r) + owed
    <3>1. moved[n + 1] = pos[n + 1] - e /\ pos[n + 1] = l + owed
      BY <1>5, <1>7, <2>1
    <3> QED
      BY <1>1, <1>2, <1>4, <3>1
  <2>3. moved[Len(d) + 1] = 0 - (took + e)
    BY <1>1, <1>4, <1>5, <1>7, <2>1, SMTT(20)
  <2> QED
    BY <2>2, <2>3 DEF n
<1>15. Stream(r, s, d, owed, took + e)
  BY <1>12, <1>13, <1>14 DEF Stream
<1> QED
  BY <1>15 DEF r

\* A receiver that finds a header's worth of bytes between two messages reads the
\* size of the next message.
LEMMA HeaderComesOut ==
  ASSUME NEW q \in Rings, NEW s \in Seq(Messages), NEW d \in Seq(Seq(CellSet)),
         NEW owed, Stream(q, s, d, owed, 0), Len(q) >= HdrSize
  PROVE  /\ Len(d) < Len(s)
         /\ SizesIn(q) = {s[Len(d) + 1].size}
         /\ Stream(RbDrop(q, HdrSize), s, d, owed, HdrSize)
<1> DEFINE n == Len(s)
           l == Len(q)
           k == Len(d) + 1
           m == s[k]
<1>1. /\ HdrSize \in Nat \ {0} /\ n \in Nat /\ l \in Nat /\ Len(d) \in Nat
      /\ q \in Seq(CellSet)
  BY ChannelAssumption, RingFacts, LenProperties
<1>2. owed \in Nat /\ Len(d) <= n
  BY WordFacts DEF Stream
<1>3. PICK pos : Laid(pos, q, s) /\ pos[n + 1] = l + owed /\ pos[k] = 0
  <2>1. 0 - 0 = 0
    OBVIOUS
  <2> QED
    BY <2>1 DEF Stream
<1>4. k \in 1..n
  <2>1. k # n + 1
    <3> SUFFICES ASSUME k = n + 1 PROVE FALSE
      OBVIOUS
    <3>1. l + owed = 0
      BY <1>3
    <3> QED
      BY <1>1, <1>2, <3>1
  <2> DEFINE x == Len(d)
  <2>2. x \in Nat /\ n \in Nat /\ x <= n /\ x + 1 # n + 1
    BY <1>1, <1>2, <2>1
  <2> HIDE DEF x, n
  <2>3. x + 1 \in 1..n
    BY <2>2
  <2> QED
    BY <2>3 DEF x
<1>5. m \in Messages /\ m.size \in Nat
  <2>1. m \in Messages
    BY <1>4, ElementOfSeq
  <2> HIDE DEF m
  <2> QED
    BY <2>1 DEF Messages
<1>6. \A j \in 1..HdrSize : q[j] = [msg |-> m, off |-> j]
  <2> TAKE j \in 1..HdrSize
  <2>1. pos[k] = 0 /\ pos[k + 1] = pos[k] + HdrSize + m.size
    BY <1>3, <1>4 DEF Laid
  <2>2. j \in 1..l /\ pos[k] < j /\ j <= pos[k + 1] /\ j - pos[k] = j
    BY <1>1, <1>5, <2>1
  <2>3. q[j] = [msg |-> s[k], off |-> j - pos[k]]
    BY <1>3, <1>4, <2>2 DEF Laid
  <2> QED
    BY <2>2, <2>3
<1>7. SubSeq(q, 1, HdrSize) = Header(m)
  <2>1. \A j \in 1..HdrSize : q[j] \in CellSet
    BY <1>1, ElementOfSeq
  <2>2. /\ SubSeq(q, 1, HdrSize) \in Seq(CellSet) /\ Len(SubSeq(q, 1, HdrSize)) = HdrSize
        /\ \A j \in 1..HdrSize : SubSeq(q, 1, HdrSize)[j] = q[j]
    BY <1>1, <2>1, SubSeqProperties
  <2>3. /\ Header(m) \in Seq(CellSet) /\ Len(Header(m)) = HdrSize
        /\ \A j \in 1..HdrSize : Header(m)[j] = [msg |-> m, off |-> j]
    BY <1>5, HeaderCells
  <2>4. \A j \in 1..HdrSize : SubSeq(q, 1, HdrSize)[j] = Header(m)[j]
    BY <1>6, <2>2, <2>3
  <2> QED
    BY <2>2, <2>3, <2>4, SeqEqual
<1>8. Head(q).msg = m
  <2>1. q # <<>> /\ 1 \in 1..HdrSize
    BY <1>1, EmptySeq
  <2>2. Head(q) = q[1]
    BY <1>1, <2>1, HeadTailProperties
  <2>3. q[1] = [msg |-> m, off |-> 1]
    BY <1>6, <2>1
  <2> HIDE DEF m
  <2> QED
    BY <2>2, <2>3
<1>9. SizesIn(q) = {m.size}
  BY <1>7, <1>8 DEF SizesIn
<1>10. Stream(RbDrop(q, HdrSize), s, d, owed, 0 + HdrSize)
  BY BytesComeOut, HeaderIsWord
<1> QED
  BY <1>1, <1>4, <1>9, <1>10

\* The next chunk continues what the receiver has of the message.
LEMMA ChunkComesOut ==
  ASSUME NEW q \in Rings, NEW s \in Seq(Messages), NEW d \in Seq(Seq(CellSet)),
         NEW owed, NEW out \in Seq(CellSet), Stream(q, s, d, owed, HdrSize + Len(out)),
         Len(d) < Len(s), NEW size, size = s[Len(d) + 1].size, Len(out) <= size,
         out = Cells(s[Len(d) + 1], HdrSize, Len(out))
  PROVE  LET chunk == RbGet(q, size - Len(out))
             more == out \o chunk
         IN  /\ more = Cells(s[Len(d) + 1], HdrSize, Len(more))
             /\ Stream(RbDrop(q, Len(chunk)), s, d, owed, HdrSize + Len(more))
<1> DEFINE n == Len(s)
           l == Len(q)
           o == Len(out)
           k == Len(d) + 1
           m == s[k]
           chunk == RbGet(q, size - o)
           e == Len(chunk)
           more == out \o chunk
<1>1. /\ HdrSize \in Nat \ {0} /\ n \in Nat /\ l \in Nat /\ Len(d) \in Nat /\ o \in Nat
      /\ q \in Seq(CellSet) /\ k \in 1..n
  BY ChannelAssumption, RingFacts, LenProperties
<1>2. m \in Messages /\ m.size = size /\ size \in Nat /\ size \in Words
  <2>1. m \in Messages
    BY <1>1, ElementOfSeq
  <2>2. m.size = size /\ m.size \in Words
    BY <1>1 DEF Stream
  <2> QED
    BY <2>1, <2>2, WordFacts
<1>3. /\ l \in Words /\ owed \in Words /\ owed \in Nat /\ HdrSize + o \in Words
  BY WordFacts DEF Stream
<1>4. /\ chunk \in Seq(CellSet) /\ e \in Nat /\ e = Least(size - o, l)
  BY <1>1, <1>2, GetAndDrop, LenProperties
<1>5. e \in Words /\ e <= l /\ e <= size - o
  <2>1. HdrSize + size \in Words
    BY <1>2, HeaderIsWord, WordFacts
  <2>2. (HdrSize + size) - (HdrSize + o) \in Words
    <3> DEFINE x == HdrSize + size
               y == HdrSize + o
    <3>1. x \in Words /\ y \in Words /\ y <= x
      BY <1>1, <1>2, <1>3, <2>1
    <3> HIDE DEF x, y
    <3>2. x - y \in Words
      BY <3>1, WordFacts
    <3> QED
      BY <3>2 DEF x, y
  <2>3. size - o \in Words
    BY <1>1, <1>2, <2>2
  <2>4. Least(size - o, l) \in Words
    BY <1>3, <2>3, WordFacts
  <2> QED
    BY <1>1, <1>2, <1>4, <2>4 DEF Least
<1>6. \A j \in 1..e : j \in 1..l /\ chunk[j] = q[j]
  <2>1. size - o \in Nat
    BY <1>1, <1>2
  <2> QED
    BY <2>1, GotCells
<1>7. /\ more \in Seq(CellSet) /\ Len(more) = o + e
      /\ \A j \in 1..o + e : more[j] = IF j <= o THEN out[j] ELSE chunk[j - o]
  BY <1>1, <1>4, ConcatProperties
<1>8. PICK pos : Laid(pos, q, s) /\ pos[k] = 0 - (HdrSize + o)
  BY DEF Stream
<1> HIDE DEF n, l, e, chunk
<1>9. \A j \in 1..e : q[j] = [msg |-> m, off |-> HdrSize + (o + j)]
  <2> TAKE j \in 1..e
  <2>1. pos[k + 1] = pos[k] + HdrSize + m.size
    BY <1>1, <1>8 DEF Laid, n
  <2>2. j \in 1..l /\ pos[k] < j /\ j <= pos[k + 1] /\ j - pos[k] = HdrSize + (o + j)
    <3> HIDE DEF m, k, o
    <3>1. pos[k] = 0 - (HdrSize + o) /\ pos[k + 1] = size - o
      <4>1. pos[k + 1] = (0 - (HdrSize + o)) + HdrSize + size
        BY <1>2, <1>8, <2>1
      <4>2. \A h, b, z \in Nat : (0 - (h + b)) + h + z = z - b
        OBVIOUS
      <4> QED
        BY <1>1, <1>2, <1>8, <4>1, <4>2
    <3>2. j \in 1..l /\ j <= size - o /\ j \in Nat /\ j > 0
      BY <1>1, <1>2, <1>4, <1>5, <1>6, SMTT(20)
    <3> QED
      BY <1>1, <1>2, <3>1, <3>2
  <2>3. q[j] = [msg |-> s[k], off |-> j - pos[k]]
    BY <1>1, <1>8, <2>2 DEF Laid, n, l
  <2> QED
    BY <2>2, <2>3
<1>10. more = Cells(m, HdrSize, o + e)
  <2>1. /\ Cells(m, HdrSize, o + e) \in Seq(CellSet) /\ Len(Cells(m, HdrSize, o + e)) = o + e
        /\ \A j \in 1..o + e : Cells(m, HdrSize, o + e)[j] = [msg |-> m, off |-> HdrSize + j]
    <3>1. HdrSize \in Nat /\ o + e \in Nat
      BY <1>1, <1>4
    <3> HIDE DEF m, o
    <3> QED
      BY <1>2, <3>1, CellsType, CellAt
  <2>2. \A j \in 1..o : out[j] = [msg |-> m, off |-> HdrSize + j]
    BY <1>1, <1>2, CellAt, SMTT(20)
  <2>3. \A j \in 1..o + e : more[j] = [msg |-> m, off |-> HdrSize + j]
    <3> TAKE j \in 1..o + e
    <3>1. CASE j <= o
      <4>1. j \in 1..o
        BY <1>1, <3>1
      <4>2. more[j] = out[j]
        BY <1>7, <3>1
      <4> QED
        BY <2>2, <4>1, <4>2
    <3>2. CASE ~(j <= o)
      <4>1. j - o \in 1..e /\ o + (j - o) = j
        BY <1>1, <1>4, <3>2
      <4>2. more[j] = chunk[j - o]
        BY <1>7, <3>2
      <4>3. chunk[j - o] = q[j - o]
        BY <1>6, <4>1
      <4>4. q[j - o] = [msg |-> m, off |-> HdrSize + (o + (j - o))]
        BY <1>9, <4>1
      <4> QED
        BY <4>1, <4>2, <4>3, <4>4
    <3> QED
      BY <3>1, <3>2
  <2> HIDE DEF m, o, more
  <2>4. \A j \in 1..Len(more) : more[j] = Cells(m, HdrSize, o + e)[j]
    BY <1>7, <2>1, <2>3
  <2> QED
    BY <1>7, <2>1, <2>4, SeqEqual
<1>11. Stream(RbDrop(q, e), s, d, owed, (HdrSize + o) + e)
  BY <1>5, BytesComeOut DEF l
<1>12. (HdrSize + o) + e = HdrSize + Len(more)
  BY <1>1, <1>4, <1>7
<1> QED
  BY <1>7, <1>10, <1>11, <1>12 DEF e, chunk

\* All of a message is out: it has been received, and nothing is in hand.
LEMMA MessageIsOut ==
  ASSUME NEW q \in Rings, NEW s \in Seq(Messages), NEW d \in Seq(Seq(CellSet)), NEW owed,
         Len(d) < Len(s), Stream(q, s, d, owed, HdrSize + s[Len(d) + 1].size)
  PROVE  Stream(q, s, Append(d, Payload(s[Len(d) + 1])), owed, 0)
<1> DEFINE n == Len(s)
           k == Len(d) + 1
           m == s[k]
           got == Append(d, Payload(m))
<1>1. /\ HdrSize \in Nat /\ n \in Nat /\ Len(d) \in Nat /\ k \in 1..n
      /\ k \in 1..n + 1 /\ k + 1 \in 1..n + 1
  BY ChannelAssumption, LenProperties
<1>2. m \in Messages /\ m.size \in Nat
  <2>1. m \in Messages
    BY <1>1, ElementOfSeq
  <2> HIDE DEF m
  <2> QED
    BY <2>1 DEF Messages
<1>3. Payload(m) \in Seq(CellSet)
  BY <1>1, <1>2, CellsType DEF Payload
<1>4. Len(got) = k /\ got[k] = Payload(m) /\ \A i \in 1..Len(d) : got[i] = d[i]
  <2> HIDE DEF m
  <2> QED
    BY <1>3, AppendProperties
<1>5. PICK pos : /\ Laid(pos, q, s)
                 /\ pos[n + 1] = Len(q) + owed
                 /\ pos[k] = 0 - (HdrSize + m.size)
  BY DEF Stream
<1>6. pos[k + 1] = 0 - 0
  <2>1. pos[k + 1] = pos[k] + HdrSize + m.size
    BY <1>1, <1>5 DEF Laid
  <2> QED
    BY <1>1, <1>2, <1>5, <2>1
<1>7. \A i \in 1..k : got[i] = Payload(s[i])
  <2> TAKE i \in 1..k
  <2>1. i = k \/ i \in 1..Len(d)
    BY <1>1
  <2>2. \A j \in 1..Len(d) : d[j] = Payload(s[j])
    BY DEF Stream
  <2> QED
    BY <1>4, <2>1, <2>2
<1>8. {Len(q), owed, 0} \subseteq Words /\ \A i \in 1..n : s[i].size \in Words
  BY HeaderIsWord DEF Stream
<1>9. \E p : /\ Laid(p, q, s)
             /\ p[n + 1] = Len(q) + owed
             /\ p[k + 1] = 0 - 0
  BY <1>5, <1>6
<1> HIDE DEF n, got
<1>10. Stream(q, s, got, owed, 0)
  BY <1>1, <1>4, <1>7, <1>8, <1>9 DEF Stream, n
<1> QED
  BY <1>10 DEF got

--------------------------------------------------------------------------------
(* The programs *)

SendOps == {"send", "send_msg"}
TakeOps == {"recv", "recv_msg", "drop"}

MayCall(t, c, ops) == \E call \in OwnCalls(t) : call.c = c /\ call.op \in ops
MayWrite(t, c, k) == k = (Creator[c] = t) /\ MayCall(t, c, SendOps)
MayRead(t, c, k) == k = (Creator[c] # t) /\ MayCall(t, c, TakeOps)

\* Each file has one thread that writes it and one that reads it.
OneWriter ==
  \A c \in Chans, k \in BOOLEAN, t, u \in Threads : MayWrite(t, c, k) /\ MayWrite(u, c, k) => t = u
OneReader ==
  \A c \in Chans, k \in BOOLEAN, t, u \in Threads : MayRead(t, c, k) /\ MayRead(u, c, k) => t = u

\* Who drops messages of a channel is the only one that waits for writes to it:
\* channel_drop gives up in the middle of a message when somebody else does.
DropsAlone ==
  \A c \in Chans, t, u \in Threads : MayCall(t, c, {"drop"}) /\ MayWait(u, c, "write") => t = u

\* A header never goes in half: see TornProgram of MCChannel for what happens else.
WholeWords ==
  /\ BufSize \in Words
  /\ \A t \in Threads : \A call \in OwnCalls(t) : call.op \in SendOps => call.n \in Words

\* No try operations, which truncate messages, and nobody is killed in the middle of
\* a message; a channel is made by one thread, which stays its creator.
PlainCalls ==
  \A t \in Threads : \A call \in OwnCalls(t) :
    /\ call.op \notin {"try_send", "try_recv", "set_owner", "kill"}
    /\ call.op = "make" => Creator[call.c] = t /\ call.again = 0

Disciplined == OneWriter /\ OneReader /\ DropsAlone /\ WholeWords /\ PlainCalls

--------------------------------------------------------------------------------
(* The invariant *)

WritePcs == {"send_loop", "send_sent"}
ReadPcs == {"recv_loop", "recv_got", "drop_loop", "drop_dropped"}
OutPcs == WritePcs \cup {"send_hdr"}
InPcs == ReadPcs \cup {"recv_hdr", "drop_hdr"}
TryPcs == {"try_send", "try_recv"}

\* t is in the middle of a message, or past the test for a closed channel.
Writing(t, c, k) == th[t].pc \in WritePcs /\ th[t].call.c = c /\ th[t].rb = k
Reading(t, c, k) == th[t].pc \in ReadPcs /\ th[t].call.c = c /\ th[t].rb = k
Committed(t, c, k) ==
  th[t].pc \in {"send", "send_body", "send_hdr"} /\ th[t].call.c = c /\ k = (Creator[c] = t)

\* owed bytes of the last message have not gone in: its writer will put them in, or
\* the channel was closed and nothing will follow.
Owes(c, k, owed) ==
  /\ \A t \in Threads : Writing(t, c, k) =>
       /\ owed = th[t].call.n - th[t].bytes
       /\ Len(sent[c][k]) > 0
       /\ sent[c][k][Len(sent[c][k])] = Message(t, th[t].call)
  /\ (\A t \in Threads : ~Writing(t, c, k)) =>
       owed = 0 \/ (Closed(c) /\ \A t \in Threads : ~Committed(t, c, k))

\* The first took bytes of the next message are in the hands of the reader.
Holds(t, c, k, took) ==
  /\ took = HdrSize + Len(th[t].out)
  /\ Len(rcvd[c][k]) < Len(sent[c][k])
  /\ th[t].size = sent[c][k][Len(rcvd[c][k]) + 1].size
  /\ th[t].out = Cells(sent[c][k][Len(rcvd[c][k]) + 1], HdrSize, Len(th[t].out))
  /\ th[t].pc \in {"recv_loop", "drop_loop"} => th[t].size = 0 \/ Len(th[t].out) < th[t].size
Takes(c, k, took) ==
  /\ \A t \in Threads : Reading(t, c, k) => Holds(t, c, k, took)
  /\ (\A t \in Threads : ~Reading(t, c, k)) => took = 0

FileOK(c, k) ==
  \E owed, took : /\ Stream(files[c][k], sent[c][k], rcvd[c][k], owed, took)
                  /\ Owes(c, k, owed)
                  /\ Takes(c, k, took)
Streams == \A c \in Chans, k \in BOOLEAN : FileOK(c, k)

\* The creators stay, and every call works on the file its thread writes or reads;
\* none is a try operation, and only two change the flags.
CreatorsStay == \A c \in Chans : chan[c].creator = Creator[c]
RightFile(t) ==
  /\ th[t].pc \notin TryPcs
  /\ th[t].pc = "flags" => th[t].call.op \in {"close", "set_buffered"}
  /\ th[t].pc \in OutPcs => th[t].rb = (Creator[th[t].call.c] = t)
  /\ th[t].pc \in InPcs => th[t].rb = (Creator[th[t].call.c] # t)
Settled ==
  /\ CreatorsStay
  /\ \A t \in Threads : RightFile(t) /\ (Gone(t) => th[t].pc = "idle")

Base == TypeOK /\ WaiterAsleep /\ InProgram /\ Settled

--------------------------------------------------------------------------------
(* Frames *)

LEMMA FrameParts ==
  /\ \A pc, call, rb : LET f == Frame(pc, call, rb)
                      IN  f.pc = pc /\ f.call = call /\ f.rb = rb
  /\ \A pc, call, rb, bytes : LET f == SendFrame(pc, call, rb, bytes)
                             IN  f.pc = pc /\ f.call = call /\ f.rb = rb /\ f.bytes = bytes
  /\ \A pc, call, rb, size, out :
       LET f == RecvFrame(pc, call, rb, size, out)
       IN  f.pc = pc /\ f.call = call /\ f.rb = rb /\ f.size = size /\ f.out = out
  /\ Idle.pc = "idle"
BY DEF Frame, SendFrame, RecvFrame, Idle

\* Where a step leaves its thread: out of the call, or in it with its file.
Leaves(t, call, k, pcs) ==
  th'[t] = Idle \/ (th'[t].pc \in pcs /\ th'[t].call = call /\ th'[t].rb = k)

LEMMA SendLoopLeaves ==
  ASSUME ThreadsOK, NEW t \in Threads, NEW call, NEW k, NEW q, NEW bytes,
         SendLoop(t, call, k, q, bytes)
  PROVE  Leaves(t, call, k, WritePcs)
<1> USE GotoChanges DEF Leaves, WritePcs
<1>1. CASE Return(t, call, bytes)
  BY <1>1
<1>2. ASSUME NEW n, Goto(t, SendFrame("send_sent", call, k, n)) \/ Goto(t, SendFrame("send_loop", call, k, n))
      PROVE  Leaves(t, call, k, WritePcs)
  BY <1>2, FrameParts
<1> QED
  BY <1>1, <1>2 DEF SendLoop

LEMMA SendHeaderLeaves ==
  ASSUME ThreadsOK, NEW t \in Threads, NEW call, NEW k, SendHeader(t, call, k)
  PROVE  Leaves(t, call, k, OutPcs)
<1>1. CASE \E q, bytes : SendLoop(t, call, k, q, bytes)
  BY <1>1, SendLoopLeaves DEF Leaves, OutPcs
<1>2. CASE Return(t, call, 0)
  BY <1>2, GotoChanges DEF Leaves
<1>3. CASE Goto(t, Frame("send_hdr", call, k))
  BY <1>3, GotoChanges, FrameParts DEF Leaves, OutPcs
<1> QED
  BY <1>1, <1>2, <1>3 DEF SendHeader

LEMMA RecvLoopLeaves ==
  ASSUME ThreadsOK, NEW t \in Threads, NEW call, NEW k, NEW size, NEW q, NEW out,
         RecvLoop(t, call, k, size, q, out)
  PROVE  Leaves(t, call, k, ReadPcs)
<1>1. ASSUME NEW n, NEW heard, ReturnHeard(t, call, n, heard)
      PROVE  Leaves(t, call, k, ReadPcs)
  BY <1>1, GotoChanges DEF Leaves
<1>2. ASSUME NEW more, \/ Goto(t, RecvFrame("recv_got", call, k, size, more))
                       \/ Goto(t, RecvFrame("recv_loop", call, k, size, more))
      PROVE  Leaves(t, call, k, ReadPcs)
  BY <1>2, GotoChanges, FrameParts DEF Leaves, ReadPcs
<1> QED
  BY <1>1, <1>2 DEF RecvLoop

LEMMA DropWaitLeaves ==
  ASSUME ThreadsOK, NEW t \in Threads, NEW f \in Frames, NEW q, DropWait(t, f, q)
  PROVE  Leaves(t, f.call, f.rb, ReadPcs)
<1>1. CASE Return(t, f.call, 0)
  BY <1>1, GotoChanges DEF Leaves
<1>2. CASE Goto(t, [f EXCEPT !.pc = "drop_loop"])
  <2>1. /\ [f EXCEPT !.pc = "drop_loop"].pc = "drop_loop"
        /\ [f EXCEPT !.pc = "drop_loop"].call = f.call
        /\ [f EXCEPT !.pc = "drop_loop"].rb = f.rb
    BY DEF Frames
  <2> QED
    BY <1>2, <2>1, GotoChanges DEF Leaves, ReadPcs
<1> QED
  BY <1>1, <1>2 DEF DropWait

LEMMA DropLoopLeaves ==
  ASSUME ThreadsOK, NEW t \in Threads, NEW call \in Calls, NEW k \in BOOLEAN, NEW size \in Nat,
         NEW q \in Rings, NEW out \in Seq(CellSet), Len(out) <= size,
         DropLoop(t, call, k, size, q, out)
  PROVE  Leaves(t, call, k, ReadPcs)
<1> DEFINE chunk == RbGet(q, size - Len(out))
           more == out \o chunk
           frame == RecvFrame("drop_dropped", call, k, size, more)
<1>1. more \in Seq(CellSet) /\ Len(more) <= size
  BY ChunkType
<1> HIDE DEF more
<1>2. /\ frame \in Frames /\ frame.pc = "drop_dropped" /\ frame.call = call /\ frame.rb = k
  <2>1. "drop_dropped" \in Pcs
    BY DEF Pcs
  <2> QED
    BY <1>1, <2>1, RecvFrameType, FrameParts
<1>3. ASSUME NEW n, NEW heard, ReturnHeard(t, call, n, heard)
      PROVE  Leaves(t, call, k, ReadPcs)
  BY <1>3, GotoChanges DEF Leaves
<1>4. CASE Goto(t, frame)
  BY <1>2, <1>4, GotoChanges DEF Leaves, ReadPcs
<1>5. CASE \E left : DropWait(t, frame, left)
  BY <1>2, <1>5, DropWaitLeaves
<1> QED
  BY <1>3, <1>4, <1>5 DEF DropLoop, more

LEMMA HeaderLeaves ==
  ASSUME ThreadsOK, FilesOK, NEW t \in Threads, NEW call \in Calls, NEW k \in BOOLEAN,
         RecvHeader(t, call, k) \/ DropHeader(t, call, k)
  PROVE  Leaves(t, call, k, InPcs)
<1> DEFINE q == files[call.c][k]
<1>1. q \in Rings /\ HdrSize \in Nat
  BY ChannelAssumption DEF Calls, FilesOK
<1>2. CASE Goto(t, Frame("recv_hdr", call, k)) \/ Goto(t, Frame("drop_hdr", call, k))
  BY <1>2, GotoChanges, FrameParts DEF Leaves, InPcs
<1>3. CASE Len(q) >= HdrSize /\ \E size \in SizesIn(q) :
             \/ RecvLoop(t, call, k, size, RbDrop(q, HdrSize), <<>>)
             \/ DropLoop(t, call, k, size, RbDrop(q, HdrSize), <<>>)
  <2>1. PICK size \in SizesIn(q) : \/ RecvLoop(t, call, k, size, RbDrop(q, HdrSize), <<>>)
                                  \/ DropLoop(t, call, k, size, RbDrop(q, HdrSize), <<>>)
    BY <1>3
  <2>2. size \in Nat /\ RbDrop(q, HdrSize) \in Rings
    BY <1>1, <1>3, SizesType, RingFacts, DropType
  <2>3. <<>> \in Seq(CellSet) /\ Len(<<>>) <= size
    BY <2>2, EmptySeq
  <2>4. Leaves(t, call, k, ReadPcs)
    BY <2>1, <2>2, <2>3, RecvLoopLeaves, DropLoopLeaves
  <2> QED
    BY <2>4 DEF Leaves, InPcs
<1> QED
  BY <1>2, <1>3 DEF RecvHeader, DropHeader

--------------------------------------------------------------------------------
(* Settled *)

\* The thread of a send, a receive or a drop leaves a step on the right file.
Lands(t) == RightFile(t)' /\ th'[t].pc # "flags"

LEMMA LeavesRight ==
  ASSUME Settled, NEW t \in Threads, NEW call, NEW k,
         \/ k = (Creator[call.c] = t) /\ Leaves(t, call, k, OutPcs)
         \/ k = (Creator[call.c] # t) /\ Leaves(t, call, k, InPcs)
  PROVE  Lands(t) /\ (Leaves(t, call, k, InPcs) => th'[t].pc \notin OutPcs)
<1>1. CASE th'[t] = Idle
  BY <1>1, FrameParts DEF Lands, RightFile, OutPcs, InPcs, WritePcs, ReadPcs, TryPcs
<1>2. CASE th'[t] # Idle
  BY <1>2 DEF Leaves, Lands, RightFile, OutPcs, InPcs, WritePcs, ReadPcs, TryPcs
<1> QED
  BY <1>1, <1>2

LEMMA FilesOf ==
  ASSUME CreatorsStay, NEW t \in Threads, NEW call \in Calls
  PROVE  /\ OutFile(t, call.c) = (Creator[call.c] = t)
         /\ InFile(t, call.c) = (Creator[call.c] # t)
         /\ OutFile(t, call.c) \in BOOLEAN /\ InFile(t, call.c) \in BOOLEAN
BY DEF CreatorsStay, OutFile, InFile, Calls

\* Every other place of a thread has no file.
LEMMA PlainRight ==
  ASSUME NEW t \in Threads, th'[t].pc \notin OutPcs \cup InPcs \cup TryPcs \cup {"flags"}
  PROVE  Lands(t) /\ th'[t].pc \notin OutPcs
BY DEF Lands, RightFile

LEMMA SendsRight ==
  ASSUME TypeOK, Settled, NEW t \in Threads, Sends(t)
  PROVE  Lands(t)
<1> DEFINE f == th[t]
<1>0. /\ ThreadsOK /\ CreatorsStay /\ RightFile(t)
      /\ f.pc # "idle" => f.call \in Calls /\ f.rb \in BOOLEAN
      /\ \A call \in NextCalls(t) : call \in Calls
  BY FrameFacts, NextCallsType DEF TypeOK, Settled
<1>1. ASSUME NEW call, NEW n, Return(t, call, n)
      PROVE  Lands(t)
  BY <1>0, <1>1, GotoChanges, FrameParts, PlainRight
     DEF OutPcs, InPcs, WritePcs, ReadPcs, TryPcs
<1>2. ASSUME NEW call \in Calls, SendBody(t, call)
      PROVE  Lands(t)
  <2>1. CASE SendHeader(t, call, OutFile(t, call.c))
    BY <1>0, <2>1, SendHeaderLeaves, LeavesRight, FilesOf
  <2> QED
    BY <1>1, <1>2, <2>1 DEF SendBody
<1>3. CASE SendSync(t)
  <2>1. f.call \in Calls
    BY <1>0, <1>3 DEF SendSync, At
  <2>2. CASE Goto(t, Frame("send_body", f.call, FALSE))
    <3>1. th'[t] = Frame("send_body", f.call, FALSE)
      BY <1>0, <2>2, GotoChanges
    <3>2. th'[t].pc = "send_body"
      BY <3>1 DEF Frame
    <3> QED
      BY <3>2, PlainRight
     DEF OutPcs, InPcs, WritePcs, ReadPcs, TryPcs
  <2> QED
    BY <1>2, <1>3, <2>1, <2>2 DEF SendSync, Synchronize
<1>4. CASE SendSynced(t)
  BY <1>0, <1>2, <1>4 DEF SendSynced, At
<1>5. CASE SendMsgCall(t)
  <2>1. PICK call \in NextCalls(t) : SendHeader(t, call, OutFile(t, call.c))
    BY <1>5 DEF SendMsgCall
  <2> QED
    BY <1>0, <2>1, SendHeaderLeaves, LeavesRight, FilesOf
<1>6. CASE SendHeaderAgain(t)
  <2>1. f.pc = "send_hdr" /\ SendHeader(t, f.call, f.rb)
    BY <1>6 DEF SendHeaderAgain, At
  <2>2. f.rb = (Creator[f.call.c] = t)
    BY <1>0, <2>1 DEF RightFile, OutPcs
  <2> QED
    BY <1>0, <2>1, <2>2, SendHeaderLeaves, LeavesRight
<1>7. ASSUME f.pc \in WritePcs, SendLoop(t, f.call, f.rb, files[f.call.c][f.rb], f.bytes)
      PROVE  Lands(t)
  <2>1. f.rb = (Creator[f.call.c] = t)
    BY <1>0, <1>7 DEF RightFile, OutPcs
  <2>2. Leaves(t, f.call, f.rb, WritePcs)
    BY <1>0, <1>7, SendLoopLeaves
  <2>3. Leaves(t, f.call, f.rb, OutPcs)
    BY <2>2 DEF Leaves, OutPcs
  <2> QED
    BY <2>1, <2>3, LeavesRight
<1>8. CASE SendResume(t)
  BY <1>7, <1>8 DEF SendResume, At, WritePcs
<1>9. CASE SendSent(t)
  <2>1. f.pc \in WritePcs
    BY <1>9 DEF SendSent, At, WritePcs
  <2> QED
    BY <1>1, <1>7, <1>9, <2>1 DEF SendSent
<1> QED
  BY <1>3, <1>4, <1>5, <1>6, <1>8, <1>9 DEF Sends

LEMMA TakesRight ==
  ASSUME TypeOK, Settled, NEW t \in Threads, Recvs(t) \/ Drops(t)
  PROVE  Lands(t) /\ th'[t].pc \notin OutPcs
<1> DEFINE f == th[t]
           q == files[f.call.c][f.rb]
<1>0. /\ ThreadsOK /\ FilesOK /\ CreatorsStay /\ RightFile(t)
      /\ f.pc # "idle" =>
           /\ f.call \in Calls /\ f.rb \in BOOLEAN /\ f \in Frames
           /\ f.size \in Nat /\ f.out \in Seq(CellSet) /\ Len(f.out) <= f.size
           /\ q \in Rings
      /\ \A call \in NextCalls(t) : call \in Calls
  BY FrameFacts, NextCallsType DEF TypeOK, FilesOK, Settled
<1>1. ASSUME NEW call, NEW n, NEW heard, ReturnHeard(t, call, n, heard)
      PROVE  Lands(t) /\ th'[t].pc \notin OutPcs
  BY <1>0, <1>1, GotoChanges, FrameParts, PlainRight
     DEF OutPcs, InPcs, WritePcs, ReadPcs, TryPcs
<1>2. ASSUME NEW call \in Calls, NEW k \in BOOLEAN, k = (Creator[call.c] # t),
             RecvHeader(t, call, k) \/ DropHeader(t, call, k)
      PROVE  Lands(t) /\ th'[t].pc \notin OutPcs
  BY <1>0, <1>2, HeaderLeaves, LeavesRight
<1>3. ASSUME f.pc \in ReadPcs, Leaves(t, f.call, f.rb, ReadPcs)
      PROVE  Lands(t) /\ th'[t].pc \notin OutPcs
  <2>1. f.rb = (Creator[f.call.c] # t)
    BY <1>0, <1>3 DEF RightFile, InPcs
  <2>2. Leaves(t, f.call, f.rb, InPcs)
    BY <1>3 DEF Leaves, InPcs
  <2> QED
    BY <2>1, <2>2, LeavesRight
<1>4. CASE RecvSync(t) \/ RecvSynced(t) \/ DropSync(t) \/ DropSynced(t)
  <2>1. f.pc # "idle"
    BY <1>4 DEF RecvSync, RecvSynced, DropSync, DropSynced, At
  <2>2. CASE Goto(t, Frame("recv_body", f.call, FALSE)) \/ Goto(t, Frame("drop_body", f.call, FALSE))
    <3>1. \/ th'[t] = Frame("recv_body", f.call, FALSE)
          \/ th'[t] = Frame("drop_body", f.call, FALSE)
      BY <1>0, <2>2, GotoChanges
    <3>2. th'[t].pc \in {"recv_body", "drop_body"}
      BY <3>1 DEF Frame
    <3> QED
      BY <3>2, PlainRight
     DEF OutPcs, InPcs, WritePcs, ReadPcs, TryPcs
  <2>3. CASE RecvHeader(t, f.call, InFile(t, f.call.c)) \/ DropHeader(t, f.call, InFile(t, f.call.c))
    BY <1>0, <1>2, <2>1, <2>3, FilesOf
  <2>4. CASE Return(t, f.call, 0)
    BY <1>1, <2>4 DEF Return
  <2> QED
    BY <1>4, <2>2, <2>3, <2>4
       DEF RecvSync, RecvSynced, DropSync, DropSynced, RecvBody, Synchronize
<1>5. CASE RecvMsgCall(t)
  <2>1. PICK call \in NextCalls(t) : RecvHeader(t, call, InFile(t, call.c))
    BY <1>5 DEF RecvMsgCall
  <2> QED
    BY <1>0, <1>2, <2>1, FilesOf
<1>6. CASE RecvHeaderAgain(t) \/ DropHeaderAgain(t)
  <2>1. /\ f.pc \in {"recv_hdr", "drop_hdr"}
        /\ RecvHeader(t, f.call, f.rb) \/ DropHeader(t, f.call, f.rb)
    BY <1>6 DEF RecvHeaderAgain, DropHeaderAgain, At
  <2>2. f.rb = (Creator[f.call.c] # t)
    BY <1>0, <2>1 DEF RightFile, InPcs
  <2> QED
    BY <1>0, <1>2, <2>1, <2>2
<1>7. CASE RecvResume(t) \/ DropResume(t)
  <2>1. f.pc \in ReadPcs
    BY <1>7 DEF RecvResume, DropResume, At, ReadPcs
  <2>2. RecvLoop(t, f.call, f.rb, f.size, q, f.out) \/ DropLoop(t, f.call, f.rb, f.size, q, f.out)
    BY <1>7 DEF RecvResume, DropResume
  <2>3. Leaves(t, f.call, f.rb, ReadPcs)
    BY <1>0, <2>1, <2>2, RecvLoopLeaves, DropLoopLeaves DEF ReadPcs
  <2> QED
    BY <1>3, <2>1, <2>3
<1>8. CASE RecvGot(t)
  <2>1. f.pc \in ReadPcs
    BY <1>8 DEF RecvGot, At, ReadPcs
  <2>2. CASE RecvLoop(t, f.call, f.rb, f.size, q, f.out)
    BY <1>0, <1>3, <2>1, <2>2, RecvLoopLeaves
  <2> QED
    BY <1>1, <1>8, <2>2 DEF RecvGot, Taken
<1>9. CASE DropDropped(t)
  <2>1. f.pc \in ReadPcs
    BY <1>9 DEF DropDropped, At, ReadPcs
  <2>2. CASE DropWait(t, f, q)
    BY <1>0, <1>3, <2>1, <2>2, DropWaitLeaves DEF ReadPcs
  <2> QED
    BY <1>1, <1>9, <2>2 DEF DropDropped, Taken
<1> QED
  BY <1>4, <1>5, <1>6, <1>7, <1>8, <1>9 DEF Recvs, Drops

\* No channel is given away, nobody is killed, and who makes a channel is its creator.
LEMMA PlainSteps ==
  ASSUME Disciplined, Base, NEW t \in Threads
  PROVE  ~SetOwner(t) /\ ~Kill(t) /\ ~Tries(t) /\ MakesOnce
<1>1. \A call \in NextCalls(t) : call.op \notin {"set_owner", "kill"}
  BY NextIsOwn DEF Base, TypeOK, Disciplined, PlainCalls
<1>2. th[t].pc \notin TryPcs
  BY DEF Base, Settled, RightFile
<1>3. MakesOnce
  BY DEF Disciplined, PlainCalls, MakesOnce
<1> QED
  BY <1>1, <1>2, <1>3 DEF SetOwner, Kill, Invokes, Tries, TrySend, TryRecv, At, TryPcs

LEMMA MakesOwn ==
  ASSUME Disciplined, Base, NEW t \in Threads, Make(t)
  PROVE  /\ th[t].pc = "idle" /\ th'[t] = Idle
         /\ \A u \in Threads \ {t} : th'[u] = th[u] /\ ret'[u] = ret[u]
         /\ UNCHANGED status
         /\ \E d \in Chans, flags \in {{}, {"buffered"}} :
              /\ chan' = [chan EXCEPT ![d] = [creator |-> Creator[d], flags |-> flags]]
              /\ files' = [files EXCEPT ![d] = NewFiles]
              /\ sent' = [sent EXCEPT ![d] = NewFiles]
              /\ rcvd' = [rcvd EXCEPT ![d] = NewFiles]
              /\ MadeUnused => Unused(d)
<1>1. TypeOK /\ MakesOnce
  BY PlainSteps DEF Base
<1>2. PICK call \in OwnCalls(t), flags \in {{}, {"buffered"}} :
        /\ call.op = "make" /\ call.c \in Chans /\ th[t].pc = "idle"
        /\ th'[t] = Idle /\ \A u \in Threads \ {t} : th'[u] = th[u] /\ ret'[u] = ret[u]
        /\ chan' = [chan EXCEPT ![call.c] = [creator |-> t, flags |-> flags]]
        /\ files' = [files EXCEPT ![call.c] = NewFiles]
        /\ sent' = [sent EXCEPT ![call.c] = NewFiles]
        /\ rcvd' = [rcvd EXCEPT ![call.c] = NewFiles]
        /\ UNCHANGED status
        /\ MadeUnused => Unused(call.c)
  BY <1>1, MakesOne
<1>3. Creator[call.c] = t
  BY <1>2 DEF Disciplined, PlainCalls
<1> QED
  BY <1>2, <1>3

\* Only the management calls change a channel.
LEMMA ChanStays ==
  ASSUME NEW t \in Threads, Step(t)
  PROVE  chan' = chan \/ FlagsStore(t) \/ SetOwner(t) \/ Make(t)
<1>1. CASE Enter(t) \/ Tries(t) \/ FlagsLoad(t) \/ Lives(t)
  BY <1>1 DEF Enter, Tries, TrySend, TryRecv, FlagsLoad, Lives, Go, Kill, Sleep, Timer, Spin, Exit
<1>2. CASE Sends(t)
  BY <1>2 DEF Sends, SendSync, SendSynced, SendMsgCall, SendHeaderAgain, SendResume, SendSent,
              Synchronize
<1>3. CASE Recvs(t)
  BY <1>3 DEF Recvs, RecvSync, RecvSynced, RecvMsgCall, RecvHeaderAgain, RecvResume, RecvGot,
              Synchronize
<1>4. CASE Drops(t)
  BY <1>4 DEF Drops, DropSync, DropSynced, DropHeaderAgain, DropResume, DropDropped, Synchronize
<1> QED
  BY <1>1, <1>2, <1>3, <1>4 DEF Step, Manages

\* What a step does to the other threads.
LEMMA OthersStay ==
  ASSUME TypeOK, InProgram, NEW t \in Threads, Step(t), ~Kill(t), NEW u \in Threads \ {t}
  PROVE  /\ th'[u] = th[u] \/ th'[u] = Idle
         /\ Gone(u)' => Gone(u) \/ th'[u] = Idle
<1>0. DOMAIN th = Threads
  BY DEF TypeOK, ThreadsOK
<1>1. CASE ~Lives(t) /\ ~Make(t)
  <2>1. PICK call \in OwnCalls(t) : Orderly(t, call, PcsOf(call.op))
    BY <1>0, <1>1, StepOrderly
  <2>2. th'[u] = th[u]
    BY <1>0, <2>1 DEF Orderly, Changes
  <2>3. status'[u] = status[u] \/ status'[u] = "ready"
    BY <1>0, <2>1 DEF Orderly, Waits, Undisturbed, Wake, Block, TypeOK, SchedOK
  <2> QED
    BY <2>2, <2>3 DEF Gone
<1>2. CASE Go(t)
  <2>1. PICK call \in NextCalls(t) : /\ th' = [th EXCEPT ![call.to] = Idle]
                                     /\ status' = [status EXCEPT ![call.to] = "ready"]
    BY <1>2 DEF Go
  <2> QED
    BY <1>0, <2>1 DEF Gone, TypeOK, SchedOK
<1>3. CASE Sleep(t) \/ Timer(t) \/ Spin(t) \/ Exit(t)
  BY <1>0, <1>3 DEF Sleep, Timer, Spin, Exit, Goto, Return, ReturnHeard, Gone, TypeOK, SchedOK
<1>4. CASE Make(t)
  BY <1>0, <1>4 DEF Make, Return, ReturnHeard, Gone
<1> QED
  BY <1>0, <1>1, <1>2, <1>3, <1>4 DEF Lives

\* A thread ends between its calls.
LEMMA EndsIdle ==
  ASSUME TypeOK, InProgram, NEW t \in Threads, Step(t), ~Kill(t)
  PROVE  Gone(t)' => th'[t].pc = "idle"
<1>0. ~Gone(t)
  BY DEF Step
<1>1. CASE ~Lives(t) /\ ~Make(t)
  <2>1. PICK call \in OwnCalls(t) : Orderly(t, call, PcsOf(call.op))
    BY <1>1, StepOrderly
  <2>2. status'[t] = status[t] \/ status'[t] \in {"ready", "sleeping"}
    BY <2>1 DEF Orderly, Waits, Undisturbed, Wake, Block, TypeOK, SchedOK
  <2> QED
    BY <1>0, <2>2 DEF Gone
<1>2. CASE Go(t) \/ Sleep(t) \/ Timer(t) \/ Spin(t)
  <2>1. status'[t] = status[t] \/ status'[t] \in {"ready", "sleeping"}
    BY <1>2 DEF Go, Sleep, Timer, Spin, TypeOK, SchedOK
  <2> QED
    BY <1>0, <2>1 DEF Gone
<1>3. CASE Exit(t)
  BY <1>3 DEF Exit
<1>4. CASE Make(t)
  BY <1>0, <1>4 DEF Make, Gone
<1> QED
  BY <1>1, <1>2, <1>3, <1>4 DEF Lives

LEMMA SettledKept ==
  ASSUME Disciplined, Base, NEW t \in Threads, Step(t)
  PROVE  Settled'
<1>0. /\ TypeOK /\ WaiterAsleep /\ InProgram /\ Settled /\ ThreadsOK /\ DOMAIN th = Threads
      /\ \A call \in NextCalls(t) : call.op \notin TryPcs
      /\ ~SetOwner(t) /\ ~Kill(t) /\ ~Tries(t)
  BY NextIsOwn, PlainSteps DEF Base, TypeOK, ThreadsOK, Disciplined, PlainCalls, TryPcs
<1>1. CreatorsStay'
  <2>1. CASE chan' = chan
    BY <1>0, <2>1 DEF Settled, CreatorsStay
  <2>2. CASE FlagsStore(t)
    <3>1. \E flags : chan' = [chan EXCEPT ![th[t].call.c].flags = flags]
      BY <2>2 DEF FlagsStore
    <3>2. \A c \in Chans : chan'[c].creator = chan[c].creator
      BY <1>0, <3>1 DEF TypeOK, ChanOK
    <3> QED
      BY <1>0, <3>2 DEF Settled, CreatorsStay
  <2>3. CASE Make(t)
    <3>1. PICK d \in Chans, flags \in {{}, {"buffered"}} :
            chan' = [chan EXCEPT ![d] = [creator |-> Creator[d], flags |-> flags]]
      BY <2>3, MakesOwn
    <3> QED
      BY <1>0, <3>1 DEF TypeOK, ChanOK, Settled, CreatorsStay
  <2> QED
    BY <1>0, <2>1, <2>2, <2>3, ChanStays
<1>2. RightFile(t)'
  <2>1. ASSUME th'[t].pc \in {"idle", "send", "recv", "drop", "asleep", "spin"}
        PROVE  RightFile(t)'
    BY <2>1 DEF RightFile, OutPcs, InPcs, WritePcs, ReadPcs, TryPcs
  <2>2. CASE Enter(t)
    <3>1. PICK call \in NextCalls(t) :
            /\ call.op \in {"send", "try_send", "recv", "try_recv", "drop"}
            /\ Return(t, call, 0) \/ Goto(t, Frame(call.op, call, InFile(t, call.c)))
      BY <2>2 DEF Enter, Invokes
    <3>2. CASE Return(t, call, 0)
      BY <1>0, <2>1, <3>2, GotoChanges, FrameParts
    <3>3. CASE Goto(t, Frame(call.op, call, InFile(t, call.c)))
      <4>1. th'[t].pc = call.op
        BY <1>0, <3>3, GotoChanges DEF Frame
      <4> QED
        BY <1>0, <2>1, <3>1, <4>1 DEF TryPcs
    <3> QED
      BY <3>1, <3>2, <3>3
  <2>3. CASE FlagsLoad(t)
    <3>1. th'[t].pc = "flags" /\ th'[t].call.op \in {"close", "set_buffered"}
      BY <1>0, <2>3, GotoChanges DEF FlagsLoad, Invokes, Frame
    <3> QED
      BY <3>1 DEF RightFile, OutPcs, InPcs, WritePcs, ReadPcs, TryPcs
  <2>4. CASE FlagsStore(t)
    BY <1>0, <2>1, <2>4, GotoChanges, FrameParts DEF FlagsStore
  <2>5. CASE Lives(t)
    <3>1. CASE Go(t)
      <4>1. PICK call \in NextCalls(t) : th' = [th EXCEPT ![call.to] = Idle]
        BY <3>1 DEF Go
      <4>2. th'[t] = th[t] \/ th'[t] = Idle
        BY <1>0, <4>1
      <4> QED
        BY <1>0, <2>1, <4>2, FrameParts DEF Settled, RightFile
    <3>2. CASE Sleep(t) \/ Spin(t)
      <4>1. th'[t].pc \in {"asleep", "spin"}
        BY <1>0, <3>2 DEF Sleep, Spin, Goto, Frame
      <4> QED
        BY <2>1, <4>1
    <3>3. CASE Timer(t)
      BY <1>0, <2>1, <3>3, GotoChanges, FrameParts DEF Timer
    <3>4. CASE Exit(t)
      BY <1>0, <3>4 DEF Exit, Settled, RightFile
    <3> QED
      BY <1>0, <2>5, <3>1, <3>2, <3>3, <3>4 DEF Lives
  <2>6. CASE Make(t)
    BY <2>1, <2>6, MakesOwn, FrameParts
  <2> QED
    BY <1>0, <2>2, <2>3, <2>4, <2>5, <2>6, SendsRight, TakesRight DEF Lands, Step, Manages
<1>3. Gone(t)' => th'[t].pc = "idle"
  BY <1>0, EndsIdle
<1>4. \A u \in Threads : RightFile(u)' /\ (Gone(u)' => th'[u].pc = "idle")
  <2> TAKE u \in Threads
  <2>1. CASE u # t /\ th'[u] = th[u]
    BY <1>0, <2>1, OthersStay, FrameParts DEF Settled, RightFile
  <2>2. CASE u # t /\ th'[u] = Idle
    BY <2>2, FrameParts DEF RightFile, OutPcs, InPcs, WritePcs, ReadPcs, TryPcs
  <2> QED
    BY <1>0, <1>2, <1>3, <2>1, <2>2, OthersStay
<1> QED
  BY <1>1, <1>4 DEF Settled

--------------------------------------------------------------------------------
(* Who else is at a file *)

Same(u) == th'[u] = th[u] /\ ret'[u] = ret[u]
SameFile(c, k) ==
  /\ files'[c][k] = files[c][k]
  /\ sent'[c][k] = sent[c][k]
  /\ rcvd'[c][k] = rcvd[c][k]
StayClosed == \A c \in Chans : Closed(c) => Closed(c)'

Aside(u, c, k) == ~Writing(u, c, k) /\ ~Reading(u, c, k)
Passive(u, c, k) ==
  /\ Aside(u, c, k) /\ Aside(u, c, k)'
  /\ Committed(u, c, k)' => Committed(u, c, k) \/ ~Closed(c)

\* A file nobody touches keeps its stream.
LEMMA Bystander ==
  ASSUME NEW c \in Chans, NEW k \in BOOLEAN, FileOK(c, k), SameFile(c, k), StayClosed,
         \A u \in Threads : Same(u) \/ Passive(u, c, k)
  PROVE  FileOK(c, k)'
<1>1. PICK owed, took : /\ Stream(files[c][k], sent[c][k], rcvd[c][k], owed, took)
                        /\ Owes(c, k, owed) /\ Takes(c, k, took)
  BY DEF FileOK
<1>2. ASSUME NEW u \in Threads
      PROVE  /\ Writing(u, c, k)' <=> Writing(u, c, k)
             /\ Reading(u, c, k)' <=> Reading(u, c, k)
             /\ Committed(u, c, k)' => Committed(u, c, k) \/ ~Closed(c)
             /\ Writing(u, c, k) \/ Reading(u, c, k) => Same(u)
  <2>1. CASE Same(u)
    BY <2>1 DEF Same, Writing, Reading, Committed
  <2>2. CASE Passive(u, c, k)
    BY <2>2 DEF Passive, Aside
  <2> QED
    BY <2>1, <2>2
<1>3. Owes(c, k, owed)'
  <2>1. ASSUME NEW u \in Threads, Writing(u, c, k)'
        PROVE  /\ owed = th'[u].call.n - th'[u].bytes
               /\ Len(sent'[c][k]) > 0
               /\ sent'[c][k][Len(sent'[c][k])] = Message(u, th[u].call)'
    <3>1. Writing(u, c, k) /\ Same(u)
      BY <1>2, <2>1
    <3> QED
      BY <1>1, <3>1 DEF Owes, Same, SameFile, Message
  <2>2. ASSUME \A u \in Threads : ~Writing(u, c, k)'
        PROVE  owed = 0 \/ (Closed(c)' /\ \A u \in Threads : ~Committed(u, c, k)')
    <3>1. \A u \in Threads : ~Writing(u, c, k)
      BY <1>2, <2>2 DEF Writing
    <3>2. owed = 0 \/ (Closed(c) /\ \A u \in Threads : ~Committed(u, c, k))
      BY <1>1, <3>1 DEF Owes
    <3>3. ASSUME Closed(c), NEW u \in Threads, ~Committed(u, c, k)
          PROVE  ~Committed(u, c, k)'
      BY <1>2, <3>3
    <3> QED
      BY <3>2, <3>3 DEF StayClosed, Closed, Committed
  <2> QED
    BY <2>1, <2>2 DEF Owes
<1>4. Takes(c, k, took)'
  <2>1. ASSUME NEW u \in Threads, Reading(u, c, k)'
        PROVE  Holds(u, c, k, took)'
    <3>1. Reading(u, c, k) /\ Same(u)
      BY <1>2, <2>1
    <3> QED
      BY <1>1, <3>1 DEF Takes, Holds, Same, SameFile
  <2>2. ASSUME \A u \in Threads : ~Reading(u, c, k)'
        PROVE  took = 0
    BY <1>1, <1>2, <2>2 DEF Takes, Reading
  <2> QED
    BY <2>1, <2>2 DEF Takes
<1> QED
  BY <1>1, <1>3, <1>4 DEF FileOK, SameFile

\* A step that leaves the files alone.
LEMMA QuietStep ==
  ASSUME Streams, UNCHANGED <<files, sent, rcvd>>, StayClosed,
         \A u \in Threads : Same(u) \/ \A c \in Chans, k \in BOOLEAN : Passive(u, c, k)
  PROVE  Streams'
BY Bystander DEF Streams, SameFile

\* t is at work on one file only.
Only(t, c, k) ==
  \A d \in Chans, l \in BOOLEAN :
    Writing(t, d, l) \/ Reading(t, d, l) \/ Committed(t, d, l) => d = c /\ l = k

\* A step of t on a file leaves the others alone.
LEMMA FileStep ==
  ASSUME Streams, NEW t \in Threads, NEW c \in Chans, NEW k \in BOOLEAN, StayClosed,
         \A u \in Threads \ {t} : Same(u), Only(t, c, k), Only(t, c, k)',
         \A d \in Chans, l \in BOOLEAN : d # c \/ l # k => SameFile(d, l),
         FileOK(c, k)'
  PROVE  Streams'
<1> SUFFICES ASSUME NEW d \in Chans, NEW l \in BOOLEAN, d # c \/ l # k PROVE FileOK(d, l)'
  BY DEF Streams
<1>1. Passive(t, d, l)
  BY DEF Only, Passive, Aside
<1> QED
  BY <1>1, Bystander DEF Streams

\* Who may be at a file, told by the program.
SendsOn(t, call, k) ==
  /\ call \in OwnCalls(t) /\ call.op \in SendOps /\ k = (Creator[call.c] = t)
  /\ th[t].pc = "idle" \/ th[t].call = call
TakesOn(t, call, k) ==
  /\ call \in OwnCalls(t) /\ call.op \in TakeOps /\ k = (Creator[call.c] # t)
  /\ th[t].pc = "idle" \/ th[t].call = call

LEMMA WhoMay ==
  ASSUME Settled, InProgram, NEW t \in Threads, NEW c \in Chans, NEW k \in BOOLEAN
  PROVE  /\ Writing(t, c, k) \/ Committed(t, c, k) => MayWrite(t, c, k)
         /\ Reading(t, c, k) => MayRead(t, c, k)
<1>1. RightFile(t) /\ (th[t].pc # "idle" => th[t].call \in OwnCalls(t) /\ th[t].pc \in PcsOf(th[t].call.op))
  BY DEF Settled, InProgram
<1>2. ASSUME Writing(t, c, k) \/ Committed(t, c, k)
      PROVE  MayWrite(t, c, k)
  <2>1. th[t].pc \in SendPcs /\ th[t].call.c = c /\ th[t].pc # "idle"
    BY <1>2 DEF Writing, Committed, WritePcs, SendPcs
  <2>2. th[t].call.op \in SendOps
    BY <1>1, <2>1 DEF PcsOf, SendPcs, RecvPcs, DropPcs, SendOps
  <2>3. k = (Creator[c] = t)
    BY <1>1, <1>2 DEF Writing, Committed, RightFile, OutPcs
  <2> QED
    BY <1>1, <2>1, <2>2, <2>3 DEF MayWrite, MayCall
<1>3. ASSUME Reading(t, c, k)
      PROVE  MayRead(t, c, k)
  <2>1. th[t].pc \in RecvPcs \cup DropPcs /\ th[t].call.c = c /\ th[t].pc # "idle"
    BY <1>3 DEF Reading, ReadPcs, RecvPcs, DropPcs
  <2>2. th[t].call.op \in TakeOps
    BY <1>1, <2>1 DEF PcsOf, SendPcs, RecvPcs, DropPcs, TakeOps
  <2>3. k = (Creator[c] # t)
    BY <1>1, <1>3 DEF Reading, RightFile, InPcs
  <2> QED
    BY <1>1, <2>1, <2>2, <2>3 DEF MayRead, MayCall
<1> QED
  BY <1>2, <1>3

\* The thread of a call on a file is at no other, and nobody else does the same there.
LEMMA SenderAlone ==
  ASSUME Disciplined, Settled, InProgram, NEW t \in Threads, NEW call \in Calls, NEW k \in BOOLEAN,
         SendsOn(t, call, k)
  PROVE  /\ Only(t, call.c, k)
         /\ ~Reading(t, call.c, k)
         /\ \A u \in Threads \ {t} : ~Writing(u, call.c, k) /\ ~Committed(u, call.c, k)
<1>0. /\ RightFile(t) /\ call.c \in Chans /\ MayWrite(t, call.c, k)
      /\ th[t].pc # "idle" => th[t].call = call /\ th[t].pc \in SendPcs
  BY DEF Settled, InProgram, SendsOn, MayWrite, MayCall, PcsOf, SendOps, Calls
<1>1. Only(t, call.c, k)
  BY <1>0 DEF Only, Writing, Reading, Committed, RightFile, OutPcs, WritePcs, ReadPcs, SendPcs, SendsOn
<1>2. ~Reading(t, call.c, k)
  BY <1>0 DEF Reading, ReadPcs, SendPcs
<1>3. \A u \in Threads \ {t} : ~Writing(u, call.c, k) /\ ~Committed(u, call.c, k)
  BY <1>0, WhoMay DEF Disciplined, OneWriter
<1> QED
  BY <1>1, <1>2, <1>3

LEMMA TakerAlone ==
  ASSUME Disciplined, Settled, InProgram, NEW t \in Threads, NEW call \in Calls, NEW k \in BOOLEAN,
         TakesOn(t, call, k)
  PROVE  /\ Only(t, call.c, k)
         /\ ~Writing(t, call.c, k) /\ ~Committed(t, call.c, k)
         /\ \A u \in Threads \ {t} : ~Reading(u, call.c, k)
<1>0. /\ RightFile(t) /\ call.c \in Chans /\ MayRead(t, call.c, k)
      /\ th[t].pc # "idle" => th[t].call = call /\ th[t].pc \in RecvPcs \cup DropPcs
  BY DEF Settled, InProgram, TakesOn, MayRead, MayCall, PcsOf, TakeOps, Calls
<1>1. Only(t, call.c, k)
  BY <1>0 DEF Only, Writing, Reading, Committed, RightFile, InPcs, WritePcs, ReadPcs, RecvPcs,
              DropPcs, TakesOn
<1>2. ~Writing(t, call.c, k) /\ ~Committed(t, call.c, k)
  BY <1>0 DEF Writing, Committed, WritePcs, RecvPcs, DropPcs
<1>3. \A u \in Threads \ {t} : ~Reading(u, call.c, k)
  BY <1>0, WhoMay DEF Disciplined, OneReader
<1> QED
  BY <1>1, <1>2, <1>3

LEMMA OthersSame ==
  ASSUME ThreadsOK, NEW t \in Threads
  PROVE  /\ \A f : Goto(t, f) => \A u \in Threads \ {t} : Same(u)
         /\ \A call, n, heard : ReturnHeard(t, call, n, heard) => \A u \in Threads \ {t} : Same(u)
         /\ \A call, n : Return(t, call, n) => \A u \in Threads \ {t} : Same(u)
BY DEF ThreadsOK, Goto, Return, ReturnHeard, Same

LEMMA PutsOne ==
  ASSUME FilesOK, NEW c \in Chans, NEW k \in BOOLEAN, NEW q, Put(c, k, q)
  PROVE  /\ files'[c][k] = q
         /\ \A d \in Chans, l \in BOOLEAN : d # c \/ l # k => files'[d][l] = files[d][l]
BY DEF FilesOK, Put

\* After its step the thread is at the same file as before.
LEMMA SenderNext ==
  ASSUME NEW t \in Threads, NEW call \in Calls, NEW k \in BOOLEAN, SendsOn(t, call, k),
         Leaves(t, call, k, OutPcs)
  PROVE  Only(t, call.c, k)' /\ ~Reading(t, call.c, k)'
<1>1. CASE th'[t] = Idle
  BY <1>1, FrameParts DEF Only, Writing, Reading, Committed, WritePcs, ReadPcs
<1>2. CASE th'[t].pc \in OutPcs /\ th'[t].call = call /\ th'[t].rb = k
  BY <1>2 DEF Only, Writing, Reading, Committed, OutPcs, WritePcs, ReadPcs, SendsOn
<1> QED
  BY <1>1, <1>2 DEF Leaves

LEMMA TakerNext ==
  ASSUME NEW t \in Threads, NEW call \in Calls, NEW k \in BOOLEAN, TakesOn(t, call, k),
         Leaves(t, call, k, InPcs)
  PROVE  /\ Only(t, call.c, k)'
         /\ ~Writing(t, call.c, k)' /\ ~Committed(t, call.c, k)'
<1>1. CASE th'[t] = Idle
  BY <1>1, FrameParts DEF Only, Writing, Reading, Committed, WritePcs, ReadPcs
<1>2. CASE th'[t].pc \in InPcs /\ th'[t].call = call /\ th'[t].rb = k
  BY <1>2 DEF Only, Writing, Reading, Committed, InPcs, WritePcs, ReadPcs
<1> QED
  BY <1>1, <1>2 DEF Leaves

--------------------------------------------------------------------------------
(* The writer of a file *)

\* What the reader holds does not depend on what goes in behind it.
LEMMA TakesKept ==
  ASSUME NEW t \in Threads, NEW c \in Chans, NEW k \in BOOLEAN, NEW took, Takes(c, k, took),
         HistoryOK, \A u \in Threads \ {t} : Same(u), ~Reading(t, c, k), ~Reading(t, c, k)',
         rcvd'[c][k] = rcvd[c][k],
         NEW m \in Messages, sent'[c][k] \in {sent[c][k], Append(sent[c][k], m)}
  PROVE  Takes(c, k, took)'
<1> DEFINE s == sent[c][k]
           i == Len(rcvd[c][k]) + 1
<1>1. s \in Seq(Messages) /\ Len(s) \in Nat /\ Len(rcvd[c][k]) \in Nat
  BY LenProperties DEF HistoryOK
<1>2. i <= Len(s) => i <= Len(sent'[c][k]) /\ sent'[c][k][i] = s[i]
  <2>1. CASE sent'[c][k] = s
    BY <2>1
  <2>2. CASE sent'[c][k] = Append(s, m)
    <3>1. /\ Len(Append(s, m)) = Len(s) + 1
          /\ \A j \in 1..Len(s) : Append(s, m)[j] = s[j]
      BY <1>1, AppendProperties
    <3> QED
      BY <1>1, <2>2, <3>1
  <2> QED
    BY <2>1, <2>2
<1>3. ASSUME NEW u \in Threads, Reading(u, c, k)'
      PROVE  Holds(u, c, k, took)'
  <2>1. u # t /\ Same(u)
    BY <1>3
  <2>2. Reading(u, c, k)
    BY <1>3, <2>1 DEF Reading, Same
  <2>3. Holds(u, c, k, took)
    BY <2>2 DEF Takes
  <2>4. i <= Len(s)
    BY <1>1, <2>3 DEF Holds
  <2>5. sent'[c][k][i] = s[i] /\ Len(rcvd[c][k]) < Len(sent'[c][k])
    <3>1. i <= Len(sent'[c][k]) /\ Len(sent'[c][k]) \in Nat
      <4>1. sent'[c][k] \in Seq(Messages)
        BY <1>1, AppendProperties, ZenonT(40)
      <4> QED
        BY <1>2, <2>4, <4>1, LenProperties
    <3> QED
      BY <1>1, <1>2, <2>4, <3>1
  <2> QED
    BY <2>1, <2>3, <2>5 DEF Holds, Same
<1>4. ASSUME \A u \in Threads : ~Reading(u, c, k)'
      PROVE  took = 0
  <2>1. \A u \in Threads : ~Reading(u, c, k)
    BY <1>4 DEF Reading, Same
  <2> QED
    BY <2>1 DEF Takes
<1> QED
  BY <1>3, <1>4 DEF Takes

\* The data loop: call.n - bytes bytes of the last message are still to go in.
LEMMA SendLoopStep ==
  ASSUME Disciplined, Base, Streams, UNCHANGED <<chan, rcvd>>,
         NEW t \in Threads, NEW call \in Calls, NEW k \in BOOLEAN, SendsOn(t, call, k),
         NEW q \in Rings, NEW bytes \in 0..call.n, SendLoop(t, call, k, q, bytes),
         NEW s \in Seq(Messages), sent' = [sent EXCEPT ![call.c][k] = s],
         s \in {sent[call.c][k], Append(sent[call.c][k], Message(t, call))},
         Len(s) > 0, s[Len(s)] = Message(t, call),
         NEW took, Stream(q, s, rcvd[call.c][k], call.n - bytes, took), Takes(call.c, k, took)
  PROVE  Streams'
<1> DEFINE c == call.c
           d == rcvd[c][k]
           m == Message(t, call)
           owed == call.n - bytes
           rest == Rest(m, bytes)
           chunk == Least(RbFree(q), Len(rest))
<1>0. /\ ThreadsOK /\ FilesOK /\ HistoryOK /\ Settled /\ InProgram
      /\ c \in Chans /\ d \in Seq(Seq(CellSet)) /\ call.n \in Nat /\ bytes \in Nat /\ owed \in Nat
  BY DEF Base, TypeOK, HistoryOK, Calls
<1>1. m \in Messages /\ m.size = call.n
  BY <1>0, MessageType
<1>2. /\ Only(t, c, k) /\ ~Reading(t, c, k)
      /\ \A u \in Threads \ {t} : ~Writing(u, c, k) /\ ~Committed(u, c, k)
  BY <1>0, SenderAlone
<1>3. Leaves(t, call, k, WritePcs)
  BY <1>0, SendLoopLeaves
<1>4. Only(t, c, k)' /\ ~Reading(t, c, k)'
  <2>1. Leaves(t, call, k, OutPcs)
    BY <1>3 DEF Leaves, OutPcs
  <2> QED
    BY <2>1, SenderNext
<1>5. \A u \in Threads \ {t} : Same(u)
  BY <1>0, OthersSame DEF SendLoop
<1>6. sent'[c][k] = s /\ \A e \in Chans, l \in BOOLEAN : e # c \/ l # k => sent'[e][l] = sent[e][l]
  BY <1>0 DEF HistoryOK
<1>7. Takes(c, k, took)'
  BY <1>0, <1>1, <1>2, <1>4, <1>5, <1>6, TakesKept, ZenonT(40)
<1>8. \A u \in Threads \ {t} : ~Writing(u, c, k)' /\ ~Committed(u, c, k)'
  BY <1>2, <1>5 DEF Same, Writing, Committed
<1>9. PICK r : Put(c, k, r)
  BY DEF SendLoop
<1>10. files'[c][k] = r /\ \A e \in Chans, l \in BOOLEAN : e # c \/ l # k => files'[e][l] = files[e][l]
  BY <1>0, <1>9, PutsOne
<1>11. ASSUME NEW n, th'[t].pc \in WritePcs, th'[t].call = call, th'[t].rb = k,
              th'[t].bytes = n, ret' = ret
       PROVE  Owes(c, k, call.n - n)'
  <2>1. Writing(t, c, k)'
    BY <1>11 DEF Writing
  <2>2. Message(t, th[t].call)' = m
    BY <1>11 DEF Message
  <2>3. ASSUME NEW u \in Threads, Writing(u, c, k)' PROVE u = t
    BY <1>8, <2>3
  <2> QED
    BY <1>6, <1>11, <2>1, <2>2, <2>3 DEF Owes
<1>12. FileOK(c, k)'
  <2>1. CASE Closed(c) /\ Put(c, k, q) /\ Return(t, call, bytes)
    <3>1. th'[t] = Idle /\ files'[c][k] = q
      <4>1. th'[t] = Idle
        BY <1>0, <2>1, GotoChanges
      <4>2. files'[c][k] = q
        BY <1>0, <2>1, PutsOne
      <4> QED
        BY <4>1, <4>2
    <3>2. ~Writing(t, c, k)' /\ ~Committed(t, c, k)'
      BY <3>1, FrameParts DEF Writing, Committed, WritePcs
    <3>3. Closed(c)'
      BY <2>1 DEF Closed
    <3>4. Owes(c, k, owed)'
      <4>1. \A u \in Threads : ~Writing(u, c, k)' /\ ~Committed(u, c, k)'
        BY <1>8, <3>2
      <4> QED
        BY <3>3, <4>1 DEF Owes
    <3> QED
      BY <1>6, <1>7, <3>1, <3>4 DEF FileOK
  <2>2. CASE Put(c, k, RbAdd(q, rest)) /\ Goto(t, SendFrame("send_sent", call, k, bytes + chunk))
    <3>0. PICK total : total = bytes + chunk
      OBVIOUS
    <3>1. /\ th'[t].pc = "send_sent" /\ th'[t].call = call /\ th'[t].rb = k
          /\ th'[t].bytes = total /\ ret' = ret
      <4>1. th'[t] = SendFrame("send_sent", call, k, total) /\ ret' = ret
        BY <1>0, <2>2, <3>0, GotoChanges DEF Goto
      <4> QED
        BY <4>1, FrameParts
    <3>2. Len(rest) = owed /\ chunk \in Int
      <4>1. HdrSize + bytes \in Nat /\ rest = Cells(m, HdrSize + bytes, owed)
        BY <1>0, <1>1, ChannelAssumption DEF Rest
      <4>2. Len(rest) = owed
        BY <1>0, <1>1, <4>1, CellsType
      <4>3. RbFree(q) \in Nat
        BY RingFacts, AddFits DEF Rings
      <4> QED
        BY <1>0, <4>2, <4>3 DEF Least
    <3>3. Owes(c, k, call.n - total)'
      BY <1>11, <3>1 DEF WritePcs
    <3>4. call.n - total = owed - Least(RbFree(q), owed)
      BY <1>0, <3>0, <3>2
    <3>5. Stream(RbAdd(q, rest), s, d, owed - Least(RbFree(q), owed), took)
      <4>1. BufSize \in Words /\ bytes + owed = s[Len(s)].size
        BY <1>0, <1>1 DEF Disciplined, WholeWords
      <4> QED
        BY <1>0, <4>1, DataGoesIn
    <3>6. files'[c][k] = RbAdd(q, rest)
      BY <1>0, <2>2, PutsOne
    <3>7. PICK left : left = owed - Least(RbFree(q), owed)
      OBVIOUS
    <3>8. Owes(c, k, left)' /\ Stream(files'[c][k], s, d, left, took)
      BY <3>3, <3>4, <3>5, <3>6, <3>7
    <3> QED
      BY <1>6, <1>7, <3>8 DEF FileOK
  <2>3. CASE Put(c, k, q) /\ Goto(t, SendFrame("send_loop", call, k, bytes))
    <3>1. /\ th'[t].pc = "send_loop" /\ th'[t].call = call /\ th'[t].rb = k
          /\ th'[t].bytes = bytes /\ ret' = ret
      <4>1. th'[t] = SendFrame("send_loop", call, k, bytes) /\ ret' = ret
        BY <1>0, <2>3, GotoChanges DEF Goto
      <4> QED
        BY <4>1, FrameParts
    <3>2. Owes(c, k, owed)'
      BY <1>11, <3>1 DEF WritePcs
    <3>3. files'[c][k] = q
      BY <1>0, <2>3, PutsOne
    <3> QED
      BY <1>6, <1>7, <3>2, <3>3 DEF FileOK
  <2> QED
    BY <2>1, <2>2, <2>3 DEF SendLoop, SendStops
<1>13. \A e \in Chans, l \in BOOLEAN : e # c \/ l # k => SameFile(e, l)
  BY <1>6, <1>10 DEF SameFile
<1>14. StayClosed
  BY DEF StayClosed, Closed
<1> QED
  BY <1>0, <1>2, <1>4, <1>5, <1>12, <1>13, <1>14, FileStep

\* A full ring buffer takes nothing, and no bytes taken leave it as it is.
LEMMA NothingMoves ==
  ASSUME NEW q \in Rings
  PROVE  /\ \A data \in Seq(CellSet) : RbFree(q) = 0 => RbAdd(q, data) = q
         /\ RbDrop(q, 0) = q
<1>0. q \in Seq(CellSet) /\ Len(q) \in Nat
  BY RingFacts
<1>1. ASSUME NEW data \in Seq(CellSet), RbFree(q) = 0 PROVE RbAdd(q, data) = q
  <2> DEFINE r == RbAdd(q, data)
  <2>1. r \in Seq(CellSet) /\ Len(r) = Len(q)
    BY <1>0, <1>1, AddFits, LenProperties DEF Rings, Least
  <2>2. \A i \in 1..Len(r) : r[i] = q[i]
    BY <1>0, <2>1, AddedCells
  <2> QED
    BY <1>0, <2>1, <2>2, SeqEqual
<1>2. RbDrop(q, 0) = q
  <2> DEFINE r == RbDrop(q, 0)
  <2>1. Least(0, Len(q)) = 0
    BY <1>0 DEF Least
  <2>2. r \in Seq(CellSet) /\ Len(r) = Len(q)
    BY <1>0, <2>1, GetAndDrop
  <2>3. \A i \in 1..Len(r) : r[i] = q[i]
    <3> TAKE i \in 1..Len(r)
    <3>1. r[i] = q[i + 0]
      BY <2>1, DroppedCells
    <3>2. i + 0 = i
      BY <1>0, <2>2
    <3> QED
      BY <3>1, <3>2
  <2> HIDE DEF r
  <2>4. r = q
    BY <1>0, <2>2, <2>3, SeqEqual
  <2> QED
    BY <2>4 DEF r
<1> QED
  BY <1>1, <1>2

LEMMA PutsBack ==
  ASSUME FilesOK, NEW c \in Chans, NEW k \in BOOLEAN, Put(c, k, files[c][k])
  PROVE  files' = files
BY DEF FilesOK, Put

\* A header goes in, or the sender stays out.
LEMMA SendHeaderStep ==
  ASSUME Disciplined, Base, Streams, UNCHANGED <<chan, rcvd>>,
         NEW t \in Threads, NEW call \in Calls, NEW k \in BOOLEAN, SendsOn(t, call, k),
         th[t].pc \in {"idle", "send", "send_body", "send_hdr"},
         Committed(t, call.c, k) \/ ~Closed(call.c), SendHeader(t, call, k)
  PROVE  Streams'
<1> DEFINE c == call.c
           q == files[c][k]
           s == sent[c][k]
           d == rcvd[c][k]
           m == Message(t, call)
           torn == RbAdd(q, Header(m))
<1>0. /\ ThreadsOK /\ FilesOK /\ HistoryOK /\ Settled /\ InProgram
      /\ c \in Chans /\ d \in Seq(Seq(CellSet)) /\ s \in Seq(Messages)
      /\ q \in Rings /\ call.n \in Nat
  BY DEF Base, TypeOK, HistoryOK, FilesOK, Calls
<1>1. m \in Messages /\ m.size = call.n /\ call.n \in Words
  BY <1>0, MessageType DEF SendsOn, Disciplined, WholeWords
<1>2. \A u \in Threads : ~Writing(u, c, k)
  BY <1>0, SenderAlone DEF Writing, WritePcs
<1>3. PICK owed, took : Stream(q, s, d, owed, took) /\ Owes(c, k, owed) /\ Takes(c, k, took)
  BY <1>0 DEF Streams, FileOK
<1>4. owed = 0
  BY <1>2, <1>3 DEF Owes
<1>5. Header(m) \in Seq(CellSet)
  BY <1>1, HeaderCells
<1>6. CASE RbFree(q) >= HdrSize /\ sent' = Noted(sent, c, k, m) /\ SendLoop(t, call, k, torn, 0)
  <2>1. Stream(torn, Append(s, m), d, m.size, took)
    BY <1>0, <1>1, <1>3, <1>4, <1>6, HeaderGoesIn
  <2>2. torn \in Rings /\ 0 \in 0..call.n /\ call.n - 0 = m.size
    <3>1. torn \in Seq(CellSet) /\ Len(torn) <= BufSize
      BY <1>0, <1>5, AddFits DEF Rings
    <3> QED
      BY <1>0, <1>1, <3>1 DEF Rings
  <2>3. PICK z : z = Append(s, m)
    OBVIOUS
  <2>4. z \in Seq(Messages) /\ Len(z) > 0 /\ z[Len(z)] = m
    <3>1. z \in Seq(Messages) /\ Len(z) = Len(s) + 1 /\ z[Len(s) + 1] = m
      BY <1>0, <1>1, <2>3, AppendProperties
    <3> QED
      BY <1>0, <3>1, LenProperties
  <2>5. sent' = [sent EXCEPT ![c][k] = z]
    BY <1>0, <1>6, <2>3 DEF Noted, HistoryOK
  <2>6. PICK r : r = torn
    OBVIOUS
  <2>7. r \in Rings /\ SendLoop(t, call, k, r, 0) /\ Stream(r, z, d, call.n - 0, took)
    BY <1>6, <2>1, <2>2, <2>3, <2>6
  <2> QED
    BY <1>3, <2>2, <2>3, <2>4, <2>5, <2>7, SendLoopStep
<1>7. CASE /\ RbFree(q) < HdrSize /\ UNCHANGED sent
           /\ IF Closed(c)
              THEN Put(c, k, torn) /\ Return(t, call, 0)
              ELSE Put(c, k, RbDrop(torn, RbFree(q))) /\ Goto(t, Frame("send_hdr", call, k))
  <2>1. RbFree(q) = 0
    <3>1. BufSize \in Words /\ Len(q) \in Words /\ Len(q) <= BufSize
      BY <1>0, <1>3, RingFacts DEF Disciplined, WholeWords, Stream
    <3>2. RbFree(q) \in Words
      BY <3>1, WordFacts DEF RbFree
    <3> QED
      BY <1>7, <3>2, WordFacts
  <2>2. torn = q /\ RbDrop(q, 0) = q
    BY <1>0, <1>5, <2>1, NothingMoves
  <2>3. UNCHANGED files
    <3>1. Put(c, k, q)
      BY <1>7, <2>1, <2>2
    <3> QED
      BY <1>0, <3>1, PutsBack
  <2>4. \A u \in Threads \ {t} : Same(u)
    BY <1>0, <1>7, OthersSame
  <2>5. \/ th'[t].pc = "idle"
        \/ ~Closed(c) /\ th'[t].pc = "send_hdr" /\ th'[t].call = call
    <3>1. CASE Return(t, call, 0)
      BY <1>0, <3>1, GotoChanges, FrameParts
    <3>2. CASE ~Closed(c) /\ Goto(t, Frame("send_hdr", call, k))
      <4>1. th'[t] = Frame("send_hdr", call, k)
        BY <1>0, <3>2, GotoChanges
      <4> QED
        BY <3>2, <4>1, FrameParts
    <3> QED
      BY <1>7, <3>1, <3>2
  <2>6. \A e \in Chans, l \in BOOLEAN : Passive(t, e, l)
    BY <2>5 DEF Passive, Aside, Writing, Reading, Committed, WritePcs, ReadPcs
  <2>7. StayClosed
    BY DEF StayClosed, Closed
  <2> QED
    BY <1>7, <2>3, <2>4, <2>6, <2>7, QuietStep
<1> QED
  BY <1>6, <1>7 DEF SendHeader

\* A step of one thread that is not in the middle of a message.
LEMMA QuietThread ==
  ASSUME Streams, UNCHANGED <<files, sent, rcvd>>, StayClosed,
         NEW t \in Threads, \A u \in Threads \ {t} : Same(u),
         th[t].pc \notin WritePcs \cup ReadPcs, th'[t].pc \notin WritePcs \cup ReadPcs,
         th'[t].pc \in {"send", "send_body", "send_hdr"} =>
           \/ ~Closed(th'[t].call.c)
           \/ th[t].pc \in {"send", "send_body", "send_hdr"} /\ th'[t].call = th[t].call
  PROVE  Streams'
<1>1. \A c \in Chans, k \in BOOLEAN : Passive(t, c, k)
  BY DEF Passive, Aside, Writing, Reading, Committed
<1> QED
  BY <1>1, QuietStep

LEMMA SendsStep ==
  ASSUME Disciplined, Base, Streams, NEW t \in Threads, Sends(t),
         (\A c \in Chans : ~Closed(c)) \/ (\A call \in OwnCalls(t) : call.op # "send_msg")
  PROVE  Streams'
<1> DEFINE f == th[t]
<1>0. /\ ThreadsOK /\ FilesOK /\ HistoryOK /\ Settled /\ InProgram /\ CreatorsStay /\ RightFile(t)
      /\ f.pc # "idle" =>
           /\ f.call \in Calls /\ f.call.c \in Chans /\ f.rb \in BOOLEAN
           /\ f.bytes \in 0..f.call.n /\ f.call \in OwnCalls(t) /\ f.pc \in PcsOf(f.call.op)
      /\ \A call \in NextCalls(t) : call \in OwnCalls(t) /\ call \in Calls
  BY FrameFacts, NextIsOwn, NextCallsType DEF Base, TypeOK, Settled, InProgram
<1>1. f.pc \in SendPcs => f.pc # "idle" /\ f.call.op \in SendOps
  BY <1>0 DEF PcsOf, SendPcs, RecvPcs, DropPcs, SendOps
<1>2. UNCHANGED chan => StayClosed
  BY DEF StayClosed, Closed
<1>3. ASSUME f.pc \in {"send", "send_body"}, SendBody(t, f.call), UNCHANGED <<chan, rcvd>>
      PROVE  Streams'
  <2>1. CASE Return(t, f.call, 0) /\ UNCHANGED <<files, sent>>
    <3>1. th'[t].pc = "idle" /\ \A u \in Threads \ {t} : Same(u)
      BY <1>0, <2>1, GotoChanges, OthersSame, FrameParts
    <3> QED
      BY <1>2, <1>3, <2>1, <3>1, QuietThread DEF WritePcs, ReadPcs
  <2>2. CASE SendHeader(t, f.call, OutFile(t, f.call.c))
    <3>1. PICK k \in BOOLEAN : k = OutFile(t, f.call.c)
      BY DEF OutFile
    <3>2. f.pc \in SendPcs /\ k = (Creator[f.call.c] = t)
      BY <1>0, <1>3, <3>1, FilesOf DEF SendPcs
    <3>3. SendsOn(t, f.call, k) /\ Committed(t, f.call.c, k)
      BY <1>0, <1>1, <1>3, <3>2 DEF SendsOn, Committed
    <3> QED
      BY <1>0, <1>1, <1>3, <2>2, <3>1, <3>2, <3>3, SendHeaderStep
  <2> QED
    BY <1>3, <2>1, <2>2 DEF SendBody
<1>4. CASE SendSync(t)
  <2>1. CASE Synchronize(t, f.call, TRUE, "send_body")
    <3>1. th'[t] = Frame("send_body", f.call, FALSE) /\ \A u \in Threads \ {t} : Same(u)
      BY <1>0, <2>1, GotoChanges, OthersSame DEF Synchronize
    <3>2. th'[t].pc = "send_body" /\ th'[t].call = f.call /\ f.pc = "send"
      BY <1>4, <3>1 DEF Frame, SendSync, At
    <3> QED
      BY <1>2, <2>1, <3>1, <3>2, QuietThread DEF WritePcs, ReadPcs, Synchronize
  <2> QED
    BY <1>3, <1>4, <2>1 DEF SendSync, At
<1>5. CASE SendSynced(t)
  BY <1>3, <1>5 DEF SendSynced, At
<1>6. CASE SendMsgCall(t)
  <2>1. PICK call \in NextCalls(t) : /\ f.pc = "idle" /\ call.op = "send_msg"
                                    /\ SendHeader(t, call, OutFile(t, call.c))
                                    /\ UNCHANGED <<chan, rcvd>>
    BY <1>6 DEF SendMsgCall, Invokes
  <2>2. PICK k \in BOOLEAN : k = OutFile(t, call.c)
    BY DEF OutFile
  <2>3. call.c \in Chans /\ call \in Calls /\ SendsOn(t, call, k)
    BY <1>0, <2>1, <2>2, FilesOf DEF SendsOn, SendOps, Calls
  <2>4. ~Closed(call.c)
    BY <1>0, <2>1, <2>3
  <2> QED
    BY <2>1, <2>2, <2>3, <2>4, SendHeaderStep
<1>7. CASE SendHeaderAgain(t)
  <2>1. f.pc = "send_hdr" /\ SendHeader(t, f.call, f.rb) /\ UNCHANGED <<chan, rcvd>>
    BY <1>7 DEF SendHeaderAgain, At
  <2>2. f.pc \in SendPcs /\ f.rb = (Creator[f.call.c] = t)
    BY <1>0, <2>1 DEF RightFile, OutPcs, SendPcs
  <2>3. SendsOn(t, f.call, f.rb) /\ Committed(t, f.call.c, f.rb)
    BY <1>0, <1>1, <2>1, <2>2 DEF SendsOn, Committed
  <2> QED
    BY <1>0, <1>1, <2>1, <2>2, <2>3, SendHeaderStep
<1>8. ASSUME f.pc \in WritePcs, UNCHANGED <<chan, sent, rcvd>>
      PROVE  /\ f.pc \in SendPcs /\ SendsOn(t, f.call, f.rb)
             /\ Writing(t, f.call.c, f.rb)
             /\ Len(sent[f.call.c][f.rb]) > 0
             /\ sent[f.call.c][f.rb][Len(sent[f.call.c][f.rb])] = Message(t, f.call)
             /\ \E took : /\ Stream(files[f.call.c][f.rb], sent[f.call.c][f.rb],
                                    rcvd[f.call.c][f.rb], f.call.n - f.bytes, took)
                          /\ Takes(f.call.c, f.rb, took)
  <2>1. f.pc \in SendPcs /\ f.rb = (Creator[f.call.c] = t)
    BY <1>0, <1>8 DEF RightFile, OutPcs, WritePcs, SendPcs
  <2>2. SendsOn(t, f.call, f.rb) /\ Writing(t, f.call.c, f.rb)
    BY <1>0, <1>1, <1>8, <2>1 DEF SendsOn, Writing
  <2>3. FileOK(f.call.c, f.rb)
    BY <1>0, <1>1, <2>1 DEF Streams
  <2> QED
    BY <2>1, <2>2, <2>3 DEF FileOK, Owes
<1>9. ASSUME f.pc \in WritePcs, UNCHANGED <<chan, sent, rcvd>>,
             SendLoop(t, f.call, f.rb, files[f.call.c][f.rb], f.bytes)
      PROVE  Streams'
  <2>1. PICK took : /\ Stream(files[f.call.c][f.rb], sent[f.call.c][f.rb],
                              rcvd[f.call.c][f.rb], f.call.n - f.bytes, took)
                    /\ Takes(f.call.c, f.rb, took)
    BY <1>8, <1>9
  <2>2. PICK s : s = sent[f.call.c][f.rb]
    OBVIOUS
  <2>3. f.call \in Calls /\ f.rb \in BOOLEAN /\ f.bytes \in 0..f.call.n /\ f.call.c \in Chans
    BY <1>0, <1>1, <1>8, <1>9
  <2>4. /\ files[f.call.c][f.rb] \in Rings /\ s \in Seq(Messages)
        /\ sent' = [sent EXCEPT ![f.call.c][f.rb] = s]
    BY <1>0, <1>9, <2>2, <2>3 DEF FilesOK, HistoryOK
  <2>5. SendsOn(t, f.call, f.rb) /\ Len(s) > 0 /\ s[Len(s)] = Message(t, f.call)
    BY <1>8, <1>9, <2>2
  <2> QED
    BY <1>9, <2>1, <2>2, <2>3, <2>4, <2>5, SendLoopStep
<1>10. CASE SendResume(t)
  BY <1>9, <1>10 DEF SendResume, At, WritePcs
<1>11. CASE SendSent(t)
  <2>1. f.pc \in WritePcs /\ UNCHANGED <<chan, sent, rcvd>>
    BY <1>11 DEF SendSent, At, WritePcs
  <2>2. CASE f.bytes = f.call.n /\ Return(t, f.call, f.bytes) /\ UNCHANGED files
    <3>1. PICK c \in Chans, k \in BOOLEAN : c = f.call.c /\ k = f.rb
      BY <1>0, <1>1, <1>8, <2>1
    <3>2. SendsOn(t, f.call, k) /\ f.call \in Calls
      BY <1>0, <1>1, <1>8, <2>1, <3>1
    <3>3. /\ Only(t, c, k) /\ ~Reading(t, c, k)
          /\ \A u \in Threads \ {t} : ~Writing(u, c, k) /\ ~Committed(u, c, k)
      BY <1>0, <3>1, <3>2, SenderAlone
    <3>4. th'[t] = Idle /\ \A u \in Threads \ {t} : Same(u)
      BY <1>0, <2>2, GotoChanges, OthersSame
    <3>5. Only(t, c, k)' /\ ~Reading(t, c, k)' /\ ~Writing(t, c, k)'
      BY <3>4, FrameParts DEF Only, Reading, Writing, Committed, WritePcs, ReadPcs
    <3>6. PICK took : Stream(files[c][k], sent[c][k], rcvd[c][k], f.call.n - f.bytes, took) /\ Takes(c, k, took)
      BY <1>8, <2>1, <3>1
    <3>7. Stream(files[c][k], sent[c][k], rcvd[c][k], 0, took)
      <4>1. f.call.n - f.bytes = 0
        BY <2>2, <3>2 DEF Calls
      <4> QED
        BY <3>6, <4>1
    <3>8. Takes(c, k, took)'
      <4>1. Message(t, f.call) \in Messages
        BY <1>0, <3>2, MessageType
      <4> QED
        BY <1>0, <2>1, <3>3, <3>4, <3>5, <3>6, <4>1, TakesKept
    <3>9. Owes(c, k, 0)'
      <4>1. \A u \in Threads : ~Writing(u, c, k)'
        BY <3>3, <3>4, <3>5 DEF Same, Writing
      <4> QED
        BY <4>1 DEF Owes
    <3>10. FileOK(c, k)' /\ \A e \in Chans, l \in BOOLEAN : SameFile(e, l)
      BY <2>1, <2>2, <3>7, <3>8, <3>9 DEF FileOK, SameFile
    <3> QED
      BY <1>2, <2>1, <3>3, <3>4, <3>5, <3>10, FileStep
  <2> QED
    BY <1>9, <1>11, <2>1, <2>2 DEF SendSent
<1> QED
  BY <1>4, <1>5, <1>6, <1>7, <1>10, <1>11 DEF Sends

--------------------------------------------------------------------------------
(* The reader of a file *)

\* What the writer owes does not depend on what comes out.
LEMMA OwesKept ==
  ASSUME NEW t \in Threads, NEW c \in Chans, NEW k \in BOOLEAN, NEW owed, Owes(c, k, owed),
         \A u \in Threads \ {t} : Same(u), StayClosed, sent'[c][k] = sent[c][k],
         ~Writing(t, c, k), ~Writing(t, c, k)', ~Committed(t, c, k)'
  PROVE  Owes(c, k, owed)'
<1>1. ASSUME NEW u \in Threads, Writing(u, c, k)'
      PROVE  /\ owed = th'[u].call.n - th'[u].bytes
             /\ Len(sent'[c][k]) > 0
             /\ sent'[c][k][Len(sent'[c][k])] = Message(u, th[u].call)'
  <2>1. u # t /\ Same(u)
    BY <1>1
  <2>2. Writing(u, c, k)
    BY <1>1, <2>1 DEF Same, Writing
  <2> QED
    BY <2>1, <2>2 DEF Owes, Same, Message
<1>2. ASSUME \A u \in Threads : ~Writing(u, c, k)'
      PROVE  owed = 0 \/ (Closed(c)' /\ \A u \in Threads : ~Committed(u, c, k)')
  <2>1. \A u \in Threads : ~Writing(u, c, k)
    BY <1>2 DEF Same, Writing
  <2>2. owed = 0 \/ (Closed(c) /\ \A u \in Threads : ~Committed(u, c, k))
    BY <2>1 DEF Owes
  <2>3. ASSUME NEW u \in Threads \ {t}, ~Committed(u, c, k) PROVE ~Committed(u, c, k)'
    BY <2>3 DEF Same, Committed
  <2>4. Closed(c) => Closed(c)'
    BY DEF StayClosed
  <2>5. (\A u \in Threads : ~Committed(u, c, k)) => \A u \in Threads : ~Committed(u, c, k)'
    <3> SUFFICES ASSUME \A u \in Threads : ~Committed(u, c, k), NEW u \in Threads
                 PROVE  ~Committed(u, c, k)'
      OBVIOUS
    <3> QED
      BY <2>3
  <2> QED
    BY <2>2, <2>4, <2>5
<1> QED
  BY <1>1, <1>2 DEF Owes

\* t is between two chunks: out is what it has of the next message.
InHand(c, k, size, out) ==
  /\ Len(rcvd[c][k]) < Len(sent[c][k])
  /\ size = sent[c][k][Len(rcvd[c][k]) + 1].size
  /\ out = Cells(sent[c][k][Len(rcvd[c][k]) + 1], HdrSize, Len(out))

\* The reader goes on in its loop.
LEMMA ReaderGoesOn ==
  ASSUME Disciplined, Base, Streams, UNCHANGED <<chan, sent, rcvd>>,
         NEW t \in Threads, NEW call \in Calls, NEW k \in BOOLEAN, TakesOn(t, call, k),
         NEW size, NEW more, NEW r, Put(call.c, k, r), InHand(call.c, k, size, more),
         NEW owed, Owes(call.c, k, owed),
         Stream(r, sent[call.c][k], rcvd[call.c][k], owed, HdrSize + Len(more)),
         \A u \in Threads \ {t} : Same(u),
         th'[t].pc \in ReadPcs, th'[t].call = call, th'[t].rb = k, th'[t].size = size,
         th'[t].out = more,
         th'[t].pc \in {"recv_loop", "drop_loop"} => size = 0 \/ Len(more) < size
  PROVE  Streams'
<1> DEFINE c == call.c
<1>0. FilesOK /\ Settled /\ InProgram /\ c \in Chans
  BY DEF Base, TypeOK, Calls
<1>1. /\ Only(t, c, k) /\ ~Writing(t, c, k) /\ ~Committed(t, c, k)
      /\ \A u \in Threads \ {t} : ~Reading(u, c, k)
  BY <1>0, TakerAlone
<1>2. Only(t, c, k)' /\ ~Writing(t, c, k)' /\ ~Committed(t, c, k)'
  <2>1. Leaves(t, call, k, InPcs)
    BY DEF Leaves, InPcs
  <2> QED
    BY <2>1, TakerNext
<1>3. StayClosed
  BY DEF StayClosed, Closed
<1>4. Owes(c, k, owed)'
  BY <1>0, <1>1, <1>2, <1>3, OwesKept
<1>5. PICK took : took = HdrSize + Len(more)
  OBVIOUS
<1>6. Takes(c, k, took)'
  <2>1. \A u \in Threads \ {t} : ~Reading(u, c, k)'
    BY <1>1 DEF Same, Reading
  <2>2. Reading(t, c, k)'
    BY DEF Reading
  <2>3. Holds(t, c, k, took)'
    BY <1>5 DEF Holds, InHand
  <2>4. ASSUME NEW u \in Threads, Reading(u, c, k)'
        PROVE  Holds(u, c, k, took)'
    <3>1. u = t
      BY <2>1, <2>4
    <3> QED
      BY <2>3, <3>1
  <2> QED
    BY <2>2, <2>4 DEF Takes
<1>7. files'[c][k] = r /\ \A d \in Chans, l \in BOOLEAN : d # c \/ l # k => files'[d][l] = files[d][l]
  BY <1>0, PutsOne
<1>8. FileOK(c, k)'
  BY <1>4, <1>5, <1>6, <1>7 DEF FileOK
<1>9. \A d \in Chans, l \in BOOLEAN : d # c \/ l # k => SameFile(d, l)
  BY <1>7 DEF SameFile
<1> QED
  BY <1>0, <1>1, <1>2, <1>3, <1>8, <1>9, FileStep

\* A receive or a drop that a close cut short.
GaveUp(t) ==
  \E call \in OwnCalls(t), heard \in Int :
    Closed(call.c) /\ call.op \in ReceiveOps /\ ReturnHeard(t, call, 0, heard)

LEMMA RecvLoopStep ==
  ASSUME Disciplined, Base, Streams, UNCHANGED <<chan, sent, rcvd>>,
         NEW t \in Threads, NEW call \in Calls, NEW k \in BOOLEAN, TakesOn(t, call, k),
         NEW q \in Rings, NEW size \in Nat, NEW out \in Seq(CellSet),
         RecvLoop(t, call, k, size, q, out), InHand(call.c, k, size, out),
         Len(out) <= size, size = 0 \/ Len(out) < size,
         NEW owed, Owes(call.c, k, owed),
         Stream(q, sent[call.c][k], rcvd[call.c][k], owed, HdrSize + Len(out))
  PROVE  Streams' \/ GaveUp(t)
<1> DEFINE c == call.c
           chunk == RbGet(q, size - Len(out))
           more == out \o chunk
           s == sent[c][k]
           d == rcvd[c][k]
<1>0. /\ ThreadsOK /\ c \in Chans /\ s \in Seq(Messages) /\ d \in Seq(Seq(CellSet))
      /\ Len(out) \in Nat /\ call \in OwnCalls(t) /\ call.op \in ReceiveOps
  <2>1. ThreadsOK /\ c \in Chans /\ Len(out) \in Nat
    BY LenProperties DEF Base, TypeOK, Calls
  <2>2. s \in Seq(Messages) /\ d \in Seq(Seq(CellSet))
    BY <2>1 DEF Base, TypeOK, HistoryOK
  <2>3. call \in OwnCalls(t) /\ call.op \in ReceiveOps
    BY DEF TakesOn, TakeOps, ReceiveOps
  <2> QED
    BY <2>1, <2>2, <2>3
<1>1. \A u \in Threads \ {t} : Same(u)
  BY <1>0, OthersSame DEF RecvLoop
<1>2. CASE Closed(c) /\ ReturnHeard(t, call, IF Len(out) = size THEN size ELSE 0, Heard(out))
  <2>1. ReturnHeard(t, call, 0, Heard(out)) /\ Heard(out) \in Int
    BY <1>0, <1>2, HeardType
  <2> QED
    BY <1>0, <1>2, <2>1 DEF GaveUp
<1>3. CASE Put(c, k, RbDrop(q, Len(chunk))) /\ Goto(t, RecvFrame("recv_got", call, k, size, more))
  <2>1. /\ more = Cells(s[Len(d) + 1], HdrSize, Len(more))
        /\ Stream(RbDrop(q, Len(chunk)), s, d, owed, HdrSize + Len(more))
    BY <1>0, ChunkComesOut, ZenonT(40) DEF InHand
  <2>2. InHand(c, k, size, more)
    BY <2>1 DEF InHand
  <2> HIDE DEF more, chunk
  <2>3. /\ th'[t].pc = "recv_got" /\ th'[t].call = call /\ th'[t].rb = k
        /\ th'[t].size = size /\ th'[t].out = more
    <3>1. th'[t] = RecvFrame("recv_got", call, k, size, more)
      BY <1>0, <1>3, GotoChanges
    <3> QED
      BY <3>1, FrameParts
  <2> QED
    BY <1>1, <1>3, <2>1, <2>2, <2>3, ReaderGoesOn DEF ReadPcs
<1>4. CASE Put(c, k, q) /\ Goto(t, RecvFrame("recv_loop", call, k, size, out))
  <2>1. /\ th'[t].pc = "recv_loop" /\ th'[t].call = call /\ th'[t].rb = k
        /\ th'[t].size = size /\ th'[t].out = out
    <3>1. th'[t] = RecvFrame("recv_loop", call, k, size, out)
      BY <1>0, <1>4, GotoChanges
    <3> QED
      BY <3>1, FrameParts
  <2> QED
    BY <1>1, <1>4, <2>1, ReaderGoesOn DEF ReadPcs
<1> QED
  BY <1>2, <1>3, <1>4 DEF RecvLoop, GivesUp

\* Nobody else waits for writes where a thread drops, so a drop never gives up in
\* the middle of a message.
LEMMA NobodyWaits ==
  ASSUME Disciplined, Base, NEW t \in Threads, status[t] = "ready",
         NEW call \in OwnCalls(t), call.op = "drop"
  PROVE  blocked[call.c]["write"] = NoThread
<1> SUFFICES ASSUME blocked[call.c]["write"] # NoThread PROVE FALSE
  OBVIOUS
<1> DEFINE u == blocked[call.c]["write"]
<1>1. call.c \in Chans /\ "write" \in Slots
  BY DEF OwnCalls, Calls, Slots
<1>2. u \in Threads /\ u # t
  BY <1>1, RunsAlone DEF Base, TypeOK, SchedOK
<1>3. th[u].pc \in WaitsAt("write") /\ th[u].call.c = call.c
  BY <1>1 DEF Base, WaiterAsleep
<1>4. th[u].call \in OwnCalls(u) /\ th[u].pc \in PcsOf(th[u].call.op)
  BY <1>2, <1>3 DEF Base, InProgram, WaitsAt
<1>5. "write" \in SlotsOf(th[u].call.op)
  BY <1>3, <1>4 DEF WaitsAt, PcsOf, SendPcs, RecvPcs, DropPcs, SlotsOf, Slots
<1>6. MayWait(u, call.c, "write") /\ MayCall(t, call.c, {"drop"})
  BY <1>3, <1>4, <1>5 DEF MayWait, MayCall
<1> QED
  BY <1>1, <1>2, <1>6 DEF Disciplined, DropsAlone

LEMMA DropWaitStep ==
  ASSUME Disciplined, Base, Streams, UNCHANGED <<chan, sent, rcvd>>,
         NEW t \in Threads, status[t] = "ready", NEW f \in Frames, f.call \in Calls,
         TakesOn(t, f.call, f.rb), f.call.op = "drop",
         NEW q \in Rings, DropWait(t, f, q), InHand(f.call.c, f.rb, f.size, f.out),
         f.size = 0 \/ Len(f.out) < f.size,
         NEW owed, Owes(f.call.c, f.rb, owed),
         Stream(q, sent[f.call.c][f.rb], rcvd[f.call.c][f.rb], owed, HdrSize + Len(f.out))
  PROVE  Streams'
<1>1. ThreadsOK /\ f.rb \in BOOLEAN /\ f.call \in OwnCalls(t)
  BY DEF Base, TypeOK, Frames, TakesOn
<1>2. blocked[f.call.c]["write"] = NoThread
  BY <1>1, NobodyWaits
<1>3. Put(f.call.c, f.rb, q) /\ Goto(t, [f EXCEPT !.pc = "drop_loop"])
  BY <1>2 DEF DropWait
<1>4. \A u \in Threads \ {t} : Same(u)
  BY <1>1, <1>3, OthersSame
<1>5. /\ th'[t].pc = "drop_loop" /\ th'[t].call = f.call /\ th'[t].rb = f.rb
      /\ th'[t].size = f.size /\ th'[t].out = f.out
  <2>1. th'[t] = [f EXCEPT !.pc = "drop_loop"]
    BY <1>1, <1>3, GotoChanges
  <2> QED
    BY <2>1 DEF Frames
<1> QED
  BY <1>1, <1>3, <1>4, <1>5, ReaderGoesOn DEF ReadPcs

LEMMA DropLoopStep ==
  ASSUME Disciplined, Base, Streams, UNCHANGED <<chan, sent, rcvd>>,
         NEW t \in Threads, status[t] = "ready",
         NEW call \in Calls, NEW k \in BOOLEAN, TakesOn(t, call, k), call.op = "drop",
         NEW q \in Rings, NEW size \in Nat, NEW out \in Seq(CellSet),
         DropLoop(t, call, k, size, q, out), InHand(call.c, k, size, out),
         Len(out) <= size, size = 0 \/ Len(out) < size,
         NEW owed, Owes(call.c, k, owed),
         Stream(q, sent[call.c][k], rcvd[call.c][k], owed, HdrSize + Len(out))
  PROVE  Streams' \/ GaveUp(t)
<1> DEFINE c == call.c
           chunk == RbGet(q, size - Len(out))
           left == RbDrop(q, Len(chunk))
           more == out \o chunk
           frame == RecvFrame("drop_dropped", call, k, size, more)
           s == sent[c][k]
           d == rcvd[c][k]
<1>0. /\ ThreadsOK /\ c \in Chans /\ s \in Seq(Messages) /\ d \in Seq(Seq(CellSet))
      /\ Len(out) \in Nat /\ call \in OwnCalls(t) /\ call.op \in ReceiveOps
  <2>1. ThreadsOK /\ c \in Chans /\ Len(out) \in Nat
    BY LenProperties DEF Base, TypeOK, Calls
  <2>2. s \in Seq(Messages) /\ d \in Seq(Seq(CellSet))
    BY <2>1 DEF Base, TypeOK, HistoryOK
  <2>3. call \in OwnCalls(t) /\ call.op \in ReceiveOps
    BY DEF TakesOn, ReceiveOps
  <2> QED
    BY <2>1, <2>2, <2>3
<1>1. more \in Seq(CellSet) /\ Len(more) <= size /\ left \in Rings
  BY ChunkType
<1>2. /\ more = Cells(s[Len(d) + 1], HdrSize, Len(more))
      /\ Stream(left, s, d, owed, HdrSize + Len(more))
  BY <1>0, ChunkComesOut, ZenonT(40) DEF InHand
<1>3. InHand(c, k, size, more)
  BY <1>2 DEF InHand
<1>4. CASE Closed(c) /\ ReturnHeard(t, call, IF Len(out) = size THEN size ELSE 0, Heard(out))
  <2>1. ReturnHeard(t, call, 0, Heard(out)) /\ Heard(out) \in Int
    BY <1>0, <1>4, HeardType
  <2> QED
    BY <1>0, <1>4, <2>1 DEF GaveUp
<1> HIDE DEF more, left, chunk
<1>5. /\ frame \in Frames /\ frame.pc = "drop_dropped" /\ frame.call = call /\ frame.rb = k
      /\ frame.size = size /\ frame.out = more
  <2>1. "drop_dropped" \in Pcs
    BY DEF Pcs
  <2>2. frame \in Frames
    BY <1>1, <2>1, RecvFrameType
  <2> QED
    BY <2>2, FrameParts
<1> HIDE DEF frame
<1>6. CASE Put(c, k, left) /\ Goto(t, frame)
  <2>1. th'[t] = frame /\ \A u \in Threads \ {t} : Same(u)
    BY <1>0, <1>6, GotoChanges, OthersSame
  <2> QED
    BY <1>2, <1>3, <1>5, <1>6, <2>1, ReaderGoesOn DEF ReadPcs
<1>7. CASE Len(more) = 0 /\ DropWait(t, frame, left)
  <2>1. size = 0 \/ Len(more) < size
    BY <1>7
  <2> QED
    BY <1>1, <1>2, <1>3, <1>5, <1>7, <2>1, DropWaitStep
<1> QED
  BY <1>4, <1>6, <1>7 DEF DropLoop, GivesUp, frame, more, left, chunk

\* The header of the next message, if it is there, says its size.
LEMMA TakeHeaderStep ==
  ASSUME Disciplined, Base, Streams, UNCHANGED <<chan, sent, rcvd>>,
         NEW t \in Threads, status[t] = "ready",
         NEW call \in Calls, NEW k \in BOOLEAN, TakesOn(t, call, k),
         th[t].pc \notin ReadPcs \cup WritePcs,
         RecvHeader(t, call, k) \/ (call.op = "drop" /\ DropHeader(t, call, k))
  PROVE  Streams' \/ GaveUp(t)
<1> DEFINE c == call.c
           q == files[c][k]
           s == sent[c][k]
           d == rcvd[c][k]
           rest == RbDrop(q, HdrSize)
<1>0. /\ ThreadsOK /\ Settled /\ InProgram /\ HdrSize \in Nat
      /\ c \in Chans /\ q \in Rings /\ s \in Seq(Messages) /\ d \in Seq(Seq(CellSet))
  BY ChannelAssumption DEF Base, TypeOK, HistoryOK, FilesOK, Calls
<1>1. CASE /\ UNCHANGED files
           /\ Goto(t, Frame("recv_hdr", call, k)) \/ Goto(t, Frame("drop_hdr", call, k))
  <2>1. /\ \A u \in Threads \ {t} : Same(u)
        /\ th'[t] = Frame("recv_hdr", call, k) \/ th'[t] = Frame("drop_hdr", call, k)
    BY <1>0, <1>1, GotoChanges, OthersSame
  <2>2. th'[t].pc \in {"recv_hdr", "drop_hdr"}
    BY <2>1, FrameParts
  <2>3. StayClosed
    BY DEF StayClosed, Closed
  <2> QED
    BY <1>1, <2>1, <2>2, <2>3, QuietThread DEF WritePcs, ReadPcs
<1>2. ASSUME Len(q) >= HdrSize, NEW size \in SizesIn(q),
             \/ RecvLoop(t, call, k, size, rest, <<>>)
             \/ call.op = "drop" /\ DropLoop(t, call, k, size, rest, <<>>)
      PROVE  Streams' \/ GaveUp(t)
  <2>1. \A u \in Threads : ~Reading(u, c, k)
    BY <1>0, TakerAlone DEF Reading
  <2>2. PICK owed : Stream(q, s, d, owed, 0) /\ Owes(c, k, owed)
    BY <1>0, <2>1 DEF Streams, FileOK, Takes
  <2>3. /\ Len(d) < Len(s) /\ size = s[Len(d) + 1].size
        /\ Stream(rest, s, d, owed, HdrSize)
    <3> HIDE DEF q, s, d
    <3>1. /\ Len(d) < Len(s) /\ SizesIn(q) = {s[Len(d) + 1].size}
          /\ Stream(RbDrop(q, HdrSize), s, d, owed, HdrSize)
      BY <1>0, <1>2, <2>2, HeaderComesOut
    <3> QED
      BY <1>2, <3>1
  <2>4. size \in Nat /\ rest \in Rings
    BY <1>0, <1>2, SizesType, RingFacts, DropType
  <2>5. <<>> \in Seq(CellSet) /\ Len(<<>>) = 0 /\ HdrSize + Len(<<>>) = HdrSize
    BY <1>0, EmptySeq
  <2>6. InHand(c, k, size, <<>>)
    <3> DEFINE m == s[Len(d) + 1]
    <3>1. Len(d) + 1 \in 1..Len(s)
      BY <1>0, <2>3, LenProperties
    <3>2. m \in Messages /\ 0 \in Nat
      BY <1>0, <3>1, ElementOfSeq
    <3>3. Cells(m, HdrSize, 0) \in Seq(CellSet) /\ Len(Cells(m, HdrSize, 0)) = 0
      <4> HIDE DEF m
      <4> QED
        BY <1>0, <3>2, CellsType
    <3>4. Cells(m, HdrSize, 0) = <<>>
      BY <3>3, EmptySeq
    <3> QED
      BY <2>3, <2>5, <3>4 DEF InHand
  <2>7. PICK r \in Rings : r = rest
    BY <2>4
  <2>8. /\ RecvLoop(t, call, k, size, r, <<>>)
            \/ (call.op = "drop" /\ DropLoop(t, call, k, size, r, <<>>))
        /\ Stream(r, s, d, owed, HdrSize + Len(<<>>))
        /\ Len(<<>>) <= size /\ (size = 0 \/ Len(<<>>) < size)
    <3> HIDE DEF rest, s, d
    <3> QED
      BY <1>2, <2>3, <2>4, <2>5, <2>7
  <2> QED
    BY <2>2, <2>4, <2>5, <2>6, <2>7, <2>8, RecvLoopStep, DropLoopStep
<1> QED
  BY <1>1, <1>2 DEF RecvHeader, DropHeader

\* A reader between two chunks has the beginning of the next message.
LEMMA ReaderHolds ==
  ASSUME Disciplined, Base, Streams, NEW t \in Threads, th[t].pc \in ReadPcs
  PROVE  /\ TakesOn(t, th[t].call, th[t].rb) /\ (th[t].pc \in DropPcs => th[t].call.op = "drop")
         /\ th[t].call \in Calls /\ th[t].rb \in BOOLEAN /\ th[t] \in Frames
         /\ th[t].size \in Nat /\ th[t].out \in Seq(CellSet) /\ Len(th[t].out) <= th[t].size
         /\ files[th[t].call.c][th[t].rb] \in Rings
         /\ InHand(th[t].call.c, th[t].rb, th[t].size, th[t].out)
         /\ th[t].pc \in {"recv_loop", "drop_loop"} => th[t].size = 0 \/ Len(th[t].out) < th[t].size
         /\ \E owed : /\ Owes(th[t].call.c, th[t].rb, owed)
                      /\ Stream(files[th[t].call.c][th[t].rb], sent[th[t].call.c][th[t].rb],
                                rcvd[th[t].call.c][th[t].rb], owed, HdrSize + Len(th[t].out))
<1> DEFINE f == th[t]
<1>1. f.pc \in RecvPcs \cup DropPcs /\ f.pc # "idle"
  BY DEF ReadPcs, RecvPcs, DropPcs
<1>2. /\ f.call \in Calls /\ f.call.c \in Chans /\ f.rb \in BOOLEAN /\ f \in Frames
      /\ f.size \in Nat /\ f.out \in Seq(CellSet) /\ Len(f.out) <= f.size
      /\ files[f.call.c][f.rb] \in Rings
  BY <1>1, FrameFacts DEF Base, TypeOK, FilesOK
<1>3. f.call \in OwnCalls(t) /\ f.pc \in PcsOf(f.call.op) /\ f.rb = (Creator[f.call.c] # t)
  BY <1>1 DEF Base, InProgram, Settled, RightFile, InPcs
<1>4. TakesOn(t, f.call, f.rb) /\ (f.pc \in DropPcs => f.call.op = "drop")
  BY <1>1, <1>3 DEF TakesOn, TakeOps, PcsOf, SendPcs, RecvPcs, DropPcs
<1>5. Reading(t, f.call.c, f.rb)
  BY DEF Reading
<1>6. PICK owed, took : /\ Stream(files[f.call.c][f.rb], sent[f.call.c][f.rb],
                                  rcvd[f.call.c][f.rb], owed, took)
                        /\ Owes(f.call.c, f.rb, owed) /\ Takes(f.call.c, f.rb, took)
  BY <1>2 DEF Streams, FileOK
<1>7. Holds(t, f.call.c, f.rb, took)
  BY <1>5, <1>6 DEF Takes
<1>8. /\ InHand(f.call.c, f.rb, f.size, f.out) /\ took = HdrSize + Len(f.out)
      /\ f.pc \in {"recv_loop", "drop_loop"} => f.size = 0 \/ Len(f.out) < f.size
  BY <1>7 DEF Holds, InHand
<1> QED
  BY <1>2, <1>4, <1>6, <1>8

\* A message that is complete has been received.
LEMMA TakenStep ==
  ASSUME Disciplined, Base, Streams, UNCHANGED <<chan, sent>>,
         NEW t \in Threads, th[t].pc \in ReadPcs, Complete(th[t]), Taken(t, th[t])
  PROVE  Streams'
<1> DEFINE f == th[t]
<1>1. PICK call \in Calls, k \in BOOLEAN, out \in Seq(CellSet) : call = f.call /\ k = f.rb /\ out = f.out
  BY ReaderHolds
<1> DEFINE c == call.c
           s == sent[c][k]
           d == rcvd[c][k]
           m == s[Len(d) + 1]
<1>2. /\ TakesOn(t, call, k) /\ InHand(c, k, Len(out), out)
      /\ \E owed : Owes(c, k, owed) /\ Stream(files[c][k], s, d, owed, HdrSize + Len(out))
  <2>1. f.size = Len(out)
    BY <1>1 DEF Complete
  <2> QED
    BY <1>1, <2>1, ReaderHolds
<1>3. PICK owed : Owes(c, k, owed) /\ Stream(files[c][k], s, d, owed, HdrSize + Len(out))
  BY <1>2
<1>4. /\ ThreadsOK /\ Settled /\ InProgram /\ c \in Chans /\ files[c][k] \in Rings
      /\ s \in Seq(Messages) /\ d \in Seq(Seq(CellSet))
  BY DEF Base, TypeOK, HistoryOK, FilesOK, Calls
<1>5. Len(d) < Len(s) /\ Len(out) = m.size /\ out = Payload(m)
  <2>1. Len(d) < Len(s) /\ Len(out) = m.size /\ out = Cells(m, HdrSize, Len(out))
    BY <1>2 DEF InHand
  <2> HIDE DEF m
  <2> QED
    BY <2>1 DEF Payload
<1>6. Stream(files[c][k], s, Append(d, out), owed, 0)
  <2>1. Stream(files[c][k], s, d, owed, HdrSize + m.size)
    BY <1>3, <1>5
  <2>2. Stream(files[c][k], s, Append(d, Payload(m)), owed, 0)
    BY <1>4, <1>5, <2>1, MessageIsOut
  <2> QED
    BY <1>5, <2>2
<1>7. /\ rcvd'[c][k] = Append(d, out) /\ UNCHANGED files
      /\ \A e \in Chans, l \in BOOLEAN : e # c \/ l # k => rcvd'[e][l] = rcvd[e][l]
  <2>1. rcvd' = Noted(rcvd, c, k, out) /\ UNCHANGED files
    BY <1>1 DEF Taken
  <2> QED
    BY <1>4, <2>1 DEF Noted, Base, TypeOK, HistoryOK
<1>8. th'[t] = Idle /\ \A u \in Threads \ {t} : Same(u)
  BY <1>4, GotoChanges, OthersSame DEF Taken
<1>9. /\ Only(t, c, k) /\ ~Writing(t, c, k) /\ ~Committed(t, c, k)
      /\ \A u \in Threads \ {t} : ~Reading(u, c, k)
  BY <1>2, <1>4, TakerAlone
<1>10. Only(t, c, k)' /\ ~Writing(t, c, k)' /\ ~Committed(t, c, k)' /\ ~Reading(t, c, k)'
  BY <1>8, FrameParts DEF Only, Writing, Reading, Committed, WritePcs, ReadPcs
<1>11. StayClosed
  BY DEF StayClosed, Closed
<1>12. Owes(c, k, owed)'
  BY <1>3, <1>4, <1>8, <1>9, <1>10, <1>11, OwesKept
<1>13. Takes(c, k, 0)'
  <2>1. \A u \in Threads : ~Reading(u, c, k)'
    BY <1>8, <1>9, <1>10 DEF Same, Reading
  <2> QED
    BY <2>1 DEF Takes
<1>14. FileOK(c, k)'
  BY <1>6, <1>7, <1>12, <1>13 DEF FileOK
<1>15. \A e \in Chans, l \in BOOLEAN : e # c \/ l # k => SameFile(e, l)
  BY <1>7 DEF SameFile
<1> QED
  BY <1>4, <1>8, <1>9, <1>10, <1>11, <1>14, <1>15, FileStep

LEMMA TakesStep ==
  ASSUME Disciplined, Base, Streams, NEW t \in Threads, status[t] = "ready", Recvs(t) \/ Drops(t)
  PROVE  Streams' \/ GaveUp(t)
<1> DEFINE f == th[t]
           q == files[f.call.c][f.rb]
<1>0. /\ ThreadsOK /\ Settled /\ InProgram /\ CreatorsStay /\ RightFile(t)
      /\ f.pc # "idle" =>
           /\ f.call \in Calls /\ f.call.c \in Chans /\ f.rb \in BOOLEAN
           /\ f.call \in OwnCalls(t) /\ f.pc \in PcsOf(f.call.op)
      /\ \A call \in NextCalls(t) : call \in OwnCalls(t) /\ call \in Calls
  BY FrameFacts, NextIsOwn, NextCallsType DEF Base, TypeOK, Settled, InProgram
<1>1. /\ f.pc \in RecvPcs => f.pc # "idle" /\ f.call.op \in TakeOps
      /\ f.pc \in DropPcs => f.pc # "idle" /\ f.call.op \in TakeOps /\ f.call.op = "drop"
  BY <1>0 DEF PcsOf, SendPcs, RecvPcs, DropPcs, TakeOps
<1>2. UNCHANGED chan => StayClosed
  BY DEF StayClosed, Closed
<1>3. ASSUME f.pc \in {"recv", "recv_body", "recv_hdr", "drop", "drop_body", "drop_hdr"},
             NEW k \in BOOLEAN, k = (Creator[f.call.c] # t), UNCHANGED <<chan, sent, rcvd>>,
             RecvHeader(t, f.call, k) \/ (f.pc \in DropPcs /\ DropHeader(t, f.call, k))
      PROVE  Streams' \/ GaveUp(t)
  <2>1. f.pc \in RecvPcs \cup DropPcs /\ f.pc \notin ReadPcs \cup WritePcs
    BY <1>3 DEF RecvPcs, DropPcs, ReadPcs, WritePcs
  <2>2. f.call \in Calls /\ TakesOn(t, f.call, k)
    BY <1>0, <1>1, <1>3, <2>1 DEF TakesOn
  <2>3. RecvHeader(t, f.call, k) \/ (f.call.op = "drop" /\ DropHeader(t, f.call, k))
    BY <1>1, <1>3
  <2> QED
    BY <1>3, <2>1, <2>2, <2>3, TakeHeaderStep
<1>4. CASE RecvSync(t) \/ RecvSynced(t) \/ DropSync(t) \/ DropSynced(t)
  <2>1. f.pc \in {"recv", "recv_body", "drop", "drop_body"} /\ f.pc # "idle"
    BY <1>4 DEF RecvSync, RecvSynced, DropSync, DropSynced, At
  <2>2. PICK k \in BOOLEAN : k = InFile(t, f.call.c)
    BY DEF InFile
  <2>3. k = (Creator[f.call.c] # t)
    BY <1>0, <2>1, <2>2, FilesOf
  <2>4. CASE /\ UNCHANGED <<chan, files, sent, rcvd>>
             /\ \/ Goto(t, Frame("recv_body", f.call, FALSE)) \/ Goto(t, Frame("drop_body", f.call, FALSE))
                \/ Return(t, f.call, 0)
    <3>1. /\ \A u \in Threads \ {t} : Same(u)
          /\ \/ th'[t] = Frame("recv_body", f.call, FALSE) \/ th'[t] = Frame("drop_body", f.call, FALSE)
             \/ th'[t] = Idle
      BY <1>0, <2>4, GotoChanges, OthersSame
    <3>2. th'[t].pc \in {"recv_body", "drop_body", "idle"}
      BY <3>1 DEF Idle, Frame
    <3> QED
      BY <1>2, <2>1, <2>4, <3>1, <3>2, QuietThread DEF WritePcs, ReadPcs
  <2>5. CASE /\ UNCHANGED <<chan, sent, rcvd>>
             /\ RecvHeader(t, f.call, k) \/ (f.pc \in DropPcs /\ DropHeader(t, f.call, k))
    BY <1>3, <2>1, <2>3, <2>5
  <2>6. CASE RecvSync(t) \/ RecvSynced(t)
    BY <2>2, <2>4, <2>5, <2>6 DEF RecvSync, RecvSynced, RecvBody, Synchronize
  <2>7. CASE DropSync(t) \/ DropSynced(t)
    <3>1. f.pc \in DropPcs
      BY <2>7 DEF DropSync, DropSynced, At, DropPcs
    <3> QED
      BY <2>2, <2>4, <2>5, <2>7, <3>1 DEF DropSync, DropSynced, Synchronize
  <2> QED
    BY <1>4, <2>6, <2>7
<1>5. CASE RecvMsgCall(t)
  <2>1. PICK call \in NextCalls(t) : /\ f.pc = "idle" /\ call.op = "recv_msg"
                                    /\ RecvHeader(t, call, InFile(t, call.c))
                                    /\ UNCHANGED <<chan, sent, rcvd>>
    BY <1>5 DEF RecvMsgCall, Invokes
  <2>2. PICK k \in BOOLEAN : k = InFile(t, call.c)
    BY DEF InFile
  <2>3. call \in Calls /\ TakesOn(t, call, k)
    BY <1>0, <2>1, <2>2, FilesOf DEF TakesOn, TakeOps
  <2> QED
    BY <2>1, <2>2, <2>3, TakeHeaderStep DEF ReadPcs, WritePcs
<1>6. CASE RecvHeaderAgain(t) \/ DropHeaderAgain(t)
  <2>1. /\ f.pc \in {"recv_hdr", "drop_hdr"} /\ UNCHANGED <<chan, sent, rcvd>>
        /\ RecvHeader(t, f.call, f.rb) \/ (f.pc \in DropPcs /\ DropHeader(t, f.call, f.rb))
    BY <1>6 DEF RecvHeaderAgain, DropHeaderAgain, At, DropPcs
  <2>2. f.rb = (Creator[f.call.c] # t) /\ f.rb \in BOOLEAN
    BY <1>0, <2>1 DEF RightFile, InPcs
  <2> QED
    BY <1>3, <2>1, <2>2
<1>7. CASE RecvResume(t) \/ DropResume(t)
  <2>1. /\ f.pc \in {"recv_loop", "drop_loop"} /\ f.pc \in ReadPcs /\ UNCHANGED <<chan, sent, rcvd>>
        /\ \/ RecvLoop(t, f.call, f.rb, f.size, q, f.out)
           \/ f.pc \in DropPcs /\ DropLoop(t, f.call, f.rb, f.size, q, f.out)
    BY <1>7 DEF RecvResume, DropResume, At, ReadPcs, DropPcs
  <2>2. PICK owed : /\ Owes(f.call.c, f.rb, owed)
                    /\ Stream(q, sent[f.call.c][f.rb], rcvd[f.call.c][f.rb], owed, HdrSize + Len(f.out))
    BY <2>1, ReaderHolds
  <2>3. /\ TakesOn(t, f.call, f.rb) /\ (f.pc \in DropPcs => f.call.op = "drop")
        /\ f.call \in Calls /\ f.rb \in BOOLEAN /\ f.size \in Nat /\ f.out \in Seq(CellSet)
        /\ Len(f.out) <= f.size /\ q \in Rings /\ InHand(f.call.c, f.rb, f.size, f.out)
        /\ f.size = 0 \/ Len(f.out) < f.size
    BY <2>1, ReaderHolds
  <2> QED
    BY <2>1, <2>2, <2>3, RecvLoopStep, DropLoopStep
<1>8. ASSUME f.pc \in {"recv_got", "drop_dropped"}, ~Complete(f), UNCHANGED <<chan, sent, rcvd>>,
             \/ RecvLoop(t, f.call, f.rb, f.size, q, f.out)
             \/ f.pc \in DropPcs /\ DropWait(t, f, q)
      PROVE  Streams' \/ GaveUp(t)
  <2>1. f.pc \in ReadPcs
    BY <1>8 DEF ReadPcs
  <2>2. PICK owed : /\ Owes(f.call.c, f.rb, owed)
                    /\ Stream(q, sent[f.call.c][f.rb], rcvd[f.call.c][f.rb], owed, HdrSize + Len(f.out))
    BY <2>1, ReaderHolds
  <2>3. /\ TakesOn(t, f.call, f.rb) /\ (f.pc \in DropPcs => f.call.op = "drop")
        /\ f.call \in Calls /\ f.rb \in BOOLEAN /\ f.size \in Nat /\ f.out \in Seq(CellSet)
        /\ Len(f.out) <= f.size /\ q \in Rings /\ InHand(f.call.c, f.rb, f.size, f.out)
        /\ f \in Frames
    BY <2>1, ReaderHolds
  <2>4. Len(f.out) < f.size
    BY <1>8, <2>3, LenProperties DEF Complete
  <2> QED
    BY <1>8, <2>2, <2>3, <2>4, RecvLoopStep, DropWaitStep
<1>9. CASE RecvGot(t) \/ DropDropped(t)
  <2>1. /\ f.pc \in {"recv_got", "drop_dropped"} /\ f.pc \in ReadPcs /\ UNCHANGED <<chan, sent>>
        /\ \/ Complete(f) /\ Taken(t, f)
           \/ /\ ~Complete(f) /\ UNCHANGED rcvd
              /\ \/ RecvLoop(t, f.call, f.rb, f.size, q, f.out)
                 \/ f.pc \in DropPcs /\ DropWait(t, f, q)
    BY <1>9 DEF RecvGot, DropDropped, At, ReadPcs, DropPcs
  <2> QED
    BY <1>8, <2>1, TakenStep
<1> QED
  BY <1>4, <1>5, <1>6, <1>7, <1>9 DEF Recvs, Drops

--------------------------------------------------------------------------------
(* Every step *)

\* A channel that nobody is in a call on has new files, and the others have theirs.
LEMMA MakeStep ==
  ASSUME Disciplined, Base, Streams, NEW t \in Threads, Make(t), StayClosed, MadeUnused
  PROVE  Streams'
<1>0. FilesOK /\ HistoryOK /\ ThreadsOK /\ Settled
  BY DEF Base, TypeOK
<1>1. /\ th[t].pc = "idle" /\ th'[t] = Idle
      /\ \A u \in Threads \ {t} : Same(u)
  BY MakesOwn DEF Same
<1>2. PICK d \in Chans : /\ files' = [files EXCEPT ![d] = NewFiles]
                         /\ sent' = [sent EXCEPT ![d] = NewFiles]
                         /\ rcvd' = [rcvd EXCEPT ![d] = NewFiles]
                         /\ Unused(d)
  BY MakesOwn
<1>3. \A c \in Chans, k \in BOOLEAN : Passive(t, c, k)
  BY <1>1, FrameParts DEF Passive, Aside, Writing, Reading, Committed, WritePcs, ReadPcs
<1>4. ASSUME NEW c \in Chans, NEW k \in BOOLEAN, c # d PROVE FileOK(c, k)'
  <2>1. SameFile(c, k) /\ FileOK(c, k)
    BY <1>0, <1>2, <1>4 DEF FilesOK, HistoryOK, SameFile, Streams
  <2> QED
    BY <1>1, <1>3, <2>1, Bystander
<1>5. ASSUME NEW k \in BOOLEAN PROVE FileOK(d, k)'
  <2>1. files'[d][k] = <<>> /\ sent'[d][k] = <<>> /\ rcvd'[d][k] = <<>>
    BY <1>0, <1>2 DEF FilesOK, HistoryOK, NewFiles
  <2>2. \A u \in Threads : ~Writing(u, d, k)' /\ ~Reading(u, d, k)'
    <3> SUFFICES ASSUME NEW u \in Threads PROVE ~Writing(u, d, k)' /\ ~Reading(u, d, k)'
      OBVIOUS
    <3>1. CASE u = t
      BY <1>3, <3>1 DEF Passive, Aside
    <3>2. CASE u # t
      <4>1. Same(u) /\ (th[u].pc # "idle" => th[u].call.c # d)
        BY <1>0, <1>1, <1>2, <3>2 DEF Unused, Settled
      <4> QED
        BY <4>1 DEF Same, Writing, Reading, WritePcs, ReadPcs
    <3> QED
      BY <3>1, <3>2
  <2>3. Owes(d, k, 0)' /\ Takes(d, k, 0)'
    BY <2>2 DEF Owes, Takes
  <2>4. Stream(files[d][k], sent[d][k], rcvd[d][k], 0, 0)'
    BY <2>1, EmptyStream
  <2> QED
    BY <2>3, <2>4 DEF FileOK
<1> QED
  BY <1>4, <1>5 DEF Streams

LEMMA StreamsStep ==
  ASSUME Disciplined, Base, Streams, NEW t \in Threads, Step(t), StayClosed, Make(t) => MadeUnused,
         (\A c \in Chans : ~Closed(c)) \/ (\A call \in OwnCalls(t) : call.op # "send_msg")
  PROVE  Streams' \/ GaveUp(t)
<1>0. /\ TypeOK /\ ThreadsOK /\ WaiterAsleep /\ Settled /\ DOMAIN th = Threads /\ DOMAIN ret = Threads
      /\ ~SetOwner(t) /\ ~Kill(t) /\ ~Tries(t)
  BY PlainSteps DEF Base, TypeOK, ThreadsOK
<1>1. ASSUME UNCHANGED <<files, sent, rcvd>>, \A u \in Threads \ {t} : Same(u),
             th[t].pc \in {"idle", "flags", "asleep"},
             th'[t].pc \in {"idle", "recv", "drop", "flags", "asleep", "spin"}
      PROVE  Streams'
  BY <1>1, QuietThread DEF WritePcs, ReadPcs
<1>2. CASE Enter(t)
  <2>1. PICK call \in NextCalls(t) :
          /\ call.op \in {"send", "try_send", "recv", "try_recv", "drop"}
          /\ th[t].pc = "idle" /\ UNCHANGED <<files, sent, rcvd>>
          /\ \/ Return(t, call, 0)
             \/ /\ call.op = "send" => ~Closed(call.c)
                /\ Goto(t, Frame(call.op, call, InFile(t, call.c)))
    BY <1>2 DEF Enter, Invokes, SendRefused
  <2>2. CASE Return(t, call, 0)
    BY <1>0, <1>1, <2>1, <2>2, GotoChanges, OthersSame, FrameParts
  <2>3. CASE ~Return(t, call, 0)
    <3>1. /\ th'[t] = Frame(call.op, call, InFile(t, call.c)) /\ \A u \in Threads \ {t} : Same(u)
      BY <1>0, <2>1, <2>3, GotoChanges, OthersSame
    <3>2. th'[t].pc = call.op /\ th'[t].call = call
      BY <3>1 DEF Frame
    <3>3. call.op \notin {"try_send", "try_recv"}
      BY <1>0, NextIsOwn DEF Disciplined, PlainCalls
    <3>4. /\ th[t].pc \notin WritePcs \cup ReadPcs /\ th'[t].pc \notin WritePcs \cup ReadPcs
          /\ th'[t].pc \in {"send", "send_body", "send_hdr"} => ~Closed(th'[t].call.c)
      BY <2>1, <2>3, <3>2, <3>3 DEF WritePcs, ReadPcs
    <3> QED
      BY <2>1, <3>1, <3>4, QuietThread
  <2> QED
    BY <2>2, <2>3
<1>3. CASE FlagsLoad(t)
  <2>1. PICK call \in NextCalls(t) :
          Goto(t, [Frame("flags", call, FALSE) EXCEPT !.flags = chan[call.c].flags])
    BY <1>3 DEF FlagsLoad
  <2>2. th'[t].pc = "flags" /\ \A u \in Threads \ {t} : Same(u)
    BY <1>0, <2>1 DEF Goto, Same, Frame
  <2> QED
    BY <1>1, <1>3, <2>2 DEF FlagsLoad, Invokes
<1>4. CASE FlagsStore(t)
  <2>1. th'[t].pc = "idle" /\ \A u \in Threads \ {t} : Same(u)
    BY <1>0, <1>4, GotoChanges, OthersSame, FrameParts DEF FlagsStore
  <2> QED
    BY <1>1, <1>4, <2>1 DEF FlagsStore, At
<1>5. CASE Go(t)
  <2>1. PICK call \in NextCalls(t) :
          /\ th[t].pc = "idle" /\ Gone(call.to)
          /\ th' = [th EXCEPT ![call.to] = Idle]
          /\ ret' = [ret EXCEPT ![call.to] = <<>>, ![t] = Returned(@, call, 0, 0)]
          /\ UNCHANGED <<files, sent, rcvd>>
    BY <1>5 DEF Go, Invokes
  <2>2. call.to \in Threads /\ th[call.to].pc = "idle"
    BY <1>0, <2>1, NextCallsType DEF Settled, Calls
  <2>3. \A u \in Threads \ {t, call.to} : Same(u)
    BY <1>0, <2>1, <2>2 DEF Same
  <2>4. th'[t].pc = "idle" /\ th'[call.to].pc = "idle"
    BY <1>0, <2>1, <2>2, FrameParts
  <2>5. \A c \in Chans, k \in BOOLEAN : Passive(t, c, k) /\ Passive(call.to, c, k)
    BY <2>1, <2>2, <2>4 DEF Passive, Aside, Writing, Reading, Committed, WritePcs, ReadPcs
  <2> QED
    BY <2>1, <2>3, <2>5, QuietStep
<1>6. CASE Sleep(t) \/ Spin(t)
  <2>1. PICK call \in NextCalls(t) :
          Goto(t, Frame("asleep", call, FALSE)) \/ Goto(t, Frame("spin", call, FALSE))
    BY <1>6 DEF Sleep, Spin
  <2>2. th'[t].pc \in {"asleep", "spin"} /\ \A u \in Threads \ {t} : Same(u)
    BY <1>0, <2>1 DEF Goto, Same, Frame
  <2> QED
    BY <1>1, <1>6, <2>2 DEF Sleep, Spin, Invokes
<1>7. CASE Timer(t)
  <2>1. th'[t].pc = "idle" /\ \A u \in Threads \ {t} : Same(u)
    BY <1>0, <1>7, GotoChanges, OthersSame, FrameParts DEF Timer
  <2> QED
    BY <1>1, <1>7, <2>1 DEF Timer
<1>8. CASE Exit(t)
  BY <1>1, <1>8 DEF Exit, Same
<1>9. CASE Sends(t)
  BY <1>9, SendsStep
<1>10. CASE Recvs(t) \/ Drops(t)
  <2>1. ~Timer(t)
    BY <1>10 DEF Recvs, RecvSync, RecvSynced, RecvMsgCall, RecvHeaderAgain, RecvResume, RecvGot,
                 Drops, DropSync, DropSynced, DropHeaderAgain, DropResume, DropDropped,
                 At, Invokes, Runs, Timer
  <2>2. status[t] = "ready"
    BY <1>0, <2>1, StepRuns
  <2> QED
    BY <1>10, <2>2, TakesStep
<1>11. CASE Make(t)
  BY <1>11, MakeStep
<1> QED
  BY <1>0, <1>2, <1>3, <1>4, <1>5, <1>6, <1>7, <1>8, <1>9, <1>10, <1>11 DEF Step, Manages, Lives

LEMMA StreamsInit ==
  ASSUME Init PROVE Streams
<1> SUFFICES ASSUME NEW c \in Chans, NEW k \in BOOLEAN PROVE FileOK(c, k)
  BY DEF Streams
<1>1. files[c][k] = <<>> /\ sent[c][k] = <<>> /\ rcvd[c][k] = <<>>
  BY DEF Init, NewFiles
<1>2. \A t \in Threads : ~Writing(t, c, k) /\ ~Reading(t, c, k)
  BY FrameParts DEF Init, Writing, Reading, WritePcs, ReadPcs
<1>3. Owes(c, k, 0) /\ Takes(c, k, 0)
  BY <1>2 DEF Owes, Takes
<1> QED
  BY <1>1, <1>3, EmptyStream DEF FileOK

LEMMA SettledInit ==
  ASSUME Init PROVE Settled
<1>1. ASSUME NEW c \in Chans PROVE chan[c].creator = Creator[c]
  BY DEF Init
<1>2. ASSUME NEW t \in Threads PROVE th[t].pc = "idle"
  BY <1>2, FrameParts DEF Init
<1> QED
  BY <1>1, <1>2 DEF Settled, CreatorsStay, RightFile, OutPcs, InPcs, WritePcs, ReadPcs, TryPcs

\* The threads are where the program takes them.
LEMMA BaseInvariant ==
  ASSUME Disciplined PROVE Spec => []Base
<1>1. NoKills
  BY DEF NoKills, Disciplined, PlainCalls
<1>2. Init => Settled
  BY SettledInit
<1>3. TypeOK /\ WaiterAsleep /\ InProgram /\ Settled /\ [Next]_vars => Settled'
  <2> SUFFICES ASSUME Base, [Next]_vars PROVE Settled'
    BY DEF Base
  <2>1. CASE \E t \in Threads : Step(t)
    BY <2>1, SettledKept
  <2>2. CASE UNCHANGED vars
    BY <2>2 DEF vars, Base, Settled, CreatorsStay, RightFile, Gone
  <2> QED
    BY <2>1, <2>2 DEF Next, Ended
<1>4. Spec => [](TypeOK /\ WaiterAsleep /\ InProgram)
  BY <1>1, SlotsInvariant
<1> QED
  BY <1>2, <1>3, <1>4, PTL DEF Spec, Base

LEMMA StreamsShow == Streams => Integrity
BY DEF Streams, FileOK, Stream, Integrity

LEMMA StreamsStutter ==
  ASSUME Streams, UNCHANGED vars PROVE Streams'
BY QuietStep DEF vars, StayClosed, Closed, Same

--------------------------------------------------------------------------------
(* Where nobody closes *)

\* No thread of the program closes a channel.
NoCloses == \A t \in Threads : \A call \in OwnCalls(t) : call.op # "close"

\* No channel is closed, and nobody is about to store the flags of a closed one.
NeverClosed ==
  /\ \A c \in Chans : ~Closed(c)
  /\ \A t \in Threads : th[t].pc = "flags" => "closed" \notin th[t].flags

\* The thread of a step stays out of the flags, or has just loaded them.
LEMMA LoadsFlags ==
  ASSUME Disciplined, Base, NEW t \in Threads, Step(t), th'[t].pc = "flags"
  PROVE  \/ th'[t] = th[t]
         \/ \E c \in Chans : th'[t].flags = chan[c].flags
<1>0. /\ TypeOK /\ Settled /\ ThreadsOK /\ DOMAIN th = Threads
      /\ ~SetOwner(t) /\ ~Kill(t) /\ ~Tries(t)
  BY PlainSteps DEF Base, TypeOK, ThreadsOK
<1>1. th'[t] # Idle
  BY FrameParts
<1>2. ~Sends(t) /\ ~Recvs(t) /\ ~Drops(t)
  BY <1>0, SendsRight, TakesRight DEF Lands
<1>3. ~Enter(t)
  <2> SUFFICES ASSUME Enter(t) PROVE FALSE
    OBVIOUS
  <2>1. PICK call \in NextCalls(t) :
          /\ call.op \in {"send", "try_send", "recv", "try_recv", "drop"}
          /\ Return(t, call, 0) \/ Goto(t, Frame(call.op, call, InFile(t, call.c)))
    BY DEF Enter, Invokes
  <2>2. Goto(t, Frame(call.op, call, InFile(t, call.c)))
    BY <1>0, <1>1, <2>1, GotoChanges
  <2>3. th'[t].pc = call.op
    BY <1>0, <2>2, GotoChanges DEF Frame
  <2> QED
    BY <2>1, <2>3
<1>4. ~FlagsStore(t) /\ ~Timer(t) /\ ~Make(t)
  BY <1>0, <1>1, GotoChanges, MakesOwn DEF FlagsStore, Timer
<1>5. ~Sleep(t) /\ ~Spin(t)
  BY <1>0 DEF Sleep, Spin, Goto, Frame
<1>6. CASE FlagsLoad(t)
  <2>1. PICK call \in NextCalls(t) :
          Goto(t, [Frame("flags", call, FALSE) EXCEPT !.flags = chan[call.c].flags])
    BY <1>6 DEF FlagsLoad
  <2>2. th'[t].flags = chan[call.c].flags
    BY <1>0, <2>1 DEF Goto, Frame
  <2> QED
    BY <2>2, NextCallsType
<1>7. CASE Go(t)
  <2>1. PICK call \in NextCalls(t) : th' = [th EXCEPT ![call.to] = Idle]
    BY <1>7 DEF Go
  <2> QED
    BY <1>0, <1>1, <2>1
<1>8. CASE Exit(t)
  BY <1>8 DEF Exit
<1> QED
  BY <1>0, <1>2, <1>3, <1>4, <1>5, <1>6, <1>7, <1>8 DEF Step, Manages, Lives

LEMMA NeverClosedKept ==
  ASSUME Disciplined, NoCloses, Base, NeverClosed, NEW t \in Threads, Step(t)
  PROVE  NeverClosed'
<1>0. TypeOK /\ InProgram /\ Settled
  BY DEF Base
<1>1. \A c \in Chans : ~Closed(c)'
  <2>1. CASE chan' = chan
    BY <2>1 DEF NeverClosed, Closed
  <2>2. CASE FlagsStore(t)
    <3>1. th[t].pc = "flags" /\ th[t].call.op # "close" /\ "closed" \notin th[t].flags
      BY <1>0, <2>2 DEF FlagsStore, At, InProgram, NoCloses, NeverClosed
    <3>2. \E bit \in SUBSET {"buffered"} :
            chan' = [chan EXCEPT ![th[t].call.c].flags = th[t].flags \cup bit]
      BY <2>2, <3>1 DEF FlagsStore, MadeFlags
    <3> QED
      BY <1>0, <3>1, <3>2 DEF TypeOK, ChanOK, NeverClosed, Closed
  <2>3. CASE Make(t)
    <3>1. PICK d \in Chans, flags \in {{}, {"buffered"}} :
            chan' = [chan EXCEPT ![d] = [creator |-> Creator[d], flags |-> flags]]
      BY <2>3, MakesOwn
    <3> QED
      BY <1>0, <3>1 DEF TypeOK, ChanOK, NeverClosed, Closed
  <2> QED
    BY <2>1, <2>2, <2>3, ChanStays, PlainSteps
<1>2. ASSUME NEW u \in Threads, th'[u].pc = "flags" PROVE "closed" \notin th'[u].flags
  <2>1. th'[u] # Idle
    BY <1>2, FrameParts
  <2>2. CASE th'[u] = th[u]
    BY <1>2, <2>2 DEF NeverClosed
  <2>3. CASE u = t
    BY <1>2, <2>2, <2>3, LoadsFlags DEF NeverClosed, Closed
  <2> QED
    BY <1>0, <2>1, <2>2, <2>3, OthersStay, PlainSteps
<1> QED
  BY <1>1, <1>2 DEF NeverClosed

LEMMA NeverClosedInit ==
  ASSUME Init PROVE NeverClosed
<1>1. ASSUME NEW c \in Chans PROVE ~Closed(c)
  <2>1. PICK buffered :
          chan = [d \in Chans |-> [creator |-> Creator[d], flags |-> MadeFlags(buffered[d])]]
    BY DEF Init
  <2> QED
    BY <2>1 DEF Closed, MadeFlags
<1>2. ASSUME NEW t \in Threads PROVE th[t].pc # "flags"
  BY FrameParts DEF Init
<1> QED
  BY <1>1, <1>2 DEF NeverClosed

LEMMA OpenStreamsKept ==
  ASSUME Disciplined, NoCloses, Base, NeverClosed, Streams, [Next]_vars,
         \A t \in Threads : Make(t) => MadeUnused \/ UNCHANGED vars
  PROVE  (NeverClosed /\ Streams)'
<1>1. CASE UNCHANGED vars
  BY <1>1, StreamsStutter DEF vars, NeverClosed, Closed
<1>2. ASSUME NEW t \in Threads, Step(t), ~UNCHANGED vars PROVE (NeverClosed /\ Streams)'
  <2>1. StayClosed /\ ~GaveUp(t)
    BY DEF NeverClosed, StayClosed, GaveUp, OwnCalls, Calls
  <2>2. Streams'
    BY <1>2, <2>1, StreamsStep DEF NeverClosed
  <2> QED
    BY <1>2, <2>2, NeverClosedKept
<1> QED
  BY <1>1, <1>2 DEF Next, Ended

\* The inductive invariant of the programs that close no channel.
LEMMA StreamsInvariant ==
  ASSUME Disciplined, NoCloses, NoMakes
  PROVE  Spec => [](Base /\ NeverClosed /\ Streams)
<1>1. Base /\ NeverClosed /\ Streams /\ [Next]_vars => (NeverClosed /\ Streams)'
  BY OpenStreamsKept, NothingMade DEF Base, TypeOK
<1> QED
  BY <1>1, NeverClosedInit, StreamsInit, BaseInvariant, PTL DEF Spec

\* Integrity holds of every program that gives each file one writer and one reader,
\* sends whole words, and neither makes, closes, kills nor tries: what the receivers
\* take out of the ring buffers, in however many chunks and however the threads
\* interleave, are the messages that went in, each whole, in their order.
THEOREM MessagesStayWhole ==
  ASSUME Disciplined, NoCloses, NoMakes
  PROVE  Spec => []Integrity
<1>1. Base /\ NeverClosed /\ Streams => Integrity
  BY StreamsShow
<1> QED
  BY <1>1, StreamsInvariant, PTL

\* It holds of the programs that make their channels too, the first time or again and
\* while others talk on other channels, as long as each is made while it is unused:
\* channel_make empties both ring buffers.
THEOREM WholeAcrossMakes ==
  ASSUME Disciplined, NoCloses
  PROVE  Spec /\ MakesUnused => []Integrity
<1>1. Base /\ NeverClosed /\ Streams /\ [Next]_vars /\ [MadeUnused]_vars => (NeverClosed /\ Streams)'
  BY OpenStreamsKept
<1>2. Base /\ NeverClosed /\ Streams => Integrity
  BY StreamsShow
<1> QED
  BY <1>1, <1>2, NeverClosedInit, StreamsInit, BaseInvariant, PTL DEF Spec, MakesUnused

--------------------------------------------------------------------------------
(* Where channels are closed *)

\* What a thread got back it keeps: no call starts over, and no process is started
\* in the place of an ended one; nor is a closed channel made anew.
\* channel_send_msg, which puts a header into a closed channel, and
\* channel_set_buffered, whose store may undo a close, are not called.
Straight ==
  \A t \in Threads : \A call \in OwnCalls(t) :
    call.op \notin {"send_msg", "set_buffered", "go", "make"} /\ call.again = 0

LEMMA StraightMakes == ASSUME Straight PROVE NoMakes
BY DEF Straight, NoMakes

\* A step answers at most the call of its thread.
Answers(t) ==
  \/ ret' = ret
  \/ \E call \in OwnCalls(t) : \E n, heard : ReturnHeard(t, call, n, heard)

LEMMA SendAnswers ==
  ASSUME NEW t \in Threads, NEW call \in OwnCalls(t)
  PROVE  /\ \A k, q, bytes : SendLoop(t, call, k, q, bytes) => Answers(t)
         /\ \A k : SendHeader(t, call, k) => Answers(t)
         /\ SendBody(t, call) => Answers(t)
<1>1. ASSUME NEW k, NEW q, NEW bytes, SendLoop(t, call, k, q, bytes) PROVE Answers(t)
  BY <1>1 DEF SendLoop, Return, Goto, Answers
<1>2. ASSUME NEW k, SendHeader(t, call, k) PROVE Answers(t)
  BY <1>1, <1>2 DEF SendHeader, Return, Goto, Answers
<1>3. ASSUME SendBody(t, call) PROVE Answers(t)
  BY <1>2, <1>3 DEF SendBody, Return, Answers
<1> QED
  BY <1>1, <1>2, <1>3

LEMMA TakeAnswers ==
  ASSUME NEW t \in Threads, NEW call \in OwnCalls(t)
  PROVE  /\ \A k, size, q, out : RecvLoop(t, call, k, size, q, out) => Answers(t)
         /\ \A k, size, q, out : DropLoop(t, call, k, size, q, out) => Answers(t)
         /\ \A k : RecvHeader(t, call, k) \/ DropHeader(t, call, k) => Answers(t)
         /\ \A f, q : f.call = call /\ DropWait(t, f, q) => Answers(t)
<1>1. ASSUME NEW k, NEW size, NEW q, NEW out, RecvLoop(t, call, k, size, q, out) PROVE Answers(t)
  BY <1>1 DEF RecvLoop, Goto, Answers
<1>2. ASSUME NEW f, NEW q, f.call = call, DropWait(t, f, q) PROVE Answers(t)
  BY <1>2 DEF DropWait, Return, Goto, Answers
<1>3. ASSUME NEW k, NEW size, NEW q, NEW out, DropLoop(t, call, k, size, q, out) PROVE Answers(t)
  BY <1>2, <1>3, FrameParts DEF DropLoop, Goto, Answers
<1>4. ASSUME NEW k, RecvHeader(t, call, k) \/ DropHeader(t, call, k) PROVE Answers(t)
  BY <1>1, <1>3, <1>4 DEF RecvHeader, DropHeader, Goto, Answers
<1> QED
  BY <1>1, <1>2, <1>3, <1>4

LEMMA StepAnswers ==
  ASSUME Disciplined, Straight, Base, NEW t \in Threads, Step(t)
  PROVE  Answers(t)
<1>0. /\ ~Make(t) /\ ~SetOwner(t) /\ ~Kill(t) /\ ~Tries(t)
      /\ \A call \in NextCalls(t) : call \in OwnCalls(t)
      /\ th[t].pc # "idle" => th[t].call \in OwnCalls(t)
  BY PlainSteps, StraightMakes, NothingMade, NextIsOwn DEF Base, TypeOK, InProgram
<1>1. ~Go(t)
  BY <1>0 DEF Go, Invokes, Straight
<1>2. ASSUME NEW call \in OwnCalls(t), NEW n, Return(t, call, n) PROVE Answers(t)
  BY <1>2 DEF Return, Answers
<1>3. CASE Sends(t)
  BY <1>0, <1>2, <1>3, SendAnswers
     DEF Sends, SendSync, SendSynced, SendMsgCall, SendHeaderAgain, SendResume, SendSent,
         At, Synchronize, Goto, Answers
<1>4. ASSUME NEW f, f.call \in OwnCalls(t), Taken(t, f) PROVE Answers(t)
  BY <1>4 DEF Taken, Answers
<1>5. CASE Recvs(t)
  <2>1. ASSUME NEW call \in OwnCalls(t), RecvBody(t, call) PROVE Answers(t)
    BY <1>2, <2>1, TakeAnswers DEF RecvBody
  <2> QED
    BY <1>0, <1>4, <1>5, <2>1, TakeAnswers
       DEF Recvs, RecvSync, RecvSynced, RecvMsgCall, RecvHeaderAgain, RecvResume, RecvGot,
           At, Synchronize, Goto, Answers
<1>6. CASE Drops(t)
  BY <1>0, <1>4, <1>6, TakeAnswers
     DEF Drops, DropSync, DropSynced, DropHeaderAgain, DropResume, DropDropped,
         At, Synchronize, Goto, Answers
<1>7. CASE Enter(t) \/ FlagsLoad(t) \/ FlagsStore(t)
  BY <1>0, <1>2, <1>7 DEF Enter, FlagsLoad, FlagsStore, At, Goto, Answers
<1>8. CASE Sleep(t) \/ Timer(t) \/ Spin(t) \/ Exit(t)
  BY <1>0, <1>2, <1>8 DEF Sleep, Timer, Spin, Exit, Goto, Answers
<1> QED
  BY <1>0, <1>1, <1>3, <1>5, <1>6, <1>7, <1>8 DEF Step, Manages, Lives

\* A refusal stays known, and a call that gives up is one.
LEMMA RefusedStays ==
  ASSUME Disciplined, Straight, Base, NEW t \in Threads, Step(t), Refused \/ GaveUp(t)
  PROVE  Refused'
<1>0. ThreadsOK /\ DOMAIN ret = Threads /\ \A u \in Threads : ret[u] \in Seq(Results)
  BY DEF Base, TypeOK, ThreadsOK
<1>1. ASSUME NEW call \in OwnCalls(t), NEW n, NEW heard, ReturnHeard(t, call, n, heard)
      PROVE  ret' = [ret EXCEPT ![t] = Append(@, [call |-> call, n |-> n, heard |-> heard])]
  <2>1. call.again = 0
    BY DEF Straight
  <2> QED
    BY <1>1, <2>1 DEF ReturnHeard, Returned
<1>2. CASE Refused
  <2>0. PICK u \in Threads :
          \E i \in 1..Len(ret[u]) : ret[u][i].n = 0 /\ ret[u][i].call.op \in ReceiveOps
    BY <1>2 DEF Refused
  <2>1. PICK i \in 1..Len(ret[u]) : ret[u][i].n = 0 /\ ret[u][i].call.op \in ReceiveOps
    BY <2>0
  <2>2. i \in 1..Len(ret'[u]) /\ ret'[u][i] = ret[u][i]
    <3>1. CASE ret' = ret
      BY <3>1
    <3>2. CASE ret' # ret
      <4>1. PICK x : ret' = [ret EXCEPT ![t] = Append(@, x)]
        BY <1>1, <3>2, StepAnswers DEF Answers
      <4>2. \A h \in Seq(Results) : \A j \in 1..Len(h) :
              j \in 1..Len(Append(h, x)) /\ Append(h, x)[j] = h[j]
        OBVIOUS
      <4> QED
        BY <1>0, <4>1, <4>2
    <3> QED
      BY <3>1, <3>2
  <2> QED
    BY <2>1, <2>2 DEF Refused
<1>3. CASE GaveUp(t)
  <2>1. PICK call \in OwnCalls(t), heard \in Int :
          call.op \in ReceiveOps /\ ReturnHeard(t, call, 0, heard)
    BY <1>3 DEF GaveUp
  <2>2. PICK x : x = [call |-> call, n |-> 0, heard |-> heard]
    OBVIOUS
  <2>3. ret'[t] = Append(ret[t], x)
    BY <1>0, <1>1, <2>1, <2>2
  <2>4. Len(ret'[t]) \in 1..Len(ret'[t]) /\ ret'[t][Len(ret'[t])] = x
    <3>1. \A h \in Seq(Results) :
            Len(Append(h, x)) \in 1..Len(Append(h, x)) /\ Append(h, x)[Len(Append(h, x))] = x
      OBVIOUS
    <3> QED
      BY <1>0, <2>3, <3>1
  <2> QED
    BY <2>1, <2>2, <2>4 DEF Refused
<1> QED
  BY <1>2, <1>3

\* Only a close changes the flags, and it adds one.
LEMMA ClosedStays ==
  ASSUME Disciplined, Straight, Base, NEW t \in Threads, Step(t)
  PROVE  StayClosed
<1>0. TypeOK /\ InProgram /\ Settled
  BY DEF Base
<1>1. CASE chan' = chan
  BY <1>1 DEF StayClosed, Closed
<1>2. CASE FlagsStore(t)
  <2>1. th[t].pc = "flags" /\ th[t].call.op = "close"
    BY <1>0, <1>2 DEF FlagsStore, At, Settled, RightFile, InProgram, Straight
  <2>2. chan' = [chan EXCEPT ![th[t].call.c].flags = th[t].flags \cup {"closed"}]
    BY <1>2, <2>1 DEF FlagsStore
  <2> QED
    BY <1>0, <2>2 DEF TypeOK, ChanOK, StayClosed, Closed
<1> QED
  BY <1>1, <1>2, ChanStays, PlainSteps, StraightMakes, NothingMade DEF Base, TypeOK

\* IntegrityUntilRefused holds of the programs that close channels too, whoever closes
\* them and wherever sender and receiver are then: a close may cut the messages short,
\* but what a receiver takes before it is refused one are the messages that went in.
THEOREM WholeUntilRefused ==
  ASSUME Disciplined, Straight
  PROVE  Spec => []IntegrityUntilRefused
<1>1. Init => Streams
  BY StreamsInit
<1>2. Base /\ (Refused \/ Streams) /\ [Next]_vars => (Refused \/ Streams)'
  <2> SUFFICES ASSUME Base, Refused \/ Streams, [Next]_vars PROVE (Refused \/ Streams)'
    OBVIOUS
  <2>1. ASSUME NEW t \in Threads, Step(t) PROVE (Refused \/ Streams)'
    <3>1. CASE Refused
      BY <2>1, <3>1, RefusedStays
    <3>2. CASE Streams
      <4>1. \A call \in OwnCalls(t) : call.op # "send_msg"
        BY DEF Straight
      <4>2. Streams' \/ GaveUp(t)
        BY <2>1, <3>2, <4>1, ClosedStays, StreamsStep, StraightMakes, NothingMade DEF Base, TypeOK
      <4> QED
        BY <2>1, <4>2, RefusedStays
    <3> QED
      BY <3>1, <3>2
  <2>2. CASE UNCHANGED vars
    BY <2>2, StreamsStutter DEF vars, Refused
  <2> QED
    BY <2>1, <2>2 DEF Next, Ended
<1>3. Spec => []Base
  BY BaseInvariant
<1>4. Refused \/ Streams => IntegrityUntilRefused
  BY StreamsShow DEF IntegrityUntilRefused
<1> QED
  BY <1>1, <1>2, <1>3, <1>4, PTL DEF Spec
================================================================================
