----------------------------- MODULE CodecProofs ----------------------------
(***************************************************************************)
(* What the writer of a record writes, its reader reads, for every value   *)
(* of the constants and every record.                                      *)
(*                                                                         *)
(* In four stretches.  The calls: for every struct the writer and the      *)
(* reader make the same calls with the same widths (Match), one for every  *)
(* field and no other, and each enumerator is checked against the last     *)
(* there is (Agrees, AllAgree).  The readings: where the cells of a value  *)
(* stand in a buffer (Carries), the call for it reads that value, refuses  *)
(* it if it is beyond its limit, and refuses any beginning of it (Reads,   *)
(* FieldReads); calls made in order read what the parts carry              *)
(* (InOrderReads).  The nesting: the same of the items of lists, of        *)
(* records with lists of these and of the file, level by level             *)
(* (LevelReads).  The limits: what is read through is what is within       *)
(* bounds and makes sense (AcceptedIs).                                    *)
(***************************************************************************)
EXTENDS Transfer, SequenceTheorems, WellFoundedInduction, TLAPS

-----------------------------------------------------------------------------
(* Sequences, and calls made in order.                                     *)

\* Induction over a set of numbers.
LEMMA Induction ==
  ASSUME NEW S, 0 \in S, \A n \in Nat : n \in S => n + 1 \in S
  PROVE  \A n \in Nat : n \in S
<1> DEFINE out == {n \in Nat : n \notin S}
<1>1. SUFFICES ASSUME out # {} PROVE FALSE
  OBVIOUS
<1>2. PICK d \in out : \A e \in out : ~(<<e, d>> \in OpToRel(<, Nat))
  BY <1>1, NatLessThanWellFounded, WFMin
<1>3. d \in Nat \ {0} /\ d - 1 \in Nat
  OBVIOUS
<1>4. d - 1 \notin S
  BY <1>3
<1>5. <<d - 1, d>> \in OpToRel(<, Nat)
  BY <1>3 DEF OpToRel
<1> QED  BY <1>2, <1>3, <1>4, <1>5

\* What a sequence is, whatever its elements are.
LEMMA SeqElements ==
  ASSUME NEW s, IsSeq(s)
  PROVE  Len(s) \in Nat /\ DOMAIN s = 1..Len(s) /\ s = [i \in 1..Len(s) |-> s[i]]
  BY DEF IsSeq, Range

\* A function on the first numbers is a sequence.
LEMMA SeqOfFunction ==
  ASSUME NEW n \in Nat, NEW s, s = [i \in 1..n |-> s[i]]
  PROVE  IsSeq(s) /\ Len(s) = n /\ DOMAIN s = 1..n
<1>1. s \in [1..n -> Range(s)]
  BY DEF Range
<1>2. s \in Seq(Range(s))
  BY <1>1, IsASeq
<1> QED  BY <1>1, <1>2 DEF IsSeq

\* What is in Seq is a sequence.
LEMMA SeqIsSeq ==
  ASSUME NEW S, NEW s \in Seq(S)
  PROVE  IsSeq(s)
<1>1. Len(s) \in Nat /\ s = [i \in 1..Len(s) |-> s[i]]
  OBVIOUS
<1> QED  BY <1>1, SeqOfFunction

\* The elements of two sequences behind each other.
LEMMA Concatenation ==
  ASSUME NEW a, NEW b, IsSeq(a), IsSeq(b)
  PROVE  /\ IsSeq(a \o b) /\ Len(a \o b) = Len(a) + Len(b)
         /\ \A i \in 1..Len(a) : (a \o b)[i] = a[i]
         /\ \A i \in 1..Len(b) : (a \o b)[Len(a) + i] = b[i]
<1> DEFINE S == Range(a) \cup Range(b)
<1>1. a \in Seq(S) /\ b \in Seq(S)
  BY SeqMonotonic DEF IsSeq
<1>2. a \o b \in Seq(S) /\ Len(a \o b) = Len(a) + Len(b)
      /\ \A i \in 1 .. Len(a) + Len(b) : (a \o b)[i] = IF i <= Len(a) THEN a[i] ELSE b[i - Len(a)]
  BY <1>1, ConcatProperties
<1>3. IsSeq(a \o b)
  BY <1>2, SeqIsSeq
<1>4. Len(a) \in Nat /\ Len(b) \in Nat
  BY SeqElements
<1> HIDE DEF S
<1> QED  BY <1>2, <1>3, <1>4

\* Two sequences of one length with the same elements are one.
LEMMA SameSeq ==
  ASSUME NEW s, NEW t, IsSeq(s), IsSeq(t), Len(s) = Len(t), \A i \in 1..Len(s) : s[i] = t[i]
  PROVE  s = t
  BY SeqElements

\* FlattenSeq puts the parts one behind the other.
LEMMA FlattenExists ==
  ASSUME NEW parts, NEW n \in Nat
  PROVE  \E g : g = [i \in 1..n |-> IF i = 1 THEN parts[i] ELSE g[i - 1] \o parts[i]]
<1> DEFINE F(g, m) == g = [i \in 1..m |-> IF i = 1 THEN parts[i] ELSE g[i - 1] \o parts[i]]
           Has(m)  == \E g : F(g, m)
           S       == {m \in Nat : Has(m)}
<1>1. Has(0)
  <2>1. F(<<>>, 0)
    OBVIOUS
  <2> QED  BY <2>1
<1>2. ASSUME NEW m \in Nat, Has(m)
      PROVE  Has(m + 1)
  <2>1. PICK g : F(g, m)
    BY <1>2
  <2> DEFINE h == [i \in 1..(m + 1) |-> IF i <= m THEN g[i]
                                        ELSE IF i = 1 THEN parts[i] ELSE g[i - 1] \o parts[i]]
  <2>2. ASSUME NEW i \in 1..(m + 1)
        PROVE  h[i] = IF i = 1 THEN parts[i] ELSE h[i - 1] \o parts[i]
    <3>1. i <= m => g[i] = IF i = 1 THEN parts[i] ELSE g[i - 1] \o parts[i]
      <4> DEFINE e(j) == IF j = 1 THEN parts[j] ELSE g[j - 1] \o parts[j]
      <4>1. g = [j \in 1..m |-> e(j)]
        BY <2>1
      <4>2. i <= m => i \in 1..m
        OBVIOUS
      <4> HIDE DEF e, F
      <4>3. i <= m => g[i] = e(i)
        BY <4>1, <4>2
      <4> QED  BY <4>3 DEF e
    <3>2. i # 1 => i - 1 \in 1..(m + 1) /\ i - 1 <= m
      OBVIOUS
    <3> HIDE DEF F
    <3>3. i # 1 => h[i - 1] = g[i - 1]
      BY <3>2
    <3>4. h[i] = IF i <= m THEN g[i] ELSE IF i = 1 THEN parts[i] ELSE g[i - 1] \o parts[i]
      OBVIOUS
    <3> QED  BY <3>1, <3>3, <3>4
  <2>3. F(h, m + 1)
    BY <2>2
  <2> QED  BY <2>3
<1> HIDE DEF Has
<1>3. 0 \in S /\ \A m \in Nat : m \in S => m + 1 \in S
  BY <1>1, <1>2
<1>4. n \in S
  BY <1>3, Induction
<1> QED  BY <1>4 DEF Has

\* FlattenSeq puts the parts together one after the other.
LEMMA FlattenRecursion ==
  ASSUME NEW parts, IsSeq(parts), Len(parts) # 0
  PROVE  \E g : /\ g = [i \in 1..Len(parts) |->
                           IF i = 1 THEN parts[i] ELSE g[i - 1] \o parts[i]]
                /\ FlattenSeq(parts) = g[Len(parts)]
<1> DEFINE P(g) == g = [i \in 1..Len(parts) |->
                          IF i = 1 THEN parts[i] ELSE g[i - 1] \o parts[i]]
           f    == CHOOSE g : P(g)
<1>1. \E g : P(g)
  <2>1. Len(parts) \in Nat
    BY SeqElements
  <2> QED  BY <2>1, FlattenExists
<1>2. P(f)
  BY <1>1
<1>3. FlattenSeq(parts) = f[Len(parts)]
  BY DEF FlattenSeq
<1> QED  BY <1>2, <1>3

\* The beginnings of a flattened sequence, one for each number of parts.
LEMMA Beginnings ==
  ASSUME NEW parts, IsSeq(parts), \A i \in 1..Len(parts) : IsSeq(parts[i])
  PROVE  \E g : /\ g[0] = <<>> /\ g[Len(parts)] = FlattenSeq(parts)
                /\ \A i \in 0..Len(parts) : IsSeq(g[i])
                /\ \A i \in 1..Len(parts) : g[i] = g[i - 1] \o parts[i]
<1> DEFINE n == Len(parts)
<1>0. n \in Nat /\ IsSeq(<<>>)
  BY SeqElements, EmptySeq DEF IsSeq
<1>1. CASE n = 0
  <2>1. FlattenSeq(parts) = <<>>
    <3>1. FlattenSeq(parts) = parts
      BY <1>1 DEF FlattenSeq
    <3>2. parts = <<>>
      BY <1>1 DEF IsSeq
    <3> QED  BY <3>1, <3>2
  <2> DEFINE g == [i \in {0} |-> <<>>]
  <2>2. g[0] = <<>>
    OBVIOUS
  <2> HIDE DEF g
  <2> QED  BY <1>0, <1>1, <2>1, <2>2
<1>2. CASE n # 0
  <2> DEFINE e(f, i) == IF i = 1 THEN parts[i] ELSE f[i - 1] \o parts[i]
  <2>1. PICK f : f = [i \in 1..n |-> e(f, i)] /\ FlattenSeq(parts) = f[n]
    BY <1>2, FlattenRecursion
  <2> HIDE DEF e
  <2>2. \A i \in 1..n : f[i] = e(f, i)
    BY <2>1
  <2> DEFINE g == [i \in 0..n |-> IF i = 0 THEN <<>> ELSE f[i]]
  <2>3. g[0] = <<>> /\ \A i \in 1..n : g[i] = f[i]
    BY <1>0
  <2> HIDE DEF g
  <2>4. g[n] = FlattenSeq(parts)
    BY <2>1, <2>3, <1>0, <1>2
  <2>5. IsSeq(parts[1]) /\ <<>> \o parts[1] = parts[1]
    <3>1. 1 \in 1..n
      BY <1>0, <1>2
    <3>2. IsSeq(parts[1])
      BY <3>1
    <3> QED  BY <3>2, ConcatEmptySeq DEF IsSeq
  <2>6. ASSUME NEW i \in 1..n
        PROVE  g[i] = g[i - 1] \o parts[i]
    <3>1. CASE i = 1
      <4>1. f[i] = parts[1]
        BY <2>2, <3>1 DEF e
      <4>2. g[i - 1] = <<>>
        BY <2>3, <3>1
      <4> QED  BY <2>3, <2>5, <3>1, <4>1, <4>2
    <3>2. CASE i # 1
      <4>1. f[i] = f[i - 1] \o parts[i]
        BY <2>2, <3>2 DEF e
      <4>2. i - 1 \in 1..n
        BY <1>0, <3>2
      <4> QED  BY <2>3, <4>1, <4>2
    <3> QED  BY <3>1, <3>2
  <2> DEFINE S == {i \in Nat : i <= n => IsSeq(g[i])}
  <2>7. 0 \in S
    BY <1>0, <2>3
  <2>8. ASSUME NEW i \in Nat, i \in S
        PROVE  i + 1 \in S
    <3>1. SUFFICES ASSUME i + 1 <= n
                   PROVE  IsSeq(g[i + 1])
      OBVIOUS
    <3>2. i + 1 \in 1..n /\ (i + 1) - 1 = i /\ IsSeq(g[i])
      BY <1>0, <2>8, <3>1
    <3>3. g[i + 1] = g[i] \o parts[i + 1] /\ IsSeq(parts[i + 1])
      BY <2>6, <3>2
    <3> QED  BY <3>2, <3>3, Concatenation
  <2> HIDE DEF S
  <2>9. \A i \in Nat : i \in S
    BY <2>7, <2>8, Induction
  <2>10. \A i \in 0..n : IsSeq(g[i])
    BY <2>9, <1>0 DEF S
  <2> QED  BY <2>3, <2>4, <2>6, <2>10
<1> QED  BY <1>1, <1>2

\* What the calls of InOrder make, one after the other.
NextReading(calls, i, before) ==
  LET one == calls[i][before.pos]
  IN IF before.ok /\ one.ok THEN Got(Append(before.value, one.value), one.pos)
     ELSE Refused

IsReading(calls, pos, n, g) ==
  g = [i \in 0..n |-> IF i = 0 THEN Got(<<>>, pos) ELSE NextReading(calls, i, g[i - 1])]

\* Calls made in order have a result after each of them.
LEMMA ReadingExists ==
  ASSUME NEW calls, NEW pos, NEW n \in Nat
  PROVE  \E g : IsReading(calls, pos, n, g)
<1> DEFINE e(g, i) == IF i = 0 THEN Got(<<>>, pos) ELSE NextReading(calls, i, g[i - 1])
           Has(m)  == \E g : g = [i \in 0..m |-> e(g, i)]
           S       == {m \in Nat : Has(m)}
<1>1. Has(0)
  <2> DEFINE g == [i \in {0} |-> Got(<<>>, pos)]
  <2>1. g = [i \in 0..0 |-> e(g, i)]
    OBVIOUS
  <2> QED  BY <2>1
<1>2. ASSUME NEW m \in Nat, Has(m)
      PROVE  Has(m + 1)
  <2>1. PICK g : g = [i \in 0..m |-> e(g, i)]
    BY <1>2
  <2> DEFINE h == [i \in 0..(m + 1) |-> IF i <= m THEN g[i] ELSE e(g, i)]
  <2> HIDE DEF e
  <2>2. ASSUME NEW i \in 0..(m + 1)
        PROVE  h[i] = e(h, i)
    <3>1. i <= m => g[i] = e(g, i)
      BY <2>1
    <3>2. h[i] = e(g, i)
      BY <3>1
    <3>3. i # 0 => h[i - 1] = g[i - 1]
      OBVIOUS
    <3> HIDE DEF h
    <3> QED  BY <3>2, <3>3 DEF e
  <2>3. h = [i \in 0..(m + 1) |-> e(h, i)]
    BY <2>2
  <2> QED  BY <2>3
<1> HIDE DEF Has
<1>3. 0 \in S /\ \A m \in Nat : m \in S => m + 1 \in S
  BY <1>1, <1>2
<1>4. n \in S
  BY <1>3, Induction
<1> QED  BY <1>4 DEF Has, IsReading

\* InOrder is what they have made of the cells after the last of them.
LEMMA InOrderRecursion ==
  ASSUME NEW calls, IsSeq(calls), NEW pos
  PROVE  \E done : /\ done[0] = Got(<<>>, pos) /\ InOrder(calls, pos) = done[Len(calls)]
                   /\ \A i \in 1..Len(calls) : done[i] = NextReading(calls, i, done[i - 1])
<1> DEFINE n == Len(calls)
           f == CHOOSE g : IsReading(calls, pos, n, g)
<1>1. n \in Nat
  BY SeqElements
<1>2. IsReading(calls, pos, n, f)
  BY <1>1, ReadingExists
<1>3. InOrder(calls, pos) = f[n]
  BY DEF InOrder, IsReading, NextReading
<1> HIDE DEF f
<1>4. ASSUME NEW i \in 0..n
      PROVE  f[i] = IF i = 0 THEN Got(<<>>, pos) ELSE NextReading(calls, i, f[i - 1])
  <2> DEFINE e(j) == IF j = 0 THEN Got(<<>>, pos) ELSE NextReading(calls, j, f[j - 1])
  <2>1. f = [j \in 0..n |-> e(j)]
    BY <1>2 DEF IsReading
  <2> HIDE DEF e
  <2>2. f[i] = e(i)
    BY <2>1
  <2> QED  BY <2>2 DEF e
<1> HIDE DEF n
<1>5. f[0] = Got(<<>>, pos) /\ \A i \in 1..n : f[i] = NextReading(calls, i, f[i - 1])
  BY <1>1, <1>4
<1> QED  BY <1>3, <1>5 DEF n

-----------------------------------------------------------------------------
(* What arrives where something was written.                               *)

\* From position p on, the cells are those of part, as far as there are any.
Carries(cells, p, part) ==
  \A j \in 1..Len(part) : p + j - 1 <= Len(cells) => cells[p + j - 1] = part[j]

\* All of part is there.
Whole(cells, p, part) == Len(part) = 0 \/ p + Len(part) - 1 <= Len(cells)

\* The reading r, from where part was written, is that of value or none; it is
\* one if all is there and value is within the limits.
Reads(r, cells, p, part, value, within) ==
  /\ r.ok \in BOOLEAN
  /\ r.ok => Whole(cells, p, part) /\ r.value = value /\ r.pos = p + Len(part)
  /\ Whole(cells, p, part) => (r.ok <=> within)

\* Where two parts are carried behind each other each of them is.
LEMMA CarriesConcat ==
  ASSUME NEW cells, NEW p \in Nat \ {0}, NEW a, NEW b, IsSeq(a), IsSeq(b),
         Carries(cells, p, a \o b)
  PROVE  Carries(cells, p, a) /\ Carries(cells, p + Len(a), b)
<1>0. Len(a) \in Nat /\ Len(b) \in Nat
  BY SeqElements
<1>1. /\ Len(a) \in Nat /\ Len(b) \in Nat /\ Len(a \o b) = Len(a) + Len(b)
      /\ \A i \in 1..Len(a) : (a \o b)[i] = a[i]
      /\ \A i \in 1..Len(b) : (a \o b)[Len(a) + i] = b[i]
  BY <1>0, Concatenation
<1>2. Carries(cells, p, a)
  BY <1>1 DEF Carries
<1>3. ASSUME NEW j \in 1..Len(b), p + Len(a) + j - 1 <= Len(cells)
      PROVE  cells[p + Len(a) + j - 1] = b[j]
  <2>1. Len(a) + j \in 1..Len(a \o b) /\ p + (Len(a) + j) - 1 = p + Len(a) + j - 1
    BY <1>1
  <2> QED  BY <1>1, <1>3, <2>1 DEF Carries
<1> QED  BY <1>2, <1>3 DEF Carries

\* Where all parts are carried, those up to any one of them are.
LEMMA CarriesBeginnings ==
  ASSUME NEW cells, NEW p \in Nat \ {0}, NEW n \in Nat, NEW g, NEW parts,
         \A i \in 1..n : IsSeq(parts[i]) /\ g[i] = g[i - 1] \o parts[i],
         \A i \in 0..n : IsSeq(g[i]),
         Carries(cells, p, g[n])
  PROVE  \A i \in 1..n : Carries(cells, p + Len(g[i - 1]), parts[i])
<1> DEFINE S == {k \in Nat : k <= n => Carries(cells, p, g[n - k])}
<1>1. 0 \in S
  OBVIOUS
<1>2. ASSUME NEW k \in Nat, k \in S
      PROVE  k + 1 \in S
  <2>1. SUFFICES ASSUME k + 1 <= n
                 PROVE  Carries(cells, p, g[n - (k + 1)])
    OBVIOUS
  <2>2. Carries(cells, p, g[n - k])
    BY <1>2, <2>1
  <2>3. n - k \in 1..n /\ (n - k) - 1 = n - (k + 1) /\ n - (k + 1) \in 0..n
    BY <2>1
  <2>4. g[n - k] = g[n - (k + 1)] \o parts[n - k]
    BY <2>3
  <2>5. IsSeq(g[n - (k + 1)]) /\ IsSeq(parts[n - k])
    BY <2>3
  <2> QED  BY <2>2, <2>4, <2>5, CarriesConcat
<1> HIDE DEF S
<1>3. \A k \in Nat : k \in S
  BY <1>1, <1>2, Induction
<1>4. ASSUME NEW i \in 1..n
      PROVE  Carries(cells, p + Len(g[i - 1]), parts[i])
  <2>1. n - i \in Nat /\ n - i <= n /\ n - (n - i) = i /\ i - 1 \in 0..n
    OBVIOUS
  <2>2. Carries(cells, p, g[i])
    BY <1>3, <2>1 DEF S
  <2>3. g[i] = g[i - 1] \o parts[i] /\ IsSeq(g[i - 1]) /\ IsSeq(parts[i])
    BY <2>1
  <2> QED  BY <2>2, <2>3, CarriesConcat
<1> QED  BY <1>4

\* The parts up to the next one are those before it and that one.
LEMMA OneMore ==
  ASSUME NEW m \in Nat, NEW vals
  PROVE  Append([j \in 1..m |-> vals[j]], vals[m + 1]) = [j \in 1..(m + 1) |-> vals[j]]
<1> DEFINE s == [j \in 1..m |-> vals[j]]
           S == {vals[j] : j \in 1..(m + 1)}
<1>1. s \in Seq(S) /\ Len(s) = m /\ vals[m + 1] \in S
  OBVIOUS
<1> HIDE DEF S
<1>2. /\ Append(s, vals[m + 1]) \in Seq(S) /\ Len(Append(s, vals[m + 1])) = m + 1
      /\ \A j \in 1..m : Append(s, vals[m + 1])[j] = s[j]
      /\ Append(s, vals[m + 1])[m + 1] = vals[m + 1]
  BY <1>1, AppendProperties
<1> QED  BY <1>1, <1>2

\* Readings one after the other, from where the parts were written.
LEMMA InOrderReads ==
  ASSUME NEW cells, NEW pos \in Nat \ {0}, NEW calls, NEW parts, NEW vals, NEW within,
         IsSeq(calls), IsSeq(parts), IsSeq(vals),
         Len(parts) = Len(calls), Len(vals) = Len(calls), IsSeq(cells),
         \A i \in 1..Len(calls) : IsSeq(parts[i]),
         \A i \in 1..Len(calls) : within[i] \in BOOLEAN,
         \A i \in 1..Len(calls) : \A p \in Nat \ {0} : Carries(cells, p, parts[i]) =>
           Reads(calls[i][p], cells, p, parts[i], vals[i], within[i]),
         Carries(cells, pos, FlattenSeq(parts))
  PROVE  Reads(InOrder(calls, pos), cells, pos, FlattenSeq(parts), vals,
               \A i \in 1..Len(calls) : within[i])
<1> DEFINE n == Len(calls)
<1>1. n \in Nat /\ Len(cells) \in Nat
  BY SeqElements
<1>2. PICK g : /\ g[0] = <<>> /\ g[n] = FlattenSeq(parts)
               /\ \A i \in 0..n : IsSeq(g[i])
               /\ \A i \in 1..n : g[i] = g[i - 1] \o parts[i]
  BY Beginnings
<1>3. PICK done : /\ done[0] = Got(<<>>, pos) /\ InOrder(calls, pos) = done[n]
                  /\ \A i \in 1..n : done[i] = NextReading(calls, i, done[i - 1])
  BY InOrderRecursion
<1>4. \A i \in 1..n : Carries(cells, pos + Len(g[i - 1]), parts[i])
  BY <1>1, <1>2, CarriesBeginnings
<1> DEFINE P(i) == Reads(done[i], cells, pos, g[i], [j \in 1..i |-> vals[j]],
                         \A j \in 1..i : within[j])
           S    == {i \in Nat : i <= n => P(i)}
<1>5. P(0)
  <2>1. /\ done[0].ok = TRUE /\ done[0].value = <<>> /\ done[0].pos = pos
        /\ Len(g[0]) = 0
    BY <1>2, <1>3 DEF Got
  <2>2. <<>> = [j \in 1..0 |-> vals[j]]
    OBVIOUS
  <2>3. pos = pos + Len(g[0])
    BY <2>1
  <2>4. \A j \in 1..0 : within[j]
    OBVIOUS
  <2>5. done[0].ok => Whole(cells, pos, g[0])
    BY <2>1, <1>1 DEF Whole
  <2> QED  BY <2>1, <2>2, <2>3, <2>4, <2>5 DEF Reads
<1>6. ASSUME NEW i \in Nat, i + 1 <= n, P(i)
      PROVE  P(i + 1)
  <2>1. i + 1 \in 1..n /\ (i + 1) - 1 = i /\ i \in 0..n
    BY <1>1, <1>6
  <2>2. /\ g[i + 1] = g[i] \o parts[i + 1] /\ IsSeq(g[i]) /\ IsSeq(parts[i + 1])
        /\ done[i + 1] = NextReading(calls, i + 1, done[i])
        /\ Carries(cells, pos + Len(g[i]), parts[i + 1])
    BY <1>2, <1>3, <1>4, <2>1
  <2> DEFINE p   == pos + Len(g[i])
             one == calls[i + 1][p]
  <2>3. /\ Len(g[i]) \in Nat /\ Len(parts[i + 1]) \in Nat /\ p \in Nat \ {0}
        /\ Len(g[i + 1]) = Len(g[i]) + Len(parts[i + 1])
    BY <2>2, Concatenation, SeqElements
  <2>0. /\ Whole(cells, pos, g[i + 1]) <=>
             Whole(cells, pos, g[i]) /\ Whole(cells, p, parts[i + 1])
        /\ pos + Len(g[i + 1]) = p + Len(parts[i + 1])
    <3> DEFINE a == Len(g[i])
               b == Len(parts[i + 1])
               l == Len(cells)
    <3>1. /\ a \in Nat /\ b \in Nat /\ l \in Nat /\ Len(g[i + 1]) = a + b
      BY <2>3, <1>1
    <3> HIDE DEF a, b, l
    <3>2. /\ a + b = 0 \/ pos + (a + b) - 1 <= l <=>
               /\ a = 0 \/ pos + a - 1 <= l
               /\ b = 0 \/ (pos + a) + b - 1 <= l
          /\ pos + (a + b) = (pos + a) + b
      BY <3>1
    <3> QED  BY <3>1, <3>2 DEF Whole, a, b, l
  <2>4. Reads(one, cells, p, parts[i + 1], vals[i + 1], within[i + 1])
    BY <2>1, <2>2, <2>3
  <2>5. done[i].ok => done[i].pos = p /\ done[i].value = [j \in 1..i |-> vals[j]]
    BY <1>6 DEF Reads
  <2>6. done[i + 1] = IF done[i].ok /\ one.ok
                      THEN Got(Append(done[i].value, one.value), one.pos) ELSE Refused
    BY <2>2, <2>5, <1>6 DEF NextReading, Reads
  <2>7. done[i + 1].ok \in BOOLEAN /\ (done[i + 1].ok <=> done[i].ok /\ one.ok)
    BY <2>6, <2>4, <1>6 DEF Got, Refused, Reads
  <2>8. ASSUME done[i + 1].ok
        PROVE  /\ Whole(cells, pos, g[i + 1]) /\ done[i + 1].pos = pos + Len(g[i + 1])
               /\ done[i + 1].value = [j \in 1..(i + 1) |-> vals[j]]
    <3>1. done[i].ok /\ one.ok
      BY <2>7, <2>8
    <3>2. /\ Whole(cells, p, parts[i + 1]) /\ one.value = vals[i + 1]
          /\ one.pos = p + Len(parts[i + 1])
      BY <2>4, <3>1 DEF Reads
    <3>3. done[i + 1].value = Append([j \in 1..i |-> vals[j]], vals[i + 1])
          /\ done[i + 1].pos = p + Len(parts[i + 1])
      BY <2>5, <2>6, <3>1, <3>2 DEF Got
    <3>4. Whole(cells, pos, g[i + 1])
      BY <2>0, <3>1, <3>2, <1>6 DEF Reads
    <3> QED  BY <2>0, <3>3, <3>4, <1>6, OneMore
  <2>9. ASSUME Whole(cells, pos, g[i + 1])
        PROVE  done[i + 1].ok <=> \A j \in 1..(i + 1) : within[j]
    <3>1. Whole(cells, pos, g[i]) /\ Whole(cells, p, parts[i + 1])
      BY <2>0, <2>9
    <3>2. (done[i].ok <=> \A j \in 1..i : within[j]) /\ (one.ok <=> within[i + 1])
      BY <2>4, <3>1, <1>6 DEF Reads
    <3>3. (\A j \in 1..(i + 1) : within[j]) <=> (\A j \in 1..i : within[j]) /\ within[i + 1]
      BY <1>6
    <3> QED  BY <2>7, <3>2, <3>3
  <2> QED  BY <2>7, <2>8, <2>9 DEF Reads
<1> HIDE DEF P
<1>7. 0 \in S /\ \A i \in Nat : i \in S => i + 1 \in S
  BY <1>1, <1>5, <1>6
<1>8. P(n)
  <2> HIDE DEF S
  <2>1. n \in S
    BY <1>1, <1>7, Induction
  <2> QED  BY <2>1 DEF S
<1>9. vals = [j \in 1..n |-> vals[j]]
  BY SeqElements
<1> QED  BY <1>2, <1>3, <1>8, <1>9 DEF P

-----------------------------------------------------------------------------
(* The two sides make the same calls, and for the fields of the struct.    *)

Same(a, b) == /\ a.name = b.name /\ a.call = b.call /\ a.width = b.width
              /\ a.items = b.items /\ a.call \in {"fixed", "string", "list"}

Match(a, b) == /\ IsSeq(a) /\ IsSeq(b) /\ Len(a) = Len(b)
               /\ \A i \in 1..Len(a) : Same(a[i], b[i])

\* A field of a struct.
Field(x, T) == [name |-> x, type |-> T]

\* What is asked of the value a call reads, as a type.
Plain == Type("plain", 0, "none")

Asks(op) ==
  CASE op.call = "list"   -> ListT(op.items)
    [] op.call = "string" -> TextT
    [] OTHER              -> IF op.top = Unchecked THEN Plain
                             ELSE Type("enum", op.top, "none")

Calls(ops) == {Field(ops[i].name, Asks(ops[i])) : i \in 1..Len(ops)}

\* What is to be asked of a value of a type.
AskedOf(type) == IF type.t \in {"list", "text", "enum"} THEN type ELSE Plain

HasField(S, x, asked) ==
  \/ Field(x, asked) \in S
  \/ /\ asked = Plain
     /\ \/ Field(x, IdT) \in S \/ Field(x, CountT) \in S \/ Field(x, IntT) \in S
        \/ Field(x, FlagT) \in S \/ Field(x, RealT) \in S

\* Every call is for a field of S, and every field of S has a call.
AllFields(ops, S) == \A f \in Calls(ops) : HasField(S, f.name, f.type)
AllCalled(S, ops) == \A f \in S : Field(f.name, AskedOf(f.type)) \in Calls(ops)

\* A tuple of names is a sequence of them, of six at most,
LEMMA Tuples ==
  /\ \A a : IsSeq(<<a>>) /\ Range(<<a>>) = {a}
  /\ \A a, b : IsSeq(<<a, b>>) /\ Range(<<a, b>>) = {a, b}
  /\ \A a, b, c : IsSeq(<<a, b, c>>) /\ Range(<<a, b, c>>) = {a, b, c}
  /\ \A a, b, c, d : IsSeq(<<a, b, c, d>>) /\ Range(<<a, b, c, d>>) = {a, b, c, d}
  /\ \A a, b, c, d, e : IsSeq(<<a, b, c, d, e>>) /\ Range(<<a, b, c, d, e>>) = {a, b, c, d, e}
  /\ \A a, b, c, d, e, f : /\ IsSeq(<<a, b, c, d, e, f>>)
                           /\ Range(<<a, b, c, d, e, f>>) = {a, b, c, d, e, f}
<1>1. /\ \A a : IsSeq(<<a>>) /\ Range(<<a>>) = {a}
      /\ \A a, b : IsSeq(<<a, b>>) /\ Range(<<a, b>>) = {a, b}
      /\ \A a, b, c : IsSeq(<<a, b, c>>) /\ Range(<<a, b, c>>) = {a, b, c}
  BY DEF IsSeq, Range
<1>2. /\ \A a, b, c, d : IsSeq(<<a, b, c, d>>) /\ Range(<<a, b, c, d>>) = {a, b, c, d}
      /\ \A a, b, c, d, e : /\ IsSeq(<<a, b, c, d, e>>)
                            /\ Range(<<a, b, c, d, e>>) = {a, b, c, d, e}
  BY DEF IsSeq, Range
<1>3. \A a, b, c, d, e, f : /\ IsSeq(<<a, b, c, d, e, f>>)
                            /\ Range(<<a, b, c, d, e, f>>) = {a, b, c, d, e, f}
  BY DEF IsSeq, Range
<1> QED  BY <1>1, <1>2, <1>3

\* or seven, twelve or fourteen.
LEMMA LongTuples ==
  /\ \A a, b, c, d, e, f, g : /\ IsSeq(<<a, b, c, d, e, f, g>>)
                              /\ Range(<<a, b, c, d, e, f, g>>) = {a, b, c, d, e, f, g}
  /\ \A a, b, c, d, e, f, g, h, i, j, k, l :
       /\ IsSeq(<<a, b, c, d, e, f, g, h, i, j, k, l>>)
       /\ Range(<<a, b, c, d, e, f, g, h, i, j, k, l>>) = {a, b, c, d, e, f, g, h, i, j, k, l}
  /\ \A a, b, c, d, e, f, g, h, i, j, k, l, m, n :
       /\ IsSeq(<<a, b, c, d, e, f, g, h, i, j, k, l, m, n>>)
       /\ Range(<<a, b, c, d, e, f, g, h, i, j, k, l, m, n>>) =
            {a, b, c, d, e, f, g, h, i, j, k, l, m, n}
<1>1. \A a, b, c, d, e, f, g : /\ IsSeq(<<a, b, c, d, e, f, g>>)
                               /\ Range(<<a, b, c, d, e, f, g>>) = {a, b, c, d, e, f, g}
  BY DEF IsSeq, Range
<1>2. \A a, b, c, d, e, f, g, h, i, j, k, l :
        /\ IsSeq(<<a, b, c, d, e, f, g, h, i, j, k, l>>)
        /\ Range(<<a, b, c, d, e, f, g, h, i, j, k, l>>) = {a, b, c, d, e, f, g, h, i, j, k, l}
  BY DEF IsSeq, Range
<1>3. \A a, b, c, d, e, f, g, h, i, j, k, l, m, n :
        /\ IsSeq(<<a, b, c, d, e, f, g, h, i, j, k, l, m, n>>)
        /\ Range(<<a, b, c, d, e, f, g, h, i, j, k, l, m, n>>) =
             {a, b, c, d, e, f, g, h, i, j, k, l, m, n}
  BY DEF IsSeq, Range
<1> QED  BY <1>1, <1>2, <1>3

\* Calls one after the other match if they do one by one.
LEMMA MatchConcat ==
  ASSUME NEW a, NEW b, NEW c, NEW d, Match(a, b), Match(c, d)
  PROVE  Match(a \o c, b \o d)
<1>1. /\ IsSeq(a) /\ IsSeq(b) /\ IsSeq(c) /\ IsSeq(d)
      /\ Len(a) = Len(b) /\ Len(c) = Len(d) /\ Len(a) \in Nat /\ Len(c) \in Nat
  BY SeqElements DEF Match
<1>2. /\ IsSeq(a \o c) /\ Len(a \o c) = Len(a) + Len(c)
      /\ IsSeq(b \o d) /\ Len(b \o d) = Len(a) + Len(c)
      /\ \A i \in 1..Len(a) : (a \o c)[i] = a[i] /\ (b \o d)[i] = b[i]
      /\ \A i \in 1..Len(c) : (a \o c)[Len(a) + i] = c[i] /\ (b \o d)[Len(a) + i] = d[i]
  BY <1>1, Concatenation
<1>3. ASSUME NEW i \in 1..(Len(a) + Len(c))
      PROVE  Same((a \o c)[i], (b \o d)[i])
  <2>1. CASE i \in 1..Len(a)
    BY <1>2, <2>1 DEF Match
  <2>2. CASE i \notin 1..Len(a)
    <3>1. i - Len(a) \in 1..Len(c) /\ Len(a) + (i - Len(a)) = i
      BY <1>1, <2>2
    <3>2. (a \o c)[i] = c[i - Len(a)] /\ (b \o d)[i] = d[i - Len(a)]
      BY <1>2, <3>1
    <3> QED  BY <3>1, <3>2 DEF Match
  <2> QED  BY <2>1, <2>2
<1> QED  BY <1>2, <1>3 DEF Match

\* The calls that are spelled the same on both sides.
LEMMA MatchEach ==
  ASSUME NEW names, IsSeq(names), NEW call \in {"fixed", "string", "list"}, NEW width
  PROVE  Match(Each(call, width, names), Each(call, width, names))
<1> DEFINE s == Each(call, width, names)
<1>1. Len(names) \in Nat /\ DOMAIN names = 1..Len(names)
  BY SeqElements
<1>2. s = [i \in 1..Len(names) |-> s[i]]
  BY <1>1 DEF Each
<1>3. IsSeq(s)
  BY <1>1, <1>2, SeqOfFunction
<1>4. \A i \in DOMAIN names : s[i].call \in {"fixed", "string", "list"}
  BY DEF Each, Op
<1>5. DOMAIN s = DOMAIN names /\ Len(s) = Len(names)
  BY <1>1, <1>2, SeqOfFunction DEF Each
<1> QED  BY <1>1, <1>3, <1>4, <1>5 DEF Match, Same

\* An enumerator is written as it is and read with its bound.
LEMMA MatchEnum ==
  ASSUME NEW x, NEW width, NEW top
  PROVE  Match(Each("fixed", width, <<x>>), Enum(width, x, top))
<1>1. IsSeq(Enum(width, x, top)) /\ Len(Enum(width, x, top)) = 1
  BY DEF Enum, IsSeq, Range
<1>2. IsSeq(<<x>>) /\ Len(<<x>>) = 1
  BY DEF IsSeq, Range
<1>3. IsSeq(Each("fixed", width, <<x>>)) /\ Len(Each("fixed", width, <<x>>)) = 1
  BY <1>2, MatchEach DEF Match, Each
<1>4. Same(Each("fixed", width, <<x>>)[1], Enum(width, x, top)[1])
  BY DEF Each, Enum, Same, Op
<1> QED  BY <1>1, <1>3, <1>4 DEF Match

\* A list is asked for by the name of its items' struct.
LEMMA MatchList ==
  ASSUME NEW x, NEW items
  PROVE  Match(List(x, items), List(x, items))
  BY DEF List, Op, IsSeq, Range, Match, Same

\* The calls of two parts are those of each.
LEMMA CallsConcat ==
  ASSUME NEW a, NEW b, IsSeq(a), IsSeq(b)
  PROVE  IsSeq(a \o b) /\ Calls(a \o b) = Calls(a) \cup Calls(b)
<1>1. /\ IsSeq(a \o b) /\ Len(a \o b) = Len(a) + Len(b)
      /\ \A i \in 1..Len(a) : (a \o b)[i] = a[i]
      /\ \A i \in 1..Len(b) : (a \o b)[Len(a) + i] = b[i]
      /\ Len(a) \in Nat /\ Len(b) \in Nat
  BY Concatenation, SeqElements
<1> DEFINE C(s, i) == Field(s[i].name, Asks(s[i]))
<1>2. \A i \in 1..Len(a) : C(a \o b, i) = C(a, i) /\ i \in 1..Len(a \o b)
  BY <1>1
<1>3. \A i \in 1..Len(b) : C(a \o b, Len(a) + i) = C(b, i) /\ Len(a) + i \in 1..Len(a \o b)
  BY <1>1
<1>4. \A i \in 1..Len(a \o b) :
         i \in 1..Len(a) \/ (i - Len(a) \in 1..Len(b) /\ Len(a) + (i - Len(a)) = i)
  BY <1>1
<1>5. /\ Calls(a) = {C(a, i) : i \in 1..Len(a)} /\ Calls(b) = {C(b, i) : i \in 1..Len(b)}
      /\ Calls(a \o b) = {C(a \o b, i) : i \in 1..Len(a \o b)}
  BY DEF Calls
<1> HIDE DEF C
<1>6. \A i \in 1..Len(a \o b) : C(a \o b, i) \in Calls(a) \cup Calls(b)
  BY <1>2, <1>3, <1>4, <1>5
<1>7. Calls(a) \subseteq Calls(a \o b) /\ Calls(b) \subseteq Calls(a \o b)
  BY <1>2, <1>3, <1>5
<1> QED  BY <1>1, <1>5, <1>6, <1>7

\* A call of a kind, for each of some names.
LEMMA CallsEach ==
  ASSUME NEW names, IsSeq(names), NEW call \in {"fixed", "string"}, NEW width
  PROVE  /\ IsSeq(Each(call, width, names))
         /\ Calls(Each(call, width, names)) =
              {Field(x, IF call = "fixed" THEN Plain ELSE TextT) : x \in Range(names)}
<1> DEFINE asked == IF call = "fixed" THEN Plain ELSE TextT
<1>1. Len(names) \in Nat /\ DOMAIN names = 1..Len(names)
  BY SeqElements
<1>2. /\ IsSeq(Each(call, width, names)) /\ Len(Each(call, width, names)) = Len(names)
      /\ \A i \in 1..Len(names) :
           Each(call, width, names)[i] = Op(names[i], call, width, Unchecked, "none")
  BY <1>1, SeqOfFunction DEF Each
<1>3. \A i \in 1..Len(names) : /\ Asks(Op(names[i], call, width, Unchecked, "none")) = asked
                              /\ Op(names[i], call, width, Unchecked, "none").name = names[i]
  BY DEF Asks, Op, Unchecked
<1>4. Range(names) = {names[i] : i \in 1..Len(names)}
  BY <1>1 DEF Range
<1> HIDE DEF asked
<1>5. Calls(Each(call, width, names)) = {Field(names[i], asked) : i \in 1..Len(names)}
  BY <1>2, <1>3 DEF Calls
<1>6. Calls(Each(call, width, names)) = {Field(x, asked) : x \in Range(names)}
  BY <1>4, <1>5
<1> QED  BY <1>2, <1>6 DEF asked

\* A call for an enumerator.
LEMMA CallsEnum ==
  ASSUME NEW x, NEW width, NEW top, top # Unchecked
  PROVE  /\ IsSeq(Enum(width, x, top))
         /\ Calls(Enum(width, x, top)) = {Field(x, Type("enum", top, "none"))}
<1>1. IsSeq(Enum(width, x, top))
  BY MatchEnum DEF Match
<1>2. Len(Enum(width, x, top)) = 1 /\ Enum(width, x, top)[1] = Op(x, "fixed", width, top, "none")
  BY DEF Enum
<1>3. /\ Asks(Op(x, "fixed", width, top, "none")) = Type("enum", top, "none")
      /\ Op(x, "fixed", width, top, "none").name = x
  BY DEF Asks, Op
<1> QED  BY <1>1, <1>2, <1>3 DEF Calls

\* A call for a list.
LEMMA CallsList ==
  ASSUME NEW x, NEW items
  PROVE  IsSeq(List(x, items)) /\ Calls(List(x, items)) = {Field(x, ListT(items))}
<1>1. IsSeq(List(x, items))
  BY MatchList DEF Match
<1>2. Len(List(x, items)) = 1 /\ List(x, items)[1] = Op(x, "list", 4, Unchecked, items)
  BY DEF List
<1>3. /\ Asks(Op(x, "list", 4, Unchecked, items)) = ListT(items)
      /\ Op(x, "list", 4, Unchecked, items).name = x
  BY DEF Asks, Op
<1> QED  BY <1>1, <1>2, <1>3 DEF Calls

\* The parts of a sequence of calls are sequences.
LEMMA IsSeqs ==
  /\ \A a, b : IsSeq(a) /\ IsSeq(b) => IsSeq(a \o b)
  /\ \A width, names : IsSeq(names) => IsSeq(Each("fixed", width, names))
  /\ \A width, names : IsSeq(names) => IsSeq(Each("string", width, names))
  /\ \A width, x, top : top # Unchecked => IsSeq(Enum(width, x, top))
  /\ \A x, items : IsSeq(List(x, items))
  BY CallsConcat, CallsEach, CallsEnum, CallsList

\* Which field a call is for.
LEMMA FromCalls ==
  /\ \A a, b, f : IsSeq(a) /\ IsSeq(b) /\ f \in Calls(a \o b) => f \in Calls(a) \/ f \in Calls(b)
  /\ \A width, names, f : IsSeq(names) /\ f \in Calls(Each("fixed", width, names)) =>
                          f.name \in Range(names) /\ f.type = Plain
  /\ \A width, names, f : IsSeq(names) /\ f \in Calls(Each("string", width, names)) =>
                          f.name \in Range(names) /\ f.type = TextT
  /\ \A width, x, top, f : top # Unchecked /\ f \in Calls(Enum(width, x, top)) =>
                           f.name = x /\ f.type = Type("enum", top, "none")
  /\ \A x, items, f : f \in Calls(List(x, items)) => f.name = x /\ f.type = ListT(items)
<1>1. \A a, b, f : IsSeq(a) /\ IsSeq(b) /\ f \in Calls(a \o b) => f \in Calls(a) \/ f \in Calls(b)
  BY CallsConcat
<1>2. \A x, T : Field(x, T).name = x /\ Field(x, T).type = T
  BY DEF Field
<1>3. \A width, names, f : IsSeq(names) /\ f \in Calls(Each("fixed", width, names)) =>
                          f.name \in Range(names) /\ f.type = Plain
  BY <1>2, CallsEach
<1>4. \A width, names, f : IsSeq(names) /\ f \in Calls(Each("string", width, names)) =>
                          f.name \in Range(names) /\ f.type = TextT
  BY <1>2, CallsEach
<1>5. \A width, x, top, f : top # Unchecked /\ f \in Calls(Enum(width, x, top)) =>
                           f.name = x /\ f.type = Type("enum", top, "none")
  BY <1>2, CallsEnum
<1>6. \A x, items, f : f \in Calls(List(x, items)) => f.name = x /\ f.type = ListT(items)
  BY <1>2, CallsList
<1> QED  BY <1>1, <1>3, <1>4, <1>5, <1>6

\* Which call a field has.
LEMMA ToCalls ==
  /\ \A a, b, x, T : IsSeq(a) /\ IsSeq(b) =>
       (Field(x, T) \in Calls(a \o b) <=> Field(x, T) \in Calls(a) \/ Field(x, T) \in Calls(b))
  /\ \A width, names, x, T : IsSeq(names) =>
       (Field(x, T) \in Calls(Each("fixed", width, names)) <=> x \in Range(names) /\ T = Plain)
  /\ \A width, names, x, T : IsSeq(names) =>
       (Field(x, T) \in Calls(Each("string", width, names)) <=> x \in Range(names) /\ T = TextT)
  /\ \A width, y, top, x, T : top # Unchecked =>
       (Field(x, T) \in Calls(Enum(width, y, top)) <=> x = y /\ T = Type("enum", top, "none"))
  /\ \A y, items, x, T :
       Field(x, T) \in Calls(List(y, items)) <=> x = y /\ T = ListT(items)
<1>1. \A a, b, x, T : IsSeq(a) /\ IsSeq(b) =>
       (Field(x, T) \in Calls(a \o b) <=> Field(x, T) \in Calls(a) \/ Field(x, T) \in Calls(b))
  BY CallsConcat
<1>2. \A x, y, S, T : Field(x, S) = Field(y, T) <=> x = y /\ S = T
  BY DEF Field
<1>3. \A width, names, x, T : IsSeq(names) =>
       (Field(x, T) \in Calls(Each("fixed", width, names)) <=> x \in Range(names) /\ T = Plain)
  BY <1>2, CallsEach
<1>4. \A width, names, x, T : IsSeq(names) =>
       (Field(x, T) \in Calls(Each("string", width, names)) <=> x \in Range(names) /\ T = TextT)
  BY <1>2, CallsEach
<1>5. \A width, y, top, x, T : top # Unchecked =>
       (Field(x, T) \in Calls(Enum(width, y, top)) <=> x = y /\ T = Type("enum", top, "none"))
  BY <1>2, CallsEnum
<1>6. \A y, items, x, T :
       Field(x, T) \in Calls(List(y, items)) <=> x = y /\ T = ListT(items)
  BY <1>2, CallsList
<1> QED  BY <1>1, <1>3, <1>4, <1>5, <1>6

\* The fields of a group, and those of no other.
LEMMA InAll ==
  ASSUME NEW T, NEW X, NEW x \in X
  PROVE  Field(x, T) \in All(T, X)
  BY DEF All, Field

\* A field of All has one of the names, and the type.
LEMMA OfAll ==
  ASSUME NEW T, NEW X, NEW f \in All(T, X)
  PROVE  f.name \in X /\ f.type = T
  BY DEF All

\* What each type asks.
LEMMA TypesAsk ==
  /\ \A x : AskedOf(ListT(x)) = ListT(x)
  /\ \A e : /\ AskedOf(EnumT(e)) = Type("enum", Len(e) - 1, "none")
             /\ AskedOf(EnumT(e)) = EnumT(e)
  /\ \A top : AskedOf(Type("enum", top, "none")) = Type("enum", top, "none")
  /\ AskedOf(TextT) = TextT
  /\ AskedOf(IdT) = Plain /\ AskedOf(CountT) = Plain /\ AskedOf(IntT) = Plain
  /\ AskedOf(FlagT) = Plain /\ AskedOf(RealT) = Plain
  BY DEF AskedOf, ListT, EnumT, Type, TextT, IdT, CountT, IntT, FlagT, RealT, Plain

\* The bound a reader checks an enumerator against is its last one.
LEMMA LastOrdinal ==
  ASSUME NEW enum, NEW n \in Nat \ {0}, DOMAIN enum = 1..n, NEW x,
         \A i \in 1..n : (enum[i] = x) <=> (i = n)
  PROVE  Ordinal(enum, x) = n - 1
<1>1. \A i \in DOMAIN enum : (enum[i] = x) <=> (i = n)
  OBVIOUS
<1>2. n \in DOMAIN enum
  OBVIOUS
<1> DEFINE y == CHOOSE i \in DOMAIN enum : enum[i] = x
<1>3. y \in DOMAIN enum /\ enum[y] = x
  BY <1>1, <1>2
<1> HIDE DEF y
<1>4. y = n
  BY <1>1, <1>3
<1> QED  BY <1>4 DEF Ordinal, y

Tops ==
  /\ Ordinal(Provenance, "Unknown") = Len(Provenance) - 1
  /\ Ordinal(Provenance, "Unknown") # Unchecked
  /\ Ordinal(AcceleratorClass, "NoneRequired") = Len(AcceleratorClass) - 1
  /\ Ordinal(AcceleratorClass, "NoneRequired") # Unchecked
  /\ Ordinal(CommunicationPattern, "Scatter") = Len(CommunicationPattern) - 1
  /\ Ordinal(CommunicationPattern, "Scatter") # Unchecked
  /\ Ordinal(LatencySensitivity, "Critical") = Len(LatencySensitivity) - 1
  /\ Ordinal(LatencySensitivity, "Critical") # Unchecked
  /\ Ordinal(LocalityKind, "Topology") = Len(LocalityKind) - 1
  /\ Ordinal(LocalityKind, "Topology") # Unchecked
  /\ Ordinal(ResourceKind, "ModelResidency") = Len(ResourceKind) - 1
  /\ Ordinal(ResourceKind, "ModelResidency") # Unchecked
  /\ Ordinal(EligibilityStatus, "UNKNOWN") = Len(EligibilityStatus) - 1
  /\ Ordinal(EligibilityStatus, "UNKNOWN") # Unchecked
  /\ Ordinal(PlacementLifecycleState, "RETIRED") = Len(PlacementLifecycleState) - 1
  /\ Ordinal(PlacementLifecycleState, "RETIRED") # Unchecked
  /\ RankFactorCount - 1 # Unchecked

\* So it is for all the enumerations.
LEMMA TopsHold == Tops
<1>1. Ordinal(Provenance, "Unknown") = Len(Provenance) - 1 /\ Len(Provenance) = 7
  <2> DEFINE n == 7
  <2>1. /\ n \in Nat \ {0} /\ Len(Provenance) = n /\ DOMAIN Provenance = 1..n
        /\ \A i \in 1..n : (Provenance[i] = "Unknown") <=> (i = n)
    BY DEF Provenance
  <2> HIDE DEF Provenance, n
  <2>2. Ordinal(Provenance, "Unknown") = n - 1
    BY <2>1, LastOrdinal
  <2> QED  BY <2>1, <2>2 DEF n
<1>2. /\ Ordinal(AcceleratorClass, "NoneRequired") = Len(AcceleratorClass) - 1
      /\ Len(AcceleratorClass) = 6
  <2> DEFINE n == 6
  <2>1. /\ n \in Nat \ {0} /\ Len(AcceleratorClass) = n /\ DOMAIN AcceleratorClass = 1..n
        /\ \A i \in 1..n : (AcceleratorClass[i] = "NoneRequired") <=> (i = n)
    BY DEF AcceleratorClass
  <2> HIDE DEF AcceleratorClass, n
  <2>2. Ordinal(AcceleratorClass, "NoneRequired") = n - 1
    BY <2>1, LastOrdinal
  <2> QED  BY <2>1, <2>2 DEF n
<1>3. /\ Ordinal(CommunicationPattern, "Scatter") = Len(CommunicationPattern) - 1
      /\ Len(CommunicationPattern) = 9
  <2> DEFINE n == 9
  <2>1. /\ n \in Nat \ {0} /\ Len(CommunicationPattern) = n /\ DOMAIN CommunicationPattern = 1..n
        /\ \A i \in 1..n : (CommunicationPattern[i] = "Scatter") <=> (i = n)
    BY DEF CommunicationPattern
  <2> HIDE DEF CommunicationPattern, n
  <2>2. Ordinal(CommunicationPattern, "Scatter") = n - 1
    BY <2>1, LastOrdinal
  <2> QED  BY <2>1, <2>2 DEF n
<1>4. /\ Ordinal(LatencySensitivity, "Critical") = Len(LatencySensitivity) - 1
      /\ Len(LatencySensitivity) = 4
  <2> DEFINE n == 4
  <2>1. /\ n \in Nat \ {0} /\ Len(LatencySensitivity) = n /\ DOMAIN LatencySensitivity = 1..n
        /\ \A i \in 1..n : (LatencySensitivity[i] = "Critical") <=> (i = n)
    BY DEF LatencySensitivity
  <2> HIDE DEF LatencySensitivity, n
  <2>2. Ordinal(LatencySensitivity, "Critical") = n - 1
    BY <2>1, LastOrdinal
  <2> QED  BY <2>1, <2>2 DEF n
<1>5. Ordinal(LocalityKind, "Topology") = Len(LocalityKind) - 1 /\ Len(LocalityKind) = 5
  <2> DEFINE n == 5
  <2>1. /\ n \in Nat \ {0} /\ Len(LocalityKind) = n /\ DOMAIN LocalityKind = 1..n
        /\ \A i \in 1..n : (LocalityKind[i] = "Topology") <=> (i = n)
    BY DEF LocalityKind
  <2> HIDE DEF LocalityKind, n
  <2>2. Ordinal(LocalityKind, "Topology") = n - 1
    BY <2>1, LastOrdinal
  <2> QED  BY <2>1, <2>2 DEF n
<1>6. Ordinal(ResourceKind, "ModelResidency") = Len(ResourceKind) - 1 /\ Len(ResourceKind) = 8
  <2> DEFINE n == 8
  <2>1. /\ n \in Nat \ {0} /\ Len(ResourceKind) = n /\ DOMAIN ResourceKind = 1..n
        /\ \A i \in 1..n : (ResourceKind[i] = "ModelResidency") <=> (i = n)
    BY DEF ResourceKind
  <2> HIDE DEF ResourceKind, n
  <2>2. Ordinal(ResourceKind, "ModelResidency") = n - 1
    BY <2>1, LastOrdinal
  <2> QED  BY <2>1, <2>2 DEF n
<1>7. /\ Ordinal(EligibilityStatus, "UNKNOWN") = Len(EligibilityStatus) - 1
      /\ Len(EligibilityStatus) = 19
  <2> DEFINE n == 19
  <2>1. /\ n \in Nat \ {0} /\ Len(EligibilityStatus) = n /\ DOMAIN EligibilityStatus = 1..n
        /\ \A i \in 1..n : (EligibilityStatus[i] = "UNKNOWN") <=> (i = n)
    BY DEF EligibilityStatus
  <2> HIDE DEF EligibilityStatus, n
  <2>2. Ordinal(EligibilityStatus, "UNKNOWN") = n - 1
    BY <2>1, LastOrdinal
  <2> QED  BY <2>1, <2>2 DEF n
<1>8. /\ Ordinal(PlacementLifecycleState, "RETIRED") = Len(PlacementLifecycleState) - 1
      /\ Len(PlacementLifecycleState) = 14
  <2> DEFINE n == 14
  <2>1. /\ n \in Nat \ {0} /\ Len(PlacementLifecycleState) = n
        /\ DOMAIN PlacementLifecycleState = 1..n
        /\ \A i \in 1..n : (PlacementLifecycleState[i] = "RETIRED") <=> (i = n)
    BY DEF PlacementLifecycleState
  <2> HIDE DEF PlacementLifecycleState, n
  <2>2. Ordinal(PlacementLifecycleState, "RETIRED") = n - 1
    BY <2>1, LastOrdinal
  <2> QED  BY <2>1, <2>2 DEF n
<1>11. Ordinal(Provenance, "Unknown") # Unchecked
  BY <1>1 DEF Unchecked
<1>12. Ordinal(AcceleratorClass, "NoneRequired") # Unchecked
  BY <1>2 DEF Unchecked
<1>13. Ordinal(CommunicationPattern, "Scatter") # Unchecked
  BY <1>3 DEF Unchecked
<1>14. Ordinal(LatencySensitivity, "Critical") # Unchecked
  BY <1>4 DEF Unchecked
<1>15. Ordinal(LocalityKind, "Topology") # Unchecked
  BY <1>5 DEF Unchecked
<1>16. Ordinal(ResourceKind, "ModelResidency") # Unchecked
  BY <1>6 DEF Unchecked
<1>17. Ordinal(EligibilityStatus, "UNKNOWN") # Unchecked
  BY <1>7 DEF Unchecked
<1>18. Ordinal(PlacementLifecycleState, "RETIRED") # Unchecked
  BY <1>8 DEF Unchecked
<1>9. RankFactorCount - 1 # Unchecked
  BY DEF RankFactorCount, Unchecked
<1> QED  BY <1>1, <1>2, <1>3, <1>4, <1>5, <1>6, <1>7, <1>8, <1>9,
           <1>11, <1>12, <1>13, <1>14, <1>15, <1>16, <1>17, <1>18 DEF Tops

\* In the words of types: the check of an enumerator asks for its type.  (The
\* next eight say it of each enumeration.)
AsksFor(enum, name) ==
  /\ Ordinal(enum, name) # Unchecked
  /\ Type("enum", Ordinal(enum, name), "none") = EnumT(enum)

\* Provenance is checked against Unknown.
LEMMA ProvenanceTop == AsksFor(Provenance, "Unknown")
  BY TopsHold DEF Tops, EnumT, AsksFor

\* AcceleratorClass is checked against NoneRequired.
LEMMA AcceleratorTop == AsksFor(AcceleratorClass, "NoneRequired")
  BY TopsHold DEF Tops, EnumT, AsksFor

\* CommunicationPattern is checked against Scatter.
LEMMA PatternTop == AsksFor(CommunicationPattern, "Scatter")
  BY TopsHold DEF Tops, EnumT, AsksFor

\* LatencySensitivity is checked against Critical.
LEMMA LatencyTop == AsksFor(LatencySensitivity, "Critical")
  BY TopsHold DEF Tops, EnumT, AsksFor

\* LocalityKind is checked against Topology.
LEMMA LocalityTop == AsksFor(LocalityKind, "Topology")
  BY TopsHold DEF Tops, EnumT, AsksFor

\* ResourceKind is checked against ModelResidency.
LEMMA ResourceTop == AsksFor(ResourceKind, "ModelResidency")
  BY TopsHold DEF Tops, EnumT, AsksFor

\* EligibilityStatus is checked against UNKNOWN.
LEMMA EligibilityTop == AsksFor(EligibilityStatus, "UNKNOWN")
  BY TopsHold DEF Tops, EnumT, AsksFor

\* PlacementLifecycleState is checked against RETIRED.
LEMMA LifecycleTop == AsksFor(PlacementLifecycleState, "RETIRED")
  BY TopsHold DEF Tops, EnumT, AsksFor

\* A rank factor's kind is checked against the last of the order.
LEMMA FactorTop == RankFactorCount - 1 # Unchecked
  BY TopsHold DEF Tops

\* Each call of dec_binding is for a field of the struct,
LEMMA BindingFields == AllFields(dec_binding, DeviceBinding)
<1> SUFFICES ASSUME NEW f \in Calls(dec_binding)
             PROVE  HasField(DeviceBinding, f.name, f.type)
  BY DEF AllFields
<1> DEFINE ids  == Id(<<"deviceId", "deviceGeneration", "resourceId", "resourceGeneration",
                        "nodeId", "nodeGeneration", "memoryDomainId",
                        "memoryDomainGeneration", "nicId", "nicGeneration", "storageId",
                        "storageGeneration", "cpuDomainId", "cpuDomainGeneration">>)
           named == {"deviceId", "deviceGeneration", "resourceId", "resourceGeneration",
                     "nodeId", "nodeGeneration", "memoryDomainId",
                     "memoryDomainGeneration", "nicId", "nicGeneration", "storageId",
                     "storageGeneration", "cpuDomainId", "cpuDomainGeneration"}
           rest == ids \o String(<<"pcieRoot">>) \o Bool(<<"sharesPcieRoot">>)
                   \o Enum(1, "capability", Ordinal(AcceleratorClass, "NoneRequired"))
                   \o I32(<<"cudaCompatibility">>) \o Bool(<<"capabilityCurrent">>)
                   \o Id(<<"capabilityGeneration">>)
<1>1. dec_binding = rest
  BY DEF dec_binding
<1>2. IsSeq(ids)
  BY LongTuples, IsSeqs DEF Id
<1>3. f \in Calls(ids) => f.name \in named /\ f.type = Plain
  BY LongTuples, FromCalls DEF Id
<1>4. /\ Field("capabilityGeneration", IdT) \in DeviceBinding
      /\ \A x \in named : Field(x, IdT) \in DeviceBinding
      /\ Field("pcieRoot", TextT) \in DeviceBinding
      /\ Field("sharesPcieRoot", FlagT) \in DeviceBinding
      /\ Field("capabilityCurrent", FlagT) \in DeviceBinding
      /\ Field("capability", EnumT(AcceleratorClass)) \in DeviceBinding
      /\ Field("cudaCompatibility", IntT) \in DeviceBinding
  BY InAll DEF DeviceBinding
<1> HIDE DEF ids, named
<1>5. f \in Calls(rest)
  BY <1>1
<1> DEFINE cap == Ordinal(AcceleratorClass, "NoneRequired")
<1>6. cap # Unchecked /\ Type("enum", cap, "none") = EnumT(AcceleratorClass)
  BY AcceleratorTop DEF AsksFor
<1> HIDE DEF cap
<1>7. \/ f \in Calls(ids)
      \/ f.name \in {"sharesPcieRoot", "cudaCompatibility", "capabilityCurrent",
                     "capabilityGeneration"} /\ f.type = Plain
      \/ f.name = "pcieRoot" /\ f.type = TextT
      \/ f.name = "capability" /\ f.type = EnumT(AcceleratorClass)
  BY <1>2, <1>5, <1>6, Tuples, IsSeqs, FromCalls DEF cap, Id, I32, Bool, String
<1> QED  BY <1>3, <1>4, <1>7 DEF HasField

\* and each field has its call.
LEMMA BindingCalled == AllCalled(DeviceBinding, dec_binding)
<1> SUFFICES ASSUME NEW f \in DeviceBinding
             PROVE  Field(f.name, AskedOf(f.type)) \in Calls(dec_binding)
  BY DEF AllCalled
<1> DEFINE ids  == Id(<<"deviceId", "deviceGeneration", "resourceId", "resourceGeneration",
                        "nodeId", "nodeGeneration", "memoryDomainId",
                        "memoryDomainGeneration", "nicId", "nicGeneration", "storageId",
                        "storageGeneration", "cpuDomainId", "cpuDomainGeneration">>)
           named == {"deviceId", "deviceGeneration", "resourceId", "resourceGeneration",
                     "nodeId", "nodeGeneration", "memoryDomainId",
                     "memoryDomainGeneration", "nicId", "nicGeneration", "storageId",
                     "storageGeneration", "cpuDomainId", "cpuDomainGeneration"}
           rest == ids \o String(<<"pcieRoot">>) \o Bool(<<"sharesPcieRoot">>)
                   \o Enum(1, "capability", Ordinal(AcceleratorClass, "NoneRequired"))
                   \o I32(<<"cudaCompatibility">>) \o Bool(<<"capabilityCurrent">>)
                   \o Id(<<"capabilityGeneration">>)
<1>1. dec_binding = rest
  BY DEF dec_binding
<1>2. IsSeq(ids)
  BY LongTuples, IsSeqs DEF Id
<1>3. \A x \in named : Field(x, Plain) \in Calls(ids)
  BY LongTuples, ToCalls DEF Id
<1>4. \/ f.name \in named /\ f.type = IdT
      \/ f.name = "capabilityGeneration" /\ f.type = IdT
      \/ f.name = "pcieRoot" /\ f.type = TextT
      \/ f.name \in {"sharesPcieRoot", "capabilityCurrent"} /\ f.type = FlagT
      \/ f.name = "capability" /\ f.type = EnumT(AcceleratorClass)
      \/ f.name = "cudaCompatibility" /\ f.type = IntT
  BY OfAll DEF DeviceBinding
<1> HIDE DEF ids, named
<1>5. /\ \A x, T : Field(x, T) \in Calls(ids) => Field(x, T) \in Calls(dec_binding)
      /\ Field("pcieRoot", TextT) \in Calls(dec_binding)
      /\ Field("sharesPcieRoot", Plain) \in Calls(dec_binding)
      /\ Field("capability", EnumT(AcceleratorClass)) \in Calls(dec_binding)
      /\ Field("cudaCompatibility", Plain) \in Calls(dec_binding)
      /\ Field("capabilityCurrent", Plain) \in Calls(dec_binding)
      /\ Field("capabilityGeneration", Plain) \in Calls(dec_binding)
  BY <1>1, <1>2, AcceleratorTop, Tuples, IsSeqs, ToCalls DEF AsksFor, Id, I32, Bool, String
<1>6. AskedOf(EnumT(AcceleratorClass)) = EnumT(AcceleratorClass)
  BY TypesAsk
<1> QED  BY <1>3, <1>4, <1>5, <1>6, TypesAsk

\* Each call of dec_factor is for a field of the struct,
LEMMA FactorFields == AllFields(dec_factor, RankFactor)
<1> SUFFICES ASSUME NEW f \in Calls(dec_factor)
             PROVE  HasField(RankFactor, f.name, f.type)
  BY DEF AllFields
<1> QED
  BY FactorTop, ProvenanceTop, Tuples, IsSeqs, FromCalls, InAll
  DEF AsksFor, HasField, dec_factor, Double, String, dec_provenance, RankFactor

\* and each field has its call.
LEMMA FactorCalled == AllCalled(RankFactor, dec_factor)
<1> SUFFICES ASSUME NEW f \in RankFactor
             PROVE  Field(f.name, AskedOf(f.type)) \in Calls(dec_factor)
  BY DEF AllCalled
<1> QED
  BY FactorTop, ProvenanceTop, Tuples, IsSeqs, ToCalls, OfAll, TypesAsk
  DEF AsksFor, dec_factor, Double, String, dec_provenance, RankFactor

\* Each call of dec_rejected is for a field of the struct,
LEMMA RejectedFields == AllFields(dec_rejected, RejectedAlternative)
<1> SUFFICES ASSUME NEW f \in Calls(dec_rejected)
             PROVE  HasField(RejectedAlternative, f.name, f.type)
  BY DEF AllFields
<1> QED
  BY EligibilityTop, Tuples, IsSeqs, FromCalls, InAll
  DEF AsksFor, HasField, dec_rejected, Id, String, RejectedAlternative

\* and each field has its call.
LEMMA RejectedCalled == AllCalled(RejectedAlternative, dec_rejected)
<1> SUFFICES ASSUME NEW f \in RejectedAlternative
             PROVE  Field(f.name, AskedOf(f.type)) \in Calls(dec_rejected)
  BY DEF AllCalled
<1> QED
  BY EligibilityTop, Tuples, IsSeqs, ToCalls, OfAll, TypesAsk
  DEF AsksFor, dec_rejected, Id, String, RejectedAlternative

\* Each call of dec_claim is for a field of the struct,
LEMMA ClaimFields == AllFields(dec_claim, ResourceClaim)
<1> SUFFICES ASSUME NEW f \in Calls(dec_claim)
             PROVE  HasField(ResourceClaim, f.name, f.type)
  BY DEF AllFields
<1> QED
  BY ResourceTop, Tuples, IsSeqs, FromCalls, InAll
  DEF AsksFor, HasField, dec_claim, Id, U64, Bool, ResourceClaim

\* and each field has its call.
LEMMA ClaimCalled == AllCalled(ResourceClaim, dec_claim)
<1> SUFFICES ASSUME NEW f \in ResourceClaim
             PROVE  Field(f.name, AskedOf(f.type)) \in Calls(dec_claim)
  BY DEF AllCalled
<1> QED
  BY ResourceTop, Tuples, IsSeqs, ToCalls, OfAll, TypesAsk
  DEF AsksFor, dec_claim, Id, U64, Bool, ResourceClaim

\* Each call of dec_fingerprint is for a field of the struct,
LEMMA FingerprintFields == AllFields(dec_fingerprint, GenerationFingerprint)
<1> SUFFICES ASSUME NEW f \in Calls(dec_fingerprint)
             PROVE  HasField(GenerationFingerprint, f.name, f.type)
  BY DEF AllFields
<1> QED
  BY Tuples, LongTuples, IsSeqs, FromCalls, InAll
  DEF HasField, dec_fingerprint, Id, GenerationFingerprint

\* and each field has its call.
LEMMA FingerprintCalled == AllCalled(GenerationFingerprint, dec_fingerprint)
<1> SUFFICES ASSUME NEW f \in GenerationFingerprint
             PROVE  Field(f.name, AskedOf(f.type)) \in Calls(dec_fingerprint)
  BY DEF AllCalled
<1> QED
  BY Tuples, LongTuples, IsSeqs, ToCalls, OfAll, TypesAsk
  DEF dec_fingerprint, Id, GenerationFingerprint

\* Each call of dec_payload is for a field of the struct,
LEMMA PayloadFields == AllFields(dec_payload, Persisted)
<1> SUFFICES ASSUME NEW f \in Calls(dec_payload)
             PROVE  HasField(Persisted, f.name, f.type)
  BY DEF AllFields
<1> QED
  BY Tuples, IsSeqs, FromCalls, InAll
  DEF HasField, dec_payload, Id, U64, Persisted

\* and each field has its call.
LEMMA PayloadCalled == AllCalled(Persisted, dec_payload)
<1> SUFFICES ASSUME NEW f \in Persisted
             PROVE  Field(f.name, AskedOf(f.type)) \in Calls(dec_payload)
  BY DEF AllCalled
<1> QED
  BY Tuples, IsSeqs, ToCalls, OfAll, TypesAsk
  DEF dec_payload, Id, U64, Persisted

\* Each call of dec_candidate_id is for a field of the struct,
LEMMA IdentityFields == AllFields(dec_candidate_id, CandidateIdentity)
<1> SUFFICES ASSUME NEW f \in Calls(dec_candidate_id)
             PROVE  HasField(CandidateIdentity, f.name, f.type)
  BY DEF AllFields
<1> QED
  BY Tuples, IsSeqs, FromCalls, InAll
  DEF HasField, dec_candidate_id, Id, CandidateIdentity

\* and each field has its call.
LEMMA IdentityCalled == AllCalled(CandidateIdentity, dec_candidate_id)
<1> SUFFICES ASSUME NEW f \in CandidateIdentity
             PROVE  Field(f.name, AskedOf(f.type)) \in Calls(dec_candidate_id)
  BY DEF AllCalled
<1> QED
  BY Tuples, IsSeqs, ToCalls, OfAll, TypesAsk
  DEF dec_candidate_id, Id, CandidateIdentity

\* Each call of dec_capacity is for a field of the struct,
LEMMA CapacityFields == AllFields(dec_capacity, CapacityEvidence)
<1> SUFFICES ASSUME NEW f \in Calls(dec_capacity)
             PROVE  HasField(CapacityEvidence, f.name, f.type)
  BY DEF AllFields
<1> QED
  BY ProvenanceTop, Tuples, IsSeqs, FromCalls, InAll
  DEF AsksFor, HasField, dec_capacity, Id, U32, U64, Bool, dec_provenance, CapacityEvidence

\* and each field has its call.
LEMMA CapacityCalled == AllCalled(CapacityEvidence, dec_capacity)
<1> SUFFICES ASSUME NEW f \in CapacityEvidence
             PROVE  Field(f.name, AskedOf(f.type)) \in Calls(dec_capacity)
  BY DEF AllCalled
<1> QED
  BY ProvenanceTop, Tuples, IsSeqs, ToCalls, OfAll, TypesAsk
  DEF AsksFor, dec_capacity, Id, U32, U64, Bool, dec_provenance, CapacityEvidence

\* Each call of dec_health is for a field of the struct,
LEMMA HealthFields == AllFields(dec_health, HealthEvidence)
<1> SUFFICES ASSUME NEW f \in Calls(dec_health)
             PROVE  HasField(HealthEvidence, f.name, f.type)
  BY DEF AllFields
<1> QED
  BY ProvenanceTop, Tuples, IsSeqs, FromCalls, InAll
  DEF AsksFor, HasField, dec_health, Id, Bool, Double, String, dec_provenance, HealthEvidence

\* and each field has its call.
LEMMA HealthCalled == AllCalled(HealthEvidence, dec_health)
<1> SUFFICES ASSUME NEW f \in HealthEvidence
             PROVE  Field(f.name, AskedOf(f.type)) \in Calls(dec_health)
  BY DEF AllCalled
<1> QED
  BY ProvenanceTop, Tuples, IsSeqs, ToCalls, OfAll, TypesAsk
  DEF AsksFor, dec_health, Id, Bool, Double, String, dec_provenance, HealthEvidence

\* Each call of dec_reservation is for a field of the struct,
LEMMA ReservationFields == AllFields(dec_reservation, ReservationEvidence)
<1> SUFFICES ASSUME NEW f \in Calls(dec_reservation)
             PROVE  HasField(ReservationEvidence, f.name, f.type)
  BY DEF AllFields
<1> QED
  BY ProvenanceTop, Tuples, IsSeqs, FromCalls, InAll
  DEF AsksFor, HasField, dec_reservation, Id, U64, Bool, String, dec_provenance,
      ReservationEvidence

\* and each field has its call.
LEMMA ReservationCalled == AllCalled(ReservationEvidence, dec_reservation)
<1> SUFFICES ASSUME NEW f \in ReservationEvidence
             PROVE  Field(f.name, AskedOf(f.type)) \in Calls(dec_reservation)
  BY DEF AllCalled
<1> QED
  BY ProvenanceTop, Tuples, IsSeqs, ToCalls, OfAll, TypesAsk
  DEF AsksFor, dec_reservation, Id, U64, Bool, String, dec_provenance, ReservationEvidence

\* Each call of dec_congestion is for a field of the struct,
LEMMA CongestionFields == AllFields(dec_congestion, CongestionEvidence)
<1> SUFFICES ASSUME NEW f \in Calls(dec_congestion)
             PROVE  HasField(CongestionEvidence, f.name, f.type)
  BY DEF AllFields
<1> QED
  BY ProvenanceTop, Tuples, IsSeqs, FromCalls, InAll
  DEF AsksFor, HasField, dec_congestion, Id, U64, Double, String, dec_provenance,
      CongestionEvidence

\* and each field has its call.
LEMMA CongestionCalled == AllCalled(CongestionEvidence, dec_congestion)
<1> SUFFICES ASSUME NEW f \in CongestionEvidence
             PROVE  Field(f.name, AskedOf(f.type)) \in Calls(dec_congestion)
  BY DEF AllCalled
<1> QED
  BY ProvenanceTop, Tuples, IsSeqs, ToCalls, OfAll, TypesAsk
  DEF AsksFor, dec_congestion, Id, U64, Double, String, dec_provenance, CongestionEvidence

\* Each call of dec_paths is for a field of the struct,
LEMMA PathsFields == AllFields(dec_paths, LocalityEvidence)
<1> SUFFICES ASSUME NEW f \in Calls(dec_paths)
             PROVE  HasField(LocalityEvidence, f.name, f.type)
  BY DEF AllFields
<1> QED
  BY ProvenanceTop, Tuples, IsSeqs, FromCalls, InAll
  DEF AsksFor, HasField, dec_paths, Id, U32, Bool, String, dec_provenance, LocalityEvidence

\* and each field has its call.
LEMMA PathsCalled == AllCalled(LocalityEvidence, dec_paths)
<1> SUFFICES ASSUME NEW f \in LocalityEvidence
             PROVE  Field(f.name, AskedOf(f.type)) \in Calls(dec_paths)
  BY DEF AllCalled
<1> QED
  BY ProvenanceTop, Tuples, IsSeqs, ToCalls, OfAll, TypesAsk
  DEF AsksFor, dec_paths, Id, U32, Bool, String, dec_provenance, LocalityEvidence

\* Each call of dec_communication is for a field of the struct,
LEMMA CommunicationFields == AllFields(dec_communication, CommunicationEvidence)
<1> SUFFICES ASSUME NEW f \in Calls(dec_communication)
             PROVE  HasField(CommunicationEvidence, f.name, f.type)
  BY DEF AllFields
<1> QED
  BY ProvenanceTop, Tuples, IsSeqs, FromCalls, InAll
  DEF AsksFor, HasField, dec_communication, Id, Bool, Double, String, dec_provenance,
      CommunicationEvidence

\* and each field has its call.
LEMMA CommunicationCalled == AllCalled(CommunicationEvidence, dec_communication)
<1> SUFFICES ASSUME NEW f \in CommunicationEvidence
             PROVE  Field(f.name, AskedOf(f.type)) \in Calls(dec_communication)
  BY DEF AllCalled
<1> QED
  BY ProvenanceTop, Tuples, IsSeqs, ToCalls, OfAll, TypesAsk
  DEF AsksFor, dec_communication, Id, Bool, Double, String, dec_provenance,
      CommunicationEvidence

\* Each call of dec_residency is for a field of the struct,
LEMMA ResidencyFields == AllFields(dec_residency, ResidencyEvidence)
<1> SUFFICES ASSUME NEW f \in Calls(dec_residency)
             PROVE  HasField(ResidencyEvidence, f.name, f.type)
  BY DEF AllFields
<1> QED
  BY ProvenanceTop, Tuples, IsSeqs, FromCalls, InAll
  DEF AsksFor, HasField, dec_residency, Id, U64, Bool, String, dec_provenance, ResidencyEvidence

\* and each field has its call.
LEMMA ResidencyCalled == AllCalled(ResidencyEvidence, dec_residency)
<1> SUFFICES ASSUME NEW f \in ResidencyEvidence
             PROVE  Field(f.name, AskedOf(f.type)) \in Calls(dec_residency)
  BY DEF AllCalled
<1> QED
  BY ProvenanceTop, Tuples, IsSeqs, ToCalls, OfAll, TypesAsk
  DEF AsksFor, dec_residency, Id, U64, Bool, String, dec_provenance, ResidencyEvidence

\* Each call of dec_accelerator is for a field of the struct.
LEMMA AcceleratorFields == AllFields(dec_accelerator, DemandProfile)
<1> SUFFICES ASSUME NEW f \in Calls(dec_accelerator)
             PROVE  HasField(DemandProfile, f.name, f.type)
  BY DEF AllFields
<1> QED
  BY AcceleratorTop, Tuples, IsSeqs, FromCalls, InAll
  DEF AsksFor, HasField, dec_accelerator, Id, U32, U64, Bool, DemandProfile,
      AcceleratorRequirement

\* Each call of dec_supply is for a field of the struct.
LEMMA SupplyFields == AllFields(dec_supply, DemandProfile)
<1> SUFFICES ASSUME NEW f \in Calls(dec_supply)
             PROVE  HasField(DemandProfile, f.name, f.type)
  BY DEF AllFields
<1> QED
  BY PatternTop, Tuples, IsSeqs, FromCalls, InAll
  DEF AsksFor, HasField, dec_supply, U32, U64, Bool, DemandProfile, MemoryStorageNetwork

\* Each call of dec_locality is for a field of the struct.
LEMMA LocalityFields == AllFields(dec_locality, DemandProfile)
<1> SUFFICES ASSUME NEW f \in Calls(dec_locality)
             PROVE  HasField(DemandProfile, f.name, f.type)
  BY DEF AllFields
<1> QED
  BY Tuples, IsSeqs, FromCalls, InAll
  DEF HasField, dec_locality, U32, Bool, String, DemandProfile, ResidencyRequirement,
      FailureDomainConstraint

\* Each call of dec_terms is for a field of the struct.
LEMMA TermsFields == AllFields(dec_terms, DemandProfile)
<1> SUFFICES ASSUME NEW f \in Calls(dec_terms)
             PROVE  HasField(DemandProfile, f.name, f.type)
  BY DEF AllFields
<1> QED
  BY LatencyTop, ProvenanceTop, Tuples, IsSeqs, FromCalls, InAll
  DEF AsksFor, HasField, dec_terms, Id, I32, U64, Double, dec_provenance, DemandProfile

\* Each call of dec_choice is for a field of the struct.
LEMMA ChoiceFields == AllFields(dec_choice, PlacementPlan)
<1> SUFFICES ASSUME NEW f \in Calls(dec_choice)
             PROVE  HasField(PlacementPlan, f.name, f.type)
  BY DEF AllFields
<1> QED
  BY Tuples, IsSeqs, FromCalls, InAll
  DEF HasField, dec_choice, Id, PlacementPlan

\* Each call of dec_movement is for a field of the struct.
LEMMA MovementFields == AllFields(dec_movement, PlacementPlan)
<1> SUFFICES ASSUME NEW f \in Calls(dec_movement)
             PROVE  HasField(PlacementPlan, f.name, f.type)
  BY DEF AllFields
<1> QED
  BY Tuples, IsSeqs, FromCalls, InAll
  DEF HasField, dec_movement, Id, U64, Bool, String, PlacementPlan

\* Each field of these is called for in dec_accelerator.
LEMMA AcceleratorCalled == AllCalled(AcceleratorRequirement, dec_accelerator)
<1> SUFFICES ASSUME NEW f \in AcceleratorRequirement
             PROVE  Field(f.name, AskedOf(f.type)) \in Calls(dec_accelerator)
  BY DEF AllCalled
<1> QED
  BY AcceleratorTop, Tuples, IsSeqs, ToCalls, OfAll, TypesAsk
  DEF AsksFor, dec_accelerator, Id, U32, U64, Bool, AcceleratorRequirement

\* Each field of these is called for in dec_supply.
LEMMA SupplyCalled == AllCalled(MemoryStorageNetwork, dec_supply)
<1> SUFFICES ASSUME NEW f \in MemoryStorageNetwork
             PROVE  Field(f.name, AskedOf(f.type)) \in Calls(dec_supply)
  BY DEF AllCalled
<1> QED
  BY PatternTop, Tuples, IsSeqs, ToCalls, OfAll, TypesAsk
  DEF AsksFor, dec_supply, U32, U64, Bool, MemoryStorageNetwork

\* Each field of these is called for in dec_locality.
LEMMA LocalityCalled == AllCalled((ResidencyRequirement \cup FailureDomainConstraint), dec_locality)
<1> SUFFICES ASSUME NEW f \in (ResidencyRequirement \cup FailureDomainConstraint)
             PROVE  Field(f.name, AskedOf(f.type)) \in Calls(dec_locality)
  BY DEF AllCalled
<1> QED
  BY Tuples, IsSeqs, ToCalls, OfAll, TypesAsk
  DEF dec_locality, U32, Bool, String, ResidencyRequirement, FailureDomainConstraint

\* The writer of each stretch and its reader make the same calls.
LEMMA Stretches ==
  /\ Match(enc_accelerator, dec_accelerator) /\ Match(enc_supply, dec_supply)
  /\ Match(enc_locality, dec_locality) /\ Match(enc_terms, dec_terms)
  /\ Match(enc_choice, dec_choice) /\ Match(enc_movement, dec_movement)
  /\ Match(enc_standing, dec_standing)
  /\ Match(enc_origin, dec_origin) /\ Match(enc_capacity, dec_capacity)
  /\ Match(enc_health, dec_health) /\ Match(enc_reservation, dec_reservation)
  /\ Match(enc_congestion, dec_congestion) /\ Match(enc_paths, dec_paths)
  /\ Match(enc_communication, dec_communication) /\ Match(enc_residency, dec_residency)
  /\ Match(enc_policy, dec_policy)
<1>1. Match(enc_accelerator, dec_accelerator) /\ Match(enc_supply, dec_supply)
  BY Tuples, MatchConcat, MatchEach, MatchEnum
  DEF enc_accelerator, dec_accelerator, enc_supply, dec_supply, Id, U8, U32, U64, Bool
<1>2. Match(enc_locality, dec_locality) /\ Match(enc_terms, dec_terms)
  BY Tuples, MatchConcat, MatchEach, MatchEnum, MatchList
  DEF enc_locality, dec_locality, enc_terms, dec_terms, dec_provenance,
      Id, U8, U32, I32, U64, Bool, Double, String
<1>3. Match(enc_choice, dec_choice) /\ Match(enc_movement, dec_movement)
  BY Tuples, MatchConcat, MatchEach, MatchList
  DEF enc_choice, dec_choice, enc_movement, dec_movement, Id, U64, Bool, String
<1>4. Match(enc_standing, dec_standing)
  BY LifecycleTop, Tuples, LongTuples, MatchConcat, MatchEach, MatchEnum, MatchList
  DEF AsksFor, enc_standing, dec_standing, enc_fingerprint, dec_fingerprint, dec_state, Id, U8,
      Bool, String
<1>5. /\ Match(enc_origin, dec_origin) /\ Match(enc_capacity, dec_capacity)
      /\ Match(enc_policy, dec_policy)
  BY Tuples, MatchConcat, MatchEach, MatchEnum, MatchList
  DEF enc_origin, dec_origin, enc_capacity, dec_capacity, enc_policy, dec_policy,
      dec_provenance, Id, U8, U32, U64, Bool, Double
<1>6. /\ Match(enc_health, dec_health) /\ Match(enc_reservation, dec_reservation)
      /\ Match(enc_congestion, dec_congestion)
  BY Tuples, MatchConcat, MatchEach, MatchEnum
  DEF enc_health, dec_health, enc_reservation, dec_reservation, enc_congestion,
      dec_congestion, dec_provenance, Id, U8, U64, Bool, Double, String
<1>7. /\ Match(enc_paths, dec_paths) /\ Match(enc_communication, dec_communication)
      /\ Match(enc_residency, dec_residency)
  BY Tuples, MatchConcat, MatchEach, MatchEnum
  DEF enc_paths, dec_paths, enc_communication, dec_communication, enc_residency,
      dec_residency, dec_provenance, Id, U8, U32, U64, Bool, Double, String
<1> QED  BY <1>1, <1>2, <1>3, <1>4, <1>5, <1>6, <1>7

\* So do those of each whole record.
LEMMA WholeMatch ==
  /\ Match(enc_binding, dec_binding) /\ Match(enc_factor, dec_factor)
  /\ Match(enc_rejected, dec_rejected) /\ Match(enc_claim, dec_claim)
  /\ Match(enc_candidate_id, dec_candidate_id) /\ Match(enc_request, dec_request)
  /\ Match(encode_candidate_record, decode_candidate_record)
  /\ Match(enc_plan, dec_plan) /\ Match(enc_payload, dec_payload)
<1>1. Match(enc_binding, dec_binding) /\ Match(enc_factor, dec_factor)
  BY AcceleratorTop, FactorTop, ProvenanceTop, Tuples, LongTuples, MatchConcat, MatchEach,
      MatchEnum
  DEF AsksFor, enc_binding, dec_binding, enc_factor, dec_factor, dec_provenance, Id, U8, U16,
      I32, Bool, Double, String
<1>2. /\ Match(enc_rejected, dec_rejected) /\ Match(enc_claim, dec_claim)
      /\ Match(enc_candidate_id, dec_candidate_id)
  BY Tuples, MatchConcat, MatchEach, MatchEnum
  DEF enc_rejected, dec_rejected, enc_claim, dec_claim, enc_candidate_id,
      dec_candidate_id, Id, U8, U64, Bool, String
<1>3. Match(enc_request, dec_request)
  BY Stretches, Tuples, MatchConcat, MatchEach
  DEF enc_request, dec_request, enc_demand, dec_demand, Id, U64
<1>4. Match(encode_candidate_record, decode_candidate_record)
  BY Stretches, MatchConcat DEF encode_candidate_record, decode_candidate_record
<1>5. Match(enc_plan, dec_plan)
  BY Stretches, MatchConcat DEF enc_plan, dec_plan
<1>6. Match(enc_payload, dec_payload)
  BY Tuples, MatchConcat, MatchEach, MatchList DEF enc_payload, dec_payload, Id, U64
<1> QED  BY <1>1, <1>2, <1>3, <1>4, <1>5, <1>6

\* Parts whose calls are all for fields, or that call for all of them, do so
\* together.
LEMMA Together ==
  /\ \A a, b, S : IsSeq(a) /\ IsSeq(b) /\ AllFields(a, S) /\ AllFields(b, S) => AllFields(a \o b, S)
  /\ \A a, S, T : AllFields(a, S) /\ S \subseteq T => AllFields(a, T)
  /\ \A a, b, S : IsSeq(a) /\ IsSeq(b) /\ AllCalled(S, a) => AllCalled(S, a \o b)
  /\ \A a, b, S : IsSeq(a) /\ IsSeq(b) /\ AllCalled(S, b) => AllCalled(S, a \o b)
<1>1. \A a, b, S : IsSeq(a) /\ IsSeq(b) /\ AllFields(a, S) /\ AllFields(b, S)
        => AllFields(a \o b, S)
  BY CallsConcat DEF AllFields
<1>2. \A a, S, T : AllFields(a, S) /\ S \subseteq T => AllFields(a, T)
  BY DEF AllFields, HasField
<1>3. /\ \A a, b, S : IsSeq(a) /\ IsSeq(b) /\ AllCalled(S, a) => AllCalled(S, a \o b)
      /\ \A a, b, S : IsSeq(a) /\ IsSeq(b) /\ AllCalled(S, b) => AllCalled(S, a \o b)
  BY CallsConcat DEF AllCalled
<1> QED  BY <1>1, <1>2, <1>3

\* All the calls of a demand are for its fields,
LEMMA DemandFields == AllFields(dec_demand, DemandProfile)
<1>1. /\ IsSeq(dec_accelerator) /\ IsSeq(dec_supply) /\ IsSeq(dec_locality) /\ IsSeq(dec_terms)
  BY Stretches DEF Match
<1> QED
  BY <1>1, AcceleratorFields, SupplyFields, LocalityFields, TermsFields, Together, CallsConcat
  DEF dec_demand

\* and all its fields have one, but for the topology it requires.
OfTheDemand ==
  [accelerator |-> All(IdT, {"demandId", "demandGeneration", "workloadId",
                             "workloadGeneration"}),
   supply      |-> All(IdT, {"communicationBytes"}) \cup All(CountT, {"cpuRequired"})
                   \cup All(EnumT(CommunicationPattern), {"communication"}),
   terms       |-> All(IdT, {"expectedExecutionDuration", "externalPriorityOrdinal",
                             "sloGeneration", "policyGeneration", "priorityGeneration",
                             "maximumMovementCost"})
                   \cup All(IntT, {"externalPriority"})
                   \cup All(EnumT(LatencySensitivity), {"latencySensitivity"})
                   \cup All(RealT, {"throughputObjective"})
                   \cup All(ListT("locality"), {"fallbackLocalities"})
                   \cup All(EnumT(Provenance), {"provenance"})]

\* and each field of a stretch has a call,
LEMMA OfTheDemandCalled ==
  /\ AllCalled(OfTheDemand.accelerator, dec_accelerator)
  /\ AllCalled(OfTheDemand.supply, dec_supply)
  /\ AllCalled(OfTheDemand.terms, dec_terms)
<1>1. ASSUME NEW f \in OfTheDemand.accelerator
      PROVE  Field(f.name, AskedOf(f.type)) \in Calls(dec_accelerator)
  BY <1>1, AcceleratorTop, Tuples, IsSeqs, ToCalls, OfAll, TypesAsk
  DEF AsksFor, dec_accelerator, Id, U32, U64, Bool, OfTheDemand
<1>2. ASSUME NEW f \in OfTheDemand.supply
      PROVE  Field(f.name, AskedOf(f.type)) \in Calls(dec_supply)
  BY <1>2, PatternTop, Tuples, IsSeqs, ToCalls, OfAll, TypesAsk
  DEF AsksFor, dec_supply, U32, U64, Bool, OfTheDemand
<1>3. ASSUME NEW f \in OfTheDemand.terms
      PROVE  Field(f.name, AskedOf(f.type)) \in Calls(dec_terms)
  BY <1>3, LatencyTop, ProvenanceTop, Tuples, IsSeqs, ToCalls, OfAll, TypesAsk
  DEF AsksFor, dec_terms, dec_provenance, Id, I32, U64, Double, OfTheDemand
<1> QED  BY <1>1, <1>2, <1>3 DEF AllCalled

Carried(S) == {f \in S : f.name # "requiredTopologyGeneration"}

\* but for the topology a demand requires, which none of them carries.
LEMMA DemandCalled == AllCalled(Carried(DemandProfile), dec_demand)
<1> SUFFICES ASSUME NEW f \in DemandProfile, f.name # "requiredTopologyGeneration"
             PROVE  Field(f.name, AskedOf(f.type)) \in Calls(dec_demand)
  BY DEF AllCalled, Carried
<1>1. /\ IsSeq(dec_accelerator) /\ IsSeq(dec_supply) /\ IsSeq(dec_locality) /\ IsSeq(dec_terms)
  BY Stretches DEF Match
<1>2. /\ \A g : g \in Calls(dec_accelerator) \/ g \in Calls(dec_supply) => g \in Calls(dec_demand)
      /\ \A g : g \in Calls(dec_locality) \/ g \in Calls(dec_terms) => g \in Calls(dec_demand)
  BY <1>1, CallsConcat DEF dec_demand
<1>3. \/ f \in AcceleratorRequirement \/ f \in MemoryStorageNetwork
      \/ f \in ResidencyRequirement \cup FailureDomainConstraint
      \/ f \in OfTheDemand.accelerator \/ f \in OfTheDemand.supply \/ f \in OfTheDemand.terms
  BY OfAll, InAll DEF DemandProfile, OfTheDemand, All
<1> QED
  BY <1>2, <1>3, AcceleratorCalled, SupplyCalled, LocalityCalled, OfTheDemandCalled
  DEF AllCalled

\* So it is for a request.
LEMMA RequestAgrees ==
  AllFields(dec_request, SchedulingRequest) /\ AllCalled(Carried(SchedulingRequest), dec_request)
<1> DEFINE ids   == Id(<<"requestId", "generation", "coordinatorEpoch",
                        "sourceId", "sourceBootId">>)
           order == U64(<<"submitOrdinal">>)
           S     == All(IdT, {"requestId", "generation", "coordinatorEpoch", "sourceId",
                              "sourceBootId", "submitOrdinal"})
<1>1. IsSeq(ids) /\ IsSeq(order) /\ IsSeq(dec_demand) /\ IsSeq(ids \o order)
      /\ dec_request = ids \o order \o dec_demand
  <2>1. IsSeq(ids) /\ IsSeq(order)
    BY Tuples, IsSeqs DEF Id, U64
  <2>2. IsSeq(dec_demand)
    BY Stretches, IsSeqs DEF Match, dec_demand
  <2> QED  BY <2>1, <2>2, IsSeqs DEF dec_request
<1>2. AllFields(ids \o order, S)
  <2> SUFFICES ASSUME NEW f \in Calls(ids \o order)
               PROVE  HasField(S, f.name, f.type)
    BY DEF AllFields
  <2> QED  BY Tuples, IsSeqs, FromCalls, InAll DEF HasField, Id, U64
<1>3. AllCalled(S, ids \o order)
  <2> SUFFICES ASSUME NEW f \in S
               PROVE  Field(f.name, AskedOf(f.type)) \in Calls(ids \o order)
    BY DEF AllCalled
  <2> QED  BY Tuples, IsSeqs, ToCalls, OfAll, TypesAsk DEF Id, U64
<1> HIDE DEF ids, order
<1>4. S \subseteq SchedulingRequest /\ DemandProfile \subseteq SchedulingRequest
      /\ \A f \in Carried(SchedulingRequest) : f \in S \/ f \in Carried(DemandProfile)
  BY DEF SchedulingRequest, Carried
<1> HIDE DEF S
<1>5. AllFields(dec_request, SchedulingRequest)
  BY <1>1, <1>2, <1>4, DemandFields, Together
<1>6. AllCalled(S, dec_request) /\ AllCalled(Carried(DemandProfile), dec_request)
  BY <1>1, <1>3, DemandCalled, Together
<1>7. AllCalled(Carried(SchedulingRequest), dec_request)
  BY <1>4, <1>6 DEF AllCalled
<1> QED  BY <1>5, <1>7

\* No call of it is for the topology the demand requires.
LEMMA RequestForgets == \A f \in Calls(dec_request) : f.name # "requiredTopologyGeneration"
<1> SUFFICES ASSUME NEW f \in Calls(dec_request)
             PROVE  f.name # "requiredTopologyGeneration"
  OBVIOUS
<1>1. f \in Calls(dec_accelerator) => f.name # "requiredTopologyGeneration"
  BY AcceleratorTop, Tuples, IsSeqs, FromCalls
  DEF AsksFor, dec_accelerator, Id, U32, U64, Bool
<1>2. f \in Calls(dec_supply) => f.name # "requiredTopologyGeneration"
  BY PatternTop, Tuples, IsSeqs, FromCalls
  DEF AsksFor, dec_supply, U32, U64, Bool
<1>3. f \in Calls(dec_locality) => f.name # "requiredTopologyGeneration"
  BY Tuples, IsSeqs, FromCalls
  DEF dec_locality, U32, String, Bool
<1>4. f \in Calls(dec_terms) => f.name # "requiredTopologyGeneration"
  BY LatencyTop, ProvenanceTop, Tuples, IsSeqs, FromCalls
  DEF AsksFor, dec_terms, dec_provenance, Id, I32, U64, Double
<1> DEFINE ids   == Id(<<"requestId", "generation", "coordinatorEpoch",
                        "sourceId", "sourceBootId">>)
           order == U64(<<"submitOrdinal">>)
<1>5. IsSeq(ids) /\ IsSeq(order)
  BY Tuples, IsSeqs DEF Id, U64
<1>6. f \in Calls(ids) \/ f \in Calls(order) => f.name # "requiredTopologyGeneration"
  BY Tuples, FromCalls DEF Id, U64
<1>7. dec_request = ids \o order \o dec_demand
  BY DEF dec_request
<1> HIDE DEF ids, order
<1>8. /\ IsSeq(dec_accelerator) /\ IsSeq(dec_supply) /\ IsSeq(dec_locality) /\ IsSeq(dec_terms)
  BY Stretches DEF Match
<1>9. IsSeq(dec_demand) /\ IsSeq(ids \o order)
  BY <1>5, <1>8, IsSeqs DEF dec_demand
<1>10. f \in Calls(ids) \/ f \in Calls(order) \/ f \in Calls(dec_demand)
  BY <1>5, <1>7, <1>9, FromCalls
<1>11. f \in Calls(dec_demand) =>
         \/ f \in Calls(dec_accelerator) \/ f \in Calls(dec_supply)
         \/ f \in Calls(dec_locality) \/ f \in Calls(dec_terms)
  BY <1>8, FromCalls, IsSeqs DEF dec_demand
<1> QED  BY <1>1, <1>2, <1>3, <1>4, <1>6, <1>10, <1>11

\* The calls of a plan.
OfThePlan ==
  [choice   |-> All(IdT, {"planId", "planGeneration", "requestId", "requestGeneration",
                          "selectedCandidate", "selectedCandidateGeneration"})
                \cup All(ListT("id"), {"fallbackCandidates"})
                \cup All(ListT("binding"), {"bindings"}) \cup All(ListT("claim"), {"claims"}),
   movement |-> All(IdT, {"communicationPlan", "movementBytes"})
                \cup All(TextT, {"communicationPlanId", "movementSource"})
                \cup All(FlagT, {"residencyPrerequisite"})
                \cup All(ListT("factor"), {"selectedFactors"})
                \cup All(ListT("rejected"), {"rejectedAlternatives"}),
   standing |-> All(IdT, {"policyGeneration", "authorityGeneration", "coordinatorEpoch",
                          "supersededBy"})
                \cup All(TextT, {"supersessionReason"})
                \cup All(FlagT, {"hasCommitmentEvidence"})
                \cup All(EnumT(PlacementLifecycleState), {"state"})
                \cup All(ListT("transition"), {"stateHistory"})]

\* Each field of a stretch has a call.
LEMMA OfThePlanCalled ==
  /\ AllCalled(OfThePlan.choice, dec_choice)
  /\ AllCalled(OfThePlan.movement, dec_movement)
  /\ AllCalled(OfThePlan.standing, dec_standing)
<1>1. ASSUME NEW f \in OfThePlan.choice
      PROVE  Field(f.name, AskedOf(f.type)) \in Calls(dec_choice)
  BY <1>1, Tuples, IsSeqs, ToCalls, OfAll, TypesAsk DEF dec_choice, Id, OfThePlan
<1>2. ASSUME NEW f \in OfThePlan.movement
      PROVE  Field(f.name, AskedOf(f.type)) \in Calls(dec_movement)
  BY <1>2, Tuples, IsSeqs, ToCalls, OfAll, TypesAsk
  DEF dec_movement, Id, U64, Bool, String, OfThePlan
<1>3. IsSeq(dec_fingerprint)
  BY LongTuples, IsSeqs
  DEF dec_fingerprint, Id
<1>4. ASSUME NEW f \in OfThePlan.standing
      PROVE  Field(f.name, AskedOf(f.type)) \in Calls(dec_standing)
  BY <1>3, <1>4, LifecycleTop, Tuples, IsSeqs, ToCalls, OfAll, TypesAsk
  DEF AsksFor, dec_standing, dec_state, Id, Bool, String, OfThePlan
<1> QED  BY <1>1, <1>2, <1>4 DEF AllCalled

\* Each is for a field of it, and each of its fields has one.
LEMMA StandingFields == AllFields(dec_standing, PlacementPlan)
<1> SUFFICES ASSUME NEW f \in Calls(dec_standing)
             PROVE  HasField(PlacementPlan, f.name, f.type)
  BY DEF AllFields
<1>1. IsSeq(dec_fingerprint)
  BY LongTuples, IsSeqs
  DEF dec_fingerprint, Id
<1>2. AllFields(dec_fingerprint, PlacementPlan)
  BY FingerprintFields, Together DEF PlacementPlan
<1>3. f \notin Calls(dec_fingerprint) => HasField(PlacementPlan, f.name, f.type)
  BY <1>1, LifecycleTop, Tuples, IsSeqs, FromCalls, InAll
  DEF AsksFor, HasField, dec_standing, dec_state, Id, Bool, String, PlacementPlan
<1> QED  BY <1>2, <1>3 DEF AllFields

\* The writer and the reader of a plan agree.
LEMMA PlanAgrees == AllFields(dec_plan, PlacementPlan) /\ AllCalled(PlacementPlan, dec_plan)
<1>1. IsSeq(dec_choice) /\ IsSeq(dec_movement) /\ IsSeq(dec_standing)
      /\ IsSeq(dec_choice \o dec_movement) /\ dec_plan = dec_choice \o dec_movement \o dec_standing
  BY Stretches, IsSeqs DEF Match, dec_plan
<1>2. AllFields(dec_plan, PlacementPlan)
  BY <1>1, ChoiceFields, MovementFields, StandingFields, Together
<1>3. AllCalled(GenerationFingerprint, dec_standing)
  <2>1. IsSeq(dec_fingerprint)
    BY LongTuples, IsSeqs
    DEF dec_fingerprint, Id
  <2>2. \A x, T : Field(x, T) \in Calls(dec_fingerprint) => Field(x, T) \in Calls(dec_standing)
    BY <2>1, LifecycleTop, Tuples, IsSeqs, ToCalls
    DEF AsksFor, dec_standing, dec_state, Id, Bool, String
  <2> QED  BY <2>2, FingerprintCalled DEF AllCalled
<1>4. \A f \in PlacementPlan :
         \/ f \in OfThePlan.choice \/ f \in OfThePlan.movement \/ f \in OfThePlan.standing
         \/ f \in GenerationFingerprint
  BY DEF PlacementPlan, OfThePlan, All
<1>5. /\ AllCalled(OfThePlan.choice, dec_plan) /\ AllCalled(OfThePlan.movement, dec_plan)
      /\ AllCalled(OfThePlan.standing, dec_plan) /\ AllCalled(GenerationFingerprint, dec_plan)
  BY <1>1, <1>3, OfThePlanCalled, Together
<1>6. AllCalled(PlacementPlan, dec_plan)
  BY <1>4, <1>5 DEF AllCalled
<1> QED  BY <1>2, <1>6

\* The calls of a candidate.
OfTheCandidate ==
  [origin |-> CandidateIdentity \cup All(EnumT(Provenance), {"provenance"})
              \cup All(ListT("binding"), {"bindings"}),
   policy |-> All(IdT, {"policyGeneration"}) \cup All(RealT, {"memoryMovementCost"})]

\* Its first and its last stretch.
LEMMA OfTheCandidateAgrees ==
  /\ AllFields(dec_origin, OfTheCandidate.origin) /\ AllCalled(OfTheCandidate.origin, dec_origin)
  /\ AllFields(dec_policy, OfTheCandidate.policy) /\ AllCalled(OfTheCandidate.policy, dec_policy)
<1>1. ASSUME NEW f \in Calls(dec_origin)
      PROVE  HasField(OfTheCandidate.origin, f.name, f.type)
  BY <1>1, ProvenanceTop, Tuples, IsSeqs, FromCalls, InAll
  DEF AsksFor, HasField, dec_origin, dec_provenance, Id, OfTheCandidate, CandidateIdentity
<1>2. ASSUME NEW f \in OfTheCandidate.origin
      PROVE  Field(f.name, AskedOf(f.type)) \in Calls(dec_origin)
  BY <1>2, ProvenanceTop, Tuples, IsSeqs, ToCalls, OfAll, TypesAsk
  DEF AsksFor, dec_origin, dec_provenance, Id, OfTheCandidate, CandidateIdentity
<1>3. ASSUME NEW f \in Calls(dec_policy)
      PROVE  HasField(OfTheCandidate.policy, f.name, f.type)
  BY <1>3, Tuples, IsSeqs, FromCalls, InAll DEF HasField, dec_policy, Id, Double, OfTheCandidate
<1>4. ASSUME NEW f \in OfTheCandidate.policy
      PROVE  Field(f.name, AskedOf(f.type)) \in Calls(dec_policy)
  BY <1>4, Tuples, IsSeqs, ToCalls, OfAll, TypesAsk DEF dec_policy, Id, Double, OfTheCandidate
<1> QED  BY <1>1, <1>2, <1>3, <1>4 DEF AllFields, AllCalled

\* Each is for a field of it, and each of its fields has one.
LEMMA CandidateAgrees ==
  AllFields(decode_candidate_record, Candidate) /\ AllCalled(Candidate, decode_candidate_record)
<1> DEFINE d == decode_candidate_record
           a2 == dec_origin \o dec_capacity
           a3 == a2 \o dec_health
           a4 == a3 \o dec_reservation
           a5 == a4 \o dec_congestion
           a6 == a5 \o dec_paths
           a7 == a6 \o dec_communication
           a8 == a7 \o dec_residency
<1>1. /\ IsSeq(dec_origin) /\ IsSeq(dec_capacity) /\ IsSeq(dec_health) /\ IsSeq(dec_reservation)
      /\ IsSeq(dec_congestion) /\ IsSeq(dec_paths) /\ IsSeq(dec_communication)
      /\ IsSeq(dec_residency) /\ IsSeq(dec_policy)
  BY Stretches DEF Match
<1>2. d = a8 \o dec_policy
  BY DEF decode_candidate_record
<1>3. /\ IsSeq(a2) /\ IsSeq(a3) /\ IsSeq(a4) /\ IsSeq(a5) /\ IsSeq(a6) /\ IsSeq(a7) /\ IsSeq(a8)
  BY <1>1, IsSeqs
<1>4. /\ CapacityEvidence \subseteq Candidate /\ HealthEvidence \subseteq Candidate
      /\ ReservationEvidence \subseteq Candidate /\ CongestionEvidence \subseteq Candidate
      /\ LocalityEvidence \subseteq Candidate /\ CommunicationEvidence \subseteq Candidate
      /\ ResidencyEvidence \subseteq Candidate
      /\ OfTheCandidate.origin \subseteq Candidate /\ OfTheCandidate.policy \subseteq Candidate
  BY DEF Candidate, OfTheCandidate
<1>5. \A f \in Candidate :
         \/ f \in CapacityEvidence \/ f \in HealthEvidence \/ f \in ReservationEvidence
         \/ f \in CongestionEvidence \/ f \in LocalityEvidence \/ f \in CommunicationEvidence
         \/ f \in ResidencyEvidence \/ f \in OfTheCandidate.origin \/ f \in OfTheCandidate.policy
  BY DEF Candidate, OfTheCandidate
<1>6. /\ AllFields(dec_origin, Candidate) /\ AllFields(dec_capacity, Candidate)
      /\ AllFields(dec_health, Candidate) /\ AllFields(dec_reservation, Candidate)
      /\ AllFields(dec_congestion, Candidate) /\ AllFields(dec_paths, Candidate)
      /\ AllFields(dec_communication, Candidate) /\ AllFields(dec_residency, Candidate)
      /\ AllFields(dec_policy, Candidate)
  BY <1>4, OfTheCandidateAgrees, CapacityFields, HealthFields, ReservationFields,
     CongestionFields, PathsFields, CommunicationFields, ResidencyFields, Together
<1>7. AllFields(d, Candidate)
  <2> HIDE DEF d
  <2> QED  BY <1>1, <1>2, <1>3, <1>6, Together
<1>8. \A f : \/ f \in Calls(dec_origin) \/ f \in Calls(dec_capacity) \/ f \in Calls(dec_health)
             \/ f \in Calls(dec_reservation) \/ f \in Calls(dec_congestion)
             \/ f \in Calls(dec_paths) \/ f \in Calls(dec_communication)
             \/ f \in Calls(dec_residency) \/ f \in Calls(dec_policy)
             => f \in Calls(d)
  <2> HIDE DEF d
  <2> QED  BY <1>1, <1>2, <1>3, CallsConcat
<1> HIDE DEF d
<1>9. AllCalled(Candidate, d)
  BY <1>5, <1>8, OfTheCandidateAgrees, CapacityCalled, HealthCalled, ReservationCalled,
     CongestionCalled, PathsCalled, CommunicationCalled, ResidencyCalled DEF AllCalled
<1> QED  BY <1>7, <1>9 DEF d

-----------------------------------------------------------------------------
(* Every struct, by its name.                                              *)

Flat   == {"locality", "id", "transition", "reason", "binding", "factor", "rejected",
           "claim", "identity"}
Middle == {"request", "candidate", "plan"}

\* The writer, the reader and the struct agree.
Agrees(struct) ==
  /\ Match(Enc[struct], Dec[struct])
  /\ AllFields(Dec[struct], Struct[struct])
  /\ AllCalled(Carried(Struct[struct]), Dec[struct])

\* The writers and readers of the items of one or two fields agree.
LEMMA SmallAgree ==
  /\ Agrees("locality") /\ Agrees("id") /\ Agrees("transition") /\ Agrees("reason")
<1>1. Agrees("locality")
  <2>1. Match(U8(<<"kind">>), Enum(1, "kind", Ordinal(LocalityKind, "Topology")))
    BY MatchEnum DEF U8
  <2>2. AllFields(Enum(1, "kind", Ordinal(LocalityKind, "Topology")),
                  All(EnumT(LocalityKind), {"kind"}))
    BY LocalityTop, FromCalls, InAll DEF AsksFor, HasField, AllFields
  <2>3. AllCalled(All(EnumT(LocalityKind), {"kind"}),
                  Enum(1, "kind", Ordinal(LocalityKind, "Topology")))
    BY LocalityTop, ToCalls, OfAll, TypesAsk DEF AsksFor, AllCalled
  <2> QED  BY <2>1, <2>2, <2>3 DEF Agrees, Enc, Dec, Struct, Carried, AllCalled
<1>2. Agrees("id")
  <2>1. Match(Id(<<"id">>), Id(<<"id">>))
    BY Tuples, MatchEach DEF Id
  <2>2. AllFields(Id(<<"id">>), All(IdT, {"id"}))
    BY Tuples, FromCalls, InAll DEF Id, HasField, AllFields
  <2>3. AllCalled(All(IdT, {"id"}), Id(<<"id">>))
    BY Tuples, ToCalls, OfAll, TypesAsk DEF Id, AllCalled
  <2> QED  BY <2>1, <2>2, <2>3 DEF Agrees, Enc, Dec, Struct, Carried, AllCalled
<1>3. Agrees("transition")
  <2> DEFINE S == All(EnumT(PlacementLifecycleState), {"state"}) \cup All(IdT, {"at"})
  <2>1. Match(U8(<<"state">>) \o U64(<<"at">>), dec_state \o U64(<<"at">>))
    BY Tuples, MatchEach, MatchEnum, MatchConcat DEF U8, U64, dec_state
  <2>2. AllFields(dec_state \o U64(<<"at">>), S)
    BY LifecycleTop, Tuples, IsSeqs, FromCalls, InAll
    DEF AsksFor, U64, dec_state, HasField, AllFields
  <2>3. AllCalled(S, dec_state \o U64(<<"at">>))
    BY LifecycleTop, Tuples, IsSeqs, ToCalls, OfAll, TypesAsk
    DEF AsksFor, U64, dec_state, AllCalled
  <2> QED  BY <2>1, <2>2, <2>3 DEF Agrees, Enc, Dec, Struct, Carried, AllCalled
<1>4. Agrees("reason")
  <2>1. Match(String(<<"text">>), String(<<"text">>))
    BY Tuples, MatchEach DEF String
  <2>2. AllFields(String(<<"text">>), All(TextT, {"text"}))
    BY Tuples, FromCalls, InAll DEF String, HasField, AllFields
  <2>3. AllCalled(All(TextT, {"text"}), String(<<"text">>))
    BY Tuples, ToCalls, OfAll, TypesAsk DEF String, AllCalled
  <2> QED  BY <2>1, <2>2, <2>3 DEF Agrees, Enc, Dec, Struct, Carried, AllCalled
<1> QED  BY <1>1, <1>2, <1>3, <1>4

\* For every struct the writer and the reader agree.
LEMMA AllAgree ==
  \A struct \in Flat \cup Middle \cup {"file"} : Agrees(struct)
<1>1. Agrees("binding") /\ Agrees("factor") /\ Agrees("rejected")
  BY WholeMatch, BindingFields, BindingCalled, FactorFields, FactorCalled, RejectedFields,
     RejectedCalled DEF Agrees, Enc, Dec, Struct, Carried, AllCalled
<1>2. Agrees("claim") /\ Agrees("identity") /\ Agrees("file")
  BY WholeMatch, ClaimFields, ClaimCalled, IdentityFields, IdentityCalled, PayloadFields,
     PayloadCalled DEF Agrees, Enc, Dec, Struct, Carried, AllCalled
<1>3. Agrees("request") /\ Agrees("candidate") /\ Agrees("plan")
  BY WholeMatch, RequestAgrees, CandidateAgrees, PlanAgrees
  DEF Agrees, Enc, Dec, Struct, Carried, AllCalled
<1> QED  BY <1>1, <1>2, <1>3, SmallAgree DEF Flat, Middle

\* Records nest three deep.
LEMMA Nesting ==
  /\ \A s \in Flat : \A f \in Struct[s] : f.type.t # "list"
  /\ \A s \in Middle : \A f \in Struct[s] : f.type.t = "list" => f.type.item \in Flat
  /\ \A f \in Struct["file"] : f.type.t = "list" => f.type.item \in Flat \cup Middle
<1> DEFINE P(s) == \A f \in Struct[s] : f.type.t # "list"
           Q(s) == \A f \in Struct[s] : f.type.t = "list" => f.type.item \in Flat
<1> USE OfAll DEF ListT, EnumT, Type, TextT, IdT, CountT, IntT, FlagT, RealT
<1>1. P("locality") /\ P("id") /\ P("transition") /\ P("reason")
  BY DEF Struct
<1>2. P("binding")
  BY DEF Struct, DeviceBinding
<1>3. P("factor") /\ P("rejected")
  BY DEF Struct, RankFactor, RejectedAlternative
<1>4. P("claim") /\ P("identity")
  BY DEF Struct, ResourceClaim, CandidateIdentity
<1>5. Q("plan")
  BY DEF Struct, PlacementPlan, GenerationFingerprint, Flat
<1>6. Q("request")
  BY DEF Struct, SchedulingRequest, DemandProfile, AcceleratorRequirement,
         MemoryStorageNetwork, ResidencyRequirement, FailureDomainConstraint, Flat
<1>7. Q("candidate")
  <2>1. \A f \in CapacityEvidence : f.type.t # "list"
    BY DEF CapacityEvidence
  <2>2. \A f \in HealthEvidence : f.type.t # "list"
    BY DEF HealthEvidence
  <2>3. \A f \in ReservationEvidence : f.type.t # "list"
    BY DEF ReservationEvidence
  <2>4. \A f \in CongestionEvidence : f.type.t # "list"
    BY DEF CongestionEvidence
  <2>5. \A f \in LocalityEvidence : f.type.t # "list"
    BY DEF LocalityEvidence
  <2>6. \A f \in CommunicationEvidence : f.type.t # "list"
    BY DEF CommunicationEvidence
  <2>7. \A f \in ResidencyEvidence : f.type.t # "list"
    BY DEF ResidencyEvidence
  <2> QED  BY <2>1, <2>2, <2>3, <2>4, <2>5, <2>6, <2>7
           DEF Struct, Candidate, CandidateIdentity, Flat
<1>8. \A f \in Struct["file"] : f.type.t = "list" => f.type.item \in Flat \cup Middle
  BY DEF Struct, Persisted, Flat, Middle
<1> QED  BY <1>1, <1>2, <1>3, <1>4, <1>5, <1>6, <1>7, <1>8 DEF Flat, Middle

\* A tuple of one or two cells.
LEMMA Cells ==
  /\ \A a : IsSeq(<<a>>) /\ Len(<<a>>) = 1 /\ <<a>>[1] = a
  /\ \A a, b : IsSeq(<<a, b>>) /\ Len(<<a, b>>) = 2 /\ <<a, b>>[1] = a /\ <<a, b>>[2] = b
  BY Tuples

\* What is put together of sequences is one.
LEMMA FlattenIsSeq ==
  ASSUME NEW parts, IsSeq(parts), \A i \in 1..Len(parts) : IsSeq(parts[i])
  PROVE  IsSeq(FlattenSeq(parts)) /\ Len(FlattenSeq(parts)) \in Nat
<1>1. PICK g : g[Len(parts)] = FlattenSeq(parts) /\ \A i \in 0..Len(parts) : IsSeq(g[i])
  BY Beginnings
<1>2. Len(parts) \in Nat
  BY SeqElements
<1>3. IsSeq(g[Len(parts)])
  BY <1>1, <1>2
<1> QED  BY <1>1, <1>3, SeqElements

\* A value of fixed width.
LEMMA FixedReads ==
  ASSUME NEW cells, IsSeq(cells), NEW p \in Nat \ {0}, NEW op, NEW v, v = Val(v.of, v.n),
         Carries(cells, p, <<Cell(op.width, v.of, v.n)>>)
  PROVE  Reads(GetFixed(op, cells, p), cells, p, <<Cell(op.width, v.of, v.n)>>, v,
               op.top # Unchecked => v.n <= op.top)
<1> DEFINE c    == Cell(op.width, v.of, v.n)
           part == <<c>>
<1>1. Len(part) = 1 /\ part[1] = c /\ Len(cells) \in Nat /\ DOMAIN cells = 1..Len(cells)
  BY Cells, SeqElements
<1>2. c.width = op.width /\ c.n = v.n /\ Value(c) = v
  BY DEF Cell, Value
<1> HIDE DEF c
<1>3. Whole(cells, p, part) <=> p \in DOMAIN cells
  BY <1>1 DEF Whole
<1>4. p \in DOMAIN cells => cells[p] = c
  BY <1>1 DEF Carries, c
<1> HIDE DEF part
<1>5. CASE p \in DOMAIN cells
  <2>1. cells[p].width = op.width /\ cells[p].n = v.n /\ Value(cells[p]) = v
    BY <1>2, <1>4, <1>5
  <2>2. Require(cells, p, op.width)
    BY <1>5, <2>1 DEF Require
  <2>3. CASE op.top # Unchecked => v.n <= op.top
    <3>1. GetFixed(op, cells, p) = Got(v, p + 1)
      BY <2>1, <2>2, <2>3 DEF GetFixed
    <3> QED  BY <1>1, <1>3, <1>5, <2>3, <3>1 DEF Reads, Got, part, c
  <2>4. CASE ~(op.top # Unchecked => v.n <= op.top)
    <3>1. GetFixed(op, cells, p) = Refused
      BY <2>1, <2>2, <2>4 DEF GetFixed
    <3> QED  BY <2>4, <3>1 DEF Reads, Refused
  <2> QED  BY <2>3, <2>4
<1>6. CASE p \notin DOMAIN cells
  <2>1. GetFixed(op, cells, p) = Refused
    BY <1>6 DEF GetFixed, Require
  <2> QED  BY <1>3, <1>6, <2>1 DEF Reads, Refused, part, c
<1> QED  BY <1>5, <1>6

\* A string: its length and its bytes.
LEMMA StringReads ==
  ASSUME NEW cells, IsSeq(cells), NEW p \in Nat \ {0}, NEW v, v = Val(v.of, v.n),
         Carries(cells, p, <<Cell(4, v.of, v.n), Cell(v.n, v.of, v.n)>>)
  PROVE  Reads(GetString(cells, p), cells, p, <<Cell(4, v.of, v.n), Cell(v.n, v.of, v.n)>>,
               v, v.n <= MaxString)
<1> DEFINE c    == Cell(4, v.of, v.n)
           d    == Cell(v.n, v.of, v.n)
           part == <<c, d>>
<1>1. /\ Len(part) = 2 /\ part[1] = c /\ part[2] = d
      /\ Len(cells) \in Nat /\ DOMAIN cells = 1..Len(cells)
  BY Cells, SeqElements
<1>2. c.width = 4 /\ c.n = v.n /\ Value(c) = v /\ d.width = v.n
  BY DEF Cell, Value
<1> HIDE DEF c, d
<1>3. Whole(cells, p, part) <=> p \in DOMAIN cells /\ p + 1 \in DOMAIN cells
  BY <1>1 DEF Whole
<1>4. /\ p \in DOMAIN cells => cells[p] = c
      /\ p + 1 \in DOMAIN cells => cells[p + 1] = d
  <2>1. Carries(cells, p, part)
    BY DEF c, d
  <2>2. 1 \in 1..Len(part) /\ 2 \in 1..Len(part) /\ p + 1 - 1 = p /\ p + 2 - 1 = p + 1
    BY <1>1
  <2> HIDE DEF part
  <2> QED  BY <1>1, <2>1, <2>2 DEF Carries
<1> HIDE DEF part
<1>5. CASE p \in DOMAIN cells /\ p + 1 \in DOMAIN cells
  <2>1. /\ cells[p].width = 4 /\ cells[p].n = v.n /\ Value(cells[p]) = v
        /\ cells[p + 1].width = v.n
    BY <1>2, <1>4, <1>5
  <2>2. Require(cells, p, 4) /\ Require(cells, p + 1, cells[p].n)
    BY <1>5, <2>1 DEF Require
  <2>3. CASE v.n <= MaxString
    <3>1. GetString(cells, p) = Got(v, p + 2)
      BY <2>1, <2>2, <2>3 DEF GetString
    <3> QED  BY <1>1, <1>3, <1>5, <2>3, <3>1 DEF Reads, Got, part, c, d
  <2>4. CASE ~(v.n <= MaxString)
    <3>1. GetString(cells, p) = Refused
      BY <2>1, <2>4 DEF GetString
    <3> QED  BY <2>4, <3>1 DEF Reads, Refused
  <2> QED  BY <2>3, <2>4
<1>6. CASE ~(p \in DOMAIN cells /\ p + 1 \in DOMAIN cells)
  <2>1. GetString(cells, p) = Refused
    BY <1>6 DEF GetString, Require
  <2> QED  BY <1>3, <1>6, <2>1 DEF Reads, Refused, part, c, d
<1> QED  BY <1>5, <1>6

\* A list: its length and its items.
LEMMA ListReads ==
  ASSUME NEW cells, IsSeq(cells), NEW p \in Nat \ {0}, NEW items, NEW of, NEW name,
         NEW parts, NEW vals, NEW within, NEW n \in Nat,
         IsSeq(parts), IsSeq(vals), Len(parts) = n, Len(vals) = n,
         \A j \in 1..n : IsSeq(parts[j]), \A j \in 1..n : within[j] \in BOOLEAN,
         \A j \in 1..n : \A q \in Nat \ {0} : Carries(cells, q, parts[j]) =>
           Reads(items[of][q], cells, q, parts[j], vals[j], within[j]),
         NEW op, op.call = "list", op.items = of,
         Carries(cells, p, <<Cell(4, name, n)>> \o FlattenSeq(parts))
  PROVE  Reads(ReadField(items, op, cells, p), cells, p,
               <<Cell(4, name, n)>> \o FlattenSeq(parts), vals,
               n <= MaxRecords /\ \A j \in 1..n : within[j])
<1> DEFINE c     == Cell(4, name, n)
           flat  == FlattenSeq(parts)
           part  == <<c>> \o flat
           calls == [i \in 1..n |-> items[of]]
           all   == InOrder(calls, p + 1)
           ok    == \A j \in 1..n : within[j]
<1>1. Len(cells) \in Nat /\ DOMAIN cells = 1..Len(cells)
  BY SeqElements
<1>2. c.width = 4 /\ c.n = n
  BY DEF Cell
<1>3. IsSeq(flat) /\ Len(flat) \in Nat
  BY FlattenIsSeq
<1>4. IsSeq(<<c>>) /\ Len(<<c>>) = 1 /\ <<c>>[1] = c
  BY Cells
<1>5. IsSeq(calls) /\ Len(calls) = n /\ \A i \in 1..n : calls[i] = items[of]
  BY SeqOfFunction
<1>6. Carries(cells, p, <<c>>) /\ Carries(cells, p + 1, flat)
  BY <1>3, <1>4, CarriesConcat
<1>7. Len(part) = 1 + Len(flat)
  BY <1>3, <1>4, Concatenation
<1>8. ReadField(items, op, cells, p) =
        IF LengthOk(cells, p) THEN InOrder([i \in 1..cells[p].n |-> items[of]], p + 1) ELSE Refused
  BY DEF ReadField
<1> HIDE DEF c
<1>9. p \in DOMAIN cells => cells[p] = c
  BY <1>1, <1>4, <1>6 DEF Carries
<1> HIDE DEF flat, part, calls
<1>10. Reads(all, cells, p + 1, flat, vals, ok)
  <2>1. \A i \in 1..Len(calls) : \A q \in Nat \ {0} : Carries(cells, q, parts[i]) =>
          Reads(calls[i][q], cells, q, parts[i], vals[i], within[i])
    BY <1>5
  <2>2. Reads(InOrder(calls, p + 1), cells, p + 1, FlattenSeq(parts), vals,
              \A i \in 1..Len(calls) : within[i])
    <3>1. /\ p + 1 \in Nat \ {0} /\ IsSeq(calls) /\ IsSeq(parts) /\ IsSeq(vals) /\ IsSeq(cells)
          /\ Len(parts) = Len(calls) /\ Len(vals) = Len(calls)
          /\ \A i \in 1..Len(calls) : IsSeq(parts[i])
          /\ \A i \in 1..Len(calls) : within[i] \in BOOLEAN
      BY <1>5
    <3>2. Carries(cells, p + 1, FlattenSeq(parts))
      BY <1>6 DEF flat
    <3> QED  BY <2>1, <3>1, <3>2, InOrderReads
  <2> QED  BY <1>5, <2>2 DEF Reads, flat, all, ok
<1> HIDE DEF all, ok
<1>11. Whole(cells, p, part) <=> p \in DOMAIN cells /\ Whole(cells, p + 1, flat)
  BY <1>1, <1>3, <1>7 DEF Whole
<1>12. CASE LengthOk(cells, p)
  <2>1. p \in DOMAIN cells /\ cells[p].n = n /\ n <= MaxRecords
    BY <1>2, <1>9, <1>12 DEF LengthOk, Require
  <2>2. ReadField(items, op, cells, p) = all
    BY <1>8, <1>12, <2>1 DEF all, calls
  <2>3. (p + 1) + Len(flat) = p + Len(part)
    BY <1>3, <1>7
  <2>4. Reads(all, cells, p, part, vals, n <= MaxRecords /\ ok)
    BY <1>10, <1>11, <2>1, <2>3 DEF Reads
  <2> QED  BY <2>2, <2>4 DEF part, flat, c, ok
<1>13. CASE ~LengthOk(cells, p)
  <2>1. p \in DOMAIN cells => ~(n <= MaxRecords)
    BY <1>2, <1>9, <1>13 DEF LengthOk, Require
  <2>2. ReadField(items, op, cells, p) = Refused
    BY <1>8, <1>13
  <2>3. Reads(Refused, cells, p, part, vals, n <= MaxRecords /\ ok)
    BY <1>11, <2>1 DEF Reads, Refused
  <2> QED  BY <2>2, <2>3 DEF part, flat, c, ok
<1> QED  BY <1>12, <1>13

-----------------------------------------------------------------------------
(* One record: what a call writes of a value, and reads of it.  iparts,    *)
(* ivals and iwithin are, for the items of a list, the cells of each, what *)
(* arrives of it and whether it is accepted.                               *)

PartOf(op, v, iparts) ==
  CASE op.call = "list"   -> <<Cell(4, op.name, Len(v))>> \o FlattenSeq(iparts)
    [] op.call = "string" -> <<Cell(4, v.of, v.n), Cell(v.n, v.of, v.n)>>
    [] op.call = "fixed"  -> <<Cell(op.width, v.of, v.n)>>

ValueOf(op, v, ivals) == IF op.call = "list" THEN ivals ELSE v

Fits(op, v, iwithin) ==
  CASE op.call = "list"   -> Len(v) <= MaxRecords /\ \A j \in 1..Len(v) : iwithin[j]
    [] op.call = "string" -> v.n <= MaxString
    [] op.call = "fixed"  -> op.top # Unchecked => v.n <= op.top

Ready(items, cells, op, v, iparts, ivals, iwithin) ==
  /\ op.call \in {"fixed", "string", "list"}
  /\ op.call # "list" => v = Val(v.of, v.n)
  /\ op.call = "list" =>
       /\ Len(v) \in Nat /\ IsSeq(iparts) /\ IsSeq(ivals)
       /\ Len(iparts) = Len(v) /\ Len(ivals) = Len(v)
       /\ \A j \in 1..Len(v) : IsSeq(iparts[j])
       /\ \A j \in 1..Len(v) : iwithin[j] \in BOOLEAN
       /\ \A j \in 1..Len(v) : \A q \in Nat \ {0} : Carries(cells, q, iparts[j]) =>
            Reads(items[op.items][q], cells, q, iparts[j], ivals[j], iwithin[j])

\* What a call writes is a sequence of cells.
LEMMA PartIsSeq ==
  ASSUME NEW items, NEW cells, NEW op, NEW v, NEW iparts, NEW ivals, NEW iwithin,
         Ready(items, cells, op, v, iparts, ivals, iwithin)
  PROVE  IsSeq(PartOf(op, v, iparts))
<1>1. CASE op.call = "list"
  <2>1. IsSeq(iparts) /\ \A j \in 1..Len(iparts) : IsSeq(iparts[j])
    BY <1>1 DEF Ready
  <2>2. IsSeq(FlattenSeq(iparts))
    BY <2>1, FlattenIsSeq
  <2>3. PartOf(op, v, iparts) = <<Cell(4, op.name, Len(v))>> \o FlattenSeq(iparts)
    BY <1>1 DEF PartOf
  <2> QED  BY <2>2, <2>3, Cells, Concatenation
<1>2. CASE op.call = "string"
  BY <1>2, Cells DEF PartOf
<1>3. CASE op.call = "fixed"
  BY <1>3, Cells DEF PartOf
<1> QED  BY <1>1, <1>2, <1>3 DEF Ready

\* Whether a call accepts a value is a truth value.
LEMMA FitsIsBoolean ==
  ASSUME NEW op, NEW v, NEW iwithin, op.call \in {"fixed", "string", "list"}
  PROVE  Fits(op, v, iwithin) \in BOOLEAN
<1>1. CASE op.call = "list"
  BY <1>1 DEF Fits
<1>2. CASE op.call = "string"
  BY <1>2 DEF Fits
<1>3. CASE op.call = "fixed"
  BY <1>3 DEF Fits
<1> QED  BY <1>1, <1>2, <1>3

\* What a call reads where its part is carried is what was written.
LEMMA FieldReads ==
  ASSUME NEW items, NEW cells, NEW op, NEW v, NEW iparts, NEW ivals, NEW iwithin,
         Ready(items, cells, op, v, iparts, ivals, iwithin), IsSeq(cells),
         NEW p \in Nat \ {0}, Carries(cells, p, PartOf(op, v, iparts))
  PROVE  Reads(ReadField(items, op, cells, p), cells, p, PartOf(op, v, iparts),
               ValueOf(op, v, ivals), Fits(op, v, iwithin))
<1>1. CASE op.call = "list"
  <2>1. PartOf(op, v, iparts) = <<Cell(4, op.name, Len(v))>> \o FlattenSeq(iparts)
    BY <1>1 DEF PartOf
  <2> DEFINE n == Len(v)
  <2>2. /\ n \in Nat /\ IsSeq(iparts) /\ IsSeq(ivals)
        /\ Len(iparts) = n /\ Len(ivals) = n
        /\ \A j \in 1..n : IsSeq(iparts[j])
        /\ \A j \in 1..n : iwithin[j] \in BOOLEAN
        /\ \A j \in 1..n : \A q \in Nat \ {0} : Carries(cells, q, iparts[j]) =>
             Reads(items[op.items][q], cells, q, iparts[j], ivals[j], iwithin[j])
    BY <1>1 DEF Ready
  <2>3. Carries(cells, p, <<Cell(4, op.name, n)>> \o FlattenSeq(iparts))
    BY <2>1
  <2> HIDE DEF n
  <2>4. Reads(ReadField(items, op, cells, p), cells, p,
              <<Cell(4, op.name, n)>> \o FlattenSeq(iparts), ivals,
              n <= MaxRecords /\ \A j \in 1..n : iwithin[j])
    BY <1>1, <2>2, <2>3, ListReads
  <2>5. Fits(op, v, iwithin) <=> n <= MaxRecords /\ \A j \in 1..n : iwithin[j]
    BY <1>1 DEF Fits, n
  <2>6. ValueOf(op, v, ivals) = ivals
    BY <1>1 DEF ValueOf
  <2>7. PartOf(op, v, iparts) = <<Cell(4, op.name, n)>> \o FlattenSeq(iparts)
    BY <2>1 DEF n
  <2> QED  BY <2>4, <2>5, <2>6, <2>7 DEF Reads
<1>2. CASE op.call = "string"
  <2>1. PartOf(op, v, iparts) = <<Cell(4, v.of, v.n), Cell(v.n, v.of, v.n)>>
    BY <1>2 DEF PartOf
  <2>2. v = Val(v.of, v.n)
    BY <1>2 DEF Ready
  <2>3. Reads(GetString(cells, p), cells, p, <<Cell(4, v.of, v.n), Cell(v.n, v.of, v.n)>>,
              v, v.n <= MaxString)
    BY <2>1, <2>2, StringReads
  <2>4. /\ Fits(op, v, iwithin) <=> v.n <= MaxString
        /\ ValueOf(op, v, ivals) = v
        /\ ReadField(items, op, cells, p) = GetString(cells, p)
    BY <1>2 DEF Fits, ValueOf, ReadField
  <2> QED  BY <2>1, <2>3, <2>4 DEF Reads
<1>3. CASE op.call = "fixed"
  <2>1. PartOf(op, v, iparts) = <<Cell(op.width, v.of, v.n)>>
    BY <1>3 DEF PartOf
  <2>2. v = Val(v.of, v.n)
    BY <1>3 DEF Ready
  <2>3. Reads(GetFixed(op, cells, p), cells, p, <<Cell(op.width, v.of, v.n)>>, v,
              op.top # Unchecked => v.n <= op.top)
    BY <2>1, <2>2, FixedReads
  <2>4. /\ Fits(op, v, iwithin) <=> (op.top # Unchecked => v.n <= op.top)
        /\ ValueOf(op, v, ivals) = v
        /\ ReadField(items, op, cells, p) = GetFixed(op, cells, p)
    BY <1>3 DEF Fits, ValueOf, ReadField
  <2> QED  BY <2>1, <2>3, <2>4 DEF Reads
<1> QED  BY <1>1, <1>2, <1>3 DEF Ready

\* What is written and read of the fields of a record.
Prepared(items, cells, struct, rec, iparts, ivals, iwithin, parts, vals) ==
  /\ IsSeq(Dec[struct]) /\ IsSeq(parts) /\ IsSeq(vals)
  /\ Len(parts) = Len(Dec[struct]) /\ Len(vals) = Len(Dec[struct])
  /\ \A i \in 1..Len(Dec[struct]) :
       LET op == Dec[struct][i]
           v  == rec[op.name]
       IN /\ Ready(items, cells, op, v, iparts[i], ivals[i], iwithin[i])
          /\ parts[i] = PartOf(op, v, iparts[i])
          /\ vals[i] = ValueOf(op, v, ivals[i])

AllFit(struct, rec, iwithin) ==
  \A i \in 1..Len(Dec[struct]) : Fits(Dec[struct][i], rec[Dec[struct][i].name], iwithin[i])

\* All of a record, and the check that ends its reading.
LEMMA OneRecord ==
  ASSUME NEW items, NEW cells, IsSeq(cells), NEW pos \in Nat \ {0}, NEW struct, NEW rec,
         NEW iparts, NEW ivals, NEW iwithin, NEW parts, NEW vals,
         Prepared(items, cells, struct, rec, iparts, ivals, iwithin, parts, vals),
         Carries(cells, pos, FlattenSeq(parts))
  PROVE  Reads(ReadWith(items, struct, cells, pos), cells, pos, FlattenSeq(parts),
               Assigned(struct, vals),
               AllFit(struct, rec, iwithin) /\ Passes(struct, Assigned(struct, vals)))
<1> DEFINE ops == Dec[struct]
           n == Len(ops)
           v(i) == rec[ops[i].name]
           calls == [i \in DOMAIN ops |-> [p \in Nat |-> ReadField(items, ops[i], cells, p)]]
           within == [i \in 1..n |-> Fits(ops[i], v(i), iwithin[i])]
           all == InOrder(calls, pos)
           ok == \A i \in 1..n : within[i]
<1>0. /\ IsSeq(ops) /\ IsSeq(parts) /\ IsSeq(vals) /\ Len(parts) = n /\ Len(vals) = n
      /\ \A i \in 1..n : /\ Ready(items, cells, ops[i], v(i), iparts[i], ivals[i], iwithin[i])
                         /\ parts[i] = PartOf(ops[i], v(i), iparts[i])
                         /\ vals[i] = ValueOf(ops[i], v(i), ivals[i])
  BY DEF Prepared
<1>1. n \in Nat /\ DOMAIN ops = 1..n
  BY <1>0, SeqElements
<1>2. IsSeq(calls) /\ Len(calls) = n
  <2>1. calls = [i \in 1..n |-> calls[i]]
    BY <1>1
  <2> HIDE DEF calls, n
  <2> QED  BY <1>1, <2>1, SeqOfFunction
<1>3. \A i \in 1..n : \A p \in Nat : calls[i][p] = ReadField(items, ops[i], cells, p)
  BY <1>1
<1>4. \A i \in 1..n : IsSeq(parts[i])
  BY <1>0, PartIsSeq
<1>5. \A i \in 1..n : within[i] \in BOOLEAN
  <2>1. \A i \in 1..n : Fits(ops[i], v(i), iwithin[i]) \in BOOLEAN
    BY <1>0, FitsIsBoolean DEF Ready
  <2> QED  BY <2>1
<1>6. ASSUME NEW i \in 1..n, NEW q \in Nat \ {0}, Carries(cells, q, parts[i])
      PROVE  Reads(calls[i][q], cells, q, parts[i], vals[i], within[i])
  <2>1. Reads(ReadField(items, ops[i], cells, q), cells, q, PartOf(ops[i], v(i), iparts[i]),
              ValueOf(ops[i], v(i), ivals[i]), Fits(ops[i], v(i), iwithin[i]))
    BY <1>0, <1>6, FieldReads
  <2>2. calls[i][q] = ReadField(items, ops[i], cells, q)
    BY <1>3
  <2>3. within[i] = Fits(ops[i], v(i), iwithin[i])
    OBVIOUS
  <2> HIDE DEF calls, within
  <2> QED  BY <1>0, <2>1, <2>2, <2>3
<1>7. ReadWith(items, struct, cells, pos) =
        IF all.ok /\ Passes(struct, Assigned(struct, all.value))
        THEN Got(Assigned(struct, all.value), all.pos) ELSE Refused
  BY DEF ReadWith
<1>8. AllFit(struct, rec, iwithin) <=> ok
  BY DEF AllFit
<1> HIDE DEF calls, within, v
<1>9. Reads(all, cells, pos, FlattenSeq(parts), vals, \A i \in 1..Len(calls) : within[i])
  <2> HIDE DEF n
  <2>1. /\ Len(parts) = Len(calls) /\ Len(vals) = Len(calls)
        /\ \A i \in 1..Len(calls) : IsSeq(parts[i])
        /\ \A i \in 1..Len(calls) : within[i] \in BOOLEAN
    BY <1>0, <1>2, <1>4, <1>5 DEF n
  <2>2. \A i \in 1..Len(calls) : \A p \in Nat \ {0} : Carries(cells, p, parts[i]) =>
           Reads(calls[i][p], cells, p, parts[i], vals[i], within[i])
    BY <1>2, <1>6
  <2> QED  BY <1>0, <1>2, <2>1, <2>2, InOrderReads
<1>10. Reads(all, cells, pos, FlattenSeq(parts), vals, ok)
  BY <1>2, <1>9 DEF Reads
<1> HIDE DEF all, ok
<1>11. Reads(ReadWith(items, struct, cells, pos), cells, pos, FlattenSeq(parts),
             Assigned(struct, vals), ok /\ Passes(struct, Assigned(struct, vals)))
  <2>1. CASE all.ok /\ Passes(struct, Assigned(struct, all.value))
    BY <1>7, <1>10, <2>1 DEF Reads, Got
  <2>2. CASE ~(all.ok /\ Passes(struct, Assigned(struct, all.value)))
    <3>1. ReadWith(items, struct, cells, pos) = Refused
      BY <1>7, <2>2
    <3> QED  BY <1>10, <2>2, <3>1 DEF Reads, Refused
  <2> QED  BY <2>1, <2>2
<1> QED  BY <1>8, <1>11 DEF Reads

Structs == Flat \cup Middle \cup {"file"}

\* The field a call is for.
LEMMA CallField ==
  ASSUME NEW ops, NEW S, AllFields(ops, S), NEW i \in 1..Len(ops)
  PROVE  \E T : Field(ops[i].name, T) \in S /\ AskedOf(T) = Asks(ops[i])
<1> DEFINE x     == ops[i].name
           asked == Asks(ops[i])
<1>1. HasField(S, x, asked)
  <2>1. Field(x, asked) \in Calls(ops)
    BY DEF Calls
  <2>2. Field(x, asked).name = x /\ Field(x, asked).type = asked
    BY DEF Field
  <2> QED  BY <2>1, <2>2 DEF AllFields
<1>2. AskedOf(asked) = asked
  BY DEF AskedOf, Asks, ListT, TextT, Type, Plain
<1> HIDE DEF x, asked
<1>3. \/ Field(x, asked) \in S
      \/ asked = Plain /\ \E T \in {IdT, CountT, IntT, FlagT, RealT} : Field(x, T) \in S
  BY <1>1 DEF HasField
<1>4. \A T \in {IdT, CountT, IntT, FlagT, RealT} : AskedOf(T) = Plain
  BY TypesAsk
<1> QED  BY <1>2, <1>3, <1>4 DEF x, asked

\* The call there is for a field.
LEMMA FieldCall ==
  ASSUME NEW ops, NEW S, AllCalled(S, ops), NEW f \in S
  PROVE  \E i \in 1..Len(ops) : ops[i].name = f.name /\ Asks(ops[i]) = AskedOf(f.type)
<1>1. Field(f.name, AskedOf(f.type)) \in Calls(ops)
  BY DEF AllCalled
<1>2. PICK i \in 1..Len(ops) : Field(f.name, AskedOf(f.type)) = Field(ops[i].name, Asks(ops[i]))
  BY <1>1 DEF Calls
<1> QED  BY <1>2 DEF Field

\* Which kind of call is for a list, a string or an enumerator.
LEMMA CallsFor ==
  ASSUME NEW op, NEW T, op.call \in {"fixed", "string", "list"}, AskedOf(T) = Asks(op)
  PROVE  /\ op.call = "list" <=> T.t = "list"
         /\ op.call = "list" => T = ListT(op.items) /\ T.item = op.items
         /\ op.call = "string" <=> T.t = "text"
         /\ op.call = "fixed" /\ op.top # Unchecked <=> T.t = "enum"
         /\ T.t = "enum" => T.top = op.top
<1>1. CASE op.call = "list"
  <2>1. AskedOf(T) = ListT(op.items) /\ ListT(op.items).t = "list"
    BY <1>1 DEF Asks, ListT, Type
  <2>2. AskedOf(T) = T
    BY <2>1 DEF AskedOf, Plain, Type
  <2> QED  BY <1>1, <2>1, <2>2 DEF ListT, Type
<1>2. CASE op.call = "string"
  <2>1. AskedOf(T) = TextT /\ TextT.t = "text"
    BY <1>2 DEF Asks, TextT, Type
  <2>2. AskedOf(T) = T
    BY <2>1 DEF AskedOf, Plain, Type
  <2> QED  BY <1>2, <2>1, <2>2
<1>3. CASE op.call = "fixed" /\ op.top # Unchecked
  <2>1. AskedOf(T) = Type("enum", op.top, "none") /\ Type("enum", op.top, "none").t = "enum"
    BY <1>3 DEF Asks, Type
  <2>2. AskedOf(T) = T
    BY <2>1 DEF AskedOf, Plain, Type
  <2> QED  BY <1>3, <2>1, <2>2 DEF Type
<1>4. CASE op.call = "fixed" /\ op.top = Unchecked
  <2>1. AskedOf(T) = Plain /\ Plain.t = "plain"
    BY <1>4 DEF Asks, Plain, Type
  <2>2. T.t \notin {"list", "text", "enum"}
    BY <2>1 DEF AskedOf
  <2> QED  BY <1>4, <2>2
<1> QED  BY <1>1, <1>2, <1>3, <1>4

\* Only a request requires a topology, and only a file holds requests.
LEMMA OnlyRequests ==
  /\ \A s \in Structs \ {"request"} : \A f \in Struct[s] : f.name # "requiredTopologyGeneration"
  /\ \A s \in Structs \ {"file"} : \A f \in Struct[s] : f.type.t = "list" => f.type.item # "request"
  /\ \A f \in Struct["file"] : f.type.t = "list" /\ f.type.item = "request" <=> f.name = "requests"
  /\ \A s \in Structs : \A f \in Struct[s] : f.type.t = "list" => f.type.item # "file"
<1> DEFINE P(s) == \A f \in Struct[s] : f.name # "requiredTopologyGeneration"
<1>1. P("locality") /\ P("id") /\ P("transition") /\ P("reason")
  BY OfAll DEF Struct
<1>2. P("binding")
  BY OfAll DEF Struct, DeviceBinding
<1>3. P("factor") /\ P("rejected")
  BY OfAll DEF Struct, RankFactor, RejectedAlternative
<1>4. P("claim") /\ P("identity") /\ P("file")
  BY OfAll DEF Struct, ResourceClaim, CandidateIdentity, Persisted
<1>5. P("plan")
  BY OfAll DEF Struct, PlacementPlan, GenerationFingerprint
<1>6. P("candidate")
  <2> DEFINE Q(S) == \A f \in S : f.name # "requiredTopologyGeneration"
  <2>1. Q(CapacityEvidence) /\ Q(HealthEvidence) /\ Q(ReservationEvidence)
    BY OfAll DEF CapacityEvidence, HealthEvidence, ReservationEvidence
  <2>2. Q(CongestionEvidence) /\ Q(LocalityEvidence)
    BY OfAll DEF CongestionEvidence, LocalityEvidence
  <2>3. Q(CommunicationEvidence) /\ Q(ResidencyEvidence)
    BY OfAll DEF CommunicationEvidence, ResidencyEvidence
  <2> QED  BY <2>1, <2>2, <2>3, OfAll DEF Struct, Candidate, CandidateIdentity
<1>7. \A s \in Structs \ {"request"} : P(s)
  BY <1>1, <1>2, <1>3, <1>4, <1>5, <1>6 DEF Structs, Flat, Middle
<1>8. \A s \in Structs \ {"file"} : \A f \in Struct[s] : f.type.t = "list" => f.type.item \in Flat
  BY Nesting DEF Structs
<1>9. \A f \in Struct["file"] : f.type.t = "list" /\ f.type.item = "request" <=> f.name = "requests"
  BY OfAll DEF Struct, Persisted, ListT, IdT, Type
<1>10. \A s \in Structs : \A f \in Struct[s] : f.type.t = "list" => f.type.item \in Flat \cup Middle
  BY Nesting DEF Structs
<1>11. "request" \notin Flat /\ "file" \notin Flat \cup Middle
  BY DEF Flat, Middle
<1> QED  BY <1>7, <1>8, <1>9, <1>10, <1>11

\* A record of a struct, whatever the items of its lists are.
Shaped(struct, rec) ==
  /\ rec = [f \in Names(struct) |-> rec[f]]
  /\ \A field \in Struct[struct] :
       /\ field.type.t = "list" => IsSeq(rec[field.name]) /\ Len(rec[field.name]) \in Numbers
       /\ field.type.t # "list" => rec[field.name] \in [of : {field.name}, n : Numbers]

\* The numbers of cells are natural numbers.
LEMMA Numerals == Numbers \subseteq Nat /\ MaxNumber \in Nat
  BY RecordsAssumption DEF Numbers

\* A value of a record for each call.
LEMMA CallValue ==
  ASSUME NEW struct \in Structs, NEW rec, Shaped(struct, rec), NEW i \in 1..Len(Dec[struct])
  PROVE  \E T : /\ Field(Dec[struct][i].name, T) \in Struct[struct]
                /\ AskedOf(T) = Asks(Dec[struct][i])
                /\ Dec[struct][i].call = "list" <=> T.t = "list"
                /\ Dec[struct][i].call = "list" =>
                     T.item = Dec[struct][i].items /\ T = ListT(Dec[struct][i].items)
                     /\ IsSeq(rec[Dec[struct][i].name])
                     /\ Len(rec[Dec[struct][i].name]) \in Nat
                     /\ DOMAIN rec[Dec[struct][i].name] = 1..Len(rec[Dec[struct][i].name])
                /\ Dec[struct][i].call # "list" =>
                     rec[Dec[struct][i].name] = Val(Dec[struct][i].name, rec[Dec[struct][i].name].n)
                     /\ rec[Dec[struct][i].name].n \in Nat
                /\ Dec[struct][i].call \in {"fixed", "string", "list"}
<1> DEFINE op == Dec[struct][i]
<1>1. Agrees(struct)
  BY AllAgree DEF Structs
<1>2. op.call \in {"fixed", "string", "list"}
  BY <1>1 DEF Agrees, Match, Same
<1>3. PICK T : Field(op.name, T) \in Struct[struct] /\ AskedOf(T) = Asks(op)
  BY <1>1, CallField DEF Agrees
<1>4. Field(op.name, T).name = op.name /\ Field(op.name, T).type = T
  BY DEF Field
<1> HIDE DEF op
<1>5. /\ T.t = "list" => IsSeq(rec[op.name]) /\ Len(rec[op.name]) \in Numbers
      /\ T.t # "list" => rec[op.name] \in [of : {op.name}, n : Numbers]
  BY <1>3, <1>4 DEF Shaped
<1>6. /\ op.call = "list" <=> T.t = "list"
      /\ op.call = "list" => T = ListT(op.items) /\ T.item = op.items
  BY <1>2, <1>3, CallsFor
<1>7. op.call # "list" => rec[op.name] = Val(op.name, rec[op.name].n) /\ rec[op.name].n \in Nat
  BY <1>5, <1>6, Numerals DEF Val
<1>8. op.call = "list" => /\ IsSeq(rec[op.name]) /\ Len(rec[op.name]) \in Nat
                          /\ DOMAIN rec[op.name] = 1..Len(rec[op.name])
  BY <1>5, <1>6, SeqElements
<1> QED  BY <1>2, <1>3, <1>6, <1>7, <1>8 DEF op

\* Of a list, what arrives of each item.
Arrival(list, item) == [j \in 1..Len(list) |-> Delivered(item, list[j])]

\* What the calls read is set in the fields it came from.
LEMMA AssignedIs ==
  ASSUME NEW struct \in Structs, NEW rec, Shaped(struct, rec),
         NEW vals, IsSeq(vals), Len(vals) = Len(Dec[struct]),
         \A i \in 1..Len(Dec[struct]) :
            vals[i] = ValueOf(Dec[struct][i], rec[Dec[struct][i].name],
                              Arrival(rec[Dec[struct][i].name], Dec[struct][i].items))
  PROVE  Assigned(struct, vals) = Delivered(struct, rec)
<1> DEFINE ops == Dec[struct]
           to  == Delivered(struct, rec)
           setBy(f) == {i \in DOMAIN ops : ops[i].name = f}
<1>1. Agrees(struct) /\ DOMAIN ops = 1..Len(ops) /\ Len(ops) \in Nat
  BY AllAgree, SeqElements DEF Structs, Agrees, Match
<1>2. rec = [f \in Names(struct) |-> rec[f]]
  BY DEF Shaped
<1>3. to = [f \in Names(struct) |-> to[f]]
      /\ \A f \in Names(struct) :
           to[f] = IF struct = "request" /\ f = "requiredTopologyGeneration"
                   THEN [rec[f] EXCEPT !.n = 0]
                   ELSE IF struct = "file" /\ f = "requests"
                   THEN [i \in DOMAIN rec[f] |-> Forgotten(rec[f][i])]
                   ELSE rec[f]
  <2>1. CASE struct = "request"
    BY <1>2, <2>1 DEF Delivered, Forgotten
  <2>2. CASE struct = "file"
    BY <1>2, <2>2 DEF Delivered
  <2>3. CASE struct # "request" /\ struct # "file"
    BY <1>2, <2>3 DEF Delivered
  <2> QED  BY <2>1, <2>2, <2>3
<1> HIDE DEF to
<1>4. ASSUME NEW i \in 1..Len(ops)
      PROVE  vals[i] = to[ops[i].name] /\ ops[i].name \in Names(struct)
  <2> DEFINE op == ops[i]
             v  == rec[op.name]
  <2>1. PICK T : /\ Field(op.name, T) \in Struct[struct]
                 /\ op.call = "list" <=> T.t = "list"
                 /\ op.call = "list" => T.item = op.items /\ IsSeq(v) /\ DOMAIN v = 1..Len(v)
    BY CallValue
  <2>2. Field(op.name, T).name = op.name /\ Field(op.name, T).type = T
    BY DEF Field
  <2>3. op.name \in Names(struct)
    BY <2>1, <2>2 DEF Names
  <2>4. struct = "request" => op.name # "requiredTopologyGeneration"
    <3>1. Field(op.name, Asks(op)) \in Calls(ops)
      BY DEF Calls
    <3>2. Field(op.name, Asks(op)).name = op.name
      BY DEF Field
    <3>3. struct = "request" => ops = dec_request
      BY DEF Dec
    <3> QED  BY <3>1, <3>2, <3>3, RequestForgets
  <2>5. vals[i] = ValueOf(op, v, Arrival(v, op.items))
    OBVIOUS
  <2>6. CASE op.call # "list"
    <3>1. vals[i] = v
      BY <2>5, <2>6 DEF ValueOf
    <3>2. struct = "file" => op.name # "requests"
      BY <2>1, <2>2, <2>6, OnlyRequests
    <3> QED  BY <1>3, <2>3, <2>4, <3>1, <3>2
  <2>7. CASE op.call = "list"
    <3>1. vals[i] = [j \in 1..Len(v) |-> Delivered(op.items, v[j])]
      BY <2>5, <2>7 DEF ValueOf, Arrival
    <3>2. op.items # "file"
      BY <2>1, <2>2, <2>7, OnlyRequests
    <3>3. op.items = "request" <=> struct = "file" /\ op.name = "requests"
      BY <2>1, <2>2, <2>7, OnlyRequests
    <3>4. v = [j \in 1..Len(v) |-> v[j]] /\ DOMAIN v = 1..Len(v)
      BY <2>1, <2>7, SeqElements
    <3>5. to[op.name] = IF op.items = "request" THEN [j \in DOMAIN v |-> Forgotten(v[j])] ELSE v
      BY <1>3, <2>3, <2>4, <3>3
    <3> HIDE DEF v, op
    <3>6. CASE op.items = "request"
      <4>1. \A j : Delivered(op.items, v[j]) = Forgotten(v[j])
        BY <3>6 DEF Delivered
      <4>2. vals[i] = to[op.name]
        BY <3>1, <3>4, <3>5, <3>6, <4>1
      <4> QED  BY <2>3, <4>2 DEF op
    <3>7. CASE op.items # "request"
      <4>1. \A j : Delivered(op.items, v[j]) = v[j]
        BY <3>2, <3>7 DEF Delivered
      <4>2. vals[i] = to[op.name]
        BY <3>1, <3>4, <3>5, <3>7, <4>1
      <4> QED  BY <2>3, <4>2 DEF op
    <3> QED  BY <3>6, <3>7
  <2> QED  BY <2>6, <2>7
<1>5. ASSUME NEW f \in Names(struct)
      PROVE  Assigned(struct, vals)[f] = to[f]
  <2>0. Assigned(struct, vals)[f] = IF setBy(f) = {} THEN Val(f, 0)
                                    ELSE vals[CHOOSE i \in setBy(f) : TRUE]
    BY DEF Assigned
  <2>1. CASE setBy(f) # {}
    <3>1. PICK i \in setBy(f) : Assigned(struct, vals)[f] = vals[i]
      BY <2>0, <2>1
    <3> QED  BY <1>1, <1>4, <3>1
  <2>2. CASE setBy(f) = {}
    <3>1. PICK field \in Struct[struct] : field.name = f
      BY DEF Names
    <3>2. f = "requiredTopologyGeneration"
      <4>1. SUFFICES ASSUME f # "requiredTopologyGeneration" PROVE FALSE
        OBVIOUS
      <4>2. field \in Carried(Struct[struct])
        BY <3>1, <4>1 DEF Carried
      <4>3. \E i \in 1..Len(ops) : ops[i].name = field.name
        BY <1>1, <4>2, FieldCall DEF Agrees
      <4> QED  BY <1>1, <2>2, <3>1, <4>3
    <3>3. struct = "request"
      BY <3>1, <3>2, OnlyRequests
    <3>4. field.type.t # "list"
      <4>1. SUFFICES ASSUME field \in SchedulingRequest PROVE field.type.t # "list"
        BY <3>3 DEF Struct
      <4>2. field \in DemandProfile /\ field.type = IdT
        BY <3>1, <3>2, <4>1, OfAll DEF SchedulingRequest, DemandProfile, AcceleratorRequirement,
           MemoryStorageNetwork, ResidencyRequirement, FailureDomainConstraint
      <4> QED  BY <4>2 DEF IdT, Type
    <3>5. rec[f] \in [of : {f}, n : Numbers]
      BY <3>1, <3>4 DEF Shaped
    <3>6. [rec[f] EXCEPT !.n = 0] = Val(f, 0)
      BY <3>5 DEF Val
    <3> QED  BY <1>3, <2>0, <2>2, <3>2, <3>3, <3>6
  <2> QED  BY <2>1, <2>2
<1>6. Assigned(struct, vals) = [f \in Names(struct) |-> Assigned(struct, vals)[f]]
  BY DEF Assigned
<1> QED  BY <1>3, <1>5, <1>6 DEF to

-----------------------------------------------------------------------------
(* The nesting of records, level by level: 0 the structs without lists,    *)
(* 1 those with lists of these, 2 the file.                                *)

At(level)    == CASE level = 0 -> Flat [] level = 1 -> Flat \cup Middle [] level = 2 -> Structs
Under(level) == CASE level = 0 -> {} [] level = 1 -> Flat [] level = 2 -> Flat \cup Middle

ItemOk(struct, rec)   == ItemInBounds(struct, rec) /\ Passes(struct, rec)
RecordOk(struct, rec) == Bounded(ItemOk, struct, rec) /\ Passes(struct, rec)

\* What is known, written, read and accepted of the items of a list.
IsUnder(level, struct, rec) ==
  CASE level = 0 -> FALSE [] level = 1 -> IsItem(struct, rec) [] level = 2 -> IsRecord(struct, rec)

CellsUnder(level, struct, rec) ==
  CASE level = 0 -> <<>>
    [] level = 1 -> WriteItem(struct, rec)
    [] level = 2 -> WriteRecord(struct, rec)

ReaderUnder(level, cells) ==
  CASE level = 0 -> <<>> [] level = 1 -> ItemReader(cells) [] level = 2 -> RecordReader(cells)

OkUnder(level, struct, rec) ==
  CASE level = 0 -> TRUE [] level = 1 -> ItemOk(struct, rec) [] level = 2 -> RecordOk(struct, rec)

\* The same of a record.
ShapedAt(level, struct, rec) ==
  /\ Shaped(struct, rec)
  /\ \A field \in Struct[struct] : field.type.t = "list" =>
       \A j \in 1..Len(rec[field.name]) : IsUnder(level, field.type.item, rec[field.name][j])

BoundedAt(level, struct, rec) ==
  \A field \in Struct[struct] :
    LET v == rec[field.name]
    IN /\ field.type.t = "list" => /\ Len(v) <= MaxRecords
                                   /\ \A j \in 1..Len(v) : OkUnder(level, field.type.item, v[j])
       /\ field.type.t = "text" => v.n <= MaxString
       /\ field.type.t = "enum" => v.n <= field.type.top

ItemParts(level, op, v) == [j \in 1..Len(v) |-> CellsUnder(level, op.items, v[j])]
ItemOks(level, op, v)   == [j \in 1..Len(v) |-> OkUnder(level, op.items, v[j])]

Parts(level, struct, rec) ==
  [i \in 1..Len(Dec[struct]) |->
     PartOf(Dec[struct][i], rec[Dec[struct][i].name],
            ItemParts(level, Dec[struct][i], rec[Dec[struct][i].name]))]

CellsAt(level, struct, rec) == FlattenSeq(Parts(level, struct, rec))

\* The bounds of the fields are those the calls check.
LEMMA FitsAre ==
  ASSUME NEW level \in 0..2, NEW struct \in Structs, NEW rec, Shaped(struct, rec)
  PROVE  (\A i \in 1..Len(Dec[struct]) :
            Fits(Dec[struct][i], rec[Dec[struct][i].name],
                 ItemOks(level, Dec[struct][i], rec[Dec[struct][i].name])))
         <=> BoundedAt(level, struct, rec)
<1> DEFINE ops == Dec[struct]
           v(i) == rec[ops[i].name]
           fits(i) == Fits(ops[i], v(i), ItemOks(level, ops[i], v(i)))
           within(field) ==
             /\ field.type.t = "list" =>
                  /\ Len(rec[field.name]) <= MaxRecords
                  /\ \A j \in 1..Len(rec[field.name]) :
                       OkUnder(level, field.type.item, rec[field.name][j])
             /\ field.type.t = "text" => rec[field.name].n <= MaxString
             /\ field.type.t = "enum" => rec[field.name].n <= field.type.top
<1>1. Agrees(struct)
  BY AllAgree DEF Structs
<1>2. ASSUME NEW i \in 1..Len(ops), NEW field \in Struct[struct],
             field.name = ops[i].name, AskedOf(field.type) = Asks(ops[i])
      PROVE  fits(i) <=> within(field)
  <2> DEFINE op == ops[i]
  <2>1. op.call \in {"fixed", "string", "list"}
    BY <1>1 DEF Agrees, Match, Same
  <2>2. /\ op.call = "list" <=> field.type.t = "list"
        /\ op.call = "list" => field.type.item = op.items
        /\ op.call = "string" <=> field.type.t = "text"
        /\ op.call = "fixed" /\ op.top # Unchecked <=> field.type.t = "enum"
        /\ field.type.t = "enum" => field.type.top = op.top
    BY <1>2, <2>1, CallsFor
  <2> HIDE DEF ops
  <2>3. CASE op.call = "list"
    <3>1. \A j \in 1..Len(v(i)) : ItemOks(level, op, v(i))[j] <=> OkUnder(level, op.items, v(i)[j])
      BY DEF ItemOks
    <3>2. fits(i) <=> Len(v(i)) <= MaxRecords
                      /\ \A j \in 1..Len(v(i)) : ItemOks(level, op, v(i))[j]
      BY <2>3 DEF Fits
    <3> QED  BY <1>2, <2>2, <2>3, <3>1, <3>2
  <2>4. CASE op.call = "string"
    <3>1. fits(i) <=> v(i).n <= MaxString
      BY <2>4 DEF Fits
    <3> QED  BY <1>2, <2>2, <2>4, <3>1
  <2>5. CASE op.call = "fixed"
    <3>1. fits(i) <=> (op.top # Unchecked => v(i).n <= op.top)
      BY <2>5 DEF Fits
    <3> QED  BY <1>2, <2>2, <2>5, <3>1
  <2> QED  BY <2>1, <2>3, <2>4, <2>5
<1> HIDE DEF fits, within, v
<1>3. ASSUME \A i \in 1..Len(ops) : fits(i), NEW field \in Struct[struct]
      PROVE  within(field)
  <2>1. CASE field \in Carried(Struct[struct])
    <3>1. PICK i \in 1..Len(ops) : ops[i].name = field.name /\ Asks(ops[i]) = AskedOf(field.type)
      BY <1>1, <2>1, FieldCall DEF Agrees
    <3> QED  BY <1>2, <1>3, <3>1
  <2>2. CASE field \notin Carried(Struct[struct])
    <3>1. field.name = "requiredTopologyGeneration"
      BY <2>2 DEF Carried
    <3>2. struct = "request"
      BY <3>1, OnlyRequests
    <3>3. field \in SchedulingRequest
      BY <3>2 DEF Struct
    <3>4. field \in DemandProfile /\ field.type = IdT
      BY <3>1, <3>3, OfAll DEF SchedulingRequest, DemandProfile, AcceleratorRequirement,
         MemoryStorageNetwork, ResidencyRequirement, FailureDomainConstraint
    <3> QED  BY <3>4 DEF IdT, Type, within
  <2> QED  BY <2>1, <2>2
<1>4. ASSUME \A field \in Struct[struct] : within(field), NEW i \in 1..Len(ops)
      PROVE  fits(i)
  <2>1. PICK T : Field(ops[i].name, T) \in Struct[struct] /\ AskedOf(T) = Asks(ops[i])
    BY <1>1, CallField DEF Agrees
  <2>2. Field(ops[i].name, T).name = ops[i].name /\ Field(ops[i].name, T).type = T
    BY DEF Field
  <2> QED  BY <1>2, <1>4, <2>1, <2>2
<1>5. BoundedAt(level, struct, rec) <=> \A field \in Struct[struct] : within(field)
  BY DEF BoundedAt, within
<1>6. (\A i \in 1..Len(ops) : fits(i)) <=> \A field \in Struct[struct] : within(field)
  BY <1>3, <1>4
<1> QED  BY <1>5, <1>6 DEF fits, v

\* What is known of a record of a level is what its type says.
LEMMA ShapedIs ==
  /\ \A struct \in Flat : \A rec : IsItem(struct, rec) => ShapedAt(0, struct, rec)
  /\ \A struct, rec : IsRecord(struct, rec) => ShapedAt(1, struct, rec)
  /\ \A struct, rec : IsOfKind(struct, rec) => ShapedAt(2, struct, rec)
<1>1. \A list : IsSeq(list) => DOMAIN list = 1..Len(list)
  BY SeqElements
<1>2. ASSUME NEW struct \in Flat, NEW rec, IsItem(struct, rec)
      PROVE  ShapedAt(0, struct, rec)
  BY <1>2, Nesting DEF IsItem, Holds, ShapedAt, Shaped
<1>3. ASSUME NEW struct, NEW rec, IsRecord(struct, rec)
      PROVE  ShapedAt(1, struct, rec)
  <2>1. rec = [f \in Names(struct) |-> rec[f]]
    BY <1>3 DEF IsRecord, Holds
  <2>2. ASSUME NEW field \in Struct[struct]
        PROVE  /\ field.type.t = "list" => /\ IsSeq(rec[field.name])
                                           /\ Len(rec[field.name]) \in Numbers
               /\ field.type.t # "list" => rec[field.name] \in [of : {field.name}, n : Numbers]
               /\ field.type.t = "list" =>
                    \A j \in DOMAIN rec[field.name] : IsItem(field.type.item, rec[field.name][j])
    BY <1>3 DEF IsRecord, Holds
  <2>3. ASSUME NEW field \in Struct[struct], field.type.t = "list",
               NEW j \in 1..Len(rec[field.name])
        PROVE  IsUnder(1, field.type.item, rec[field.name][j])
    <3>1. j \in DOMAIN rec[field.name]
      BY <1>1, <2>2, <2>3
    <3>2. IsItem(field.type.item, rec[field.name][j])
      BY <2>2, <2>3, <3>1
    <3> QED  BY <3>2 DEF IsUnder
  <2> QED  BY <2>1, <2>2, <2>3 DEF ShapedAt, Shaped
<1>4. ASSUME NEW struct, NEW rec, IsOfKind(struct, rec)
      PROVE  ShapedAt(2, struct, rec)
  <2>1. rec = [f \in Names(struct) |-> rec[f]]
    BY <1>4 DEF IsOfKind, Holds
  <2>2. ASSUME NEW field \in Struct[struct]
        PROVE  /\ field.type.t = "list" => /\ IsSeq(rec[field.name])
                                           /\ Len(rec[field.name]) \in Numbers
               /\ field.type.t # "list" => rec[field.name] \in [of : {field.name}, n : Numbers]
               /\ field.type.t = "list" =>
                    \A j \in DOMAIN rec[field.name] : IsRecord(field.type.item, rec[field.name][j])
    BY <1>4 DEF IsOfKind, Holds
  <2>3. ASSUME NEW field \in Struct[struct], field.type.t = "list",
               NEW j \in 1..Len(rec[field.name])
        PROVE  IsUnder(2, field.type.item, rec[field.name][j])
    <3>1. j \in DOMAIN rec[field.name]
      BY <1>1, <2>2, <2>3
    <3>2. IsRecord(field.type.item, rec[field.name][j])
      BY <2>2, <2>3, <3>1
    <3> QED  BY <3>2 DEF IsUnder
  <2> QED  BY <2>1, <2>2, <2>3 DEF ShapedAt, Shaped
<1> QED  BY <1>2, <1>3, <1>4

\* What a list is known to hold has the lists its level allows.
LEMMA UnderIs ==
  ASSUME NEW level \in 0..2, NEW struct \in At(level), NEW field \in Struct[struct],
         field.type.t = "list"
  PROVE  field.type.item \in Under(level) /\ level # 0
<1>1. CASE level = 0
  BY <1>1, Nesting DEF At
<1>2. CASE level = 1
  BY <1>2, Nesting DEF At, Under
<1>3. CASE level = 2
  BY <1>3, Nesting DEF At, Under, Structs
<1> QED  BY <1>1, <1>2, <1>3

\* Likewise for the bounds,
LEMMA BoundsAre ==
  ASSUME NEW struct \in Structs, NEW rec, Shaped(struct, rec)
  PROVE  /\ ItemInBounds(struct, rec) <=> BoundedAt(0, struct, rec)
         /\ Bounded(ItemOk, struct, rec) <=> BoundedAt(1, struct, rec)
         /\ Bounded(RecordOk, struct, rec) <=> BoundedAt(2, struct, rec)
<1>1. \A field \in Struct[struct] : field.type.t = "list" =>
        DOMAIN rec[field.name] = 1..Len(rec[field.name])
  BY SeqElements DEF Shaped
<1>2. ItemInBounds(struct, rec) <=> BoundedAt(0, struct, rec)
  BY <1>1 DEF ItemInBounds, Bounded, BoundedAt, OkUnder
<1>3. Bounded(ItemOk, struct, rec) <=> BoundedAt(1, struct, rec)
  <2>1. \A item, x : OkUnder(1, item, x) <=> ItemOk(item, x)
    BY DEF OkUnder
  <2>2. ASSUME NEW field \in Struct[struct]
        PROVE  (CASE field.type.t = "list" ->
                       /\ Len(rec[field.name]) <= MaxRecords
                       /\ \A i \in DOMAIN rec[field.name] :
                            ItemOk(field.type.item, rec[field.name][i])
                  [] field.type.t = "text" -> rec[field.name].n <= MaxString
                  [] field.type.t = "enum" -> rec[field.name].n <= field.type.top
                  [] OTHER                 -> TRUE)
               <=> /\ field.type.t = "list" =>
                         /\ Len(rec[field.name]) <= MaxRecords
                         /\ \A j \in 1..Len(rec[field.name]) :
                              OkUnder(1, field.type.item, rec[field.name][j])
                   /\ field.type.t = "text" => rec[field.name].n <= MaxString
                   /\ field.type.t = "enum" => rec[field.name].n <= field.type.top
    BY <1>1, <2>1
  <2> QED  BY <2>2 DEF Bounded, BoundedAt
<1>4. Bounded(RecordOk, struct, rec) <=> BoundedAt(2, struct, rec)
  <2>1. \A item, x : OkUnder(2, item, x) <=> RecordOk(item, x)
    BY DEF OkUnder
  <2>2. ASSUME NEW field \in Struct[struct]
        PROVE  (CASE field.type.t = "list" ->
                       /\ Len(rec[field.name]) <= MaxRecords
                       /\ \A i \in DOMAIN rec[field.name] :
                            RecordOk(field.type.item, rec[field.name][i])
                  [] field.type.t = "text" -> rec[field.name].n <= MaxString
                  [] field.type.t = "enum" -> rec[field.name].n <= field.type.top
                  [] OTHER                 -> TRUE)
               <=> /\ field.type.t = "list" =>
                         /\ Len(rec[field.name]) <= MaxRecords
                         /\ \A j \in 1..Len(rec[field.name]) :
                              OkUnder(2, field.type.item, rec[field.name][j])
                   /\ field.type.t = "text" => rec[field.name].n <= MaxString
                   /\ field.type.t = "enum" => rec[field.name].n <= field.type.top
    BY <1>1, <2>1
  <2> QED  BY <2>2 DEF Bounded, BoundedAt
<1> QED  BY <1>2, <1>3, <1>4

\* and what is written.
LEMMA PartsAre ==
  ASSUME NEW struct \in Structs, NEW rec, Shaped(struct, rec)
  PROVE  /\ WriteItem(struct, rec) = CellsAt(0, struct, rec)
         /\ WriteRecord(struct, rec) = CellsAt(1, struct, rec)
         /\ Write(struct, rec) = CellsAt(2, struct, rec)
<1> DEFINE ops == Dec[struct]
           old == Enc[struct]
           v(i) == rec[ops[i].name]
<1>1. /\ DOMAIN old = 1..Len(ops) /\ Len(ops) \in Nat
      /\ \A i \in 1..Len(ops) : Same(old[i], ops[i])
  BY AllAgree, SeqElements DEF Structs, Agrees, Match
<1>2. \A i \in 1..Len(ops) : /\ ops[i].call \in {"fixed", "string", "list"}
                             /\ ops[i].call = "list" => DOMAIN v(i) = 1..Len(v(i))
  BY CallValue
<1>3. \A i \in 1..Len(ops) :
         /\ old[i].name = ops[i].name /\ old[i].call = ops[i].call
         /\ old[i].width = ops[i].width /\ old[i].items = ops[i].items
  BY <1>1 DEF Same
<1> HIDE DEF ops, old
<1>4. Write(struct, rec) = CellsAt(2, struct, rec)
  <2> DEFINE w == [i \in DOMAIN old |-> WriteField(WriteRecord, old[i], rec[old[i].name])]
  <2>1. \A i \in 1..Len(ops) : w[i] = PartOf(ops[i], v(i), ItemParts(2, ops[i], v(i)))
    <3> SUFFICES ASSUME NEW i \in 1..Len(ops)
                 PROVE  w[i] = PartOf(ops[i], v(i), ItemParts(2, ops[i], v(i)))
      OBVIOUS
    <3>1. w[i] = WriteField(WriteRecord, old[i], v(i))
      BY <1>1, <1>3
    <3>2. CASE ops[i].call = "list"
      <4>1. [j \in DOMAIN v(i) |-> WriteRecord(old[i].items, v(i)[j])] = ItemParts(2, ops[i], v(i))
        BY <1>2, <1>3, <3>2 DEF ItemParts, CellsUnder
      <4>2. WriteField(WriteRecord, old[i], v(i)) =
              <<Cell(4, ops[i].name, Len(v(i)))>>
              \o FlattenSeq([j \in DOMAIN v(i) |-> WriteRecord(old[i].items, v(i)[j])])
        BY <1>3, <3>2 DEF WriteField
      <4> QED  BY <3>1, <3>2, <4>1, <4>2 DEF PartOf
    <3>3. CASE ops[i].call = "string"
      BY <1>3, <3>1, <3>3 DEF WriteField, PartOf
    <3>4. CASE ops[i].call = "fixed"
      BY <1>3, <3>1, <3>4 DEF WriteField, PartOf
    <3> QED  BY <1>2, <3>2, <3>3, <3>4
  <2>2. w = Parts(2, struct, rec)
    <3>1. w = [i \in 1..Len(ops) |-> w[i]]
      BY <1>1
    <3> HIDE DEF w
    <3> QED  BY <2>1, <3>1 DEF Parts, ops
  <2> QED  BY <2>2 DEF Write, WriteWith, CellsAt, old
<1>5. WriteRecord(struct, rec) = CellsAt(1, struct, rec)
  <2> DEFINE w == [i \in DOMAIN old |-> WriteField(WriteItem, old[i], rec[old[i].name])]
  <2>1. \A i \in 1..Len(ops) : w[i] = PartOf(ops[i], v(i), ItemParts(1, ops[i], v(i)))
    <3> SUFFICES ASSUME NEW i \in 1..Len(ops)
                 PROVE  w[i] = PartOf(ops[i], v(i), ItemParts(1, ops[i], v(i)))
      OBVIOUS
    <3>1. w[i] = WriteField(WriteItem, old[i], v(i))
      BY <1>1, <1>3
    <3>2. CASE ops[i].call = "list"
      <4>1. [j \in DOMAIN v(i) |-> WriteItem(old[i].items, v(i)[j])] = ItemParts(1, ops[i], v(i))
        BY <1>2, <1>3, <3>2 DEF ItemParts, CellsUnder
      <4>2. WriteField(WriteItem, old[i], v(i)) =
              <<Cell(4, ops[i].name, Len(v(i)))>>
              \o FlattenSeq([j \in DOMAIN v(i) |-> WriteItem(old[i].items, v(i)[j])])
        BY <1>3, <3>2 DEF WriteField
      <4> QED  BY <3>1, <3>2, <4>1, <4>2 DEF PartOf
    <3>3. CASE ops[i].call = "string"
      BY <1>3, <3>1, <3>3 DEF WriteField, PartOf
    <3>4. CASE ops[i].call = "fixed"
      BY <1>3, <3>1, <3>4 DEF WriteField, PartOf
    <3> QED  BY <1>2, <3>2, <3>3, <3>4
  <2>2. w = Parts(1, struct, rec)
    <3>1. w = [i \in 1..Len(ops) |-> w[i]]
      BY <1>1
    <3> HIDE DEF w
    <3> QED  BY <2>1, <3>1 DEF Parts, ops
  <2> QED  BY <2>2 DEF WriteRecord, WriteWith, CellsAt, old
<1>6. WriteItem(struct, rec) = CellsAt(0, struct, rec)
  <2> DEFINE w == [i \in DOMAIN old |-> WriteField(LAMBDA s, r : <<>>, old[i], rec[old[i].name])]
  <2>1. \A i \in 1..Len(ops) : w[i] = PartOf(ops[i], v(i), ItemParts(0, ops[i], v(i)))
    <3> SUFFICES ASSUME NEW i \in 1..Len(ops)
                 PROVE  w[i] = PartOf(ops[i], v(i), ItemParts(0, ops[i], v(i)))
      OBVIOUS
    <3>1. w[i] = WriteField(LAMBDA s, r : <<>>, old[i], v(i))
      BY <1>1, <1>3
    <3>2. CASE ops[i].call = "list"
      <4>1. [j \in DOMAIN v(i) |-> <<>>] = ItemParts(0, ops[i], v(i))
        BY <1>2, <1>3, <3>2 DEF ItemParts, CellsUnder
      <4>2. WriteField(LAMBDA s, r : <<>>, old[i], v(i)) =
              <<Cell(4, ops[i].name, Len(v(i)))>>
              \o FlattenSeq([j \in DOMAIN v(i) |-> <<>>])
        BY <1>3, <3>2 DEF WriteField
      <4> QED  BY <3>1, <3>2, <4>1, <4>2 DEF PartOf
    <3>3. CASE ops[i].call = "string"
      BY <1>3, <3>1, <3>3 DEF WriteField, PartOf
    <3>4. CASE ops[i].call = "fixed"
      BY <1>3, <3>1, <3>4 DEF WriteField, PartOf
    <3> QED  BY <1>2, <3>2, <3>3, <3>4
  <2>2. w = Parts(0, struct, rec)
    <3>1. w = [i \in 1..Len(ops) |-> w[i]]
      BY <1>1
    <3> HIDE DEF w
    <3> QED  BY <2>1, <3>1 DEF Parts, ops
  <2> QED  BY <2>2 DEF WriteItem, WriteWith, CellsAt, old
<1> QED  BY <1>4, <1>5, <1>6

\* What the reader of a level knows of the items of its lists.
ItemsRead(level, cells) ==
  \A s \in Under(level) : \A x : IsUnder(level, s, x) =>
    /\ IsSeq(CellsUnder(level, s, x))
    /\ OkUnder(level, s, x) \in BOOLEAN
    /\ \A q \in Nat \ {0} : Carries(cells, q, CellsUnder(level, s, x)) =>
         Reads(ReaderUnder(level, cells)[s][q], cells, q, CellsUnder(level, s, x),
               Delivered(s, x), OkUnder(level, s, x))

\* Then it reads the records of its level.
LEMMA LevelReads ==
  ASSUME NEW level \in 0..2, NEW cells, IsSeq(cells), ItemsRead(level, cells),
         NEW struct \in At(level), NEW rec, ShapedAt(level, struct, rec)
  PROVE  /\ IsSeq(CellsAt(level, struct, rec))
         /\ \A pos \in Nat \ {0} : Carries(cells, pos, CellsAt(level, struct, rec)) =>
              Reads(ReadWith(ReaderUnder(level, cells), struct, cells, pos), cells, pos,
                    CellsAt(level, struct, rec), Delivered(struct, rec),
                    BoundedAt(level, struct, rec) /\ Passes(struct, Delivered(struct, rec)))
<1> DEFINE ops == Dec[struct]
           n   == Len(ops)
           items == ReaderUnder(level, cells)
           v(i) == rec[ops[i].name]
           iparts  == [i \in 1..n |-> ItemParts(level, ops[i], v(i))]
           ivals   == [i \in 1..n |-> Arrival(v(i), ops[i].items)]
           iwithin == [i \in 1..n |-> ItemOks(level, ops[i], v(i))]
           parts == Parts(level, struct, rec)
           vals  == [i \in 1..n |-> ValueOf(ops[i], v(i), ivals[i])]
<1>1. struct \in Structs /\ Shaped(struct, rec)
  BY DEF At, Structs, ShapedAt
<1>2. IsSeq(ops) /\ n \in Nat /\ DOMAIN ops = 1..n
  BY <1>1, AllAgree, SeqElements DEF Structs, Agrees, Match
<1>3. ASSUME NEW i \in 1..n
      PROVE  Ready(items, cells, ops[i], v(i), ItemParts(level, ops[i], v(i)),
                   Arrival(v(i), ops[i].items), ItemOks(level, ops[i], v(i)))
  <2> DEFINE op == ops[i]
             list == rec[op.name]
  <2>1. PICK T : /\ Field(op.name, T) \in Struct[struct]
                 /\ op.call = "list" <=> T.t = "list"
                 /\ op.call = "list" =>
                      T.item = op.items /\ IsSeq(list) /\ Len(list) \in Nat
                      /\ DOMAIN list = 1..Len(list)
                 /\ op.call # "list" => list = Val(op.name, list.n)
                 /\ op.call \in {"fixed", "string", "list"}
    BY <1>1, CallValue
  <2>2. Field(op.name, T).name = op.name /\ Field(op.name, T).type = T
    BY DEF Field
  <2>3. op.call # "list" => list = Val(list.of, list.n)
    BY <2>1 DEF Val
  <2>4. CASE op.call = "list"
    <3>1. op.items \in Under(level) /\ \A j \in 1..Len(list) : IsUnder(level, op.items, list[j])
      BY <2>1, <2>2, <2>4, UnderIs DEF ShapedAt
    <3> DEFINE m == Len(list)
               p == ItemParts(level, op, list)
               a == Arrival(list, op.items)
               w == ItemOks(level, op, list)
    <3>2. /\ \A j \in 1..m : /\ p[j] = CellsUnder(level, op.items, list[j])
                             /\ a[j] = Delivered(op.items, list[j])
                             /\ w[j] = OkUnder(level, op.items, list[j])
          /\ p = [j \in 1..m |-> p[j]] /\ a = [j \in 1..m |-> a[j]]
      BY DEF ItemParts, Arrival, ItemOks
    <3>3. m \in Nat
      BY <2>1, <2>4
    <3> HIDE DEF p, a, w, m
    <3>4. IsSeq(p) /\ IsSeq(a) /\ Len(p) = m /\ Len(a) = m
      BY <3>2, <3>3, SeqOfFunction
    <3>5. ASSUME NEW j \in 1..m
          PROVE  /\ IsSeq(p[j]) /\ w[j] \in BOOLEAN
                 /\ \A q \in Nat \ {0} : Carries(cells, q, p[j]) =>
                      Reads(items[op.items][q], cells, q, p[j], a[j], w[j])
      <4>1. IsUnder(level, op.items, list[j])
        BY <3>1 DEF m
      <4>2. /\ IsSeq(CellsUnder(level, op.items, list[j]))
            /\ OkUnder(level, op.items, list[j]) \in BOOLEAN
            /\ \A q \in Nat \ {0} : Carries(cells, q, CellsUnder(level, op.items, list[j])) =>
                 Reads(items[op.items][q], cells, q, CellsUnder(level, op.items, list[j]),
                       Delivered(op.items, list[j]), OkUnder(level, op.items, list[j]))
        BY <3>1, <4>1 DEF ItemsRead
      <4> QED  BY <3>2, <4>2
    <3>6. Ready(items, cells, op, list, p, a, w)
      BY <2>1, <2>4, <3>3, <3>4, <3>5 DEF Ready, m
    <3> QED  BY <3>6 DEF p, a, w
  <2>5. CASE op.call # "list"
    BY <2>1, <2>3, <2>5 DEF Ready
  <2> QED  BY <2>4, <2>5
<1>4. /\ \A i \in 1..n : parts[i] = PartOf(ops[i], v(i), iparts[i])
      /\ parts = [i \in 1..n |-> parts[i]]
  BY DEF Parts
<1>5. /\ \A i \in 1..n : vals[i] = ValueOf(ops[i], v(i), ivals[i])
      /\ vals = [i \in 1..n |-> vals[i]]
  OBVIOUS
<1>6. \A i \in 1..n : Ready(items, cells, ops[i], v(i), iparts[i], ivals[i], iwithin[i])
  BY <1>3
<1>7. \A i \in 1..n : vals[i] = ValueOf(ops[i], v(i), Arrival(v(i), ops[i].items))
  OBVIOUS
<1>8. (\A i \in 1..n : Fits(ops[i], v(i), iwithin[i]))
      <=> (\A i \in 1..n : Fits(ops[i], v(i), ItemOks(level, ops[i], v(i))))
  OBVIOUS
<1> HIDE DEF iparts, ivals, iwithin, vals, parts, v, items
<1>9. IsSeq(parts) /\ IsSeq(vals) /\ Len(parts) = n /\ Len(vals) = n
  <2> HIDE DEF n
  <2> QED  BY <1>2, <1>4, <1>5, SeqOfFunction
<1>10. IsSeq(CellsAt(level, struct, rec))
  <2>1. \A i \in 1..n : IsSeq(parts[i])
    BY <1>4, <1>6, PartIsSeq
  <2> QED  BY <1>9, <2>1, FlattenIsSeq DEF CellsAt, parts
<1>11. Assigned(struct, vals) = Delivered(struct, rec)
  BY <1>1, <1>7, <1>9, AssignedIs DEF v
<1>12. AllFit(struct, rec, iwithin) <=> BoundedAt(level, struct, rec)
  BY <1>1, <1>8, FitsAre DEF v, AllFit
<1>13. ASSUME NEW pos \in Nat \ {0}, Carries(cells, pos, FlattenSeq(parts))
       PROVE  Reads(ReadWith(items, struct, cells, pos), cells, pos, FlattenSeq(parts),
                    Delivered(struct, rec),
                    BoundedAt(level, struct, rec) /\ Passes(struct, Delivered(struct, rec)))
  <2>1. Reads(ReadWith(items, struct, cells, pos), cells, pos, FlattenSeq(parts),
              Assigned(struct, vals),
              AllFit(struct, rec, iwithin) /\ Passes(struct, Assigned(struct, vals)))
    <3>1. Prepared(items, cells, struct, rec, iparts, ivals, iwithin, parts, vals)
      BY <1>2, <1>4, <1>5, <1>6, <1>9 DEF Prepared, v
    <3> QED  BY <1>13, <3>1, OneRecord
  <2> QED  BY <1>11, <1>12, <2>1 DEF Reads
<1> QED  BY <1>10, <1>13 DEF CellsAt, parts, items

\* The fields the check of a demand looks at.
Examined == {"accelerator.minimumCount", "accelerator.maximumCount", "accelerator.targetCount",
  "accelerator.capability", "accelerator.vramPerDevice", "accelerator.aggregateVram",
  "memory.hostMemory", "memory.pinnedMemory", "storage.capacity", "network.bandwidth",
  "maximumMovementCost", "communicationBytes", "expectedExecutionDuration",
  "throughputObjective", "fallbackLocalities", "workloadId", "demandId",
  "workloadGeneration", "demandGeneration"}

\* They are fields of a request.
LEMMA ExaminedAreFields == Examined \subseteq Names("request")
<1>1. \A x, T : Field(x, T) \in Struct["request"] => x \in Names("request")
  BY DEF Names, Field
<1>2. {"accelerator.minimumCount", "accelerator.maximumCount", "accelerator.targetCount",
       "accelerator.capability", "accelerator.vramPerDevice", "accelerator.aggregateVram"}
        \subseteq Names("request")
  <2>1. /\ \A x \in {"accelerator.minimumCount", "accelerator.targetCount",
                    "accelerator.maximumCount"} : Field(x, CountT) \in AcceleratorRequirement
        /\ \A x \in {"accelerator.vramPerDevice", "accelerator.aggregateVram"} :
             Field(x, IdT) \in AcceleratorRequirement
        /\ Field("accelerator.capability", EnumT(AcceleratorClass)) \in AcceleratorRequirement
    BY InAll DEF AcceleratorRequirement
  <2>2. AcceleratorRequirement \subseteq Struct["request"]
    BY DEF Struct, SchedulingRequest, DemandProfile
  <2> QED  BY <1>1, <2>1, <2>2
<1>3. {"memory.hostMemory", "memory.pinnedMemory", "storage.capacity", "network.bandwidth"}
        \subseteq Names("request")
  BY <1>1, InAll DEF Struct, SchedulingRequest, DemandProfile, MemoryStorageNetwork
<1>4. {"maximumMovementCost", "communicationBytes", "expectedExecutionDuration",
       "workloadId", "demandId", "workloadGeneration", "demandGeneration"}
        \subseteq Names("request")
  <2>1. \A x \in {"maximumMovementCost", "communicationBytes", "expectedExecutionDuration",
                 "workloadId", "demandId", "workloadGeneration", "demandGeneration"} :
          Field(x, IdT) \in DemandProfile
    BY InAll DEF DemandProfile
  <2>2. DemandProfile \subseteq Struct["request"]
    BY DEF Struct, SchedulingRequest
  <2> QED  BY <1>1, <2>1, <2>2
<1>5. {"throughputObjective", "fallbackLocalities"} \subseteq Names("request")
  BY <1>1, InAll DEF Struct, SchedulingRequest, DemandProfile
<1> QED  BY <1>2, <1>3, <1>4, <1>5 DEF Examined

\* What is forgotten of a request is not checked.
LEMMA ForgottenPasses ==
  ASSUME NEW rec, rec = [f \in Names("request") |-> rec[f]]
  PROVE  ValidDemand(Forgotten(rec)) <=> ValidDemand(rec)
<1>1. ASSUME NEW f \in Examined
      PROVE  Forgotten(rec)[f] = rec[f]
  <2>1. f \in Names("request") /\ f # "requiredTopologyGeneration"
    BY <1>1, ExaminedAreFields DEF Examined
  <2> QED  BY <2>1 DEF Forgotten
<1> DEFINE d == Forgotten(rec)
<1>2. /\ d["accelerator.minimumCount"] = rec["accelerator.minimumCount"]
      /\ d["accelerator.maximumCount"] = rec["accelerator.maximumCount"]
      /\ d["accelerator.targetCount"] = rec["accelerator.targetCount"]
      /\ d["accelerator.capability"] = rec["accelerator.capability"]
      /\ d["accelerator.vramPerDevice"] = rec["accelerator.vramPerDevice"]
      /\ d["accelerator.aggregateVram"] = rec["accelerator.aggregateVram"]
      /\ d["memory.hostMemory"] = rec["memory.hostMemory"]
      /\ d["memory.pinnedMemory"] = rec["memory.pinnedMemory"]
      /\ d["storage.capacity"] = rec["storage.capacity"]
      /\ d["network.bandwidth"] = rec["network.bandwidth"]
      /\ d["maximumMovementCost"] = rec["maximumMovementCost"]
      /\ d["communicationBytes"] = rec["communicationBytes"]
      /\ d["expectedExecutionDuration"] = rec["expectedExecutionDuration"]
      /\ d["throughputObjective"] = rec["throughputObjective"]
      /\ d["fallbackLocalities"] = rec["fallbackLocalities"]
      /\ \A f \in {"workloadId", "demandId", "workloadGeneration", "demandGeneration"} :
           d[f] = rec[f]
  BY <1>1 DEF Examined
<1> HIDE DEF d
<1>3. (\A f \in {"workloadId", "demandId", "workloadGeneration", "demandGeneration"} :
          d[f].n # 0)
      <=> (\A f \in {"workloadId", "demandId", "workloadGeneration", "demandGeneration"} :
             rec[f].n # 0)
  BY <1>2
<1>4. ValidDemand(d) <=> ValidDemand(rec)
  BY <1>2, <1>3 DEF ValidDemand
<1> QED  BY <1>4 DEF d

\* The check of what arrives is that of what was written.
LEMMA PassesDelivered ==
  ASSUME NEW struct \in Structs, NEW rec, Shaped(struct, rec)
  PROVE  Passes(struct, Delivered(struct, rec)) <=> Passes(struct, rec)
<1>1. CASE struct = "request"
  BY <1>1, ForgottenPasses DEF Shaped, Passes, Delivered
<1>2. CASE struct = "file"
  BY <1>2 DEF Passes
<1>3. CASE struct # "request" /\ struct # "file"
  BY <1>3 DEF Delivered
<1> QED  BY <1>1, <1>2, <1>3

\* Every struct has a reader at every level.
LEMMA ReadersAre ==
  ASSUME NEW cells, NEW struct \in Structs, NEW pos \in Nat
  PROVE  /\ ReaderUnder(1, cells)[struct][pos] = ReadWith(ReaderUnder(0, cells), struct, cells, pos)
         /\ ReaderUnder(2, cells)[struct][pos] = ReadWith(ReaderUnder(1, cells), struct, cells, pos)
         /\ Read(struct, cells, pos) = ReadWith(ReaderUnder(2, cells), struct, cells, pos)
<1>1. struct \in DOMAIN Dec
  BY DEF Dec, Structs, Flat, Middle
<1>2. \A items : Reader(items, cells)[struct][pos] = ReadWith(items, struct, cells, pos)
  BY <1>1 DEF Reader
<1>3. /\ ReaderUnder(0, cells) = <<>> /\ ReaderUnder(1, cells) = ItemReader(cells)
      /\ ReaderUnder(2, cells) = RecordReader(cells)
  BY DEF ReaderUnder
<1> QED  BY <1>2, <1>3 DEF ItemReader, RecordReader, Read

\* The structs without lists are read,
LEMMA FirstItemsRead ==
  ASSUME NEW cells, IsSeq(cells)
  PROVE  ItemsRead(1, cells)
<1>1. ItemsRead(0, cells)
  BY DEF ItemsRead, Under
<1>2. ASSUME NEW s \in Flat, NEW x, IsItem(s, x)
      PROVE  /\ IsSeq(WriteItem(s, x)) /\ ItemOk(s, x) \in BOOLEAN
             /\ \A q \in Nat \ {0} : Carries(cells, q, WriteItem(s, x)) =>
                  Reads(ReaderUnder(1, cells)[s][q], cells, q, WriteItem(s, x),
                        Delivered(s, x), ItemOk(s, x))
  <2>1. s \in Structs /\ s \in At(0) /\ ShapedAt(0, s, x) /\ Shaped(s, x)
    BY <1>2, ShapedIs DEF Structs, At, ShapedAt
  <2>2. WriteItem(s, x) = CellsAt(0, s, x)
    BY <2>1, PartsAre
  <2>3. ItemOk(s, x) <=> BoundedAt(0, s, x) /\ Passes(s, Delivered(s, x))
    BY <2>1, BoundsAre, PassesDelivered DEF ItemOk
  <2>4. ItemOk(s, x) \in BOOLEAN
    BY DEF ItemOk
  <2>5. /\ IsSeq(CellsAt(0, s, x))
        /\ \A q \in Nat \ {0} : Carries(cells, q, CellsAt(0, s, x)) =>
             Reads(ReadWith(ReaderUnder(0, cells), s, cells, q), cells, q, CellsAt(0, s, x),
                   Delivered(s, x), BoundedAt(0, s, x) /\ Passes(s, Delivered(s, x)))
    BY <1>1, <2>1, LevelReads
  <2>6. ASSUME NEW q \in Nat \ {0}, Carries(cells, q, WriteItem(s, x))
        PROVE  Reads(ReaderUnder(1, cells)[s][q], cells, q, WriteItem(s, x),
                     Delivered(s, x), ItemOk(s, x))
    <3>1. ReaderUnder(1, cells)[s][q] = ReadWith(ReaderUnder(0, cells), s, cells, q)
      BY <2>1, ReadersAre
    <3> QED  BY <2>2, <2>3, <2>5, <2>6, <3>1 DEF Reads
  <2> QED  BY <2>2, <2>4, <2>5, <2>6
<1>3. \A s, x : /\ IsUnder(1, s, x) <=> IsItem(s, x)
                /\ CellsUnder(1, s, x) = WriteItem(s, x)
                /\ OkUnder(1, s, x) = ItemOk(s, x)
  BY DEF IsUnder, CellsUnder, OkUnder
<1>4. Under(1) = Flat
  BY DEF Under
<1> QED  BY <1>2, <1>3, <1>4 DEF ItemsRead

\* so are those with lists of them,
LEMMA SecondItemsRead ==
  ASSUME NEW cells, IsSeq(cells)
  PROVE  ItemsRead(2, cells)
<1>1. ItemsRead(1, cells)
  BY FirstItemsRead
<1>2. ASSUME NEW s \in Flat \cup Middle, NEW x, IsRecord(s, x)
      PROVE  /\ IsSeq(WriteRecord(s, x)) /\ RecordOk(s, x) \in BOOLEAN
             /\ \A q \in Nat \ {0} : Carries(cells, q, WriteRecord(s, x)) =>
                  Reads(ReaderUnder(2, cells)[s][q], cells, q, WriteRecord(s, x),
                        Delivered(s, x), RecordOk(s, x))
  <2>1. s \in Structs /\ s \in At(1) /\ ShapedAt(1, s, x) /\ Shaped(s, x)
    BY <1>2, ShapedIs DEF Structs, At, ShapedAt
  <2>2. WriteRecord(s, x) = CellsAt(1, s, x)
    BY <2>1, PartsAre
  <2>3. RecordOk(s, x) <=> BoundedAt(1, s, x) /\ Passes(s, Delivered(s, x))
    BY <2>1, BoundsAre, PassesDelivered DEF RecordOk
  <2>4. RecordOk(s, x) \in BOOLEAN
    BY DEF RecordOk
  <2>5. /\ IsSeq(CellsAt(1, s, x))
        /\ \A q \in Nat \ {0} : Carries(cells, q, CellsAt(1, s, x)) =>
             Reads(ReadWith(ReaderUnder(1, cells), s, cells, q), cells, q, CellsAt(1, s, x),
                   Delivered(s, x), BoundedAt(1, s, x) /\ Passes(s, Delivered(s, x)))
    BY <1>1, <2>1, LevelReads
  <2>6. ASSUME NEW q \in Nat \ {0}, Carries(cells, q, WriteRecord(s, x))
        PROVE  Reads(ReaderUnder(2, cells)[s][q], cells, q, WriteRecord(s, x),
                     Delivered(s, x), RecordOk(s, x))
    <3>1. ReaderUnder(2, cells)[s][q] = ReadWith(ReaderUnder(1, cells), s, cells, q)
      BY <2>1, ReadersAre
    <3> QED  BY <2>2, <2>3, <2>5, <2>6, <3>1 DEF Reads
  <2> QED  BY <2>2, <2>4, <2>5, <2>6
<1>3. \A s, x : /\ IsUnder(2, s, x) <=> IsRecord(s, x)
                /\ CellsUnder(2, s, x) = WriteRecord(s, x)
                /\ OkUnder(2, s, x) = RecordOk(s, x)
  BY DEF IsUnder, CellsUnder, OkUnder
<1>4. Under(2) = Flat \cup Middle
  BY DEF Under
<1> QED  BY <1>2, <1>3, <1>4 DEF ItemsRead

\* and so is whatever is sent.
LEMMA ReadsWritten ==
  ASSUME NEW cells, IsSeq(cells), NEW k \in Kinds, NEW rec, IsOfKind(k, rec)
  PROVE  /\ IsSeq(Write(k, rec))
         /\ \A q \in Nat \ {0} : Carries(cells, q, Write(k, rec)) =>
              Reads(Read(k, cells, q), cells, q, Write(k, rec), Delivered(k, rec),
                    Bounded(RecordOk, k, rec) /\ Passes(k, rec))
<1>1. ItemsRead(2, cells)
  BY SecondItemsRead
<1>2. k \in Structs /\ k \in At(2) /\ ShapedAt(2, k, rec) /\ Shaped(k, rec)
  BY ShapedIs DEF Kinds, Structs, Middle, At, ShapedAt
<1>3. Write(k, rec) = CellsAt(2, k, rec)
  BY <1>2, PartsAre
<1>4. (Bounded(RecordOk, k, rec) /\ Passes(k, rec))
      <=> BoundedAt(2, k, rec) /\ Passes(k, Delivered(k, rec))
  BY <1>2, BoundsAre, PassesDelivered
<1>5. /\ IsSeq(CellsAt(2, k, rec))
      /\ \A q \in Nat \ {0} : Carries(cells, q, CellsAt(2, k, rec)) =>
           Reads(ReadWith(ReaderUnder(2, cells), k, cells, q), cells, q, CellsAt(2, k, rec),
                 Delivered(k, rec), BoundedAt(2, k, rec) /\ Passes(k, Delivered(k, rec)))
  BY <1>1, <1>2, LevelReads
<1>6. ASSUME NEW q \in Nat \ {0}, Carries(cells, q, Write(k, rec))
      PROVE  Reads(Read(k, cells, q), cells, q, Write(k, rec), Delivered(k, rec),
                   Bounded(RecordOk, k, rec) /\ Passes(k, rec))
  <2>1. Read(k, cells, q) = ReadWith(ReaderUnder(2, cells), k, cells, q)
    BY <1>2, ReadersAre
  <2> QED  BY <1>3, <1>4, <1>5, <1>6, <2>1 DEF Reads
<1> QED  BY <1>3, <1>5, <1>6

-----------------------------------------------------------------------------
(* What is accepted is what is within the bounds and sensible.             *)

\* Only a plan has factors, and only a file has plans.
LEMMA OnlyFactors ==
  /\ \A s \in Structs \ {"plan"} : \A f \in Struct[s] : f.type.t = "list" => f.type.item # "factor"
  /\ \A f \in Struct["plan"] : f.type.t = "list" /\ f.type.item = "factor"
           <=> f.name = "selectedFactors"
  /\ Field("selectedFactors", ListT("factor")) \in Struct["plan"]
  /\ \A f \in Struct["file"] : f.type.t = "list" /\ f.type.item = "plan" <=> f.name = "plans"
  /\ \A f \in Struct["file"] : f.type.t = "list" =>
           f.type.item \in {"request", "plan", "identity", "reason", "id"}
  /\ {Field("requests", ListT("request")), Field("plans", ListT("plan"))} \subseteq Struct["file"]
<1>1. \A s \in Flat : \A f \in Struct[s] : f.type.t # "list"
  BY Nesting
<1>2. \A f \in Struct["request"] : f.type.t = "list" => f.type.item # "factor"
  BY OfAll DEF Struct, SchedulingRequest, DemandProfile, AcceleratorRequirement,
     MemoryStorageNetwork,
     ResidencyRequirement, FailureDomainConstraint,
     ListT, EnumT, Type, TextT, IdT, CountT, IntT, FlagT, RealT
<1>3. \A f \in Struct["candidate"] : f.type.t = "list" => f.type.item # "factor"
  <2> DEFINE P(S) == \A f \in S : f.type.t # "list"
  <2> USE OfAll DEF EnumT, Type, TextT, IdT, CountT, FlagT, RealT
  <2>1. P(CapacityEvidence) /\ P(HealthEvidence) /\ P(ReservationEvidence)
    BY DEF CapacityEvidence, HealthEvidence, ReservationEvidence
  <2>2. P(CongestionEvidence) /\ P(LocalityEvidence)
    BY DEF CongestionEvidence, LocalityEvidence
  <2>3. P(CommunicationEvidence) /\ P(ResidencyEvidence) /\ P(CandidateIdentity)
    BY DEF CommunicationEvidence, ResidencyEvidence, CandidateIdentity
  <2> HIDE DEF P
  <2>4. \A f \in Candidate :
           \/ f \in CapacityEvidence \/ f \in HealthEvidence \/ f \in ReservationEvidence
           \/ f \in CongestionEvidence \/ f \in LocalityEvidence \/ f \in CommunicationEvidence
           \/ f \in ResidencyEvidence \/ f \in CandidateIdentity
           \/ f \in All(EnumT(Provenance), {"provenance"})
           \/ f \in All(ListT("binding"), {"bindings"})
           \/ f \in All(IdT, {"policyGeneration"}) \/ f \in All(RealT, {"memoryMovementCost"})
    BY DEF Candidate
  <2> QED  BY <2>1, <2>2, <2>3, <2>4 DEF P, Struct, ListT
<1>4. /\ \A f \in Struct["file"] : f.type.t = "list" => f.type.item # "factor"
      /\ \A f \in Struct["file"] : f.type.t = "list" /\ f.type.item = "plan" <=> f.name = "plans"
      /\ \A f \in Struct["file"] : f.type.t = "list" =>
               f.type.item \in {"request", "plan", "identity", "reason", "id"}
  BY OfAll DEF Struct, Persisted, ListT, IdT, Type
<1>5. \A f \in Struct["plan"] : f.type.t = "list" /\ f.type.item = "factor"
         <=> f.name = "selectedFactors"
  BY OfAll DEF Struct, PlacementPlan, GenerationFingerprint, ListT, EnumT, Type, TextT, IdT, FlagT
<1>6. /\ Field("selectedFactors", ListT("factor")) \in Struct["plan"]
      /\ {Field("requests", ListT("request")), Field("plans", ListT("plan"))}
           \subseteq Struct["file"]
  BY InAll DEF Struct, PlacementPlan, Persisted
<1> QED  BY <1>1, <1>2, <1>3, <1>4, <1>5, <1>6 DEF Structs, Middle

\* The items of the lists pass their checks.
ItemsPass(struct, rec) ==
  \A field \in Struct[struct] : field.type.t = "list" =>
    \A j \in 1..Len(rec[field.name]) : Passes(field.type.item, rec[field.name][j])

\* The items of a record pass exactly if it is no plan with a factor not finite.
LEMMA ItemsPassIs ==
  ASSUME NEW struct \in Structs \ {"file"}, NEW rec, Shaped(struct, rec)
  PROVE  ItemsPass(struct, rec) <=> (struct = "plan" => FactorsFinite(rec))
<1>1. \A item, x : item # "request" =>
         (Passes(item, x) <=> (item = "factor" => x["value"].n # NotFinite))
  BY DEF Passes
<1>2. \A f \in Struct[struct] : f.type.t = "list" => f.type.item # "request"
  BY OnlyRequests
<1>3. CASE struct # "plan"
  <2>1. \A f \in Struct[struct] : f.type.t = "list" => f.type.item # "factor"
    BY <1>3, OnlyFactors
  <2> QED  BY <1>1, <1>2, <1>3, <2>1 DEF ItemsPass
<1>4. CASE struct = "plan"
  <2>1. \A f \in Struct[struct] : f.type.t = "list" /\ f.type.item = "factor"
           <=> f.name = "selectedFactors"
    BY <1>4, OnlyFactors
  <2>2. PICK field \in Struct[struct] : field.name = "selectedFactors"
          /\ field.type = ListT("factor")
    BY <1>4, OnlyFactors DEF Field
  <2>3. field.type.t = "list" /\ field.type.item = "factor"
    BY <2>2 DEF ListT, Type
  <2>4. DOMAIN rec["selectedFactors"] = 1..Len(rec["selectedFactors"])
    <3>1. IsSeq(rec[field.name])
      BY <2>3 DEF Shaped
    <3> QED  BY <2>2, <3>1, SeqElements
  <2>5. ASSUME ItemsPass(struct, rec)
        PROVE  FactorsFinite(rec)
    BY <1>1, <2>2, <2>3, <2>4, <2>5 DEF ItemsPass, FactorsFinite
  <2>6. ASSUME FactorsFinite(rec)
        PROVE  ItemsPass(struct, rec)
    BY <1>1, <1>2, <2>1, <2>4, <2>6 DEF ItemsPass, FactorsFinite
  <2> QED  BY <1>4, <2>5, <2>6
<1> QED  BY <1>3, <1>4

\* What makes sense of a record by itself.
Makes(struct, rec) == Passes(struct, rec) /\ (struct = "plan" => FactorsFinite(rec))

\* A record of a list is accepted exactly if it is within bounds and makes sense.
LEMMA RecordOkIs ==
  ASSUME NEW struct \in Structs \ {"file"}, NEW rec, Shaped(struct, rec)
  PROVE  RecordOk(struct, rec) <=> RecordInBounds(struct, rec) /\ Makes(struct, rec)
<1>1. \A field \in Struct[struct] : field.type.t = "list" =>
        DOMAIN rec[field.name] = 1..Len(rec[field.name])
  BY SeqElements DEF Shaped
<1> DEFINE bounds(field) == 
             /\ field.type.t = "list" =>
                  /\ Len(rec[field.name]) <= MaxRecords
                  /\ \A j \in 1..Len(rec[field.name]) :
                       ItemInBounds(field.type.item, rec[field.name][j])
             /\ field.type.t = "text" => rec[field.name].n <= MaxString
             /\ field.type.t = "enum" => rec[field.name].n <= field.type.top
<1>2. RecordInBounds(struct, rec) <=> \A field \in Struct[struct] : bounds(field)
  <2>1. ASSUME NEW field \in Struct[struct]
        PROVE  (CASE field.type.t = "list" ->
                       /\ Len(rec[field.name]) <= MaxRecords
                       /\ \A i \in DOMAIN rec[field.name] :
                            ItemInBounds(field.type.item, rec[field.name][i])
                  [] field.type.t = "text" -> rec[field.name].n <= MaxString
                  [] field.type.t = "enum" -> rec[field.name].n <= field.type.top
                  [] OTHER                 -> TRUE) <=> bounds(field)
    BY <1>1
  <2> HIDE DEF bounds
  <2> QED  BY <2>1 DEF RecordInBounds, Bounded
<1>3. Bounded(ItemOk, struct, rec) <=> BoundedAt(1, struct, rec)
  BY BoundsAre
<1>4. \A item, x : OkUnder(1, item, x) <=> ItemInBounds(item, x) /\ Passes(item, x)
  BY DEF OkUnder, ItemOk
<1>5. BoundedAt(1, struct, rec) <=>
         (\A field \in Struct[struct] : bounds(field)) /\ ItemsPass(struct, rec)
  BY <1>4 DEF BoundedAt, ItemsPass
<1>6. RecordOk(struct, rec) <=> Bounded(ItemOk, struct, rec) /\ Passes(struct, rec)
  BY DEF RecordOk
<1> QED  BY <1>2, <1>3, <1>5, <1>6, ItemsPassIs DEF Makes

SensibleAlone(k, rec) ==
  CASE k = "request" -> ValidDemand(rec)
    [] k = "plan"    -> FactorsFinite(rec)
    [] k = "file"    -> /\ \A i \in DOMAIN rec["requests"] : ValidDemand(rec["requests"][i])
                        /\ \A i \in DOMAIN rec["plans"] : FactorsFinite(rec["plans"][i])
    [] OTHER         -> TRUE

\* The same of a whole record or file: what is read through is what the limits say.
LEMMA AcceptedIs ==
  ASSUME NEW k \in Kinds, NEW rec, IsOfKind(k, rec)
  PROVE  Bounded(RecordOk, k, rec) /\ Passes(k, rec) <=> InBounds(k, rec) /\ SensibleAlone(k, rec)
<1>1. k \in Structs /\ ShapedAt(2, k, rec) /\ Shaped(k, rec)
  BY ShapedIs DEF Kinds, Structs, Middle, ShapedAt
<1>2. \A field \in Struct[k] : field.type.t = "list" =>
        DOMAIN rec[field.name] = 1..Len(rec[field.name])
  BY <1>1, SeqElements DEF Shaped
<1> DEFINE makeSense == \A field \in Struct[k] : field.type.t = "list" =>
             \A j \in 1..Len(rec[field.name]) : Makes(field.type.item, rec[field.name][j])
           bounds(field) == 
             /\ field.type.t = "list" =>
                  /\ Len(rec[field.name]) <= MaxRecords
                  /\ \A j \in 1..Len(rec[field.name]) :
                       RecordInBounds(field.type.item, rec[field.name][j])
             /\ field.type.t = "text" => rec[field.name].n <= MaxString
             /\ field.type.t = "enum" => rec[field.name].n <= field.type.top
<1>3. InBounds(k, rec) <=> \A field \in Struct[k] : bounds(field)
  <2>1. ASSUME NEW field \in Struct[k]
        PROVE  (CASE field.type.t = "list" ->
                       /\ Len(rec[field.name]) <= MaxRecords
                       /\ \A i \in DOMAIN rec[field.name] :
                            RecordInBounds(field.type.item, rec[field.name][i])
                  [] field.type.t = "text" -> rec[field.name].n <= MaxString
                  [] field.type.t = "enum" -> rec[field.name].n <= field.type.top
                  [] OTHER                 -> TRUE) <=> bounds(field)
    BY <1>2
  <2> HIDE DEF bounds
  <2> QED  BY <2>1 DEF InBounds, Bounded
<1>4. ASSUME NEW field \in Struct[k], field.type.t = "list", NEW j \in 1..Len(rec[field.name])
      PROVE  OkUnder(2, field.type.item, rec[field.name][j])
             <=> /\ RecordInBounds(field.type.item, rec[field.name][j])
                 /\ Makes(field.type.item, rec[field.name][j])
  <2> DEFINE item == field.type.item
             x == rec[field.name][j]
  <2>1. IsRecord(item, x)
    <3>1. IsUnder(2, item, x)
      BY <1>1, <1>4 DEF ShapedAt
    <3> QED  BY <3>1 DEF IsUnder
  <2>2. item \in Structs \ {"file"}
    <3>1. item \in Flat \cup Middle
      BY <1>1, <1>4, Nesting DEF Structs
    <3> QED  BY <3>1 DEF Structs, Flat, Middle
  <2>3. Shaped(item, x)
    BY <2>1, ShapedIs DEF ShapedAt
  <2> HIDE DEF item, x
  <2>4. OkUnder(2, item, x) <=> RecordOk(item, x)
    BY DEF OkUnder
  <2> QED  BY <2>2, <2>3, <2>4, RecordOkIs DEF item, x
<1>5. Bounded(RecordOk, k, rec) <=> BoundedAt(2, k, rec)
  BY <1>1, BoundsAre
<1>6. BoundedAt(2, k, rec) <=> InBounds(k, rec) /\ makeSense
  BY <1>3, <1>4 DEF BoundedAt
<1> HIDE DEF bounds
<1>7. CASE k # "file"
  <2>1. \A field \in Struct[k] : field.type.t = "list" => field.type.item # "plan"
    <3>1. k \in Middle
      BY <1>7 DEF Kinds, Middle
    <3> QED  BY <3>1, Nesting DEF Flat
  <2>2. makeSense <=> ItemsPass(k, rec)
    BY <2>1 DEF Makes, ItemsPass
  <2>3. makeSense <=> (k = "plan" => FactorsFinite(rec))
    BY <1>1, <1>7, <2>2, ItemsPassIs
  <2> HIDE DEF makeSense
  <2>4. CASE k = "request"
    BY <1>5, <1>6, <2>3, <2>4 DEF Passes, SensibleAlone
  <2>5. CASE k = "plan"
    BY <1>5, <1>6, <2>3, <2>5 DEF Passes, SensibleAlone
  <2>6. CASE k = "candidate"
    BY <1>5, <1>6, <2>3, <2>6 DEF Passes, SensibleAlone
  <2> QED  BY <1>7, <2>4, <2>5, <2>6 DEF Kinds
<1>8. CASE k = "file"
  <2>1. PICK fr \in Struct[k] : fr.name = "requests" /\ fr.type = ListT("request")
    BY <1>8, OnlyFactors DEF Field
  <2>2. PICK fp \in Struct[k] : fp.name = "plans" /\ fp.type = ListT("plan")
    BY <1>8, OnlyFactors DEF Field
  <2>3. /\ fr.type.t = "list" /\ fr.type.item = "request"
        /\ fp.type.t = "list" /\ fp.type.item = "plan"
    BY <2>1, <2>2 DEF ListT, Type
  <2>4. /\ DOMAIN rec["requests"] = 1..Len(rec["requests"])
        /\ DOMAIN rec["plans"] = 1..Len(rec["plans"])
    BY <1>2, <2>1, <2>2, <2>3
  <2>5. /\ \A x : Makes("request", x) <=> ValidDemand(x)
        /\ \A x : Makes("plan", x) <=> FactorsFinite(x)
        /\ \A x : Makes("identity", x) /\ Makes("reason", x) /\ Makes("id", x)
    BY DEF Makes, Passes
  <2>6. SensibleAlone(k, rec) <=>
          /\ \A i \in 1..Len(rec["requests"]) : ValidDemand(rec["requests"][i])
          /\ \A i \in 1..Len(rec["plans"]) : FactorsFinite(rec["plans"][i])
    BY <1>8, <2>4 DEF SensibleAlone
  <2>7. ASSUME makeSense PROVE SensibleAlone(k, rec)
    BY <2>1, <2>2, <2>3, <2>5, <2>6, <2>7
  <2>8. ASSUME SensibleAlone(k, rec) PROVE makeSense
    <3> SUFFICES ASSUME NEW field \in Struct[k], field.type.t = "list",
                        NEW j \in 1..Len(rec[field.name])
                 PROVE  Makes(field.type.item, rec[field.name][j])
      OBVIOUS
    <3>1. CASE field.type.item = "request"
      <4>1. field.name = "requests"
        BY <1>8, <3>1, OnlyRequests
      <4> QED  BY <2>5, <2>6, <2>8, <3>1, <4>1
    <3>2. CASE field.type.item = "plan"
      <4>1. field.name = "plans"
        BY <1>8, <3>2, OnlyFactors
      <4> QED  BY <2>5, <2>6, <2>8, <3>2, <4>1
    <3>3. CASE field.type.item \in {"identity", "reason", "id"}
      BY <2>5, <3>3
    <3> QED  BY <1>8, <3>1, <3>2, <3>3, OnlyFactors
  <2>9. Passes(k, rec)
    BY <1>8 DEF Passes
  <2> QED  BY <1>5, <1>6, <2>7, <2>8, <2>9
<1> QED  BY <1>7, <1>8

=============================================================================
