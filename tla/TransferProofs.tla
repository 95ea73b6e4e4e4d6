--------------------------- MODULE TransferProofs ---------------------------
(***************************************************************************)
(* The four invariants of Transfer, for every record, every cut and every  *)
(* change of a byte.                                                       *)
(*                                                                         *)
(* The reading of what was written is CodecProofs.  Here: what is written  *)
(* is cells with numbers in them, so that it has a digest (WrittenCells,   *)
(* DigestIsNumber); two payloads that differ in one byte have different    *)
(* digests (DigestTells), because each step of it is one to one; what      *)
(* persist_save wrote is loaded as it was, cut it is not loaded, and       *)
(* altered it is refused or, where the flags were hit or a cell was added  *)
(* behind the checksum, loaded as it was (WholeLoads, CutFile,             *)
(* ChangedFile, LongerFile).                                               *)
(*                                                                         *)
(* TransferInv is the inductive invariant: it says of the bytes under way  *)
(* what the fault has made of those the writer wrote, and that what was    *)
(* got is what the reader makes of them.                                   *)
(***************************************************************************)
EXTENDS CodecProofs

-----------------------------------------------------------------------------
(* What is written is cells, each with a number in it.                     *)

IsCell(c) == c = Cell(c.width, c.of, c.n) /\ c.n \in Numbers

AreCells(s) == IsSeq(s) /\ \A i \in 1..Len(s) : IsCell(s[i])

\* Cells behind cells are cells.
LEMMA CellsConcat ==
  ASSUME NEW a, NEW b, AreCells(a), AreCells(b)
  PROVE  AreCells(a \o b)
<1> DEFINE k == Len(a)
           m == Len(b)
<1>1. /\ IsSeq(a) /\ IsSeq(b) /\ k \in Nat /\ m \in Nat
      /\ \A i \in 1..k : IsCell(a[i]) 
      /\ \A i \in 1..m : IsCell(b[i])
  BY SeqElements DEF AreCells
<1>2. /\ IsSeq(a \o b) /\ Len(a \o b) = k + m
      /\ \A i \in 1..k : (a \o b)[i] = a[i]
      /\ \A i \in 1..m : (a \o b)[k + i] = b[i]
  BY <1>1, Concatenation
<1> HIDE DEF k, m
<1>3. ASSUME NEW i \in 1..(k + m)
      PROVE  IsCell((a \o b)[i])
  <2>1. CASE i \in 1..k
    BY <1>1, <1>2, <2>1
  <2>2. CASE i \notin 1..k
    <3>1. i - k \in 1..m /\ k + (i - k) = i
      BY <1>1, <1>3, <2>2
    <3>2. (a \o b)[i] = b[i - k]
      BY <1>2, <3>1
    <3> QED  BY <1>1, <3>1, <3>2
  <2> QED  BY <2>1, <2>2
<1> QED  BY <1>2, <1>3 DEF AreCells

\* One or two cells are cells.
LEMMA FewCells ==
  ASSUME NEW w, NEW x, NEW of, NEW n \in Numbers
  PROVE  AreCells(<<Cell(w, of, n)>>) /\ AreCells(<<Cell(w, of, n), Cell(x, of, n)>>)
<1> DEFINE c == Cell(w, of, n)
           d == Cell(x, of, n)
<1>1. IsCell(c) /\ IsCell(d)
  BY DEF IsCell, Cell
<1> HIDE DEF c, d
<1>2. /\ IsSeq(<<c>>) /\ Len(<<c>>) = 1 /\ <<c>>[1] = c
      /\ IsSeq(<<c, d>>) /\ Len(<<c, d>>) = 2 /\ <<c, d>>[1] = c /\ <<c, d>>[2] = d
  BY Cells
<1>3. AreCells(<<c>>)
  <2>1. \A i \in 1..1 : i = 1
    OBVIOUS
  <2> QED  BY <1>1, <1>2, <2>1 DEF AreCells
<1>4. AreCells(<<c, d>>)
  <2>1. \A i \in 1..2 : i = 1 \/ i = 2
    OBVIOUS
  <2> QED  BY <1>1, <1>2, <2>1 DEF AreCells
<1> QED  BY <1>3, <1>4 DEF c, d

\* Parts that are cells make cells.
LEMMA CellsFlatten ==
  ASSUME NEW parts, IsSeq(parts), \A i \in 1..Len(parts) : AreCells(parts[i])
  PROVE  AreCells(FlattenSeq(parts))
<1> DEFINE n == Len(parts)
<1>1. n \in Nat
  BY SeqElements
<1>2. \A i \in 1..n : IsSeq(parts[i])
  BY DEF AreCells
<1>3. PICK g : /\ g[0] = <<>> /\ g[n] = FlattenSeq(parts)
               /\ \A i \in 1..n : g[i] = g[i - 1] \o parts[i]
  BY <1>2, Beginnings
<1> DEFINE S == {i \in Nat : i <= n => AreCells(g[i])}
<1> HIDE DEF n
<1>4. 0 \in S
  <2>1. IsSeq(<<>>) /\ Len(<<>>) = 0
    BY EmptySeq DEF IsSeq
  <2>2. AreCells(<<>>)
    BY <2>1 DEF AreCells
  <2> QED  BY <1>3, <2>2
<1>5. ASSUME NEW i \in Nat, i \in S
      PROVE  i + 1 \in S
  <2>1. SUFFICES ASSUME i + 1 <= n
                 PROVE  AreCells(g[i + 1])
    OBVIOUS
  <2>2. i + 1 \in 1..n /\ (i + 1) - 1 = i /\ AreCells(g[i])
    BY <1>1, <1>5, <2>1
  <2>3. g[i + 1] = g[i] \o parts[i + 1] /\ AreCells(parts[i + 1])
    BY <1>3, <2>2 DEF n
  <2> QED  BY <2>2, <2>3, CellsConcat
<1> HIDE DEF S
<1>6. \A i \in Nat : i \in S
  BY <1>4, <1>5, Induction
<1>7. AreCells(g[n])
  BY <1>1, <1>6 DEF S
<1> QED  BY <1>3, <1>7

\* What the value of a call holds is a number.
LEMMA CallNumber ==
  ASSUME NEW struct \in Structs, NEW rec, Shaped(struct, rec), NEW i \in 1..Len(Dec[struct])
  PROVE  /\ Dec[struct][i].call = "list" => Len(rec[Dec[struct][i].name]) \in Numbers
         /\ Dec[struct][i].call # "list" => rec[Dec[struct][i].name].n \in Numbers
<1> DEFINE op == Dec[struct][i]
<1>1. PICK T : Field(op.name, T) \in Struct[struct] /\ (op.call = "list" <=> T.t = "list")
  BY CallValue
<1>2. Field(op.name, T).name = op.name /\ Field(op.name, T).type = T
  BY DEF Field
<1> HIDE DEF op
<1>3. /\ T.t = "list" => Len(rec[op.name]) \in Numbers
      /\ T.t # "list" => rec[op.name] \in [of : {op.name}, n : Numbers]
  BY <1>1, <1>2 DEF Shaped
<1> QED  BY <1>1, <1>3 DEF op

\* The cells of a record of a level are cells if those of its items are.
LEMMA LevelCells ==
  ASSUME NEW level \in 0..2, NEW struct \in At(level), NEW rec, ShapedAt(level, struct, rec),
         \A s \in Under(level) : \A x : IsUnder(level, s, x) => AreCells(CellsUnder(level, s, x))
  PROVE  AreCells(CellsAt(level, struct, rec))
<1> DEFINE ops == Dec[struct]
           n   == Len(ops)
           parts == Parts(level, struct, rec)
<1>1. struct \in Structs /\ Shaped(struct, rec)
  BY DEF At, Structs, ShapedAt
<1>2. n \in Nat
  BY <1>1, AllAgree, SeqElements DEF Structs, Agrees, Match
<1>3. ASSUME NEW i \in 1..n
      PROVE  AreCells(parts[i])
  <2> DEFINE op == ops[i]
             v  == rec[op.name]
             p  == ItemParts(level, op, v)
  <2>0. parts[i] = PartOf(op, v, p)
    BY DEF Parts
  <2>1. PICK T : /\ Field(op.name, T) \in Struct[struct]
                 /\ op.call = "list" <=> T.t = "list"
                 /\ op.call = "list" => T.item = op.items /\ Len(v) \in Nat
                 /\ op.call \in {"fixed", "string", "list"}
    BY <1>1, CallValue
  <2>2. Field(op.name, T).name = op.name /\ Field(op.name, T).type = T
    BY DEF Field
  <2>3. /\ op.call = "list" => Len(v) \in Numbers
        /\ op.call # "list" => v.n \in Numbers
    BY <1>1, CallNumber
  <2>4. CASE op.call = "list"
    <3>1. op.items \in Under(level) /\ \A j \in 1..Len(v) : IsUnder(level, op.items, v[j])
      BY <2>1, <2>2, <2>4, UnderIs DEF ShapedAt
    <3> DEFINE m == Len(v)
    <3>2. /\ \A j \in 1..m : p[j] = CellsUnder(level, op.items, v[j])
          /\ p = [j \in 1..m |-> p[j]]
      BY DEF ItemParts
    <3>3. m \in Nat
      BY <2>1, <2>4
    <3>4. \A j \in 1..m : AreCells(p[j])
      BY <3>1, <3>2
    <3>5. PartOf(op, v, p) = <<Cell(4, op.name, Len(v))>> \o FlattenSeq(p)
      BY <2>4 DEF PartOf
    <3>6. AreCells(<<Cell(4, op.name, Len(v))>>)
      BY <2>3, <2>4, FewCells
    <3> HIDE DEF p, m
    <3>7. IsSeq(p) /\ Len(p) = m
      BY <3>2, <3>3, SeqOfFunction
    <3>8. AreCells(FlattenSeq(p))
      BY <3>4, <3>7, CellsFlatten
    <3> QED  BY <2>0, <3>5, <3>6, <3>8, CellsConcat
  <2>5. CASE op.call = "string"
    <3>1. PartOf(op, v, p) = <<Cell(4, v.of, v.n), Cell(v.n, v.of, v.n)>>
      BY <2>5 DEF PartOf
    <3>2. v.n \in Numbers
      BY <2>3, <2>5
    <3> QED  BY <2>0, <3>1, <3>2, FewCells
  <2>6. CASE op.call = "fixed"
    <3>1. PartOf(op, v, p) = <<Cell(op.width, v.of, v.n)>>
      BY <2>6 DEF PartOf
    <3>2. v.n \in Numbers
      BY <2>3, <2>6
    <3> QED  BY <2>0, <3>1, <3>2, FewCells
  <2> QED  BY <2>1, <2>4, <2>5, <2>6
<1>4. parts = [i \in 1..n |-> parts[i]]
  BY DEF Parts
<1> HIDE DEF parts, n
<1>5. IsSeq(parts) /\ Len(parts) = n
  BY <1>2, <1>4, SeqOfFunction
<1> QED  BY <1>3, <1>5, CellsFlatten DEF CellsAt, parts

\* So whatever is sent is cells.
LEMMA WrittenCells ==
  ASSUME NEW k \in Kinds, NEW rec, IsOfKind(k, rec)
  PROVE  AreCells(Write(k, rec))
<1>1. ASSUME NEW s \in Flat, NEW x, IsItem(s, x)
      PROVE  AreCells(WriteItem(s, x))
  <2>1. s \in Structs /\ s \in At(0) /\ ShapedAt(0, s, x) /\ Shaped(s, x)
    BY <1>1, ShapedIs DEF Structs, At, ShapedAt
  <2>2. WriteItem(s, x) = CellsAt(0, s, x)
    BY <2>1, PartsAre
  <2>3. Under(0) = {}
    BY DEF Under
  <2>4. AreCells(CellsAt(0, s, x))
    BY <2>1, <2>3, LevelCells
  <2> QED  BY <2>2, <2>4
<1>2. ASSUME NEW s \in Flat \cup Middle, NEW x, IsRecord(s, x)
      PROVE  AreCells(WriteRecord(s, x))
  <2>1. s \in Structs /\ s \in At(1) /\ ShapedAt(1, s, x) /\ Shaped(s, x)
    BY <1>2, ShapedIs DEF Structs, At, ShapedAt
  <2>2. WriteRecord(s, x) = CellsAt(1, s, x)
    BY <2>1, PartsAre
  <2>3. /\ Under(1) = Flat
        /\ \A t, y : (IsUnder(1, t, y) <=> IsItem(t, y)) /\ CellsUnder(1, t, y) = WriteItem(t, y)
    BY DEF Under, IsUnder, CellsUnder
  <2>4. AreCells(CellsAt(1, s, x))
    BY <1>1, <2>1, <2>3, LevelCells
  <2> QED  BY <2>2, <2>4
<1>3. k \in Structs /\ k \in At(2) /\ ShapedAt(2, k, rec) /\ Shaped(k, rec)
  BY ShapedIs DEF Kinds, Structs, Middle, At, ShapedAt
<1>4. Write(k, rec) = CellsAt(2, k, rec)
  BY <1>3, PartsAre
<1>5. /\ Under(2) = Flat \cup Middle
      /\ \A t, y : (IsUnder(2, t, y) <=> IsRecord(t, y)) /\ CellsUnder(2, t, y) = WriteRecord(t, y)
  BY DEF Under, IsUnder, CellsUnder
<1>6. AreCells(CellsAt(2, k, rec))
  BY <1>2, <1>3, <1>5, LevelCells
<1> QED  BY <1>4, <1>6

-----------------------------------------------------------------------------
(* The digest.                                                             *)

\* What a step of the digest does.
LEMMA DigestSteps ==
  /\ Basis \in DOMAIN Fnv /\ \A h \in DOMAIN Fnv : h \in Nat
  /\ \A h \in DOMAIN Fnv : \A n \in Numbers : Fnv[h][n] \in DOMAIN Fnv
  /\ \A h \in DOMAIN Fnv : \A n \in Numbers : \A m \in OneByteOff(n) : Fnv[h][n] # Fnv[h][m]
  /\ \A h, k \in DOMAIN Fnv : \A n \in Numbers : Fnv[h][n] = Fnv[k][n] => h = k
<1>1. /\ Basis \in DOMAIN Fnv /\ \A h \in DOMAIN Fnv : h \in Nat
  BY DigestAssumption
<1>2. ASSUME NEW h \in DOMAIN Fnv, NEW n \in Numbers
      PROVE  /\ Fnv[h][n] \in DOMAIN Fnv
             /\ \A k \in DOMAIN Fnv : Fnv[h][n] = Fnv[k][n] => h = k
  BY DigestAssumption, Zenon
<1>3. ASSUME NEW h \in DOMAIN Fnv, NEW n \in Numbers, NEW m \in OneByteOff(n)
      PROVE  Fnv[h][n] # Fnv[h][m]
  BY DigestAssumption, Zenon
<1> QED  BY <1>1, <1>2, <1>3

\* A byte changed leads a step elsewhere.
LEMMA StepTells ==
  ASSUME NEW h \in DOMAIN Fnv, NEW n \in Numbers, NEW m, m \in OneByteOff(n)
  PROVE  Fnv[h][n] # Fnv[h][m]
  BY DigestSteps, Zenon

\* What a step leads to is a digest.
LEMMA StepIsDigest ==
  ASSUME NEW h \in DOMAIN Fnv, NEW n \in Numbers
  PROVE  Fnv[h][n] \in DOMAIN Fnv
  BY DigestSteps, Zenon

\* The digests that steps over the cells from first on make of h, one by one.
IsRun(cells, n, first, h, g) ==
  g = [i \in 0..n |-> IF i < first THEN h ELSE Fnv[g[i - 1]][cells[i].n]]

\* There are such digests.
LEMMA RunExists ==
  ASSUME NEW cells, NEW n \in Nat, NEW first \in Nat \ {0}, NEW h
  PROVE  \E g : IsRun(cells, n, first, h, g)
<1> DEFINE e(g, i) == IF i < first THEN h ELSE Fnv[g[i - 1]][cells[i].n]
           Has(m)  == \E g : g = [i \in 0..m |-> e(g, i)]
           S       == {m \in Nat : Has(m)}
<1>1. Has(0)
  <2> DEFINE g == [i \in {0} |-> h]
  <2>1. g = [i \in 0..0 |-> e(g, i)]
    OBVIOUS
  <2> QED  BY <2>1
<1>2. ASSUME NEW m \in Nat, Has(m)
      PROVE  Has(m + 1)
  <2>1. PICK g : g = [i \in 0..m |-> e(g, i)]
    BY <1>2
  <2> DEFINE k == [i \in 0..(m + 1) |-> IF i <= m THEN g[i] ELSE e(g, i)]
  <2> HIDE DEF e
  <2>2. ASSUME NEW i \in 0..(m + 1)
        PROVE  k[i] = e(k, i)
    <3>1. i <= m => g[i] = e(g, i)
      BY <2>1
    <3>2. k[i] = e(g, i)
      BY <3>1
    <3>3. ~(i < first) => k[i - 1] = g[i - 1]
      OBVIOUS
    <3> HIDE DEF k
    <3> QED  BY <3>2, <3>3 DEF e
  <2>3. k = [i \in 0..(m + 1) |-> e(k, i)]
    BY <2>2
  <2> QED  BY <2>3
<1> HIDE DEF Has
<1>3. 0 \in S /\ \A m \in Nat : m \in S => m + 1 \in S
  BY <1>1, <1>2
<1>4. n \in S
  BY <1>3, Induction
<1> QED  BY <1>4 DEF Has, IsRun

Run(cells, first, h) == CHOOSE g : IsRun(cells, Len(cells), first, h, g)

Steps(cells, first, h) ==
  LET g == Run(cells, first, h)
  IN /\ g[first - 1] = h
     /\ \A i \in first..Len(cells) : g[i] = Fnv[g[i - 1]][cells[i].n]
     /\ \A i \in (first - 1)..Len(cells) : g[i] \in DOMAIN Fnv

\* Each of them is the one before it after a step, and a digest.
LEMMA RunSteps ==
  ASSUME NEW cells, AreCells(cells), NEW first \in 1..(Len(cells) + 1), NEW h \in DOMAIN Fnv
  PROVE  Steps(cells, first, h)
<1> DEFINE n == Len(cells)
           g == Run(cells, first, h)
<1>1. n \in Nat /\ \A i \in 1..n : cells[i].n \in Numbers
  BY SeqElements DEF AreCells, IsCell
<1>2. IsRun(cells, n, first, h, g)
  <2>1. n \in Nat /\ first \in Nat \ {0}
    BY <1>1
  <2> HIDE DEF n
  <2>2. \E f : IsRun(cells, n, first, h, f)
    BY <2>1, RunExists
  <2> QED  BY <2>2 DEF Run, n
<1> HIDE DEF g
<1>3. ASSUME NEW i \in 0..n
      PROVE  g[i] = IF i < first THEN h ELSE Fnv[g[i - 1]][cells[i].n]
  <2> DEFINE e(j) == IF j < first THEN h ELSE Fnv[g[j - 1]][cells[j].n]
  <2>1. g = [j \in 0..n |-> e(j)]
    BY <1>2, Zenon DEF IsRun
  <2> HIDE DEF e
  <2>2. g[i] = e(i)
    BY <2>1
  <2> QED  BY <2>2 DEF e
<1> HIDE DEF n
<1>0. first \in 1..(n + 1)
  BY DEF n
<1>4. g[first - 1] = h /\ \A i \in first..n : g[i] = Fnv[g[i - 1]][cells[i].n]
  BY <1>0, <1>1, <1>3
<1> DEFINE S == {i \in Nat : first - 1 + i <= n => g[first - 1 + i] \in DOMAIN Fnv}
<1>5. 0 \in S
  BY <1>0, <1>4
<1>6. ASSUME NEW i \in Nat, i \in S
      PROVE  i + 1 \in S
  <2> DEFINE k == first - 1 + (i + 1)
  <2>1. SUFFICES ASSUME k <= n
                 PROVE  g[k] \in DOMAIN Fnv
    BY <1>0
  <2>2. k \in first..n /\ k \in 1..n /\ k - 1 = first - 1 + i /\ first - 1 + i <= n
    BY <1>0, <1>1, <2>1
  <2>3. g[k - 1] \in DOMAIN Fnv
    BY <1>6, <2>2
  <2>4. g[k] = Fnv[g[k - 1]][cells[k].n] /\ cells[k].n \in Numbers
    BY <1>1, <1>4, <2>2
  <2> QED  BY <2>3, <2>4, StepIsDigest
<1> HIDE DEF S
<1>7. \A i \in Nat : i \in S
  BY <1>5, <1>6, Induction
<1>8. ASSUME NEW i \in (first - 1)..n
      PROVE  g[i] \in DOMAIN Fnv
  <2>1. i - first + 1 \in Nat /\ first - 1 + (i - first + 1) = i /\ i <= n
    BY <1>0, <1>1
  <2>2. i - first + 1 \in S
    BY <1>7, <2>1
  <2> QED  BY <2>1, <2>2 DEF S
<1> QED  BY <1>4, <1>8 DEF n, g, Steps

\* Going on from where a stretch has led is going on.
LEMMA RunOn ==
  ASSUME NEW cells, AreCells(cells), NEW first \in 1..(Len(cells) + 1), NEW h \in DOMAIN Fnv,
         NEW middle \in (first - 1)..Len(cells), NEW last \in middle..Len(cells)
  PROVE  Run(cells, middle + 1, Run(cells, first, h)[middle])[last] = Run(cells, first, h)[last]
<1> DEFINE n == Len(cells)
           f == Run(cells, first, h)
           g == Run(cells, middle + 1, f[middle])
<1>1. n \in Nat /\ first \in 1..(n + 1) /\ middle \in (first - 1)..n /\ last \in middle..n
  BY SeqElements DEF AreCells
<1>2. /\ \A i \in first..n : f[i] = Fnv[f[i - 1]][cells[i].n]
      /\ f[middle] \in DOMAIN Fnv
  BY <1>1, RunSteps DEF Steps
<1>3. middle + 1 \in 1..(n + 1) /\ (middle + 1) - 1 = middle
  BY <1>1
<1>4. g[middle] = f[middle] /\ \A i \in (middle + 1)..n : g[i] = Fnv[g[i - 1]][cells[i].n]
  <2> DEFINE x == f[middle]
             y == middle + 1
  <2>1. x \in DOMAIN Fnv /\ y \in 1..(Len(cells) + 1) /\ y - 1 = middle
    BY <1>2, <1>3
  <2> HIDE DEF x, y
  <2>2. Steps(cells, y, x)
    BY <2>1, RunSteps, Zenon
  <2>3. /\ Run(cells, y, x)[y - 1] = x
        /\ \A i \in y..Len(cells) :
             Run(cells, y, x)[i] = Fnv[Run(cells, y, x)[i - 1]][cells[i].n]
    BY <2>2, Zenon DEF Steps
  <2> QED  BY <2>1, <2>3 DEF x, y
<1> HIDE DEF f, g, n
<1> DEFINE S == {i \in Nat : middle + i <= n => g[middle + i] = f[middle + i]}
<1>5. 0 \in S
  BY <1>1, <1>4
<1>6. ASSUME NEW i \in Nat, i \in S
      PROVE  i + 1 \in S
  <2> DEFINE k == middle + (i + 1)
  <2>1. SUFFICES ASSUME k <= n
                 PROVE  g[k] = f[k]
    OBVIOUS
  <2>2. k \in first..n /\ k \in (middle + 1)..n /\ k - 1 = middle + i /\ middle + i <= n
    BY <1>1, <2>1
  <2>3. g[k - 1] = f[k - 1]
    BY <1>6, <2>2
  <2> QED  BY <1>2, <1>4, <2>2, <2>3
<1> HIDE DEF S
<1>7. \A i \in Nat : i \in S
  BY <1>5, <1>6, Induction
<1>8. last - middle \in S /\ last - middle \in Nat /\ middle + (last - middle) = last /\ last <= n
  BY <1>1, <1>7
<1>9. g[last] = f[last]
  BY <1>8 DEF S
<1> QED  BY <1>9 DEF f, g

\* The middle of a stretch is in it, and not its end.
LEMMA InTheMiddle ==
  ASSUME NEW first \in Nat, NEW last \in Nat, first < last
  PROVE  LET m == (first + last) \div 2 IN m \in Nat /\ first <= m /\ m < last
  OBVIOUS

ByHalves(cells, over, first, last, h) ==
  IF last < first THEN h
  ELSE IF first = last THEN Fnv[h][cells[first].n]
  ELSE LET middle == (first + last) \div 2
       IN over[<<middle + 1, last, over[<<first, middle, h>>]>>]

Spans(n) == (1..(n + 1)) \X (0..n) \X DOMAIN Fnv

IsOver(cells, over) ==
  over = [s \in Spans(Len(cells)) |-> ByHalves(cells, over, s[1], s[2], s[3])]

\* There is a digest by halves: that of the steps one by one.
LEMMA OverExists ==
  ASSUME NEW cells, AreCells(cells)
  PROVE  \E over : IsOver(cells, over)
<1> DEFINE n == Len(cells)
           Led(first, last, h) == IF last < first THEN h ELSE Run(cells, first, h)[last]
           over == [s \in Spans(n) |-> Led(s[1], s[2], s[3])]
<1>1. n \in Nat
  BY SeqElements DEF AreCells
<1>2. ASSUME NEW first \in 1..(n + 1), NEW last \in 0..n, NEW h \in DOMAIN Fnv
      PROVE  Led(first, last, h) = ByHalves(cells, over, first, last, h)
  <2> DEFINE f == Run(cells, first, h)
             m == (first + last) \div 2
  <2>1. /\ f[first - 1] = h
        /\ \A i \in first..n : f[i] = Fnv[f[i - 1]][cells[i].n]
        /\ \A i \in (first - 1)..n : f[i] \in DOMAIN Fnv
    BY RunSteps DEF Steps
  <2>2. CASE last < first
    BY <2>2 DEF ByHalves
  <2>3. CASE first = last
    <3>1. f[last] = Fnv[h][cells[first].n]
      <4> HIDE DEF f, n
      <4> QED  BY <1>1, <2>1, <2>3
    <3> HIDE DEF over, f
    <3>2. Led(first, last, h) = f[last]
      BY <2>3 DEF f
    <3> QED  BY <2>3, <3>1, <3>2 DEF ByHalves
  <2>4. CASE first < last
    <3>1. m \in Nat /\ first <= m /\ m < last
      <4> HIDE DEF n
      <4> QED  BY <1>1, <2>4, InTheMiddle
    <3> HIDE DEF m
    <3>2. /\ m \in 0..n /\ m \in (first - 1)..n /\ m + 1 \in 1..(n + 1) /\ last \in m..n
          /\ ~(m < first) /\ ~(last < m + 1) /\ ~(last < first) /\ first # last
      <4> HIDE DEF n
      <4> QED  BY <1>1, <2>4, <3>1
    <3>3. f[m] \in DOMAIN Fnv
      <4> HIDE DEF f, n
      <4> QED  BY <2>1, <3>2
    <3>4. over[<<first, m, h>>] = f[m]
      <4>1. over[<<first, m, h>>] = Led(first, m, h)
        <5> HIDE DEF Led, n
        <5> QED  BY <3>2 DEF Spans
      <4> HIDE DEF over
      <4> QED  BY <3>2, <4>1
    <3>5. over[<<m + 1, last, f[m]>>] = Run(cells, m + 1, f[m])[last]
      <4> HIDE DEF f
      <4>1. over[<<m + 1, last, f[m]>>] = Led(m + 1, last, f[m])
        <5> HIDE DEF Led, n
        <5> QED  BY <3>2, <3>3 DEF Spans
      <4> HIDE DEF over
      <4> QED  BY <3>2, <4>1
    <3>6. Run(cells, m + 1, f[m])[last] = f[last]
      BY <3>2, RunOn
    <3>7. Led(first, last, h) = f[last]
      BY <3>2
    <3> HIDE DEF over, f, Led
    <3>8. ByHalves(cells, over, first, last, h) = over[<<m + 1, last, over[<<first, m, h>>]>>]
      BY <3>2 DEF ByHalves, m
    <3> QED  BY <3>4, <3>5, <3>6, <3>7, <3>8
  <2> HIDE DEF over, Led
  <2> QED  BY <1>1, <2>2, <2>3, <2>4
<1>3. over = [s \in Spans(n) |-> ByHalves(cells, over, s[1], s[2], s[3])]
  <2> DEFINE k == over
  <2>1. \A s \in Spans(n) : Led(s[1], s[2], s[3]) = ByHalves(cells, k, s[1], s[2], s[3])
    <3> SUFFICES ASSUME NEW s \in Spans(n)
                 PROVE  Led(s[1], s[2], s[3]) = ByHalves(cells, k, s[1], s[2], s[3])
      OBVIOUS
    <3>1. s[1] \in 1..(n + 1) /\ s[2] \in 0..n /\ s[3] \in DOMAIN Fnv
      <4> HIDE DEF n
      <4> QED  BY DEF Spans
    <3> HIDE DEF Led, k, n
    <3> QED  BY <1>2, <3>1 DEF k
  <2>2. over = k
    OBVIOUS
  <2> HIDE DEF k, Led, n
  <2>3. over = [s \in Spans(n) |-> ByHalves(cells, k, s[1], s[2], s[3])]
    BY <2>1
  <2> QED  BY <2>2, <2>3
<1> QED  BY <1>3 DEF IsOver

\* Digest is where the steps over the cells lead, one by one.
LEMMA DigestRecursion ==
  ASSUME NEW cells, AreCells(cells)
  PROVE  \E after : /\ after[0] = Basis /\ Digest(cells) = after[Len(cells)]
                    /\ \A i \in 1..Len(cells) : after[i] = Fnv[after[i - 1]][cells[i].n]
<1> DEFINE n == Len(cells)
           over == CHOOSE f : IsOver(cells, f)
           g == Run(cells, 1, Basis)
<1>1. n \in Nat
  BY SeqElements DEF AreCells
<1>2. IsOver(cells, over)
  BY OverExists
<1>3. Digest(cells) = over[<<1, n, Basis>>]
  BY DEF Digest, IsOver, ByHalves, Spans
<1>4. /\ g[0] = Basis
      /\ \A i \in 1..n : g[i] = Fnv[g[i - 1]][cells[i].n]
      /\ \A i \in 0..n : g[i] \in DOMAIN Fnv
  <2>1. 1 \in 1..(n + 1) /\ 1 - 1 = 0 /\ Basis \in DOMAIN Fnv
    BY <1>1, DigestSteps
  <2> QED  BY <2>1, RunSteps DEF Steps
<1> HIDE DEF over, g
<1>5. ASSUME NEW first \in 1..(n + 1), NEW last \in 0..n, NEW h \in DOMAIN Fnv
      PROVE  over[<<first, last, h>>] = ByHalves(cells, over, first, last, h)
  <2> DEFINE e(i, j, k) == ByHalves(cells, over, i, j, k)
  <2>1. over = [s \in Spans(n) |-> e(s[1], s[2], s[3])]
    BY <1>2 DEF IsOver
  <2> HIDE DEF e, n
  <2>2. over[<<first, last, h>>] = e(first, last, h)
    BY <2>1 DEF Spans
  <2> QED  BY <2>2 DEF e
<1> HIDE DEF n
<1> DEFINE Leads(d) == \A first \in 1..(n + 1), last \in 0..n :
                         first <= last + 1 /\ last - first < d
                           => over[<<first, last, g[first - 1]>>] = g[last]
           S        == {d \in Nat : Leads(d)}
<1>6. Leads(0)
  <2> SUFFICES ASSUME NEW first \in 1..(n + 1), NEW last \in 0..n,
                      first <= last + 1 /\ last - first < 0
               PROVE  over[<<first, last, g[first - 1]>>] = g[last]
    OBVIOUS
  <2>1. last < first /\ first - 1 = last /\ first - 1 \in 0..n
    BY <1>1
  <2> QED  BY <1>4, <1>5, <2>1 DEF ByHalves
<1>7. ASSUME NEW d \in Nat, Leads(d)
      PROVE  Leads(d + 1)
  <2> SUFFICES ASSUME NEW first \in 1..(n + 1), NEW last \in 0..n,
                      first <= last + 1 /\ last - first < d + 1
               PROVE  over[<<first, last, g[first - 1]>>] = g[last]
    OBVIOUS
  <2> DEFINE h == g[first - 1]
             m == (first + last) \div 2
  <2>0. first - 1 \in 0..n
    BY <1>1
  <2>1. h \in DOMAIN Fnv
    BY <1>4, <2>0
  <2>2. CASE last < first
    <3>1. last - first < d
      BY <1>1, <2>2
    <3> QED  BY <1>7, <3>1
  <2>3. CASE first = last
    <3>1. last \in 1..n
      BY <1>1, <2>3
    <3>2. over[<<first, last, h>>] = Fnv[h][cells[first].n]
      <4>1. ~(last < first)
        BY <1>1, <2>3
      <4> HIDE DEF h
      <4> QED  BY <1>5, <2>1, <2>3, <4>1 DEF ByHalves
    <3> QED  BY <1>4, <2>3, <3>1, <3>2
  <2>4. CASE first < last
    <3>1. m \in Nat /\ first <= m /\ m < last
      BY <1>1, <2>4, InTheMiddle
    <3>2. over[<<first, last, h>>] = over[<<m + 1, last, over[<<first, m, h>>]>>]
      <4>1. ~(last < first) /\ first # last
        BY <1>1, <2>4
      <4> HIDE DEF h
      <4> QED  BY <1>5, <2>1, <4>1 DEF ByHalves
    <3> HIDE DEF m
    <3>3. /\ m \in 0..n /\ first <= m + 1 /\ m - first < d
          /\ m + 1 \in 1..(n + 1) /\ m + 1 <= last + 1 /\ last - (m + 1) < d /\ (m + 1) - 1 = m
      BY <1>1, <2>4, <3>1
    <3>4. over[<<first, m, h>>] = g[m]
      BY <1>7, <3>3
    <3>5. over[<<m + 1, last, g[m]>>] = g[last]
      BY <1>7, <3>3
    <3> QED  BY <3>2, <3>4, <3>5
  <2> QED  BY <1>1, <2>2, <2>3, <2>4
<1> HIDE DEF Leads
<1>8. 0 \in S /\ \A d \in Nat : d \in S => d + 1 \in S
  BY <1>6, <1>7
<1>9. n \in S
  BY <1>1, <1>8, Induction
<1>10. over[<<1, n, g[1 - 1]>>] = g[n]
  <2>1. Leads(n)
    BY <1>9
  <2>2. 1 \in 1..(n + 1) /\ n \in 0..n /\ 1 <= n + 1 /\ n - 1 < n
    BY <1>1
  <2> QED  BY <2>1, <2>2 DEF Leads
<1>11. Digest(cells) = g[n]
  BY <1>3, <1>4, <1>10
<1> QED  BY <1>4, <1>11 DEF n

\* Two digests stay different.
LEMMA DigestsApart ==
  ASSUME NEW g \in DOMAIN Fnv, NEW h \in DOMAIN Fnv, g # h, NEW n \in Numbers
  PROVE  Fnv[g][n] # Fnv[h][n]
  BY DigestSteps, Zenon

\* A digest is a number.
LEMMA DigestIsNumber ==
  ASSUME NEW cells, AreCells(cells)
  PROVE  Digest(cells) \in DOMAIN Fnv /\ Digest(cells) \in Nat
<1> DEFINE n == Len(cells)
<1>1. IsSeq(cells) /\ n \in Nat /\ \A i \in 1..n : cells[i].n \in Numbers
  BY SeqElements DEF AreCells, IsCell
<1>2. PICK g : /\ g[0] = Basis /\ Digest(cells) = g[n]
               /\ \A i \in 1..n : g[i] = Fnv[g[i - 1]][cells[i].n]
  BY <1>1, DigestRecursion
<1> DEFINE S == {i \in Nat : i <= n => g[i] \in DOMAIN Fnv}
<1> HIDE DEF n
<1>3. 0 \in S
  BY <1>2, DigestSteps
<1>4. ASSUME NEW i \in Nat, i \in S
      PROVE  i + 1 \in S
  <2>1. SUFFICES ASSUME i + 1 <= n
                 PROVE  g[i + 1] \in DOMAIN Fnv
    OBVIOUS
  <2>2. i + 1 \in 1..n /\ (i + 1) - 1 = i /\ g[i] \in DOMAIN Fnv
    BY <1>1, <1>4, <2>1
  <2>3. g[i + 1] = Fnv[g[i]][cells[i + 1].n] /\ cells[i + 1].n \in Numbers
    BY <1>1, <1>2, <2>2
  <2> QED  BY <2>2, <2>3, StepIsDigest
<1> HIDE DEF S
<1>5. \A i \in Nat : i \in S
  BY <1>3, <1>4, Induction
<1>6. g[n] \in DOMAIN Fnv
  BY <1>1, <1>5 DEF S
<1> QED  BY <1>2, <1>6, DigestSteps

\* One cell with a byte changed makes another digest.
LEMMA DigestTells ==
  ASSUME NEW a, NEW b, AreCells(a), AreCells(b), Len(a) = Len(b), NEW i \in 1..Len(a),
         \A j \in 1..Len(a) : j # i => a[j] = b[j],
         b[i].n \in OneByteOff(a[i].n)
  PROVE  Digest(a) # Digest(b)
<1> DEFINE n == Len(a)
<1>1. /\ IsSeq(a) /\ IsSeq(b) /\ n \in Nat
      /\ \A j \in 1..n : a[j].n \in Numbers /\ b[j].n \in Numbers
  BY SeqElements DEF AreCells, IsCell
<1>2. PICK g : /\ g[0] = Basis /\ Digest(a) = g[n]
               /\ \A j \in 1..n : g[j] = Fnv[g[j - 1]][a[j].n]
  BY <1>1, DigestRecursion
<1>3. PICK h : /\ h[0] = Basis /\ Digest(b) = h[n]
               /\ \A j \in 1..n : h[j] = Fnv[h[j - 1]][b[j].n]
  <2>1. \E h : /\ h[0] = Basis /\ Digest(b) = h[Len(b)]
              /\ \A j \in 1..Len(b) : h[j] = Fnv[h[j - 1]][b[j].n]
    BY <1>1, DigestRecursion
  <2> QED  BY <2>1
<1> DEFINE S == {j \in Nat : j <= n => /\ g[j] \in DOMAIN Fnv /\ h[j] \in DOMAIN Fnv
                                       /\ g[j] = h[j] <=> j < i}
<1> HIDE DEF n
<1>0. i \in 1..n
  BY DEF n
<1>4. 0 \in S
  BY <1>0, <1>2, <1>3, DigestSteps
<1>5. ASSUME NEW j \in Nat, j \in S
      PROVE  j + 1 \in S
  <2> DEFINE k == j + 1
  <2>1. SUFFICES ASSUME k <= n
                 PROVE  /\ g[k] \in DOMAIN Fnv /\ h[k] \in DOMAIN Fnv
                        /\ g[k] = h[k] <=> k < i
    OBVIOUS
  <2>2. /\ k \in 1..n /\ k - 1 = j
        /\ g[j] \in DOMAIN Fnv /\ h[j] \in DOMAIN Fnv /\ (g[j] = h[j] <=> j < i)
    BY <1>1, <1>5, <2>1
  <2>3. /\ g[k] = Fnv[g[j]][a[k].n] /\ a[k].n \in Numbers
        /\ h[k] = Fnv[h[j]][b[k].n] /\ b[k].n \in Numbers
    BY <1>1, <1>2, <1>3, <2>2
  <2>4. g[k] \in DOMAIN Fnv /\ h[k] \in DOMAIN Fnv
    BY <2>2, <2>3, StepIsDigest
  <2>5. CASE k < i
    <3>1. g[j] = h[j] /\ a[k] = b[k]
      BY <2>2, <2>5 DEF n
    <3> QED  BY <2>3, <2>4, <2>5, <3>1
  <2>6. CASE k = i
    <3>1. g[j] = h[j]
      BY <2>2, <2>6
    <3>2. a[k].n \in Numbers /\ b[k].n \in OneByteOff(a[k].n)
      BY <2>3, <2>6
    <3>3. Fnv[g[j]][a[k].n] # Fnv[g[j]][b[k].n]
      BY <2>2, <3>2, StepTells, Zenon
    <3>4. g[k] # h[k]
      BY <2>3, <3>1, <3>3
    <3> QED  BY <2>4, <2>6, <3>4, <1>0
  <2>7. CASE k > i
    <3>1. g[j] # h[j]
      BY <2>2, <2>7, <1>0
    <3>2. a[k] = b[k]
      BY <2>2, <2>7, <1>0 DEF n
    <3>3. Fnv[g[j]][a[k].n] # Fnv[h[j]][a[k].n]
      BY <2>2, <2>3, <3>1, DigestsApart
    <3>4. g[k] # h[k]
      BY <2>3, <3>2, <3>3
    <3> QED  BY <2>4, <2>7, <3>4, <1>0
  <2> QED  BY <2>2, <2>4, <2>5, <2>6, <2>7, <1>0
<1> HIDE DEF S
<1>6. \A j \in Nat : j \in S
  BY <1>4, <1>5, Induction
<1>7. ~(n < i) /\ n <= n
  BY <1>0, <1>1
<1>8. g[n] # h[n]
  BY <1>1, <1>6, <1>7 DEF S
<1> QED  BY <1>2, <1>3, <1>8

-----------------------------------------------------------------------------
(* A reading is a record or none.                                          *)

\* A piece of a sequence.
LEMMA Piece ==
  ASSUME NEW s, NEW m \in Nat \ {0}, NEW n \in Nat, m <= n + 1
  PROVE  /\ IsSeq(SubSeq(s, m, n)) /\ Len(SubSeq(s, m, n)) = n - m + 1
         /\ \A i \in 1..(n - m + 1) : SubSeq(s, m, n)[i] = s[m + i - 1]
<1> DEFINE S == {s[i] : i \in m..n}
<1>1. \A i \in m..n : s[i] \in S
  OBVIOUS
<1> HIDE DEF S
<1>2. /\ SubSeq(s, m, n) \in Seq(S)
      /\ Len(SubSeq(s, m, n)) = IF m <= n THEN n - m + 1 ELSE 0
      /\ \A i \in 1 .. n - m + 1 : SubSeq(s, m, n)[i] = s[m + i - 1]
  BY <1>1, SubSeqProperties
<1>3. IsSeq(SubSeq(s, m, n))
  BY <1>2, SeqIsSeq
<1> QED  BY <1>2, <1>3

\* Who reads nothing has nothing to show.
LEMMA ReadOrRefused ==
  ASSUME NEW k, NEW cells, NEW pos
  PROVE  /\ Read(k, cells, pos).ok \in BOOLEAN
         /\ ~Read(k, cells, pos).ok => Read(k, cells, pos) = Refused
<1>1. \A items : \/ ReadWith(items, k, cells, pos) = Refused
                 \/ \E v, p : ReadWith(items, k, cells, pos) = Got(v, p)
  BY DEF ReadWith
<1>2. \/ Read(k, cells, pos) = Refused
      \/ \E v, p : Read(k, cells, pos) = Got(v, p)
  BY <1>1 DEF Read
<1>3. Refused.ok = FALSE /\ \A v, p : Got(v, p).ok = TRUE
  BY DEF Got, Refused
<1> QED  BY <1>2, <1>3, Zenon

\* What persist_load asks of a file.
Payload(cells) == SubSeq(cells, 5, 4 + cells[4].n)

Loads(cells) ==
  /\ Len(cells) >= 4
  /\ cells[1].n = Magic /\ cells[2].n \in 1..FormatVersion
  /\ cells[4].n <= MaxPayload
  /\ Len(cells) >= 5 + cells[4].n
  /\ ChecksumOk(Payload(cells), cells[5 + cells[4].n])
  /\ Read("file", Payload(cells), 1).ok
  /\ Consistent(Read("file", Payload(cells), 1).value)
  /\ Read("file", Payload(cells), 1).pos = Len(Payload(cells)) + 1

\* persist_load accepts exactly the bytes Loads describes.
LEMMA LoadIs ==
  ASSUME NEW cells
  PROVE  /\ persist_load(cells).ok \in BOOLEAN
         /\ persist_load(cells).ok <=> Loads(cells)
         /\ Loads(cells) => persist_load(cells) = Read("file", Payload(cells), 1)
         /\ ~persist_load(cells).ok => persist_load(cells) = Refused
<1>1. persist_load(cells) = IF Loads(cells) THEN Read("file", Payload(cells), 1) ELSE Refused
  BY DEF persist_load, Loads, Payload
<1>2. Loads(cells) => Read("file", Payload(cells), 1).ok = TRUE
  BY ReadOrRefused DEF Loads
<1>3. Refused.ok = FALSE
  BY DEF Refused
<1> QED  BY <1>1, <1>2, <1>3

\* A sequence behind another, by their lengths.
Joined(c, a, b, k, m) ==
  IsSeq(a) /\ IsSeq(b) /\ k = Len(a) /\ m = Len(b) /\ c = a \o b

\* Its elements are those of the two parts.
LEMMA ConcatLengths ==
  ASSUME NEW a, NEW b, NEW c, NEW k, NEW m, Joined(c, a, b, k, m)
  PROVE  /\ k \in Nat /\ m \in Nat /\ IsSeq(c) /\ Len(c) = k + m
         /\ \A i \in 1..k : c[i] = a[i]
         /\ \A i \in 1..m : c[k + i] = b[i]
<1>1. IsSeq(a) /\ IsSeq(b) /\ k = Len(a) /\ m = Len(b) /\ c = a \o b
  BY DEF Joined
<1>2. /\ IsSeq(a \o b) /\ Len(a \o b) = Len(a) + Len(b)
      /\ \A i \in 1..Len(a) : (a \o b)[i] = a[i]
      /\ \A i \in 1..Len(b) : (a \o b)[Len(a) + i] = b[i]
  BY <1>1, Concatenation
<1>3. k \in Nat /\ m \in Nat
  BY <1>1, SeqElements
<1> QED  BY <1>1, <1>2, <1>3

\* A head, a body and a foot.
LEMMA ThreeParts ==
  ASSUME NEW h, NEW w, NEW f, NEW c, NEW d, NEW k, NEW n, NEW l, NEW m,
         Joined(d, h, w, k, n), Joined(c, d, f, l, m)
  PROVE  /\ IsSeq(c) /\ l = k + n /\ Len(c) = l + m
         /\ \A i \in 1..k : c[i] = h[i]
         /\ \A i \in 1..n : c[k + i] = w[i]
         /\ \A i \in 1..m : c[l + i] = f[i]
<1>1. /\ n \in Nat /\ k \in Nat /\ IsSeq(d) /\ Len(d) = k + n
      /\ \A i \in 1..k : d[i] = h[i]
      /\ \A i \in 1..n : d[k + i] = w[i]
  BY ConcatLengths
<1>2. /\ IsSeq(c) /\ Len(c) = l + m
      /\ \A i \in 1..l : c[i] = d[i]
      /\ \A i \in 1..m : c[l + i] = f[i]
  BY ConcatLengths
<1>3. l = k + n
  BY <1>1 DEF Joined
<1>4. ASSUME NEW i \in 1..k
      PROVE  c[i] = h[i]
  <2>1. i \in 1..l
    BY <1>1, <1>3
  <2> QED  BY <1>1, <1>2, <2>1
<1>5. ASSUME NEW i \in 1..n
      PROVE  c[k + i] = w[i]
  <2>1. k + i \in 1..l
    BY <1>1, <1>3
  <2> QED  BY <1>1, <1>2, <2>1
<1> QED  BY <1>2, <1>3, <1>4, <1>5

\* What persist_save makes of a state.
SavedAs(cells, written) ==
  /\ IsSeq(cells) /\ Len(cells) = Len(written) + 5
  /\ cells[1] = Cell(4, "magic", Magic) /\ cells[2] = Cell(4, "version", FormatVersion)
  /\ cells[3] = Cell(1, "flags", 0) /\ cells[4] = Cell(8, "length", Len(written))
  /\ \A j \in 1..Len(written) : cells[4 + j] = written[j]
  /\ cells[5 + Len(written)] = Cell(8, "sum", Digest(written))

\* persist_save writes a head of four cells, the payload and its digest.
LEMMA SaveIs ==
  ASSUME NEW rec, IsOfKind("file", rec)
  PROVE  /\ AreCells(Write("file", rec)) /\ Len(Write("file", rec)) \in Nat
         /\ SavedAs(persist_save(rec), Write("file", rec))
<1> DEFINE w == Write("file", rec)
           h == <<Cell(4, "magic", Magic), Cell(4, "version", FormatVersion),
                  Cell(1, "flags", 0), Cell(8, "length", Len(w))>>
           f == <<Cell(8, "sum", Digest(w))>>
           n == Len(w)
<1>1. AreCells(w) /\ IsSeq(w) /\ n \in Nat
  BY WrittenCells, SeqElements DEF Kinds, AreCells
<1>2. persist_save(rec) = h \o w \o f
  BY DEF persist_save
<1>3. /\ IsSeq(h) /\ Len(h) = 4
      /\ h[1] = Cell(4, "magic", Magic) /\ h[2] = Cell(4, "version", FormatVersion)
      /\ h[3] = Cell(1, "flags", 0) /\ h[4] = Cell(8, "length", n)
  <2> DEFINE m == 4
  <2>1. h = [i \in 1..m |-> h[i]]
    OBVIOUS
  <2>2. IsSeq(h) /\ Len(h) = m
    <3>1. m \in Nat
      OBVIOUS
    <3> HIDE DEF h, m
    <3> QED  BY <2>1, <3>1, SeqOfFunction
  <2> QED  BY <2>2
<1>4. IsSeq(f) /\ Len(f) = 1 /\ f[1] = Cell(8, "sum", Digest(w))
  BY Cells
<1> HIDE DEF w, h, f, n
<1> DEFINE c == h \o w \o f
<1>7. /\ IsSeq(c) /\ Len(c) = n + 5
      /\ c[1] = h[1] /\ c[2] = h[2] /\ c[3] = h[3] /\ c[4] = h[4]
      /\ \A i \in 1..n : c[4 + i] = w[i]
      /\ c[5 + n] = f[1]
  <2> DEFINE k == 4
             m == 1
             d == h \o w
             l == Len(d)
  <2>1. Joined(d, h, w, k, n) /\ Joined(c, d, f, l, m)
    <3>1. IsSeq(h \o w)
      <4> HIDE DEF h, w
      <4> QED  BY <1>1, <1>3, Concatenation
    <3> QED  BY <1>1, <1>3, <1>4, <3>1 DEF n, Joined
  <2> HIDE DEF c, k, m, d, l
  <2>2. /\ IsSeq(c) /\ l = k + n /\ Len(c) = l + m
        /\ \A i \in 1..k : c[i] = h[i]
        /\ \A i \in 1..n : c[k + i] = w[i]
        /\ \A i \in 1..m : c[l + i] = f[i]
    BY <2>1, ThreeParts
  <2>3. /\ 1 \in 1..k /\ 2 \in 1..k /\ 3 \in 1..k /\ 4 \in 1..k /\ 1 \in 1..m
        /\ l + m = n + 5 /\ l + 1 = 5 + n
    BY <1>1, <2>2 DEF k, m
  <2>4. c[5 + n] = f[1]
    BY <2>2, <2>3
  <2>5. \A i \in 1..n : c[4 + i] = w[i]
    BY <2>2 DEF k
  <2> QED  BY <2>2, <2>3, <2>4, <2>5
<1> HIDE DEF c
<1>8. SavedAs(c, w)
  BY <1>3, <1>4, <1>7 DEF SavedAs, n
<1> QED  BY <1>1, <1>2, <1>8 DEF w, n, c

\* What the reader takes for the payload.
LEMMA PayloadIs ==
  ASSUME NEW cells, NEW n \in Nat, cells[4].n = n
  PROVE  /\ IsSeq(Payload(cells)) /\ Len(Payload(cells)) = n
         /\ \A j \in 1..n : Payload(cells)[j] = cells[4 + j]
<1> DEFINE a == 5
           b == 4 + n
<1>1. a \in Nat \ {0} /\ b \in Nat /\ a <= b + 1 /\ b - a + 1 = n
  OBVIOUS
<1>2. \A j \in 1..n : a + j - 1 = 4 + j
  OBVIOUS
<1>3. Payload(cells) = SubSeq(cells, a, b)
  BY DEF Payload
<1> HIDE DEF a, b
<1>4. /\ IsSeq(SubSeq(cells, a, b)) /\ Len(SubSeq(cells, a, b)) = b - a + 1
      /\ \A i \in 1..(b - a + 1) : SubSeq(cells, a, b)[i] = cells[a + i - 1]
  BY <1>1, Piece
<1> QED  BY <1>1, <1>2, <1>3, <1>4

\* A reader that finds the whole payload reads what was written.
LEMMA PayloadReads ==
  ASSUME NEW rec, IsOfKind("file", rec), NEW w, w = Write("file", rec),
         NEW n, n = Len(w), NEW cells, cells[4].n = n,
         \A j \in 1..n : cells[4 + j] = w[j]
  PROVE  /\ Payload(cells) = w
         /\ Reads(Read("file", w, 1), w, 1, w, Delivered("file", rec),
                  InBounds("file", rec) /\ SensibleAlone("file", rec))
         /\ Whole(w, 1, w)
<1>1. IsSeq(w) /\ n \in Nat
  BY SaveIs DEF AreCells
<1>2. Payload(cells) = w
  <2>1. /\ IsSeq(Payload(cells)) /\ Len(Payload(cells)) = n
        /\ \A j \in 1..n : Payload(cells)[j] = cells[4 + j]
    BY <1>1, PayloadIs
  <2> QED  BY <1>1, <2>1, SameSeq
<1>3. Carries(w, 1, w)
  BY <1>1 DEF Carries
<1>4. Reads(Read("file", w, 1), w, 1, Write("file", rec), Delivered("file", rec),
            Bounded(RecordOk, "file", rec) /\ Passes("file", rec))
  <2>1. "file" \in Kinds /\ 1 \in Nat \ {0}
    BY DEF Kinds
  <2> QED  BY <1>1, <1>3, <2>1, ReadsWritten
<1>5. (Bounded(RecordOk, "file", rec) /\ Passes("file", rec))
      <=> InBounds("file", rec) /\ SensibleAlone("file", rec)
  BY AcceptedIs DEF Kinds
<1>6. Reads(Read("file", w, 1), w, 1, w, Delivered("file", rec),
            InBounds("file", rec) /\ SensibleAlone("file", rec))
  BY <1>4, <1>5 DEF Reads
<1>7. Whole(w, 1, w)
  BY <1>1 DEF Whole
<1> QED  BY <1>2, <1>6, <1>7

\* The checks across records do not look at what is forgotten.
LEMMA ConsistentDelivered ==
  ASSUME NEW rec, IsOfKind("file", rec)
  PROVE  Consistent(Delivered("file", rec)) <=> Consistent(rec)
<1> DEFINE d == Delivered("file", rec)
           list == rec["requests"]
<1>1. /\ "requestId" \in Names("request")
      /\ {"epoch", "plans", "candidateIdentities", "nextPlanId", "requests"} \subseteq Names("file")
  <2>1. /\ \A x, T : Field(x, T) \in Struct["request"] => x \in Names("request")
        /\ \A x, T : Field(x, T) \in Struct["file"] => x \in Names("file")
    BY DEF Names, Field
  <2>2. "requestId" \in Names("request")
    BY <2>1, InAll DEF Struct, SchedulingRequest
  <2>3. {"epoch", "plans", "candidateIdentities", "nextPlanId", "requests"} \subseteq Names("file")
    BY <2>1, InAll DEF Struct, Persisted
  <2> QED  BY <2>2, <2>3
<1>2. rec = [f \in Names("file") |-> rec[f]]
  BY DEF IsOfKind, Holds
<1>3. ASSUME NEW i \in DOMAIN list
      PROVE  Forgotten(list[i])["requestId"] = list[i]["requestId"]
  <2>1. PICK fr \in Struct["file"] : fr.name = "requests" /\ fr.type = ListT("request")
    BY OnlyFactors DEF Field
  <2>2. fr.type.t = "list" /\ fr.type.item = "request"
    BY <2>1 DEF ListT, Type
  <2>3. IsRecord("request", list[i])
    BY <1>3, <2>1, <2>2 DEF IsOfKind, Holds
  <2>4. list[i] = [f \in Names("request") |-> list[i][f]]
    BY <2>3 DEF IsRecord, Holds
  <2> HIDE DEF list
  <2> QED  BY <1>1, <2>4 DEF Forgotten
<1>4. /\ d["epoch"] = rec["epoch"] /\ d["plans"] = rec["plans"]
      /\ d["candidateIdentities"] = rec["candidateIdentities"]
      /\ d["nextPlanId"] = rec["nextPlanId"]
      /\ d["requests"] = [i \in DOMAIN list |-> Forgotten(list[i])]
  <2>1. d = [rec EXCEPT !["requests"] = [i \in DOMAIN list |-> Forgotten(list[i])]]
    BY DEF Delivered
  <2> HIDE DEF d, list
  <2> QED  BY <1>1, <1>2, <2>1
<1>5. Distinct(d["requests"], "requestId") <=> Distinct(list, "requestId")
  <2>1. /\ DOMAIN d["requests"] = DOMAIN list
        /\ \A i \in DOMAIN list : d["requests"][i]["requestId"] = list[i]["requestId"]
    BY <1>3, <1>4
  <2> HIDE DEF d, list
  <2> QED  BY <2>1 DEF Distinct
<1> HIDE DEF d
<1>6. Consistent(d) <=> Consistent(rec)
  BY <1>4, <1>5 DEF Consistent
<1> QED  BY <1>6 DEF d

-----------------------------------------------------------------------------
(* The file, after each fault.                                             *)

\* What the disk does to a file.
Changed(cells, i, n) == [cells EXCEPT ![i].n = n]

\* A file that is as it was written loads if it is sensible.
LEMMA WholeLoads ==
  ASSUME NEW rec, IsOfKind("file", rec)
  PROVE  LET r == persist_load(persist_save(rec))
         IN /\ r.ok <=> InBounds("file", rec) /\ Sensible("file", rec)
            /\ r.ok => r.value = Delivered("file", rec)
<1> DEFINE w == Write("file", rec)
           n == Len(w)
           cells == persist_save(rec)
           read  == Read("file", w, 1)
<1>1. AreCells(w) /\ n \in Nat /\ SavedAs(cells, w)
  BY SaveIs
<1>2. /\ Len(cells) = n + 5 /\ cells[1].n = Magic /\ cells[2].n = FormatVersion
      /\ cells[4].n = n /\ \A j \in 1..n : cells[4 + j] = w[j]
      /\ cells[5 + n].width = 8 /\ cells[5 + n].n = Digest(w)
  BY <1>1 DEF SavedAs, Cell
<1>3. /\ Payload(cells) = w /\ Whole(w, 1, w)
      /\ Reads(read, w, 1, w, Delivered("file", rec),
               InBounds("file", rec) /\ SensibleAlone("file", rec))
  <2> HIDE DEF cells, w, n
  <2>1. w = Write("file", rec) /\ n = Len(w)
    BY DEF w, n
  <2>2. /\ Payload(cells) = w /\ Whole(w, 1, w)
        /\ Reads(Read("file", w, 1), w, 1, w, Delivered("file", rec),
                 InBounds("file", rec) /\ SensibleAlone("file", rec))
    BY <1>2, <2>1, PayloadReads
  <2> QED  BY <2>2
<1>4. /\ read.ok <=> InBounds("file", rec) /\ SensibleAlone("file", rec)
      /\ read.ok => read.value = Delivered("file", rec) /\ read.pos = 1 + n
  BY <1>3 DEF Reads
<1>5. Sensible("file", rec) <=> SensibleAlone("file", rec) /\ Consistent(rec) /\ n <= MaxPayload
  BY DEF Sensible, SensibleAlone
<1>6. read.ok => (Consistent(read.value) <=> Consistent(rec))
  BY <1>4, ConsistentDelivered
<1>7. ChecksumOk(w, cells[5 + n])
  BY <1>2 DEF ChecksumOk
<1>8. 1 + n = n + 1 /\ n + 5 >= 4 /\ n + 5 >= 5 + n /\ FormatVersion \in 1..FormatVersion
  BY <1>1 DEF FormatVersion
<1> HIDE DEF cells, w, read
<1>9. Loads(cells) <=> /\ n <= MaxPayload /\ read.ok /\ Consistent(read.value)
                       /\ read.pos = n + 1
  BY <1>2, <1>3, <1>7, <1>8 DEF Loads, read
<1>10. Loads(cells) <=> InBounds("file", rec) /\ Sensible("file", rec)
  BY <1>4, <1>5, <1>6, <1>8, <1>9
<1>11. /\ persist_load(cells).ok <=> Loads(cells)
       /\ Loads(cells) => persist_load(cells) = read
  BY <1>3, LoadIs DEF read
<1> QED  BY <1>4, <1>9, <1>10, <1>11 DEF cells

\* A file that is cut short does not.
LEMMA CutFile ==
  ASSUME NEW rec, IsOfKind("file", rec), NEW m \in 0..(Len(persist_save(rec)) - 1)
  PROVE  ~persist_load(SubSeq(persist_save(rec), 1, m)).ok
<1> DEFINE n == Len(Write("file", rec))
           save  == persist_save(rec)
           cells == SubSeq(save, 1, m)
<1>1. n \in Nat /\ Len(save) = n + 5 /\ save[4].n = n
  <2>1. n \in Nat /\ SavedAs(save, Write("file", rec))
    BY SaveIs
  <2> HIDE DEF save
  <2>2. Len(save) = n + 5 /\ save[4] = Cell(8, "length", n)
    BY <2>1 DEF SavedAs
  <2> HIDE DEF n
  <2> QED  BY <2>1, <2>2 DEF Cell
<1>2. m \in Nat /\ m <= n + 4
  BY <1>1
<1>3. Len(cells) = m /\ \A i \in 1..m : cells[i] = save[i]
  <2>1. 1 \in Nat \ {0} /\ 1 <= m + 1 /\ m - 1 + 1 = m /\ \A i \in 1..m : 1 + i - 1 = i
    BY <1>2
  <2>2. /\ Len(cells) = m - 1 + 1
        /\ \A i \in 1..(m - 1 + 1) : cells[i] = save[1 + i - 1]
    BY <1>2, <2>1, Piece
  <2> HIDE DEF save, cells
  <2> QED  BY <2>1, <2>2
<1> HIDE DEF save, cells, n
<1>4. ~Loads(cells)
  <2>1. SUFFICES ASSUME m >= 4
                 PROVE  ~(m >= 5 + cells[4].n)
    BY <1>3 DEF Loads
  <2>2. cells[4] = save[4]
    BY <1>2, <1>3, <2>1
  <2> QED  BY <1>1, <1>2, <2>2
<1> QED  BY <1>4, LoadIs DEF cells, save

\* A file that ends in the middle of its record, or in which a cell of the
\* record is another, does not load whatever its header says.
LEMMA ShorterPayload ==
  ASSUME NEW rec, IsOfKind("file", rec), NEW w, w = Write("file", rec), NEW n, n = Len(w),
         NEW p, IsSeq(p), Len(p) < n, \A j \in 1..Len(p) : p[j] = w[j]
  PROVE  ~Read("file", p, 1).ok
<1>1. n \in Nat /\ Len(p) \in Nat
  BY SaveIs, SeqElements
<1>2. Carries(p, 1, w)
  BY <1>1 DEF Carries
<1>3. ~Whole(p, 1, w)
  BY <1>1 DEF Whole
<1>4. Reads(Read("file", p, 1), p, 1, Write("file", rec), Delivered("file", rec),
            Bounded(RecordOk, "file", rec) /\ Passes("file", rec))
  <2>1. "file" \in Kinds /\ 1 \in Nat \ {0}
    BY DEF Kinds
  <2> QED  BY <1>2, <2>1, ReadsWritten
<1>5. Reads(Read("file", p, 1), p, 1, w, Delivered("file", rec),
            Bounded(RecordOk, "file", rec) /\ Passes("file", rec))
  BY <1>4
<1> QED  BY <1>3, <1>5 DEF Reads

OneChanged(p, w, n, k, x) ==
  /\ AreCells(w) /\ n = Len(w) /\ k \in 1..n /\ x \in OneByteOff(w[k].n)
  /\ IsSeq(p) /\ Len(p) = n /\ \A j \in 1..n : j # k => p[j] = w[j]
  /\ p[k] = [w[k] EXCEPT !.n = x]

\* The digest tells a payload from one with a byte changed.
LEMMA OtherPayload ==
  ASSUME NEW w, NEW n, NEW k, NEW x, NEW p, OneChanged(p, w, n, k, x)
  PROVE  Digest(w) # Digest(p)
<1>0. /\ AreCells(w) /\ n = Len(w) /\ k \in 1..n /\ x \in OneByteOff(w[k].n)
      /\ IsSeq(p) /\ Len(p) = n /\ \A j \in 1..n : j # k => p[j] = w[j]
      /\ p[k] = [w[k] EXCEPT !.n = x]
  BY DEF OneChanged
<1>1. n \in Nat /\ \A j \in 1..n : IsCell(w[j])
  BY <1>0, SeqElements DEF AreCells
<1>2. p[k] = Cell(w[k].width, w[k].of, x)
  <2>1. w[k] = Cell(w[k].width, w[k].of, w[k].n)
    BY <1>0, <1>1 DEF IsCell
  <2> QED  BY <1>0, <2>1 DEF Cell
<1>3. IsCell(p[k]) /\ p[k].n = x
  BY <1>0, <1>2 DEF IsCell, Cell, OneByteOff
<1>4. \A j \in 1..n : IsCell(p[j])
  BY <1>0, <1>1, <1>3
<1>5. AreCells(p)
  BY <1>0, <1>4 DEF AreCells
<1>6. Len(w) = Len(p) /\ k \in 1..Len(w) /\ \A j \in 1..Len(w) : j # k => w[j] = p[j]
  BY <1>0
<1>7. p[k].n \in OneByteOff(w[k].n)
  BY <1>0, <1>3
<1> QED  BY <1>0, <1>5, <1>6, <1>7, DigestTells

\* Of a file with a changed cell nothing else loads than what was written.
LEMMA ChangedFile ==
  ASSUME NEW rec, IsOfKind("file", rec), NEW i \in DOMAIN persist_save(rec),
         NEW x \in OneByteOff(persist_save(rec)[i].n),
         persist_load(Changed(persist_save(rec), i, x)).ok
  PROVE  persist_load(Changed(persist_save(rec), i, x)).value = Delivered("file", rec)
<1> DEFINE w     == Write("file", rec)
           n     == Len(w)
           save  == persist_save(rec)
           cells == Changed(save, i, x)
<1>1. AreCells(w) /\ n \in Nat /\ SavedAs(save, w)
  BY SaveIs
<1>2. /\ Len(save) = n + 5 /\ DOMAIN save = 1..(n + 5) /\ save = [j \in 1..(n + 5) |-> save[j]]
  <2> HIDE DEF save, w
  <2>1. IsSeq(save) /\ Len(save) = n + 5
    BY <1>1 DEF SavedAs
  <2>2. DOMAIN save = 1..Len(save) /\ save = [j \in 1..Len(save) |-> save[j]]
    BY <2>1, SeqElements
  <2> HIDE DEF n
  <2> QED  BY <2>1, <2>2
<1>3. /\ save[1].n = Magic /\ save[2].n = FormatVersion /\ save[4].n = n
      /\ \A j \in 1..n : save[4 + j] = w[j]
      /\ save[5 + n].n = Digest(w)
      /\ save[1] = Cell(4, "magic", Magic) /\ save[2] = Cell(4, "version", FormatVersion)
      /\ save[4] = Cell(8, "length", n) /\ save[5 + n] = Cell(8, "sum", Digest(w))
  <2> HIDE DEF save, w
  <2> QED  BY <1>1 DEF SavedAs, Cell
<1>4. i \in 1..(n + 5) /\ x \in Numbers /\ x \in Nat /\ x # save[i].n
  BY <1>2, Numerals DEF OneByteOff
<1> HIDE DEF w, n, save
<1>5. /\ IsSeq(cells) /\ Len(cells) = n + 5
      /\ \A j \in 1..(n + 5) : j # i => cells[j] = save[j]
      /\ cells[i] = [save[i] EXCEPT !.n = x]
  <2>1. cells = [j \in 1..(n + 5) |-> cells[j]]
    BY <1>2 DEF Changed
  <2>2. n + 5 \in Nat
    BY <1>1
  <2>3. IsSeq(cells) /\ Len(cells) = n + 5
    <3> DEFINE m == n + 5
    <3>1. m \in Nat /\ cells = [j \in 1..m |-> cells[j]]
      BY <2>1, <2>2
    <3> HIDE DEF m, cells
    <3>2. IsSeq(cells) /\ Len(cells) = m
      BY <3>1, SeqOfFunction
    <3> QED  BY <3>2 DEF m
  <2> QED  BY <1>2, <1>4, <2>3 DEF Changed
<1> HIDE DEF cells
<1>6. Loads(cells) /\ persist_load(cells) = Read("file", Payload(cells), 1)
  BY LoadIs DEF cells, save
<1>7. /\ cells[1].n = Magic /\ cells[2].n \in 1..FormatVersion
      /\ n + 5 >= 5 + cells[4].n
      /\ cells[5 + cells[4].n].n = Digest(Payload(cells))
      /\ Read("file", Payload(cells), 1).ok
  BY <1>5, <1>6 DEF Loads, ChecksumOk
<1>8. i # 1 /\ i # 2
  <2>1. i = 1 => cells[1].n = x
    BY <1>3, <1>5 DEF Cell
  <2>2. i = 2 => cells[2].n = x
    BY <1>3, <1>5 DEF Cell
  <2> QED  BY <1>3, <1>4, <1>7, <2>1, <2>2 DEF Magic, FormatVersion
<1>9. CASE i = 4
  <2>1. cells[4].n = x
    BY <1>3, <1>5, <1>9 DEF Cell
  <2>2. x < n
    BY <1>1, <1>3, <1>4, <1>7, <1>9, <2>1 DEF Cell
  <2>3. /\ IsSeq(Payload(cells)) /\ Len(Payload(cells)) = x
        /\ \A j \in 1..x : Payload(cells)[j] = cells[4 + j]
    BY <1>4, <2>1, PayloadIs
  <2>4. \A j \in 1..x : j \in 1..n /\ 4 + j \in 1..(n + 5) /\ 4 + j # 4
    BY <1>1, <1>4, <2>2
  <2>5. \A j \in 1..x : Payload(cells)[j] = w[j]
    BY <1>3, <1>5, <1>9, <2>3, <2>4
  <2>7. ~Read("file", Payload(cells), 1).ok
    <3> DEFINE p == Payload(cells)
    <3>1. /\ w = Write("file", rec) /\ n = Len(w) /\ IsSeq(p) /\ Len(p) < n
          /\ \A j \in 1..Len(p) : p[j] = w[j]
      BY <2>2, <2>3, <2>5 DEF w, n
    <3> HIDE DEF p
    <3>2. ~Read("file", p, 1).ok
      BY <3>1, ShorterPayload
    <3> QED  BY <3>2 DEF p
  <2> QED  BY <1>7, <2>7
<1>10. CASE i # 4 /\ i \in 5..(n + 4)
  <2> DEFINE k == i - 4
             p == Payload(cells)
  <2>1. k \in 1..n /\ 4 + k = i /\ 4 \in 1..(n + 5) /\ 5 + n \in 1..(n + 5) /\ 5 + n # i
    BY <1>1, <1>10
  <2>2. cells[4].n = n /\ cells[5 + n].n = Digest(w)
    BY <1>3, <1>5, <1>10, <2>1
  <2>3. IsSeq(p) /\ Len(p) = n /\ \A j \in 1..n : p[j] = cells[4 + j]
    BY <1>1, <2>2, PayloadIs
  <2>4. p[k] = [w[k] EXCEPT !.n = x] /\ x \in OneByteOff(w[k].n)
    BY <1>3, <1>5, <2>1, <2>3 DEF save
  <2>5. ASSUME NEW j \in 1..n, j # k
        PROVE  p[j] = w[j]
    <3>1. 4 + j \in 1..(n + 5) /\ 4 + j # i
      BY <1>1, <2>1, <2>5
    <3> QED  BY <1>3, <1>5, <2>3, <3>1
  <2> HIDE DEF k, p
  <2>6. Digest(w) # Digest(p)
    <3>1. n = Len(w)
      BY DEF n
    <3>2. OneChanged(p, w, n, k, x)
      BY <1>1, <2>1, <2>3, <2>4, <2>5, <3>1 DEF OneChanged
    <3> QED  BY <3>2, OtherPayload
  <2> QED  BY <1>7, <2>2, <2>6 DEF p
<1>11. CASE i = 3 \/ i = n + 5
  <2>1. cells[4].n = n /\ \A j \in 1..n : cells[4 + j] = w[j]
    <3>1. 4 \in 1..(n + 5) /\ i # 4
      BY <1>1, <1>11
    <3>2. \A j \in 1..n : 4 + j \in 1..(n + 5) /\ 4 + j # i
      BY <1>1, <1>11
    <3> QED  BY <1>3, <1>5, <3>1, <3>2
  <2>2. /\ Payload(cells) = w
        /\ Reads(Read("file", w, 1), w, 1, w, Delivered("file", rec),
                 InBounds("file", rec) /\ SensibleAlone("file", rec))
    BY <2>1, PayloadReads DEF w, n
  <2>3. CASE i = 3
    BY <1>6, <1>7, <2>2 DEF Reads, cells, save
  <2>4. CASE i = n + 5
    <3>1. cells[5 + n].n = x
      BY <1>1, <1>3, <1>5, <2>4 DEF Cell
    <3>2. x = Digest(w)
      BY <1>7, <2>1, <2>2, <3>1
    <3>3. Digest(w) \in Nat /\ n + 5 = 5 + n
      BY <1>1, DigestIsNumber
    <3> QED  BY <1>3, <1>4, <2>4, <3>2, <3>3
  <2> QED  BY <1>11, <2>3, <2>4
<1> QED  BY <1>1, <1>4, <1>8, <1>9, <1>10, <1>11

\* Nor of a file with something behind its checksum.
LEMMA LongerFile ==
  ASSUME NEW rec, IsOfKind("file", rec), NEW more,
         persist_load(Append(persist_save(rec), more)).ok
  PROVE  persist_load(Append(persist_save(rec), more)).value = Delivered("file", rec)
<1> DEFINE w     == Write("file", rec)
           n     == Len(w)
           save  == persist_save(rec)
           cells == Append(save, more)
<1>1. n \in Nat /\ SavedAs(save, w)
  BY SaveIs
<1>2. /\ IsSeq(save) /\ Len(save) = n + 5 /\ save[4] = Cell(8, "length", n)
      /\ \A j \in 1..n : save[4 + j] = w[j]
  <2> HIDE DEF save, w
  <2> QED  BY <1>1 DEF SavedAs
<1> HIDE DEF w, n, save
<1>3. \A j \in 1..(n + 5) : cells[j] = save[j]
  <2> DEFINE S == Range(save) \cup {more}
  <2>1. save \in Seq(S) /\ more \in S
    BY <1>2, SeqMonotonic DEF IsSeq
  <2> HIDE DEF S
  <2>2. \A j \in 1..Len(save) : Append(save, more)[j] = save[j]
    BY <2>1, AppendProperties
  <2> QED  BY <1>2, <2>2
<1> HIDE DEF cells
<1>4. cells[4].n = n /\ \A j \in 1..n : cells[4 + j] = w[j]
  <2>1. 4 \in 1..(n + 5) /\ \A j \in 1..n : 4 + j \in 1..(n + 5)
    BY <1>1
  <2> QED  BY <1>2, <1>3, <2>1 DEF Cell
<1>5. /\ Payload(cells) = w
      /\ Reads(Read("file", w, 1), w, 1, w, Delivered("file", rec),
               InBounds("file", rec) /\ SensibleAlone("file", rec))
  BY <1>4, PayloadReads DEF w, n
<1>6. persist_load(cells).ok
  BY DEF cells, save
<1>7. persist_load(cells) = Read("file", Payload(cells), 1)
  BY <1>6, LoadIs
<1>8. persist_load(cells).value = Delivered("file", rec)
  BY <1>5, <1>6, <1>7 DEF Reads
<1> QED  BY <1>8 DEF cells, save

-----------------------------------------------------------------------------
(* The payload of a frame, which is a record and nothing else.             *)

\* A record that arrives whole is accepted exactly if it is within the limits, as it
\* was written but for the field the codec does not carry.
LEMMA WholeReads ==
  ASSUME NEW k \in Kinds \ {"file"}, NEW rec, IsOfKind(k, rec)
  PROVE  LET r == Read(k, Write(k, rec), 1)
         IN /\ r.ok <=> InBounds(k, rec) /\ Sensible(k, rec)
            /\ r.ok => r.value = Delivered(k, rec)
<1> DEFINE w == Write(k, rec)
           r == Read(k, w, 1)
<1>1. IsSeq(w) /\ Len(w) \in Nat
  BY WrittenCells, SeqElements DEF AreCells
<1>2. Reads(r, w, 1, w, Delivered(k, rec), Bounded(RecordOk, k, rec) /\ Passes(k, rec))
  <2>1. Carries(w, 1, w)
    <3> HIDE DEF w
    <3> QED  BY <1>1 DEF Carries
  <2>2. 1 \in Nat \ {0}
    OBVIOUS
  <2> QED  BY <1>1, <2>1, <2>2, ReadsWritten
<1>3. Whole(w, 1, w)
  <2> HIDE DEF w
  <2> QED  BY <1>1 DEF Whole
<1>4. (Bounded(RecordOk, k, rec) /\ Passes(k, rec)) <=> InBounds(k, rec) /\ SensibleAlone(k, rec)
  BY AcceptedIs
<1>5. Sensible(k, rec) <=> SensibleAlone(k, rec)
  BY DEF Sensible, SensibleAlone, Kinds
<1> HIDE DEF r, w
<1>6. /\ r.ok <=> InBounds(k, rec) /\ Sensible(k, rec)
      /\ r.ok => r.value = Delivered(k, rec)
  BY <1>2, <1>3, <1>4, <1>5 DEF Reads
<1> QED  BY <1>6 DEF r, w

\* No beginning of a record is accepted.
LEMMA CutRecord ==
  ASSUME NEW k \in Kinds, NEW rec, IsOfKind(k, rec), NEW m \in 0..(Len(Write(k, rec)) - 1)
  PROVE  ~Read(k, SubSeq(Write(k, rec), 1, m), 1).ok
<1> DEFINE w == Write(k, rec)
           n == Len(w)
           c == SubSeq(w, 1, m)
<1>1. IsSeq(w) /\ n \in Nat
  BY WrittenCells, SeqElements DEF AreCells
<1>2. m \in Nat /\ m < n
  <2> HIDE DEF w
  <2>1. m \in 0..(n - 1)
    BY DEF w
  <2> QED  BY <1>1, <2>1
<1>3. IsSeq(c) /\ Len(c) = m /\ \A i \in 1..m : c[i] = w[i]
  <2>1. 1 \in Nat \ {0} /\ 1 <= m + 1 /\ m - 1 + 1 = m /\ \A i \in 1..m : 1 + i - 1 = i
    BY <1>2
  <2>2. /\ IsSeq(c) /\ Len(c) = m - 1 + 1
        /\ \A i \in 1..(m - 1 + 1) : c[i] = w[1 + i - 1]
    BY <1>2, <2>1, Piece
  <2> HIDE DEF w, c
  <2> QED  BY <2>1, <2>2
<1> HIDE DEF w, n, c
<1>4. Carries(c, 1, w)
  BY <1>1, <1>2, <1>3 DEF Carries, n
<1>5. ~Whole(c, 1, w)
  BY <1>1, <1>2, <1>3 DEF Whole, n
<1>6. Reads(Read(k, c, 1), c, 1, Write(k, rec), Delivered(k, rec),
            Bounded(RecordOk, k, rec) /\ Passes(k, rec))
  <2>1. 1 \in Nat \ {0}
    OBVIOUS
  <2> QED  BY <1>3, <1>4, <2>1, ReadsWritten DEF w
<1>7. ~Read(k, c, 1).ok
  BY <1>5, <1>6 DEF Reads, w
<1> QED  BY <1>7 DEF c, w

-----------------------------------------------------------------------------
(* Every state of the transfer.                                            *)

\* What the faults make of the bytes: a beginning of them, or a file with one
\* byte changed or one cell more.
IsBeginning(cells, all) == \E m \in 0..(Len(all) - 1) : cells = SubSeq(all, 1, m)

IsAltered(cells, file) ==
  \/ \E i \in DOMAIN file : \E x \in OneByteOff(file[i].n) :
       cells = Changed(file, i, x)
  \/ cells = Append(file, Head(file))

\* Until they are received the bytes are those of the record sent or what one
\* fault has made of them; then the reader has made of them what it can.
TransferInv ==
  /\ kind \in Kinds /\ phase \in {"made", "sent", "received"}
  /\ fault \in {"none", "cut", "altered"}
  /\ IsOfKind(kind, sent)
  /\ phase = "made" => fault = "none"
  /\ phase # "made" /\ fault = "none" => bytes = BytesOf(kind, sent)
  /\ fault = "cut" => IsBeginning(bytes, BytesOf(kind, sent))
  /\ fault = "altered" => kind = "file" /\ IsAltered(bytes, BytesOf(kind, sent))
  /\ got = IF phase = "received" THEN RecordOf(kind, bytes) ELSE Refused

\* It holds of a record nobody has sent.
LEMMA TransferInit == Init => TransferInv
<1>1. SUFFICES ASSUME Init PROVE TransferInv
  OBVIOUS
<1>2. IsOfKind(kind, sent)
  BY <1>1, RecordsAssumption DEF Init
<1> QED  BY <1>1, <1>2 DEF Init, TransferInv

\* Each step keeps it: Send writes the bytes, Cut and Alter leave a beginning or a
\* changed file, Receive reads what there is.
LEMMA TransferStep == TransferInv /\ [Next]_vars => TransferInv'
<1>1. SUFFICES ASSUME TransferInv, [Next]_vars PROVE TransferInv'
  OBVIOUS
<1>2. CASE Send
  BY <1>1, <1>2 DEF Send, TransferInv
<1>3. CASE Cut
  <2>1. bytes = BytesOf(kind, sent)
    BY <1>1, <1>3 DEF Cut, TransferInv
  <2>2. IsBeginning(bytes', BytesOf(kind, sent))
    <3>1. PICK m \in 0..(Len(bytes) - 1) : bytes' = SubSeq(bytes, 1, m)
      BY <1>3 DEF Cut
    <3> QED  BY <2>1, <3>1 DEF IsBeginning
  <2> QED  BY <1>1, <1>3, <2>1, <2>2 DEF Cut, TransferInv
<1>4. CASE Alter
  <2>1. bytes = BytesOf(kind, sent)
    BY <1>1, <1>4 DEF Alter, TransferInv
  <2>2. IsAltered(bytes', BytesOf(kind, sent))
    <3>1. CASE bytes' = Append(bytes, Head(bytes))
      BY <2>1, <3>1 DEF IsAltered
    <3>2. CASE bytes' # Append(bytes, Head(bytes))
      <4>1. PICK i \in DOMAIN bytes : \E n \in OneByteOff(bytes[i].n) :
              bytes' = [bytes EXCEPT ![i].n = n]
        BY <1>4, <3>2 DEF Alter
      <4>2. PICK n \in OneByteOff(bytes[i].n) : bytes' = [bytes EXCEPT ![i].n = n]
        BY <4>1
      <4>3. bytes' = Changed(bytes, i, n)
        BY <4>2 DEF Changed
      <4> QED  BY <2>1, <4>3 DEF IsAltered
    <3> QED  BY <3>1, <3>2
  <2> QED  BY <1>1, <1>4, <2>1, <2>2 DEF Alter, TransferInv
<1>5. CASE Receive
  BY <1>1, <1>5 DEF Receive, TransferInv
<1>6. CASE UNCHANGED vars
  BY <1>1, <1>6 DEF vars, TransferInv
<1> QED  BY <1>1, <1>2, <1>3, <1>4, <1>5, <1>6 DEF Next

\* The inductive invariant of a transfer.
LEMMA TransferAlways == Spec => []TransferInv
  BY TransferInit, TransferStep, PTL DEF Spec

\* Types, and that a reader that refuses has nothing to show for it: neither
\* the readers nor persist_load leave a record behind that they did not accept.
THEOREM TransferTyped == Spec => []TransferTypeOK
<1>1. TransferInv => TransferTypeOK
  <2>1. SUFFICES ASSUME TransferInv
                 PROVE  /\ ~got.ok => got = Refused
                        /\ phase # "received" => got = Refused
    BY DEF TransferInv, TransferTypeOK
  <2>2. phase # "received" => got = Refused
    BY <2>1 DEF TransferInv
  <2>3. ~RecordOf(kind, bytes).ok => RecordOf(kind, bytes) = Refused
    BY ReadOrRefused, LoadIs DEF RecordOf
  <2> QED  BY <2>1, <2>2, <2>3 DEF TransferInv
<1> QED  BY <1>1, TransferAlways, PTL

\* No beginning of a record or of a file can be taken for all of it, wherever
\* the writer stopped: a save that a crash cuts short does not load.
LEMMA CutRefused == TransferInv => CutIsRefused
<1>1. SUFFICES ASSUME TransferInv, phase = "received", fault = "cut"
               PROVE  ~got.ok
  BY DEF CutIsRefused
<1>2. kind \in Kinds /\ IsOfKind(kind, sent) /\ got = RecordOf(kind, bytes)
  BY <1>1 DEF TransferInv
<1>3. PICK m \in 0..(Len(BytesOf(kind, sent)) - 1) : bytes = SubSeq(BytesOf(kind, sent), 1, m)
  BY <1>1 DEF TransferInv, IsBeginning
<1>4. CASE kind = "file"
  <2>1. BytesOf(kind, sent) = persist_save(sent) /\ got = persist_load(bytes)
    BY <1>2, <1>4 DEF BytesOf, RecordOf
  <2> QED  BY <1>2, <1>3, <1>4, <2>1, CutFile
<1>5. CASE kind # "file"
  <2>1. BytesOf(kind, sent) = Write(kind, sent) /\ got = Read(kind, bytes, 1)
    BY <1>2, <1>5 DEF BytesOf, RecordOf
  <2> QED  BY <1>2, <1>3, <2>1, CutRecord
<1> QED  BY <1>4, <1>5

\* persist_load and the readers of the payloads of frames take no beginning of what
\* was written for all of it, however long it is and wherever the writer stopped.
THEOREM NoCutIsTaken == Spec => []CutIsRefused
  BY CutRefused, TransferAlways, PTL

\* Whatever a reader accepts, from bytes that arrived whole, cut or altered, is
\* the record that was written, each value in the field it was set in: writer
\* and reader of every record agree on its two hundred fields, and the checksum
\* of the file tells one changed cell.
LEMMA NothingElse == TransferInv => NothingElseArrives
<1>1. SUFFICES ASSUME TransferInv, phase = "received", got.ok
               PROVE  got.value = Delivered(kind, sent)
  BY DEF NothingElseArrives
<1>2. kind \in Kinds /\ IsOfKind(kind, sent) /\ got = RecordOf(kind, bytes)
  BY <1>1 DEF TransferInv
<1>3. CASE fault = "none"
  <2>1. bytes = BytesOf(kind, sent)
    BY <1>1, <1>3 DEF TransferInv
  <2>2. CASE kind = "file"
    BY <1>1, <1>2, <2>1, <2>2, WholeLoads DEF BytesOf, RecordOf
  <2>3. CASE kind # "file"
    BY <1>1, <1>2, <2>1, <2>3, WholeReads DEF BytesOf, RecordOf
  <2> QED  BY <2>2, <2>3
<1>4. CASE fault = "cut"
  BY <1>1, <1>4, CutRefused DEF CutIsRefused
<1>5. CASE fault = "altered"
  <2>1. kind = "file" /\ IsAltered(bytes, persist_save(sent)) /\ got = persist_load(bytes)
    BY <1>1, <1>2, <1>5 DEF TransferInv, BytesOf, RecordOf
  <2>2. CASE bytes = Append(persist_save(sent), Head(persist_save(sent)))
    BY <1>1, <1>2, <2>1, <2>2, LongerFile
  <2>3. CASE bytes # Append(persist_save(sent), Head(persist_save(sent)))
    <3>1. PICK i \in DOMAIN persist_save(sent) :
            \E x \in OneByteOff(persist_save(sent)[i].n) :
              bytes = Changed(persist_save(sent), i, x)
      BY <2>1, <2>3 DEF IsAltered
    <3>2. PICK x \in OneByteOff(persist_save(sent)[i].n) :
            bytes = Changed(persist_save(sent), i, x)
      BY <3>1
    <3> QED  BY <1>1, <1>2, <2>1, <3>2, ChangedFile
  <2> QED  BY <2>2, <2>3
<1> QED  BY <1>1, <1>3, <1>4, <1>5 DEF TransferInv

\* Whatever a reader accepts is the record that was written: each field is read with
\* the width it was written with and set where it came from, in every struct, and the
\* digest tells a file with a byte changed from the one that was saved.
THEOREM OnlyTheWrittenArrives == Spec => []NothingElseArrives
  BY NothingElse, TransferAlways, PTL

\* A record that arrives whole is accepted exactly when it is within the bounds
\* and sensible: up to and at each limit what was written can be read back, and
\* a step beyond it nothing enters the process or its state.
LEMMA Limits == TransferInv => LimitsAreTheDocumented
<1>1. SUFFICES ASSUME TransferInv, phase = "received", fault = "none"
               PROVE  got.ok <=> InBounds(kind, sent) /\ Sensible(kind, sent)
  BY DEF LimitsAreTheDocumented
<1>2. /\ kind \in Kinds /\ IsOfKind(kind, sent) /\ got = RecordOf(kind, bytes)
      /\ bytes = BytesOf(kind, sent)
  BY <1>1 DEF TransferInv
<1>3. CASE kind = "file"
  BY <1>2, <1>3, WholeLoads DEF BytesOf, RecordOf
<1>4. CASE kind # "file"
  BY <1>2, <1>4, WholeReads DEF BytesOf, RecordOf
<1> QED  BY <1>3, <1>4

\* What arrives whole is accepted exactly if it is within the limits: read_checked_len,
\* get_string, the enumerator checks, validate and the checks of persist_load refuse
\* what is beyond them and nothing else.
THEOREM TheLimitsHold == Spec => []LimitsAreTheDocumented
  BY Limits, TransferAlways, PTL

=============================================================================
