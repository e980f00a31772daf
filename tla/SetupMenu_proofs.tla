-------------------------- MODULE SetupMenu_proofs --------------------------
(***************************************************************************)
(* Proofs about SetupMenu, for every board (devices, letters, settings,    *)
(* default list, size of the list) whose own files are whole.              *)
(***************************************************************************)
EXTENDS SetupMenu, WellFoundedInduction, FiniteSetTheorems, TLAPS

-----------------------------------------------------------------------------
(* Numbers.                                                                *)

\* A search upwards has a first hit ...
LEMMA LeastNatural ==
    ASSUME NEW T, T \subseteq Nat, T # {}
    PROVE  \E x \in T : \A y \in T : x <= y
<1> DEFINE R == {p \in Nat \X Nat : p[1] < p[2]}
<1>1. IsWellFoundedOn(R, Nat) BY NatLessThanWellFounded DEF OpToRel
<1>2. ASSUME NEW x \in Nat, NEW y \in Nat, <<y, x>> \notin R PROVE x <= y
  BY <1>2
<1> HIDE DEF R
<1>3. PICK x \in T : \A y \in T : ~(<<y, x>> \in R) BY <1>1, WFMin
<1>4. x \in Nat /\ \A y \in T : y \in Nat OBVIOUS
<1> QED BY <1>2, <1>3, <1>4

\* ... and one downwards from n a last one.
LEMMA GreatestBelow ==
    ASSUME NEW n \in Nat, NEW T, T \subseteq 0..n, T # {}
    PROVE  \E x \in T : \A y \in T : y <= x
<1> DEFINE U == {n - x : x \in T}
<1>0. \A x \in T : x \in Int /\ n - x \in Nat OBVIOUS
<1>1. U \subseteq Nat BY <1>0
<1>2. U # {} OBVIOUS
<1>3. PICK u \in U : \A y \in U : u <= y BY <1>1, <1>2, LeastNatural
<1>4. PICK x \in T : u = n - x BY <1>3
<1>5. \A y \in T : n - x <= n - y BY <1>3, <1>4
<1>6. \A y \in T : y <= x BY <1>0, <1>5
<1> QED BY <1>6

\* The variables hold 16 and 8 bits.
LEMMA Widths ==
    ASSUME NEW t
    PROVE  /\ t # "watchdog" => Width(t) = 256
           /\ Width(t) \in Nat /\ Width(t) > 9
<1>1. 2^16 = 65536 OBVIOUS
<1>2. 2^8 = 256 OBVIOUS
<1>3. CASE t = "watchdog"
  <2>1. Width(t) = 2^16 BY ONLY <1>3, Zenon DEF Width
  <2> QED BY <1>1, <1>3, <2>1
<1>4. CASE t # "watchdog"
  <2>1. Width(t) = 2^8 BY ONLY <1>4, Zenon DEF Width
  <2> QED BY <1>2, <1>4, <2>1
<1> QED BY ONLY <1>3, <1>4, Zenon

\* A row says what its variable can hold, and 0 in any case.
LEMMA RowTypes ==
    ASSUME NEW t
    PROVE  /\ InRow(t) \subseteq InRam(t) /\ InRam(t) \subseteq Nat
           /\ 0 \in InRow(t)
           /\ \A n \in Nat : n % Width(t) \in InRam(t)
<1>1. PICK w : w = Width(t) OBVIOUS
<1>2. w \in Nat /\ w > 9 BY ONLY <1>1, Widths, Zenon
<1>3. /\ 0 \in 0..9 /\ 0..9 \subseteq 0..w - 1
      /\ 0 \in 0..w - 1 /\ 0..w - 1 \subseteq Nat
      /\ \A n \in Nat : n % w \in 0..w - 1
  BY ONLY <1>2
<1>4. InRam(t) = 0..w - 1 BY ONLY <1>1, Zenon DEF InRam
<1>5. InRow(t) = InRam(t) \/ InRow(t) = 0..9 BY ONLY Zenon DEF InRow
<1> QED BY ONLY <1>1, <1>3, <1>4, <1>5, Zenon

\* Toggling keeps eight bits.
LEMMA FlipTypes ==
    ASSUME NEW t \in Toggles, NEW v \in InRam(t)
    PROVE  Flip(v) \in InRam(t)
<1>1. t # "watchdog" BY MenuAssumption
<1>2. InRam(t) = 0..255
  <2>1. Width(t) = 256 BY ONLY <1>1, Widths, Zenon
  <2> QED BY ONLY <2>1 DEF InRam
<1>3. v \in 0..255 BY ONLY <1>2, v \in InRam(t), Zenon
<1>4. Flip(v) \in 0..255
  <2>1. v = 255 => v % 2 = 1 BY SMT
  <2>2. v = 0 => v % 2 = 0 BY SMT
  <2> QED BY ONLY <1>3, <2>1, <2>2 DEF Flip
<1> QED BY ONLY <1>2, <1>4, Zenon

\* The number of devices is a number.
LEMMA CountType == DeviceCount \in Nat
BY FileAssumption, FS_CardinalityType DEF DeviceCount

-----------------------------------------------------------------------------
(* Lists.                                                                  *)

\* What is true of every list, whole or cut short: devices are in front of the
\* settings, among the first DeviceCount rows, and only settings are cut.
Shape(l) ==
    /\ \A i, j \in DOMAIN l : IsDevice(l[j]) /\ i < j => IsDevice(l[i])
    /\ \A i \in DOMAIN l : l[i].val \in InRow(l[i].name)
    /\ \A i \in DOMAIN l : IsDevice(l[i]) => i <= DeviceCount /\ ~l[i].cut

\* A whole list has that shape.
LEMMA WholeShape ==
    ASSUME NEW l \in Seq(Row), WellFormed(l)
    PROVE  Shape(l)
BY CountType DEF WellFormed, Shape

\* strstr finds the first row of a setting that is there.
LEMMA FirstRowFound ==
    ASSUME NEW l \in Seq(Row), NEW n \in Names(l)
    PROVE  /\ FirstRow(l, n) \in DOMAIN l
           /\ l[FirstRow(l, n)].name = n
           /\ \A j \in DOMAIN l : l[j].name = n => FirstRow(l, n) <= j
<1> DEFINE hits == {i \in DOMAIN l : l[i].name = n}
<1>1. hits \subseteq Nat /\ hits # {} BY DEF Names
<1>2. \E i \in hits : \A j \in hits : i <= j BY <1>1, LeastNatural
<1>3. \E i \in DOMAIN l : /\ l[i].name = n
                          /\ \A j \in DOMAIN l : l[j].name = n => i <= j
  BY <1>2
<1> QED BY <1>3 DEF FirstRow

\* It is the only row that is first.
LEMMA FirstRowIs ==
    ASSUME NEW l \in Seq(Row), NEW i \in DOMAIN l,
           \A j \in DOMAIN l : l[j].name = l[i].name => i <= j
    PROVE  FirstRow(l, l[i].name) = i
<1>1. l[i].name \in Names(l) BY DEF Names
<1>2. /\ FirstRow(l, l[i].name) \in DOMAIN l
      /\ FirstRow(l, l[i].name) <= i /\ i <= FirstRow(l, l[i].name)
  BY <1>1, FirstRowFound
<1> QED BY <1>2

\* A beginning of a list keeps its shape.
LEMMA PrefixShape ==
    ASSUME NEW l \in Seq(Row), NEW n \in 0..Len(l)
    PROVE  /\ SubSeq(l, 1, n) \in Seq(Row)
           /\ Len(SubSeq(l, 1, n)) = n
           /\ \A i \in 1..n : SubSeq(l, 1, n)[i] = l[i]
           /\ Shape(l) => Shape(SubSeq(l, 1, n))
           /\ WellFormed(l) /\ DeviceCount <= n => WellFormed(SubSeq(l, 1, n))
<1> DEFINE p == SubSeq(l, 1, n)
<1>1. p \in Seq(Row) /\ Len(p) = n /\ \A i \in 1..n : p[i] = l[i]
  OBVIOUS
<1>2. DOMAIN p = 1..n /\ DOMAIN l = 1..Len(l) /\ n <= Len(l) BY <1>1
<1> HIDE DEF p
<1>3. Shape(l) => Shape(p) BY <1>1, <1>2 DEF Shape
<1>4. ASSUME WellFormed(l), DeviceCount <= n PROVE WellFormed(p)
  <2>1. \A i \in 1..DeviceCount : i \in 1..n /\ p[i] = l[i]
    BY <1>1, <1>4, CountType
  <2>2. {p[i].name : i \in 1..DeviceCount} = Devices
    BY <1>4, <2>1 DEF WellFormed
  <2>3. \A i, j \in 1..DeviceCount : p[i].name = p[j].name => i = j
    BY <1>4, <2>1 DEF WellFormed
  <2> QED BY <1>1, <1>2, <1>4, <2>2, <2>3 DEF WellFormed
<1> QED BY <1>1, <1>3, <1>4 DEF p

\* The first cut row, or the end.
LEMMA CutFound ==
    ASSUME NEW l \in Seq(Row)
    PROVE  /\ CutAt(l) \in 1 .. Len(l) + 1
           /\ CutAt(l) <= Len(l) => l[CutAt(l)].cut
<1>1. CASE \E i \in DOMAIN l : l[i].cut
  <2> DEFINE hits == {i \in DOMAIN l : l[i].cut}
  <2>1. hits \subseteq Nat /\ hits # {} BY <1>1
  <2>2. \E i \in hits : \A j \in hits : i <= j BY <2>1, LeastNatural
  <2>3. \E i \in DOMAIN l : l[i].cut /\ \A j \in DOMAIN l : l[j].cut => i <= j
    BY <2>2
  <2>4. CutAt(l) \in DOMAIN l /\ l[CutAt(l)].cut BY <1>1, <2>3 DEF CutAt
  <2> QED BY <2>4
<1>2. CASE ~\E i \in DOMAIN l : l[i].cut
  <2>1. CutAt(l) = Len(l) + 1 BY <1>2 DEF CutAt
  <2> QED BY <2>1
<1> QED BY <1>1, <1>2

\* What fetch_bootorder reads has the shape of the file, and all devices of a
\* whole one, because only a setting can be cut.
LEMMA FetchedShape ==
    ASSUME NEW l \in Seq(Row), Len(l) <= MaxLines, Shape(l)
    PROVE  /\ Fetched(l) \in Seq(Row) /\ Len(Fetched(l)) <= MaxLines
           /\ Shape(Fetched(l))
           /\ WellFormed(l) => WellFormed(Fetched(l))
<1>1. CutAt(l) - 1 \in 0..Len(l) BY CutFound
<1>2. ASSUME WellFormed(l) PROVE DeviceCount <= CutAt(l) - 1
  BY <1>2, CutFound, CountType DEF WellFormed
<1> QED BY <1>1, <1>2, PrefixShape, ListAssumption DEF Fetched

\* strstr sees rows of the file.
LEMMA SearchedRows ==
    ASSUME NEW l \in Seq(Row), Shape(l)
    PROVE  Searched(l) \in Seq(Row) /\ Shape(Searched(l))
<1>1. (IF CutAt(l) <= Len(l) THEN CutAt(l) ELSE Len(l)) \in 0..Len(l) BY CutFound
<1> QED BY <1>1, PrefixShape DEF Searched

\* get_line_number answers 0, or a line with the letter in the list.
LEMMA LineFound ==
    ASSUME NEW s, NEW start \in Nat, NEW end \in Nat, NEW k,
           LineNumber(s, start, end, k) # 0
    PROVE  /\ LineNumber(s, start, end, k) \in start .. end - 1
           /\ s[LineNumber(s, start, end, k) + 1] = k
<1> DEFINE hits == {i \in start .. end - 1 : s[i + 1] = k}
<1>1. hits # {} BY DEF LineNumber
<1>2. hits \subseteq 0..end OBVIOUS
<1>3. \E i \in hits : \A j \in hits : j <= i BY <1>1, <1>2, GreatestBelow
<1>4. LineNumber(s, start, end, k) \in hits BY <1>1, <1>3 DEF LineNumber
<1> QED BY <1>4

\* Moving a device to the top keeps the shape of a list, and a whole list
\* whole: the rows above it are devices too.
LEMMA MovedShape ==
    ASSUME NEW l \in Seq(Row), Shape(l),
           NEW line \in 0 .. Len(l) - 1, IsDevice(l[line + 1])
    PROVE  /\ ToTop(l, line) \in Seq(Row) /\ Len(ToTop(l, line)) = Len(l)
           /\ Shape(ToTop(l, line))
           /\ WellFormed(l) => WellFormed(ToTop(l, line))
<1> DEFINE t == ToTop(l, line)
           at(i) == IF i = 1 THEN line + 1 ELSE IF i <= line + 1 THEN i - 1 ELSE i
<1>1. DOMAIN l = 1..Len(l) /\ Len(l) \in Nat /\ line \in Nat OBVIOUS
<1>2. \A i \in DOMAIN l : at(i) \in DOMAIN l BY <1>1
<1>3. t = [i \in DOMAIN l |-> l[at(i)]] BY <1>1 DEF ToTop
<1>4. t \in [1..Len(l) -> Row] BY <1>1, <1>2, <1>3
<1>5. t \in Seq(Row) /\ Len(t) = Len(l) BY <1>1, <1>4
<1>6. \A i \in DOMAIN l : t[i] = l[at(i)] BY <1>3
<1>7. line + 1 <= DeviceCount BY <1>1 DEF Shape
<1>8. \A i \in 1 .. line + 1 : IsDevice(l[i]) BY <1>1 DEF Shape
<1>9. \A i \in DOMAIN l : IsDevice(t[i]) <=> IsDevice(l[i])
  <2> SUFFICES ASSUME NEW i \in DOMAIN l PROVE IsDevice(t[i]) <=> IsDevice(l[i])
    OBVIOUS
  <2>1. CASE i <= line + 1
    <3>1. at(i) \in 1 .. line + 1 BY <1>1, <2>1
    <3> QED BY <1>1, <1>6, <1>8, <2>1, <3>1
  <2>2. CASE i > line + 1 BY <1>1, <1>6, <2>2
  <2> QED BY <1>1, <2>1, <2>2
<1> HIDE DEF t, at
<1>10. Shape(t)
  <2>1. \A i, j \in DOMAIN l : IsDevice(t[j]) /\ i < j => IsDevice(t[i])
    BY <1>9 DEF Shape
  <2>2. \A i \in DOMAIN l : t[i].val \in InRow(t[i].name) BY <1>2, <1>6 DEF Shape
  <2>3. \A i \in DOMAIN l : IsDevice(t[i]) => i <= DeviceCount BY <1>9 DEF Shape
  <2>4. \A i \in DOMAIN l : IsDevice(t[i]) => ~t[i].cut BY <1>2, <1>6 DEF Shape
  <2>5. DOMAIN t = DOMAIN l BY <1>1, <1>5
  <2> QED BY <2>1, <2>2, <2>3, <2>4, <2>5 DEF Shape
<1>11. ASSUME WellFormed(l) PROVE WellFormed(t)
  <2>1. DeviceCount <= Len(l) /\ DeviceCount \in Nat BY <1>11, CountType DEF WellFormed
  <2>2. \A i \in 1..DeviceCount : at(i) \in 1..DeviceCount
    BY <1>1, <1>7, <2>1 DEF at
  <2>3. \A i, j \in 1..DeviceCount : at(i) = at(j) => i = j
    BY <1>1, <1>7, <2>1 DEF at
  <2>4. \A j \in 1..DeviceCount : \E i \in 1..DeviceCount : at(i) = j
    <3> SUFFICES ASSUME NEW j \in 1..DeviceCount
                 PROVE  \E i \in 1..DeviceCount : at(i) = j
      OBVIOUS
    <3>1. CASE j = line + 1
      <4>1. 1 \in 1..DeviceCount /\ at(1) = j BY <1>1, <1>7, <2>1, <3>1 DEF at
      <4> QED BY <4>1
    <3>2. CASE j < line + 1
      <4>1. j + 1 \in 1..DeviceCount /\ at(j + 1) = j
        BY <1>1, <1>7, <2>1, <3>2 DEF at
      <4> QED BY <4>1
    <3>3. CASE j > line + 1
      <4>1. at(j) = j BY <1>1, <2>1, <3>3 DEF at
      <4> QED BY <4>1
    <3> QED BY <1>1, <2>1, <3>1, <3>2, <3>3
  <2>5. \A i \in 1..DeviceCount : i \in DOMAIN l /\ t[i] = l[at(i)]
    BY <1>1, <1>6, <2>1
  <2>6. {t[i].name : i \in 1..DeviceCount} = Devices
    <3>1. \A i \in 1..DeviceCount : \E j \in 1..DeviceCount : t[i].name = l[j].name
      BY <2>2, <2>5
    <3>2. \A j \in 1..DeviceCount : \E i \in 1..DeviceCount : t[i].name = l[j].name
      BY <2>4, <2>5
    <3>3. /\ \A j \in 1..DeviceCount : l[j].name \in Devices
          /\ \A d \in Devices : \E j \in 1..DeviceCount : d = l[j].name
      BY <1>11 DEF WellFormed
    <3>4. \A i \in 1..DeviceCount : t[i].name \in Devices BY <3>1, <3>3
    <3>5. ASSUME NEW d \in Devices PROVE \E i \in 1..DeviceCount : d = t[i].name
      <4>1. PICK j \in 1..DeviceCount : d = l[j].name BY <3>3
      <4>2. PICK i \in 1..DeviceCount : t[i].name = l[j].name BY <3>2
      <4> QED BY <4>1, <4>2
    <3> QED BY <3>4, <3>5
  <2>7. \A i, j \in 1..DeviceCount : t[i].name = t[j].name => i = j
    <3> SUFFICES ASSUME NEW i \in 1..DeviceCount, NEW j \in 1..DeviceCount,
                        t[i].name = t[j].name
                 PROVE  i = j
      OBVIOUS
    <3>1. l[at(i)].name = l[at(j)].name BY <2>5
    <3>2. \A a, b \in 1..DeviceCount : l[a].name = l[b].name => a = b
      BY <1>11 DEF WellFormed
    <3>3. at(i) \in 1..DeviceCount /\ at(j) \in 1..DeviceCount BY <2>2
    <3>4. at(i) = at(j) BY <3>1, <3>2, <3>3
    <3> QED BY <2>3, <3>4
  <2>8. \A i \in DOMAIN t : /\ IsDevice(t[i]) <=> i <= DeviceCount
                            /\ t[i].val \in InRow(t[i].name)
                            /\ t[i].cut => ~IsDevice(t[i])
    BY <1>1, <1>2, <1>5, <1>6, <1>9, <1>11 DEF WellFormed
  <2> QED BY <1>5, <2>1, <2>6, <2>7, <2>8 DEF WellFormed
<1> QED BY <1>5, <1>10, <1>11 DEF t

\* Restoring the defaults does too, whatever the lengths of the two lists:
\* behind the default list there are no devices in either.
LEMMA RestoredShape ==
    ASSUME NEW l \in Seq(Row), Shape(l)
    PROVE  /\ Restored(l) \in Seq(Row) /\ Len(Restored(l)) = Len(l)
           /\ Shape(Restored(l))
           /\ WellFormed(l) => WellFormed(Restored(l))
           /\ \A i \in DOMAIN l : ~IsDevice(Restored(l)[i]) => ~IsDevice(l[i])
<1> DEFINE r == Restored(l)
<1>1. /\ DOMAIN l = 1..Len(l) /\ Len(l) \in Nat
      /\ DOMAIN Def = 1..Len(Def) /\ Len(Def) \in Nat /\ Def \in Seq(Row)
      /\ WellFormed(Def) /\ Shape(Def) /\ DeviceCount <= Len(Def)
  BY ListAssumption, FileAssumption, WholeShape DEF WellFormed
<1>2. \A i \in DOMAIN l : /\ i <= Len(Def) => i \in DOMAIN Def
                          /\ r[i] = IF i <= Len(Def) THEN Def[i] ELSE l[i]
  BY <1>1 DEF Restored
<1>3. r \in [1..Len(l) -> Row]
  BY <1>1 DEF Restored
<1>4. r \in Seq(Row) /\ Len(r) = Len(l) /\ DOMAIN r = DOMAIN l BY <1>1, <1>3
<1> HIDE DEF r
<1>5. \A i \in DOMAIN l : IsDevice(l[i]) => i <= DeviceCount BY DEF Shape
<1>6. \A i \in DOMAIN l : IsDevice(r[i]) <=> i <= DeviceCount
  BY <1>1, <1>2, <1>5, CountType DEF WellFormed
<1>7. \A i \in DOMAIN l : r[i].val \in InRow(r[i].name) /\ (r[i].cut => ~IsDevice(r[i]))
  BY <1>1, <1>2 DEF Shape
<1>8. Shape(r) BY <1>1, <1>4, <1>6, <1>7, CountType DEF Shape
<1>9. ASSUME WellFormed(l) PROVE WellFormed(r)
  <2>1. \A i \in 1..DeviceCount : i \in DOMAIN l /\ r[i] = Def[i]
    BY <1>1, <1>2, <1>9, CountType DEF WellFormed
  <2>2. {r[i].name : i \in 1..DeviceCount} = Devices BY <1>1, <2>1 DEF WellFormed
  <2>3. \A i, j \in 1..DeviceCount : r[i].name = r[j].name => i = j
    BY <1>1, <2>1 DEF WellFormed
  <2> QED BY <1>4, <1>6, <1>7, <1>9, <2>2, <2>3 DEF WellFormed
<1>10. \A i \in DOMAIN l : ~IsDevice(r[i]) => ~IsDevice(l[i])
  BY <1>5, <1>6
<1> QED BY <1>4, <1>8, <1>9, <1>10 DEF r

-----------------------------------------------------------------------------
(* Settings.                                                               *)

\* The list says v for the setting, or had no room for it.
Says(l, t, v) ==
    IF t \in Names(l) THEN l[FirstRow(l, t)].val = v ELSE Len(l) = MaxLines

\* Lists with the same names row by row are searched alike.
LEMMA SameNames ==
    ASSUME NEW l \in Seq(Row), NEW m \in Seq(Row), Len(m) = Len(l),
           \A i \in DOMAIN l : m[i].name = l[i].name
    PROVE  /\ Names(m) = Names(l)
           /\ \A n \in Names(l) : FirstRow(m, n) = FirstRow(l, n)
<1>1. DOMAIN m = DOMAIN l OBVIOUS
<1>2. Names(m) = Names(l) BY <1>1 DEF Names
<1>3. ASSUME NEW n \in Names(l) PROVE FirstRow(m, n) = FirstRow(l, n)
  <2>1. /\ FirstRow(l, n) \in DOMAIN l /\ l[FirstRow(l, n)].name = n
        /\ \A j \in DOMAIN l : l[j].name = n => FirstRow(l, n) <= j
    BY FirstRowFound
  <2>2. /\ FirstRow(m, n) \in DOMAIN m /\ m[FirstRow(m, n)].name = n
        /\ \A j \in DOMAIN m : m[j].name = n => FirstRow(m, n) <= j
    BY <1>2, FirstRowFound
  <2>3. FirstRow(m, n) <= FirstRow(l, n) /\ FirstRow(l, n) <= FirstRow(m, n)
    BY <1>1, <2>1, <2>2
  <2> QED BY <1>1, <2>1, <2>2, <2>3
<1> QED BY <1>2, <1>3

\* Over an existing row ...
Overwritten(l, t, new) == [l EXCEPT ![FirstRow(l, t)] = new]

\* ... only the value and the cut of that row change.
LEMMA RowOverwritten ==
    ASSUME NEW l \in Seq(Row), Shape(l), NEW t \in Tags, t \in Names(l),
           NEW v \in InRow(t), NEW new \in Row, new.name = t, new.val = v,
           NEW m, m = Overwritten(l, t, new)
    PROVE  /\ m \in Seq(Row) /\ Len(m) = Len(l)
           /\ \A i \in DOMAIN l : m[i].name = l[i].name
           /\ Shape(m)
           /\ WellFormed(l) => WellFormed(m)
           /\ Says(m, t, v)
           /\ \A u \in Tags \ {t} : \A w : Says(l, u, w) => Says(m, u, w)
<1> DEFINE f == FirstRow(l, t)
<1>1. f \in DOMAIN l /\ l[f].name = t BY FirstRowFound
<1>2. /\ m \in Seq(Row) /\ Len(m) = Len(l) /\ DOMAIN m = DOMAIN l
      /\ m[f] = new
      /\ \A i \in DOMAIN l : i # f => m[i] = l[i]
  BY <1>1 DEF Overwritten
<1>3. /\ m \in Seq(Row) /\ Len(m) = Len(l) /\ DOMAIN m = DOMAIN l
      /\ m[f].name = t /\ m[f].val = v
      /\ \A i \in DOMAIN l : i # f => m[i] = l[i]
  BY <1>2
<1>4. \A i \in DOMAIN l : m[i].name = l[i].name BY <1>1, <1>3
<1>5. \A i \in DOMAIN l : IsDevice(m[i]) <=> IsDevice(l[i]) BY <1>4 DEF IsDevice
<1>6. ~IsDevice(m[f]) BY <1>3, ListAssumption DEF IsDevice
<1>7. \A i \in DOMAIN l : m[i].val \in InRow(m[i].name) BY <1>3 DEF Shape
<1> HIDE DEF f
<1>8. Shape(m)
  <2>1. \A i, j \in DOMAIN l : IsDevice(m[j]) /\ i < j => IsDevice(m[i])
    BY <1>5 DEF Shape
  <2>2. \A i \in DOMAIN l : IsDevice(m[i]) => i <= DeviceCount /\ ~m[i].cut
    BY <1>3, <1>5, <1>6 DEF Shape
  <2> QED BY <1>3, <1>7, <2>1, <2>2 DEF Shape
<1>9. ASSUME WellFormed(l) PROVE WellFormed(m)
  <2>1. \A i \in 1..DeviceCount : i \in DOMAIN l /\ m[i].name = l[i].name
    BY <1>4, <1>9, CountType DEF WellFormed
  <2>2. {m[i].name : i \in 1..DeviceCount} = Devices BY <1>9, <2>1 DEF WellFormed
  <2>3. \A i, j \in 1..DeviceCount : m[i].name = m[j].name => i = j
    BY <1>9, <2>1 DEF WellFormed
  <2>4. \A i \in DOMAIN l : m[i].cut => ~IsDevice(m[i]) BY <1>3, <1>8 DEF Shape
  <2> QED BY <1>3, <1>5, <1>7, <1>9, <2>2, <2>3, <2>4 DEF WellFormed
<1>10. Names(m) = Names(l) /\ \A n \in Names(l) : FirstRow(m, n) = FirstRow(l, n)
  BY <1>3, <1>4, SameNames
<1>11. Says(m, t, v)
  <2>1. t \in Names(m) /\ FirstRow(m, t) = f BY <1>10 DEF f
  <2>2. m[f].val = v BY <1>3
  <2> QED BY <2>1, <2>2 DEF Says
<1>12. ASSUME NEW u \in Tags \ {t}, NEW w, Says(l, u, w) PROVE Says(m, u, w)
  <2>1. CASE u \in Names(l)
    <3>1. FirstRow(l, u) \in DOMAIN l /\ l[FirstRow(l, u)].name = u
      BY <2>1, FirstRowFound
    <3>2. FirstRow(l, u) # f BY <1>1, <3>1
    <3> QED BY <1>3, <1>10, <1>12, <2>1, <3>1, <3>2 DEF Says
  <2>2. CASE u \notin Names(l) BY <1>3, <1>10, <1>12, <2>2 DEF Says
  <2> QED BY <2>1, <2>2
<1> QED BY <1>3, <1>4, <1>8, <1>9, <1>11, <1>12

\* Behind the list ...
Longer(l, new) == Append(l, new)

\* ... it is a row more.
LEMMA RowAppended ==
    ASSUME NEW l \in Seq(Row), Shape(l), Len(l) < MaxLines,
           NEW t \in Tags, t \notin Names(l),
           NEW v \in InRow(t), NEW new \in Row, new.name = t, new.val = v,
           NEW m, m = Longer(l, new)
    PROVE  /\ m \in Seq(Row) /\ Len(m) = Len(l) + 1
           /\ \A i \in DOMAIN l : m[i].name = l[i].name
           /\ ~IsDevice(m[Len(l) + 1])
           /\ Shape(m)
           /\ WellFormed(l) => WellFormed(m)
           /\ Says(m, t, v)
           /\ \A u \in Tags \ {t} : \A w : Says(l, u, w) => Says(m, u, w)
<1> DEFINE n == Len(l) + 1
<1>2. /\ m \in Seq(Row) /\ Len(m) = n /\ DOMAIN m = 1..n
      /\ DOMAIN l = 1..Len(l) /\ Len(l) \in Nat
      /\ m[n] = new
      /\ \A i \in DOMAIN l : m[i] = l[i]
  BY DEF Longer
<1>3. m[n].name = t /\ m[n].val = v /\ ~IsDevice(m[n])
  BY <1>2, ListAssumption DEF IsDevice
<1>4. \A i \in DOMAIN m : i = n \/ (i \in DOMAIN l /\ i # n) BY <1>2
<1> HIDE DEF n
<1>5. Shape(m)
  <2>1. \A i, j \in DOMAIN m : IsDevice(m[j]) /\ i < j => IsDevice(m[i])
    <3> SUFFICES ASSUME NEW i \in DOMAIN m, NEW j \in DOMAIN m,
                        IsDevice(m[j]), i < j
                 PROVE  IsDevice(m[i])
      OBVIOUS
    <3>1. j \in DOMAIN l BY <1>3, <1>4
    <3>2. i \in DOMAIN l BY <1>2, <3>1
    <3> QED BY <1>2, <3>1, <3>2 DEF Shape
  <2>2. \A i \in DOMAIN m : m[i].val \in InRow(m[i].name)
    BY <1>2, <1>3, <1>4 DEF Shape
  <2>3. \A i \in DOMAIN m : IsDevice(m[i]) => i <= DeviceCount /\ ~m[i].cut
    BY <1>2, <1>3, <1>4 DEF Shape
  <2> QED BY <2>1, <2>2, <2>3 DEF Shape
<1>6. ASSUME WellFormed(l) PROVE WellFormed(m)
  <2>0. DeviceCount <= Len(l) /\ DeviceCount \in Nat BY <1>6, CountType DEF WellFormed
  <2>1. \A i \in 1..DeviceCount : i \in DOMAIN l /\ m[i] = l[i]
    BY <1>2, <2>0
  <2>2. {m[i].name : i \in 1..DeviceCount} = Devices BY <1>6, <2>1 DEF WellFormed
  <2>3. \A i, j \in 1..DeviceCount : m[i].name = m[j].name => i = j
    BY <1>6, <2>1 DEF WellFormed
  <2>4. n > DeviceCount BY <1>2, <2>0 DEF n
  <2>5. \A i \in DOMAIN m : IsDevice(m[i]) <=> i <= DeviceCount
    BY <1>2, <1>3, <1>4, <1>6, <2>0, <2>4 DEF WellFormed
  <2>6. \A i \in DOMAIN m : m[i].val \in InRow(m[i].name) /\ (m[i].cut => ~IsDevice(m[i]))
    BY <1>5 DEF Shape
  <2>7. DeviceCount <= Len(m) BY <1>2, <2>0 DEF n
  <2> QED BY <2>2, <2>3, <2>5, <2>6, <2>7 DEF WellFormed
<1>7. \A i \in DOMAIN l : l[i].name # t BY DEF Names
<1>8. FirstRow(m, t) = n
  <2>1. n \in DOMAIN m BY <1>2 DEF n
  <2>2. \A j \in DOMAIN m : m[j].name = m[n].name => n <= j
    BY <1>2, <1>3, <1>4, <1>7, <2>1
  <2> QED BY <1>2, <1>3, <2>1, <2>2, FirstRowIs
<1>9. Says(m, t, v)
  <2>1. n \in DOMAIN m BY <1>2 DEF n
  <2>2. t \in Names(m) BY <1>3, <2>1 DEF Names
  <2> QED BY <1>3, <1>8, <2>2 DEF Says
<1>10. ASSUME NEW u \in Tags \ {t}, NEW w, Says(l, u, w)
       PROVE  Says(m, u, w)
  <2>1. u \in Names(l) BY <1>2, <1>10 DEF Says
  <2>2. /\ FirstRow(l, u) \in DOMAIN l /\ l[FirstRow(l, u)].name = u
        /\ \A j \in DOMAIN l : l[j].name = u => FirstRow(l, u) <= j
    BY <2>1, FirstRowFound
  <2>3. FirstRow(l, u) \in DOMAIN m /\ m[FirstRow(l, u)] = l[FirstRow(l, u)]
    BY <1>2, <2>2 DEF n
  <2>4. \A j \in DOMAIN m : m[j].name = u => FirstRow(l, u) <= j
    BY <1>2, <1>3, <1>4, <2>2
  <2>5. FirstRow(m, u) = FirstRow(l, u)
    BY <1>2, <2>2, <2>3, <2>4, FirstRowIs
  <2>6. u \in Names(m) BY <2>2, <2>3 DEF Names
  <2> QED BY <1>10, <2>1, <2>3, <2>5, <2>6 DEF Says
<1> QED BY <1>2, <1>3, <1>5, <1>6, <1>9, <1>10 DEF n

\* What a row says of a value.
InChars(t, v) == IF t = "watchdog" \/ v <= 9 THEN v ELSE 0

\* It is one that a row can say, and a value that a row can say is not changed.
LEMMA CharsTypes ==
    ASSUME NEW t, NEW v \in InRam(t)
    PROVE  /\ InChars(t, v) \in InRow(t)
           /\ v \in InRow(t) => InChars(t, v) = v
<1>1. CASE t = "watchdog"
  <2>1. InRam(t) = InRow(t) BY ONLY <1>1, Zenon DEF InRow
  <2> QED BY ONLY <1>1, <2>1, v \in InRam(t), Zenon DEF InChars
<1>2. CASE t # "watchdog"
  <2>1. InRow(t) = 0..9 BY ONLY <1>2, Zenon DEF InRow
  <2>2. v \in Nat BY ONLY RowTypes, v \in InRam(t), Zenon
  <2>3. InChars(t, v) = IF v <= 9 THEN v ELSE 0 BY ONLY <1>2, Zenon DEF InChars
  <2>4. InChars(t, v) \in 0..9 /\ (v \in 0..9 => InChars(t, v) = v)
    BY ONLY <2>2, <2>3
  <2> QED BY ONLY <2>1, <2>4, Zenon
<1> QED BY ONLY <1>1, <1>2, Zenon

\* What one call of update_tags leaves ...
Written(l, t, v) == IF t = "watchdog" THEN SetWatchdog(l, v) ELSE SetTag(l, t, v)

\* ... over an existing row, behind the list, or in a list without room.
LEMMA TagWritten ==
    ASSUME NEW l \in Seq(Row), Len(l) <= MaxLines, Shape(l),
           NEW t \in Tags, NEW v \in InRam(t), NEW m, m = Written(l, t, v)
    PROVE  /\ m \in Seq(Row) /\ Len(m) <= MaxLines /\ DOMAIN l \subseteq DOMAIN m
           /\ \A i \in DOMAIN l : m[i].name = l[i].name
           /\ \A i \in DOMAIN m : i \in DOMAIN l \/ ~IsDevice(m[i])
           /\ Shape(m)
           /\ WellFormed(l) => WellFormed(m)
           /\ Says(m, t, InChars(t, v))
           /\ \A u \in Tags \ {t} : \A w : Says(l, u, w) => Says(m, u, w)
<1>0. Len(l) \in Nat /\ MaxLines \in Nat BY ListAssumption
<1> DEFINE c == InChars(t, v)
<1>4. c \in InRow(t) /\ c \in Nat BY CharsTypes, RowTypes, Zenon
<1>5. /\ t = "watchdog" => c = v
      /\ t # "watchdog" => c = IF v <= 9 THEN v ELSE 0
  BY DEF InChars
<1> HIDE DEF c
<1>1. CASE t \in Names(l)
  <2> DEFINE f == FirstRow(l, t)
  <2>1. f \in DOMAIN l /\ l[f].name = t /\ l[f] \in Row BY <1>1, FirstRowFound
  <2>2. \E q \in Row : q.name = t /\ q.val = c /\ m = Overwritten(l, t, q)
    <3>1. PICK r \in Row : r = l[f] /\ r.name = t BY <2>1
    <3>2. CASE t = "watchdog"
      <4>1. PICK q : q = [[r EXCEPT !.val = v] EXCEPT !.cut = TRUE] OBVIOUS
      <4>2. m = Overwritten(l, t, q)
        BY <1>1, <3>1, <3>2, <4>1 DEF Overwritten, Written, SetWatchdog
      <4>3. q \in Row /\ q.name = t /\ q.val = c
        BY <1>4, <1>5, <3>1, <3>2, <4>1 DEF Row
      <4> QED BY <4>2, <4>3
    <3>3. CASE t # "watchdog"
      <4>1. m = Overwritten(l, t, CharRow(t, v))
        BY <1>1, <3>3 DEF Overwritten, Written, SetTag
      <4>2. CharRow(t, v) \in Row /\ CharRow(t, v).name = t /\ CharRow(t, v).val = c
        BY <1>4, <1>5, <3>3 DEF Row, CharRow
      <4> QED BY <4>1, <4>2
    <3> QED BY <3>2, <3>3
  <2>3. /\ m \in Seq(Row) /\ Len(m) = Len(l)
        /\ \A i \in DOMAIN l : m[i].name = l[i].name
        /\ Shape(m)
        /\ WellFormed(l) => WellFormed(m)
        /\ Says(m, t, c)
        /\ \A u \in Tags \ {t} : \A w : Says(l, u, w) => Says(m, u, w)
    <3>1. PICK q \in Row : q.name = t /\ q.val = c /\ m = Overwritten(l, t, q)
      BY <2>2
    <3> QED BY <1>1, <1>4, <3>1, RowOverwritten
  <2>4. DOMAIN m = DOMAIN l BY <2>3
  <2> QED BY <2>3, <2>4 DEF c
<1>2. CASE t \notin Names(l) /\ Len(l) + 1 > MaxLines
  <2>1. m = l BY <1>2 DEF Written, SetWatchdog, SetTag, Appended
  <2>2. Len(l) = MaxLines BY <1>0, <1>2
  <2> QED BY <1>2, <2>1, <2>2 DEF Says
<1>3. CASE t \notin Names(l) /\ Len(l) + 1 <= MaxLines
  <2>1. \E q \in Row : q.name = t /\ q.val = c /\ m = Longer(l, q)
    <3>1. CASE t = "watchdog"
      <4>1. m = Longer(l, TagRow(t, v))
        BY <1>0, <1>3, <3>1 DEF Written, SetWatchdog, Appended, Longer
      <4>2. TagRow(t, v) \in Row /\ TagRow(t, v).name = t /\ TagRow(t, v).val = c
        BY <1>4, <1>5, <3>1 DEF Row, TagRow
      <4> QED BY <4>1, <4>2
    <3>2. CASE t # "watchdog"
      <4>1. m = Longer(l, CharRow(t, v))
        BY <1>0, <1>3, <3>2 DEF Written, SetTag, Appended, Longer
      <4>2. CharRow(t, v) \in Row /\ CharRow(t, v).name = t /\ CharRow(t, v).val = c
        BY <1>4, <1>5, <3>2 DEF Row, CharRow
      <4> QED BY <4>1, <4>2
    <3> QED BY <3>1, <3>2
  <2>2. /\ m \in Seq(Row) /\ Len(m) = Len(l) + 1
        /\ \A i \in DOMAIN l : m[i].name = l[i].name
        /\ ~IsDevice(m[Len(l) + 1])
        /\ Shape(m)
        /\ WellFormed(l) => WellFormed(m)
        /\ Says(m, t, c)
        /\ \A u \in Tags \ {t} : \A w : Says(l, u, w) => Says(m, u, w)
    <3>1. PICK q \in Row : q.name = t /\ q.val = c /\ m = Longer(l, q) BY <2>1
    <3>2. Len(l) < MaxLines BY <1>0, <1>3
    <3> QED BY <1>3, <1>4, <3>1, <3>2, RowAppended
  <2>3. \A i \in DOMAIN m : i \in DOMAIN l \/ i = Len(l) + 1
    BY <1>0, <2>2
  <2>4. DOMAIN l \subseteq DOMAIN m BY <1>0, <2>2
  <2>5. /\ Len(m) <= MaxLines
        /\ \A i \in DOMAIN m : i \in DOMAIN l \/ ~IsDevice(m[i])
    BY <1>0, <1>3, <2>2, <2>3
  <2> QED BY <2>2, <2>4, <2>5, Zenon DEF c
<1> QED BY <1>0, <1>1, <1>2, <1>3 DEF c

-----------------------------------------------------------------------------
(* Letters.                                                                *)

\* Every device of the list is one of the default list.
LEMMA DevicesInDef == Devices \subseteq Names(Def)
<1>1. /\ {Def[i].name : i \in 1..DeviceCount} = Devices
      /\ DeviceCount <= Len(Def) /\ DeviceCount \in Nat
      /\ DOMAIN Def = 1..Len(Def) /\ Len(Def) \in Nat
  BY FileAssumption, ListAssumption, CountType DEF WellFormed
<1>2. \A i \in 1..DeviceCount : i \in DOMAIN Def BY <1>1
<1> QED BY <1>1, <1>2 DEF Names

\* Rows and letters belong together: devices have the letter of bootorder_map,
\* all other places none.
Lettered(s, l) ==
    \A i \in 1..MaxLines :
        s[i] = IF i \in DOMAIN l /\ IsDevice(l[i]) THEN Letter[l[i].name]
                                                   ELSE NoLetter

\* int_ids gives each device its letter; the other places keep what they had.
LEMMA AssignedIds ==
    ASSUME NEW s \in [1..MaxLines -> Letters \cup {NoLetter}],
           NEW l \in Seq(Row), Len(l) <= MaxLines
    PROVE  /\ AssignIds(s, l) \in [1..MaxLines -> Letters \cup {NoLetter}]
           /\ \A i \in 1..MaxLines :
                 AssignIds(s, l)[i] =
                    IF i \in DOMAIN l /\ IsDevice(l[i]) THEN Letter[l[i].name]
                                                        ELSE s[i]
<1>1. \A i \in DOMAIN l : IsDevice(l[i]) => /\ l[i].name \in Names(Def)
                                            /\ Letter[l[i].name] \in Letters
  BY DevicesInDef DEF IsDevice, Letters
<1> QED BY <1>1 DEF AssignIds

\* move_boot_list moves rows and letters alike.
LEMMA MovedIds ==
    ASSUME NEW s \in [1..MaxLines -> Letters \cup {NoLetter}],
           NEW l \in Seq(Row), Len(l) <= MaxLines, Lettered(s, l),
           NEW line \in 0 .. Len(l) - 1, NEW ss,
           ss = [i \in DOMAIN s |->
                    IF i <= Len(l) THEN ToTop(SubSeq(s, 1, Len(l)), line)[i]
                                   ELSE s[i]]
    PROVE  /\ ss \in [1..MaxLines -> Letters \cup {NoLetter}]
           /\ Lettered(ss, ToTop(l, line))
<1>0. /\ Len(l) \in Nat /\ MaxLines \in Nat /\ line \in Nat /\ line < Len(l)
      /\ DOMAIN l = 1..Len(l)
      /\ DOMAIN s = 1..MaxLines
  BY ListAssumption
<1> DEFINE p == SubSeq(s, 1, Len(l))
<1>1. s \in Seq(Letters \cup {NoLetter}) /\ Len(s) = MaxLines BY <1>0
<1>2. DOMAIN p = 1..Len(l) /\ \A i \in 1..Len(l) : p[i] = s[i]
  BY <1>0, <1>1
<1> HIDE DEF p
<1> DEFINE at(i) == IF i = 1 THEN line + 1 ELSE IF i <= line + 1 THEN i - 1 ELSE i
<1>3. \A i \in 1..Len(l) : at(i) \in 1..Len(l) BY <1>0
<1>4. \A i \in 1..Len(l) : ToTop(p, line)[i] = p[at(i)] BY <1>0, <1>2 DEF ToTop
<1>5. \A i \in 1..Len(l) : ToTop(l, line)[i] = l[at(i)] BY <1>0 DEF ToTop
<1>6. DOMAIN ToTop(l, line) = DOMAIN l BY DEF ToTop
<1> HIDE DEF at
<1>7. \A i \in 1..MaxLines : ss[i] = IF i <= Len(l) THEN s[at(i)] ELSE s[i]
  BY <1>0, <1>2, <1>3, <1>4 DEF p
<1>8. \A i \in 1..Len(l) : i \in 1..MaxLines BY <1>0
<1>9. ss \in [1..MaxLines -> Letters \cup {NoLetter}]
  <2>1. \A i \in 1..MaxLines : ss[i] \in Letters \cup {NoLetter}
    <3>1. \A i \in 1..MaxLines : s[i] \in Letters \cup {NoLetter} OBVIOUS
    <3>2. \A i \in 1..MaxLines : i <= Len(l) => at(i) \in 1..MaxLines
      BY <1>0, <1>3, <1>8
    <3> QED BY <1>7, <3>1, <3>2
  <2>2. ss = [i \in 1..MaxLines |-> ss[i]] BY <1>0
  <2> QED BY <2>1, <2>2
<1>10. Lettered(ss, ToTop(l, line))
  <2> SUFFICES ASSUME NEW i \in 1..MaxLines
               PROVE  ss[i] = IF i \in DOMAIN l /\ IsDevice(ToTop(l, line)[i])
                              THEN Letter[ToTop(l, line)[i].name] ELSE NoLetter
    BY <1>6 DEF Lettered
  <2>1. CASE i <= Len(l)
    <3>1. /\ i \in 1..Len(l) /\ at(i) \in 1..Len(l) /\ at(i) \in 1..MaxLines
          /\ ss[i] = s[at(i)] /\ ToTop(l, line)[i] = l[at(i)]
      BY <1>0, <1>3, <1>5, <1>7, <1>8, <2>1
    <3> QED BY <1>0, <3>1 DEF Lettered
  <2>2. CASE i > Len(l) BY <1>0, <1>7, <2>2 DEF Lettered
  <2> QED BY <1>0, <2>1, <2>2
<1> QED BY <1>9, <1>10

-----------------------------------------------------------------------------
(* The invariant.                                                          *)

\* What the properties need between them: a list has its shape, cut short or
\* not, and is whole as long as no save was cut short; the letters follow the
\* rows; the rows that update_tags has passed say what the menu says, and so
\* do those of a completed save.
SaysSetting(l, t) == Says(l, t, InChars(t, settings[t]))

Inv ==
    /\ TypeOK
    /\ Shape(file) /\ Shape(list)
    /\ ~torn => WellFormed(file) /\ (pc # "boot" => WellFormed(list))
    /\ pc # "boot" => Lettered(ids, list)
    /\ pc = "moving" => key \in Letters
    /\ pc = "tagging" =>
          \A j \in 1 .. tagAt - 1 :
              Available(TagOrder[j]) => SaysSetting(list, TagOrder[j])
    /\ "pxen" \in DOMAIN stored => PxeAvailable
    /\ saved /\ region = "file" =>
          \A t \in DOMAIN stored \cap Names(file) :
              file[FirstRow(file, t)].val = InChars(t, stored[t])

\* A row read out of a text says what a row can say.
LEMMA RowValue ==
    ASSUME NEW l \in Seq(Row), Shape(l), NEW t \in Names(l)
    PROVE  l[FirstRow(l, t)].val \in InRow(t)
BY FirstRowFound DEF Shape

\* The state a session starts and a reset ends in.
LEMMA EmptyShape ==
    /\ <<>> \in Seq(Row) /\ Len(<<>>) = 0 /\ Shape(<<>>)
    /\ NoSettings \in [Tags -> Nat] /\ DOMAIN NoneStored = {}
    /\ \A t \in Tags : NoSettings[t] \in InRam(t)
    /\ NoIds \in [1..MaxLines -> Letters \cup {NoLetter}]
    /\ MaxLines \in Nat /\ Len(TagOrder) \in Nat
<1>1. \A t : 0 \in InRam(t) BY RowTypes
<1>2. <<>> \in Seq(Row) /\ Len(<<>>) = 0 /\ DOMAIN <<>> = {} OBVIOUS
<1>3. Shape(<<>>) BY <1>2 DEF Shape
<1> QED BY <1>1, <1>2, <1>3, ListAssumption, MenuAssumption DEF NoSettings, NoneStored, NoIds

\* Before the first session the file is whole.
LEMMA InitInv == Init => Inv
<1> SUFFICES ASSUME Init PROVE Inv OBVIOUS
<1>1. /\ file \in Seq(Row) /\ Len(file) <= MaxLines /\ WellFormed(file)
      /\ region \in {"file", "zeroed", "missing"}
  BY MenuAssumption, FileAssumption DEF Init
<1>2. list \in Seq(Row) /\ Len(list) <= MaxLines /\ pressed \in Seq(Row)
  BY EmptyShape DEF Init
<1>3. lineStart \in 0..MaxLines /\ tagAt \in 1 .. Len(TagOrder) + 1
  BY EmptyShape DEF Init
<1>4. TypeOK BY <1>1, <1>2, <1>3, EmptyShape DEF Init, TypeOK
<1>5. Shape(file) BY <1>1, WholeShape
<1> QED BY <1>1, <1>4, <1>5, EmptyShape DEF Init, Inv

\* main reads a whole file as a whole list, and gives each row its letter.
LEMMA BootInv ==
    ASSUME Inv, Boot
    PROVE  Inv'
<1>1. /\ Source \in Seq(Row) /\ Len(Source) <= MaxLines /\ Shape(Source)
      /\ ~torn => WellFormed(Source)
  <2>1. /\ CbfsFile \in Seq(Row) /\ Len(CbfsFile) <= MaxLines
        /\ WellFormed(CbfsFile) /\ Shape(CbfsFile)
    BY MenuAssumption, FileAssumption, WholeShape
  <2> QED BY <2>1 DEF Inv, TypeOK, Source
<1>2. /\ list' \in Seq(Row) /\ Len(list') <= MaxLines /\ Shape(list')
      /\ ~torn => WellFormed(list')
  BY <1>1, FetchedShape DEF Boot
<1>3. ids' \in [1..MaxLines -> Letters \cup {NoLetter}] /\ Lettered(ids', list')
  <2>1. ids' = AssignIds(NoIds, list') BY DEF Boot
  <2>2. \A i \in 1..MaxLines : NoIds[i] = NoLetter BY DEF NoIds
  <2> QED BY <1>2, <2>1, <2>2, EmptyShape, AssignedIds DEF Lettered
<1>4. settings' \in [Tags -> Nat] /\ \A t \in Tags : settings'[t] \in InRam(t)
  <2>1. PICK low \in [Tags -> Garbage] :
           settings' = [t \in Tags |-> ReadSetting(t, Searched(Source), low[t])]
    BY DEF Boot
  <2>2. ASSUME NEW t \in Tags
        PROVE  ReadSetting(t, Searched(Source), low[t]) \in InRam(t)
    <3>1. low[t] \in Nat BY <2>1, MenuAssumption
    <3>2. 0 \in InRam(t) /\ low[t] % Width(t) \in InRam(t) BY <3>1, RowTypes
    <3>3. t \in Names(Searched(Source)) =>
             Searched(Source)[FirstRow(Searched(Source), t)].val \in InRam(t)
      BY <1>1, SearchedRows, RowValue, RowTypes
    <3> QED BY <3>2, <3>3 DEF ReadSetting
  <2> QED BY <2>1, <2>2, RowTypes
<1>5. TypeOK' BY <1>2, <1>3, <1>4 DEF Inv, TypeOK, Boot, flashVars
<1> QED BY <1>1, <1>2, <1>3, <1>5 DEF Inv, Boot, flashVars

\* Keys that change settings only.
LEMMA SettingInv ==
    ASSUME Inv, pc = "menu",
           NEW t \in Tags, NEW v \in InRam(t), settings' = [settings EXCEPT ![t] = v],
           UNCHANGED <<pc, flashVars, menuVars>>
    PROVE  Inv'
<1>1. settings' \in [Tags -> Nat] /\ \A u \in Tags : settings'[u] \in InRam(u)
  BY RowTypes DEF Inv, TypeOK
<1>2. UNCHANGED <<pc, region, file, saved, stored, torn, list, ids, com2, key,
                  lineStart, tagAt, pressed>>
  BY DEF flashVars, menuVars
<1>3. TypeOK' BY <1>1, <1>2 DEF Inv, TypeOK
<1> QED BY <1>2, <1>3 DEF Inv

\* A toggle stays in its range.
LEMMA ToggleInv ==
    ASSUME Inv, NEW t \in Toggles, ToggleSetting(t)
    PROVE  Inv'
<1>1. t \in Tags BY MenuAssumption
<1>2. Flip(settings[t]) \in InRam(t) BY <1>1, FlipTypes DEF Inv, TypeOK
<1>3. settings' = [settings EXCEPT ![t] = Flip(settings[t])]
  BY DEF ToggleSetting
<1> QED BY <1>1, <1>2, <1>3, SettingInv DEF ToggleSetting

\* So does the watchdog timeout, whatever number is typed.
LEMMA TimeoutInv ==
    ASSUME Inv, NEW n \in TypedTimeouts, SetTimeout(n)
    PROVE  Inv'
<1>1. "watchdog" \in Tags /\ n \in Nat BY MenuAssumption
<1>2. n % 2^16 \in InRam("watchdog")
  <2>1. Width("watchdog") = 2^16 BY ONLY Zenon DEF Width
  <2> QED BY ONLY <1>1, <2>1, RowTypes, Zenon
<1>3. /\ pc = "menu" /\ UNCHANGED <<pc, flashVars, menuVars>>
      /\ settings' = [settings EXCEPT !["watchdog"] = n % 2^16]
  BY DEF SetTimeout
<1> QED BY <1>1, <1>2, <1>3, SettingInv

\* Key r: the default devices in the places of the others, so that no place
\* behind them held a letter.
LEMMA RestoreInv ==
    ASSUME Inv, RestoreDefaults
    PROVE  Inv'
<1>1. /\ list \in Seq(Row) /\ Len(list) <= MaxLines /\ Shape(list)
      /\ Lettered(ids, list) /\ ids \in [1..MaxLines -> Letters \cup {NoLetter}]
      /\ ~torn => WellFormed(list)
  BY DEF Inv, TypeOK, RestoreDefaults
<1>2. /\ list' \in Seq(Row) /\ Len(list') = Len(list) /\ Shape(list')
      /\ ~torn => WellFormed(list')
      /\ \A i \in DOMAIN list : ~IsDevice(list'[i]) => ~IsDevice(list[i])
  BY <1>1, RestoredShape DEF RestoreDefaults
<1>3. /\ ids' \in [1..MaxLines -> Letters \cup {NoLetter}]
      /\ \A i \in 1..MaxLines :
            ids'[i] = IF i \in DOMAIN list' /\ IsDevice(list'[i])
                      THEN Letter[list'[i].name] ELSE ids[i]
  BY <1>1, <1>2, AssignedIds DEF RestoreDefaults
<1>4. DOMAIN list' = DOMAIN list BY <1>1, <1>2
<1>5. Lettered(ids', list') BY <1>1, <1>2, <1>3, <1>4 DEF Lettered
<1>6. settings' \in [Tags -> Nat] /\ \A t \in Tags : settings'[t] \in InRam(t)
  <2>1. \A t : 0 \in InRam(t) BY RowTypes
  <2>2. Def \in Seq(Row) /\ Shape(Def) BY ListAssumption, FileAssumption, WholeShape
  <2>3. \A t \in Names(Def) : Def[FirstRow(Def, t)].val \in InRam(t)
    BY <2>2, RowValue, RowTypes
  <2>4. settings \in [Tags -> Nat] /\ \A t \in Tags : settings[t] \in InRam(t)
    BY DEF Inv, TypeOK
  <2>5. settings' = Refreshed(settings) BY DEF RestoreDefaults
  <2>6. \A t \in Tags : settings'[t] \in InRam(t)
    BY <2>1, <2>3, <2>4, <2>5 DEF Refreshed
  <2> QED BY <2>5, <2>6, RowTypes DEF Refreshed
<1>7. TypeOK'
  BY <1>1, <1>2, <1>3, <1>6 DEF Inv, TypeOK, RestoreDefaults, flashVars
<1> QED BY <1>2, <1>5, <1>7 DEF Inv, RestoreDefaults, flashVars

\* A letter key only starts the loop.
LEMMA PressInv ==
    ASSUME Inv, NEW k \in Letters, PressLetter(k)
    PROVE  Inv'
<1>1. MaxLines \in Nat BY ListAssumption
<1>2. TypeOK' BY <1>1 DEF Inv, TypeOK, PressLetter, flashVars
<1> QED BY <1>2 DEF Inv, PressLetter, flashVars

\* One round of the loop moves a device, because only devices have letters.
LEMMA MoveInv ==
    ASSUME Inv, MoveOne
    PROVE  Inv'
<1> DEFINE line == LineNumber(ids, lineStart, Len(list), key)
<1>1. /\ list \in Seq(Row) /\ Len(list) <= MaxLines /\ Len(list) \in Nat
      /\ Shape(list) /\ Lettered(ids, list)
      /\ ids \in [1..MaxLines -> Letters \cup {NoLetter}]
      /\ ~torn => WellFormed(list)
      /\ key \in Letters /\ lineStart \in 0..MaxLines /\ MaxLines \in Nat
  BY ListAssumption DEF Inv, TypeOK, MoveOne
<1>2. line > lineStart BY DEF MoveOne
<1>3. line # 0
  <2>1. lineStart >= 0 BY <1>1
  <2>2. line = 0 => ~(line > lineStart) BY <1>1, <2>1
  <2> QED BY <1>2, <2>2
<1>4. line \in lineStart .. Len(list) - 1 /\ ids[line + 1] = key
  BY <1>1, <1>3, LineFound
<1>5. line \in 0 .. Len(list) - 1 /\ line + 1 \in 1..MaxLines BY <1>1, <1>4
<1>6. IsDevice(list[line + 1])
  BY <1>1, <1>4, <1>5, ListAssumption DEF Lettered
<1>7. /\ list' = ToTop(list, line)
      /\ ids' = [i \in DOMAIN ids |->
                    IF i <= Len(list) THEN ToTop(SubSeq(ids, 1, Len(list)), line)[i]
                                      ELSE ids[i]]
      /\ lineStart' = lineStart + 1
      /\ pc = "moving"
      /\ UNCHANGED <<pc, flashVars, settings, com2, key, tagAt, pressed>>
  BY DEF MoveOne
<1>8. lineStart' \in 0..MaxLines BY <1>1, <1>2, <1>4, <1>7
<1> HIDE DEF line
<1>9. /\ list' \in Seq(Row) /\ Len(list') = Len(list) /\ Shape(list')
      /\ ~torn => WellFormed(list')
  BY <1>1, <1>5, <1>6, <1>7, MovedShape
<1>10. /\ ids' \in [1..MaxLines -> Letters \cup {NoLetter}]
       /\ Lettered(ids', list')
  BY <1>1, <1>5, <1>7, MovedIds
<1>11. TypeOK' BY <1>1, <1>7, <1>8, <1>9, <1>10 DEF Inv, TypeOK, flashVars
<1> QED BY <1>7, <1>9, <1>10, <1>11 DEF Inv, flashVars

\* The end of the loop leaves the list as it is.
LEMMA MoveEndsInv ==
    ASSUME Inv, MoveEnds
    PROVE  Inv'
<1>1. MaxLines \in Nat BY ListAssumption
<1>2. pressed' \in Seq(Row) /\ lineStart' \in 0..MaxLines
  BY <1>1, EmptyShape DEF MoveEnds, BackToMenu
<1>3. TypeOK' BY <1>2 DEF Inv, TypeOK, MoveEnds, BackToMenu, flashVars
<1> QED BY <1>3 DEF Inv, MoveEnds, BackToMenu, flashVars

\* s: no setting is written yet.
LEMMA PressSaveInv ==
    ASSUME Inv, PressSave
    PROVE  Inv'
<1>1. tagAt' \in 1 .. Len(TagOrder) + 1 BY EmptyShape DEF PressSave
<1>2. TypeOK' BY <1>1 DEF Inv, TypeOK, PressSave, flashVars
<1> QED BY <1>2 DEF Inv, PressSave, flashVars

\* One call of update_tags: no device row changes, and what the earlier calls
\* wrote is still said.
LEMMA UpdateTagInv ==
    ASSUME Inv, UpdateTag
    PROVE  Inv'
<1> DEFINE t == TagOrder[tagAt]
           v == settings[t]
<1>1. /\ list \in Seq(Row) /\ Len(list) <= MaxLines /\ Shape(list)
      /\ Lettered(ids, list)
      /\ ~torn => WellFormed(list)
      /\ \A u \in Tags : settings[u] \in InRam(u)
      /\ tagAt \in 1 .. Len(TagOrder) /\ Len(TagOrder) \in Nat /\ tagAt \in Nat
      /\ TagOrder \in Seq(Tags)
  <2>1. pc = "tagging" /\ tagAt <= Len(TagOrder) BY DEF UpdateTag
  <2>2. TagOrder \in Seq(Tags) /\ Len(TagOrder) \in Nat BY EmptyShape, MenuAssumption
  <2>3. tagAt \in 1 .. Len(TagOrder) /\ tagAt \in Nat
    BY <2>1, <2>2 DEF Inv, TypeOK
  <2> QED BY <2>1, <2>2, <2>3, Zenon DEF Inv, TypeOK
<1>2. t \in Tags BY <1>1
<1>3. v \in InRam(t) BY <1>1, <1>2
<1>4. /\ pc = "tagging" /\ tagAt' = tagAt + 1
      /\ list' = IF ~Available(t) THEN list ELSE Written(list, t, v)
      /\ UNCHANGED <<pc, flashVars, ids, settings, com2, key, lineStart, pressed>>
  BY DEF UpdateTag, Written
<1>5. tagAt' \in 1 .. Len(TagOrder) + 1 BY <1>1, <1>4
<1>6. \A j \in 1 .. tagAt' - 1 : j = tagAt \/ j \in 1 .. tagAt - 1 BY <1>1, <1>4
<1>7. \A j \in 1 .. tagAt - 1 :
         Available(TagOrder[j]) => SaysSetting(list, TagOrder[j])
  BY <1>4 DEF Inv
<1>8. \A j \in 1 .. tagAt - 1 : TagOrder[j] \in Tags BY <1>1
<1> HIDE DEF t, v
<1>9. /\ list' \in Seq(Row) /\ Len(list') <= MaxLines
      /\ DOMAIN list \subseteq DOMAIN list'
      /\ \A i \in DOMAIN list : list'[i].name = list[i].name
      /\ \A i \in DOMAIN list' : i \in DOMAIN list \/ ~IsDevice(list'[i])
      /\ Shape(list')
      /\ ~torn => WellFormed(list')
      /\ Available(t) => Says(list', t, InChars(t, v))
      /\ \A u \in Tags : (u = t => ~Available(t)) =>
            \A w : Says(list, u, w) => Says(list', u, w)
  <2>1. CASE ~Available(t)
    <3>1. list' = list BY <1>4, <2>1
    <3> QED BY <1>1, <2>1, <3>1
  <2>2. CASE Available(t)
    <3>1. PICK m : m = list' OBVIOUS
    <3>2. m = Written(list, t, v) BY <1>4, <2>2, <3>1
    <3>3. /\ m \in Seq(Row) /\ Len(m) <= MaxLines /\ DOMAIN list \subseteq DOMAIN m
          /\ \A i \in DOMAIN list : m[i].name = list[i].name
          /\ \A i \in DOMAIN m : i \in DOMAIN list \/ ~IsDevice(m[i])
          /\ Shape(m)
          /\ WellFormed(list) => WellFormed(m)
          /\ Says(m, t, InChars(t, v))
          /\ \A u \in Tags \ {t} : \A w : Says(list, u, w) => Says(m, u, w)
      BY <1>1, <1>2, <1>3, <3>2, TagWritten
    <3> QED BY <1>1, <2>2, <3>1, <3>3
  <2> QED BY <2>1, <2>2
<1>10. Lettered(ids', list')
  <2>1. \A i \in DOMAIN list : IsDevice(list'[i]) <=> IsDevice(list[i])
    BY <1>9 DEF IsDevice
  <2> QED BY <1>1, <1>4, <1>9, <2>1 DEF Lettered
<1>11. UNCHANGED <<region, file, saved, stored, torn, ids, settings, com2>>
  BY <1>4 DEF flashVars
<1>12. \A j \in 1 .. tagAt' - 1 :
          Available(TagOrder[j])' => SaysSetting(list, TagOrder[j])'
  <2> SUFFICES ASSUME NEW j \in 1 .. tagAt' - 1, Available(TagOrder[j])'
               PROVE  Says(list', TagOrder[j], InChars(TagOrder[j], settings[TagOrder[j]]))
    BY <1>11 DEF SaysSetting, Says, InChars
  <2>1. Available(TagOrder[j]) BY <1>11 DEF Available
  <2>2. CASE TagOrder[j] = t BY <1>9, <2>1, <2>2 DEF v
  <2>3. CASE TagOrder[j] # t
    <3>1. j \in 1 .. tagAt - 1 BY <1>6, <2>3 DEF t
    <3> QED BY <1>7, <1>8, <1>9, <2>1, <2>3, <3>1 DEF SaysSetting
  <2> QED BY <2>2, <2>3
<1>13. TypeOK' BY <1>4, <1>5, <1>9, <1>11 DEF Inv, TypeOK
<1> QED BY <1>4, <1>9, <1>10, <1>11, <1>12, <1>13 DEF Inv

\* RESET leaves the flash to decide.
LEMMA ResetInv ==
    ASSUME Reset,
           region' \in {"file", "zeroed", "missing"},
           file' \in Seq(Row), Len(file') <= MaxLines, Shape(file'),
           ~torn' => WellFormed(file'),
           saved' \in BOOLEAN, torn' \in BOOLEAN, DOMAIN stored' \subseteq Tags,
           \A t \in DOMAIN stored' : stored'[t] \in InRam(t),
           "pxen" \in DOMAIN stored' => PxeAvailable,
           saved' /\ region' = "file" =>
               \A t \in DOMAIN stored' \cap Names(file') :
                   file'[FirstRow(file', t)].val = InChars(t, stored'[t])
    PROVE  Inv'
<1>1. /\ list' \in Seq(Row) /\ Len(list') <= MaxLines /\ pressed' \in Seq(Row)
      /\ lineStart' \in 0..MaxLines /\ tagAt' \in 1 .. Len(TagOrder) + 1
      /\ Shape(list')
  BY EmptyShape DEF Reset
<1>2. TypeOK' BY <1>1, EmptyShape DEF TypeOK, Reset
<1> QED BY <1>1, <1>2 DEF Inv, Reset

\* At the end of update_tags every setting of the board has been written, or
\* had no room.
LEMMA TaggedSays ==
    ASSUME Inv, TagsUpdated, NEW t \in Tags, Available(t)
    PROVE  SaysSetting(list, t)
<1>1. PICK j \in DOMAIN TagOrder : TagOrder[j] = t BY MenuAssumption
<1>2. tagAt = Len(TagOrder) + 1 /\ DOMAIN TagOrder = 1..Len(TagOrder)
  BY MenuAssumption DEF Inv, TypeOK, TagsUpdated
<1>3. j \in 1 .. tagAt - 1 BY <1>1, <1>2, EmptyShape
<1> QED BY <1>1, <1>3 DEF Inv, TagsUpdated

\* A save that went through stores the whole list, and the settings.
LEMMA FileSavedInv ==
    ASSUME Inv, FileSaved
    PROVE  Inv'
<1>1. /\ \/ file' = file /\ region' = "missing" /\ region = "missing"
         \/ file' = list /\ region' = "file"
      /\ saved' = TRUE /\ torn' = torn /\ Reset /\ TagsUpdated
      /\ stored' = [t \in {u \in Tags : Available(u)} |-> settings[t]]
  BY DEF FileSaved
<1>2. /\ file' \in Seq(Row) /\ Len(file') <= MaxLines /\ Shape(file')
      /\ ~torn' => WellFormed(file')
      /\ region' \in {"file", "zeroed", "missing"}
      /\ saved' \in BOOLEAN /\ torn' \in BOOLEAN
  BY <1>1 DEF Inv, TypeOK, TagsUpdated
<1>3. /\ DOMAIN stored' \subseteq Tags
      /\ \A t \in DOMAIN stored' : Available(t) /\ stored'[t] = settings[t]
  BY <1>1
<1>4. \A t \in DOMAIN stored' : stored'[t] \in InRam(t)
  BY <1>3 DEF Inv, TypeOK
<1>5. "pxen" \in DOMAIN stored' => PxeAvailable BY <1>3 DEF Available
<1>6. region' = "file" => \A t \in DOMAIN stored' \cap Names(file') :
                             file'[FirstRow(file', t)].val = InChars(t, stored'[t])
  BY <1>1, <1>3, TaggedSays DEF SaysSetting, Says
<1> QED BY <1>1, <1>2, <1>3, <1>4, <1>5, <1>6, ResetInv

\* A save that was refused, or none, leaves the flash as it was.
LEMMA NoSaveInv ==
    ASSUME Inv, SaveRefused \/ ExitWithoutSave
    PROVE  Inv'
<1>1. Reset /\ UNCHANGED <<region, file, saved, stored, torn>>
  BY DEF SaveRefused, ExitWithoutSave, flashVars
<1>2. file' = file /\ region' = region /\ stored' = stored /\ saved' = saved /\ torn' = torn
  BY <1>1
<1>3. /\ region' \in {"file", "zeroed", "missing"}
      /\ file' \in Seq(Row) /\ Len(file') <= MaxLines /\ Shape(file')
      /\ ~torn' => WellFormed(file')
      /\ saved' \in BOOLEAN /\ torn' \in BOOLEAN
  BY <1>2 DEF Inv, TypeOK
<1>4. /\ DOMAIN stored' \subseteq Tags
      /\ \A t \in DOMAIN stored' : stored'[t] \in InRam(t)
      /\ "pxen" \in DOMAIN stored' => PxeAvailable
  BY <1>2, Zenon DEF Inv, TypeOK
<1>5. saved' /\ region' = "file" =>
         \A t \in DOMAIN stored' \cap Names(file') :
             file'[FirstRow(file', t)].val = InChars(t, stored'[t])
  BY <1>2, Zenon DEF Inv
<1> QED BY <1>1, <1>3, <1>4, <1>5, ResetInv

\* What counts of a row without its end is a setting.
LEMMA RemainsTypes ==
    ASSUME NEW r \in Row, r.val \in InRow(r.name), NEW row \in Remains(r)
    PROVE  row \in Row /\ ~IsDevice(row) /\ row.val \in InRow(row.name)
<1>1. ~IsDevice(r) /\ row.name = r.name /\ row.cut = TRUE
      /\ row = [name |-> row.name, val |-> row.val, cut |-> row.cut]
  BY DEF Remains
<1>2. PICK n, w, x, y : n = r.name /\ w = Width(n) /\ x = r.val /\ y = row.val OBVIOUS
<1>3. x \in InRow(n) BY ONLY <1>2, r.val \in InRow(r.name)
<1>4. y \in InRow(n)
  <2>1. CASE n = "watchdog"
    <3>1. InRow(n) = 0..w - 1 BY ONLY <1>2, <2>1, Zenon DEF InRow, InRam
    <3>2. PICK q \in {1, 16, 256, 4096} : y = x \div q \/ y = x \/ y = 0
      BY <1>2, <2>1 DEF Remains
    <3>3. w \in Nat BY ONLY <1>2, Widths
    <3>4. x \in 0..w - 1 BY ONLY <1>3, <3>1
    <3>5. x \div q \in 0..w - 1 /\ 0 \in 0..w - 1 BY ONLY <3>2, <3>3, <3>4
    <3>6. y \in 0..w - 1 BY ONLY <3>2, <3>4, <3>5
    <3> QED BY ONLY <3>1, <3>6
  <2>2. CASE n # "watchdog"
    <3>1. y \in {x, 0} BY <1>2, <2>2 DEF Remains
    <3> QED BY ONLY <1>3, <3>1, RowTypes
  <2> QED BY ONLY <2>1, <2>2
<1>5. y \in Nat BY ONLY <1>4, RowTypes
<1>6. row.val \in Nat /\ row.val \in InRow(r.name) BY ONLY <1>2, <1>4, <1>5
<1>7. r.name \in Devices \cup Tags BY DEF Row
<1> QED BY <1>1, <1>6, <1>7 DEF Row, IsDevice

\* A setting behind a list keeps the shape.
LEMMA TailShape ==
    ASSUME NEW l \in Seq(Row), Shape(l), NEW row \in Row, ~IsDevice(row),
           row.val \in InRow(row.name)
    PROVE  Shape(Append(l, row))
<1> DEFINE m == Append(l, row)
           n == Len(l) + 1
<1>1. /\ DOMAIN m = 1..n /\ DOMAIN l = 1..Len(l) /\ Len(l) \in Nat
      /\ m[n] = row
      /\ \A i \in DOMAIN l : m[i] = l[i]
  OBVIOUS
<1>2. \A i \in DOMAIN m : i = n \/ i \in DOMAIN l BY <1>1
<1>3. \A i, j \in DOMAIN m : j \in DOMAIN l /\ i < j => i \in DOMAIN l BY <1>1
<1> HIDE DEF m, n
<1>4. \A i, j \in DOMAIN m : IsDevice(m[j]) /\ i < j => IsDevice(m[i])
  BY <1>1, <1>2, <1>3 DEF Shape
<1>5. \A i \in DOMAIN m : /\ m[i].val \in InRow(m[i].name)
                          /\ IsDevice(m[i]) => i <= DeviceCount /\ ~m[i].cut
  BY <1>1, <1>2 DEF Shape
<1> QED BY <1>4, <1>5 DEF Shape, m

\* One that power cut short leaves a beginning of the list.
LEMMA CutShortInv ==
    ASSUME Inv, SaveCutShort
    PROVE  Inv'
<1>1. list \in Seq(Row) /\ Len(list) <= MaxLines /\ Shape(list)
  BY DEF Inv, TypeOK
<1>2. PICK n \in 0 .. Len(list) - 1 :
         \/ file' = SubSeq(list, 1, n)
         \/ \E row \in Remains(list[n + 1]) : file' = Append(SubSeq(list, 1, n), row)
  BY DEF SaveCutShort
<1>3. n \in 0 .. Len(list) /\ n + 1 \in 1 .. Len(list) /\ n + 1 <= MaxLines
  BY <1>1, <1>2, ListAssumption
<1>4. file' \in Seq(Row) /\ Len(file') <= MaxLines /\ Shape(file')
  <2> DEFINE p == SubSeq(list, 1, n)
  <2>1. p \in Seq(Row) /\ Len(p) = n /\ Shape(p) BY <1>1, <1>3, PrefixShape
  <2> HIDE DEF p
  <2>2. CASE file' = p BY <1>3, <2>1, <2>2, ListAssumption
  <2>3. ASSUME NEW row \in Remains(list[n + 1]), file' = Append(p, row)
        PROVE  file' \in Seq(Row) /\ Len(file') <= MaxLines /\ Shape(file')
    <3>1. list[n + 1] \in Row /\ list[n + 1].val \in InRow(list[n + 1].name)
      BY <1>1, <1>3 DEF Shape
    <3>2. row \in Row /\ ~IsDevice(row) /\ row.val \in InRow(row.name)
      BY <2>3, <3>1, RemainsTypes
    <3>3. file' \in Seq(Row) /\ Len(file') = n + 1 BY <2>1, <2>3, <3>2
    <3> QED BY <1>3, <2>1, <2>3, <3>2, <3>3, TailShape
  <2> QED BY <1>2, <2>2, <2>3 DEF p
<1> QED BY <1>4, EmptyShape, ResetInv DEF SaveCutShort

\* Every step keeps the invariant.
LEMMA Inductive == Inv /\ [Next]_vars => Inv'
<1> SUFFICES ASSUME Inv, [Next]_vars PROVE Inv' OBVIOUS
<1>1. CASE Boot BY <1>1, BootInv
<1>2. CASE \E t \in Toggles : ToggleSetting(t) BY <1>2, ToggleInv
<1>3. CASE \E n \in TypedTimeouts : SetTimeout(n) BY <1>3, TimeoutInv
<1>4. CASE RestoreDefaults BY <1>4, RestoreInv
<1>5. CASE \E k \in Letters : PressLetter(k) BY <1>5, PressInv
<1>6. CASE MoveOne BY <1>6, MoveInv
<1>7. CASE MoveEnds BY <1>7, MoveEndsInv
<1>8. CASE PressSave BY <1>8, PressSaveInv
<1>9. CASE UpdateTag BY <1>9, UpdateTagInv
<1>10. CASE FileSaved BY <1>10, FileSavedInv
<1>11. CASE SaveRefused \/ ExitWithoutSave BY <1>11, NoSaveInv
<1>12. CASE SaveCutShort BY <1>12, CutShortInv
<1>13. CASE UNCHANGED vars
  BY <1>13 DEF vars, flashVars, menuVars, Inv, TypeOK, Lettered, Says, SaysSetting,
               Available
<1> QED
  BY <1>1, <1>2, <1>3, <1>4, <1>5, <1>6, <1>7, <1>8, <1>9, <1>10, <1>11,
     <1>12, <1>13 DEF Next

-----------------------------------------------------------------------------
(* The theorems.                                                           *)

\* The invariant holds in every session, however many saves, cuts and boots
\* came before.
LEMMA InvHolds == Spec => []Inv
BY InitInv, Inductive, PTL DEF Spec

\* The list of rows, the letters and the settings keep their ranges: no list
\* outgrows MAX_DEVICES rows and no timeout 16 bits.
THEOREM TypeCorrect == Spec => []TypeOK
<1>1. Inv => TypeOK BY DEF Inv
<1> QED BY <1>1, InvHolds, PTL

\* No device is lost or doubled by any sequence of moves, restores, saves and
\* boots, on any board whose files are whole, unless a save was cut short.
THEOREM DevicesAreKept == Spec => []DevicesKept
<1>1. ASSUME Inv, pc # "boot", ~torn
      PROVE  /\ {list[i].name : i \in DeviceRows(list)} = Devices
             /\ \A i, j \in DeviceRows(list) :
                   list[i].name = list[j].name => i = j
  <2>1. WellFormed(list) /\ list \in Seq(Row) BY <1>1 DEF Inv, TypeOK
  <2>2. DeviceRows(list) = 1..DeviceCount
    <3>1. DeviceCount \in Nat /\ DeviceCount <= Len(list)
          /\ DOMAIN list = 1..Len(list) /\ Len(list) \in Nat
      BY <2>1, CountType DEF WellFormed
    <3>2. \A i \in DOMAIN list : IsDevice(list[i]) <=> i <= DeviceCount
      BY <2>1 DEF WellFormed
    <3> QED BY <3>1, <3>2 DEF DeviceRows
  <2> QED BY <2>1, <2>2 DEF WellFormed
<1>2. Inv => DevicesKept BY <1>1 DEF DevicesKept
<1> QED BY <1>2, InvHolds, PTL

\* Devices stay in front of the settings, after a save that was cut short too.
THEOREM DevicesStayFirst == Spec => []DevicesFirst
<1>1. Inv => DevicesFirst BY DEF Inv, Shape, DevicesFirst
<1> QED BY <1>1, InvHolds, PTL

\* Every row has the letter of its device and no other row has a letter, so
\* that a letter key moves what the menu shows with that letter.
THEOREM IdsMatch == Spec => []IdsMatchRows
<1>1. ASSUME Inv, pc # "boot", NEW i \in DOMAIN list
      PROVE  ids[i] = IF IsDevice(list[i]) THEN Letter[list[i].name] ELSE NoLetter
  <2>1. i \in 1..MaxLines BY <1>1, ListAssumption DEF Inv, TypeOK
  <2> QED BY <1>1, <2>1 DEF Inv, Lettered
<1>2. Inv => IdsMatchRows BY <1>1 DEF IdsMatchRows
<1> QED BY <1>2, InvHolds, PTL

\* The list that save_flash gets says what the menu says, for every setting of
\* the board there is a row for or room for one.
THEOREM SavedListsHaveSettings == Spec => []SavedListHasSettings
<1>1. ASSUME Inv, TagsUpdated, NEW t \in Tags, Available(t), settings[t] \in InRow(t)
      PROVE  IF t \in Names(list) THEN list[FirstRow(list, t)].val = settings[t]
                                  ELSE Len(list) = MaxLines
  <2>1. InChars(t, settings[t]) = settings[t]
    BY <1>1, CharsTypes DEF Inv, TypeOK
  <2> QED BY <1>1, <2>1, TaggedSays DEF SaysSetting, Says
<1>2. Inv => SavedListHasSettings BY <1>1 DEF SavedListHasSettings
<1> QED BY <1>2, InvHolds, PTL

\* What strstr finds in front of the NUL of a cut row, it would find in the
\* whole file.
LEMMA SearchedFirst ==
    ASSUME NEW l \in Seq(Row), NEW t \in Names(Searched(l))
    PROVE  /\ t \in Names(l)
           /\ Searched(l)[FirstRow(Searched(l), t)] = l[FirstRow(l, t)]
<1> DEFINE n == IF CutAt(l) <= Len(l) THEN CutAt(l) ELSE Len(l)
           p == SubSeq(l, 1, n)
<1>1. n \in 0..Len(l) BY CutFound
<1>2. /\ p \in Seq(Row) /\ Len(p) = n /\ DOMAIN p = 1..n
      /\ \A i \in 1..n : p[i] = l[i] /\ i \in DOMAIN l
  BY <1>1, PrefixShape
<1>3. p = Searched(l) BY DEF Searched
<1> HIDE DEF n, p
<1> DEFINE f == FirstRow(p, t)
<1>4. /\ f \in 1..n /\ p[f].name = t
      /\ \A j \in 1..n : p[j].name = t => f <= j
  BY <1>2, <1>3, FirstRowFound
<1>5. f \in DOMAIN l /\ l[f].name = t /\ p[f] = l[f] BY <1>2, <1>4
<1> HIDE DEF f
<1>6. \A j \in DOMAIN l : l[j].name = t => f <= j
  <2> SUFFICES ASSUME NEW j \in DOMAIN l, l[j].name = t PROVE f <= j OBVIOUS
  <2>1. CASE j \in 1..n BY <1>2, <1>4, <2>1
  <2>2. CASE j \notin 1..n BY <1>1, <1>4, <2>2
  <2> QED BY <2>1, <2>2
<1>7. FirstRow(l, t) = f BY <1>5, <1>6, FirstRowIs
<1>8. t \in Names(l) BY <1>5 DEF Names
<1> QED BY <1>3, <1>5, <1>7, <1>8 DEF f

\* What a completed save has written in front of the watchdog's row comes back
\* in the next session, on every board.
THEOREM ReadableSettingsComeBack == Spec => ReadableSettingsSurvive
<1>1. ASSUME Inv, Boot, region = "file", saved,
             NEW t \in Names(Searched(file)) \cap DOMAIN stored, stored[t] \in InRow(t)
      PROVE  settings'[t] = stored[t]
  <2>1. file \in Seq(Row) /\ t \in Tags BY <1>1 DEF Inv, TypeOK
  <2>2. t = "pxen" => PxeAvailable BY <1>1 DEF Inv
  <2>3. PICK low \in [Tags -> Garbage] :
           settings' = [u \in Tags |-> ReadSetting(u, Searched(file), low[u])]
    BY <1>1 DEF Boot, Source
  <2>4. settings'[t] = Searched(file)[FirstRow(Searched(file), t)].val
    BY <1>1, <2>1, <2>2, <2>3 DEF ReadSetting
  <2>5. t \in Names(file) /\ settings'[t] = file[FirstRow(file, t)].val
    BY <1>1, <2>1, <2>4, SearchedFirst
  <2>6. InChars(t, stored[t]) = stored[t]
    BY <1>1, CharsTypes DEF Inv, TypeOK
  <2> QED BY <1>1, <2>5, <2>6 DEF Inv
<1>2. Inv /\ [Next]_vars =>
         [Boot /\ region = "file" /\ saved =>
            \A t \in Names(Searched(file)) \cap DOMAIN stored :
               stored[t] \in InRow(t) => settings'[t] = stored[t]]_vars
  BY <1>1
<1> QED BY <1>2, InvHolds, PTL DEF Spec, ReadableSettingsSurvive

-----------------------------------------------------------------------------
(* The group move.  C are the rows of the letter; after k rounds those of   *)
(* them that have fewer than k others behind them are on top.               *)

Count(C, i) == Cardinality({j \in C : j > i})

\* Where row i is after k rounds.
Place(C, i, k) ==
    IF i \in C THEN IF Count(C, i) < k THEN k - Count(C, i) ELSE i + k
    ELSE i + (IF Count(C, i) < k THEN Count(C, i) ELSE k)

\* How the number of chosen rows behind a row changes on the way up.
LEMMA CountApart ==
    ASSUME NEW n \in Nat, NEW C \in SUBSET (1..n), NEW i \in 0..n, NEW j \in i..n
    PROVE  /\ Count(C, i) \in Nat /\ Count(C, j) \in Nat
           /\ Count(C, j) <= Count(C, i)
           /\ Count(C, i) <= Count(C, j) + (j - i)
           /\ j \in C /\ i < j => Count(C, j) < Count(C, i)
           /\ j \notin C /\ i < j => Count(C, i) < Count(C, j) + (j - i)
<1> DEFINE D == {h \in C : h > i /\ h <= j}
           E == {h \in C : h > j}
           F == {h \in C : h > i}
<1>1. i \in Nat /\ j \in Nat /\ i <= j /\ j <= n OBVIOUS
<1>2. \A h \in C : h \in Nat OBVIOUS
<1>3. IsFiniteSet(C)
  <2>1. IsFiniteSet(1..n) BY FS_Interval
  <2> QED BY <2>1, FS_Subset
<1>4. IsFiniteSet(D) /\ IsFiniteSet(E) /\ IsFiniteSet(F)
  <2>1. D \subseteq C /\ E \subseteq C /\ F \subseteq C OBVIOUS
  <2> QED BY <1>3, <2>1, FS_Subset
<1>5. F = D \cup E /\ D \cap E = {}
  <2>1. \A h \in Nat : /\ h > i <=> (h > i /\ h <= j) \/ h > j
                       /\ ~((h > i /\ h <= j) /\ h > j)
    BY <1>1
  <2>2. \A h \in C : /\ h > i <=> (h > i /\ h <= j) \/ h > j
                     /\ ~((h > i /\ h <= j) /\ h > j)
    BY <1>2, <2>1
  <2> QED BY <2>2, Zenon
<1>6. D \subseteq i + 1 .. j /\ (j \notin C => D \subseteq i + 1 .. j - 1)
  <2>1. ASSUME NEW h \in D
        PROVE  h \in i + 1 .. j /\ (j \notin C => h \in i + 1 .. j - 1)
    <3>1. h \in C /\ h \in Nat /\ h > i /\ h <= j BY <1>2
    <3> QED BY <1>1, <3>1
  <2> QED BY <2>1
<1>7. j \in C /\ i < j => D # {} BY <1>1
<1> HIDE DEF D, E, F
<1>8. /\ Cardinality(D) \in Nat /\ Cardinality(E) \in Nat /\ Cardinality(F) \in Nat
      /\ Cardinality({}) = 0
  BY <1>4, FS_CardinalityType, FS_EmptySet
<1>9. Cardinality(F) = Cardinality(D) + Cardinality(E)
  <2>1. Cardinality(D \cup E) = Cardinality(D) + Cardinality(E) - Cardinality(D \cap E)
    BY <1>4, FS_Union
  <2>2. Cardinality(D \cup E) = Cardinality(F) /\ Cardinality(D \cap E) = 0
    BY <1>5, <1>8
  <2> QED BY <1>8, <2>1, <2>2
<1>10. Cardinality(D) <= j - i
  <2>1. IsFiniteSet(i + 1 .. j) /\ Cardinality(i + 1 .. j) = j - i
    <3>1. i + 1 \in Int /\ j \in Int BY <1>1
    <3>2. IsFiniteSet(i + 1 .. j)
          /\ Cardinality(i + 1 .. j) = IF i + 1 > j THEN 0 ELSE j - (i + 1) + 1
      BY <3>1, FS_Interval
    <3> QED BY <1>1, <3>2
  <2>2. Cardinality(D) <= Cardinality(i + 1 .. j) BY <1>6, <2>1, FS_Subset
  <2> QED BY <2>1, <2>2
<1>11. ASSUME j \notin C, i < j PROVE Cardinality(D) < j - i
  <2>1. IsFiniteSet(i + 1 .. j - 1) /\ Cardinality(i + 1 .. j - 1) = j - i - 1
    <3>1. i + 1 \in Int /\ j - 1 \in Int BY <1>1
    <3>2. IsFiniteSet(i + 1 .. j - 1)
          /\ Cardinality(i + 1 .. j - 1)
                = IF i + 1 > j - 1 THEN 0 ELSE (j - 1) - (i + 1) + 1
      BY <3>1, FS_Interval
    <3> QED BY <1>1, <1>11, <3>2
  <2>2. Cardinality(D) <= Cardinality(i + 1 .. j - 1)
    BY <1>6, <1>11, <2>1, FS_Subset
  <2> QED BY <1>1, <1>8, <2>1, <2>2
<1>12. ASSUME j \in C, i < j PROVE Cardinality(D) > 0
  <2>1. Cardinality(D) # 0 BY <1>4, <1>7, <1>12, FS_EmptySet
  <2> QED BY <1>8, <2>1
<1>13. Count(C, i) = Cardinality(F) /\ Count(C, j) = Cardinality(E)
  BY DEF Count, E, F
<1> QED BY <1>1, <1>8, <1>9, <1>10, <1>11, <1>12, <1>13

\* If there is a chosen row behind row i, the next one has one less behind it.
LEMMA NextChosen ==
    ASSUME NEW n \in Nat, NEW C \in SUBSET (1..n), NEW i \in 0..n, Count(C, i) > 0
    PROVE  \E j \in C : j > i /\ Count(C, j) = Count(C, i) - 1
<1> DEFINE F == {h \in C : h > i}
<1>1. IsFiniteSet(F)
  <2>1. IsFiniteSet(1..n) BY FS_Interval
  <2>2. F \subseteq 1..n OBVIOUS
  <2> QED BY <2>1, <2>2, FS_Subset
<1>2. F # {}
  <2>1. Cardinality({}) = 0 BY FS_EmptySet
  <2> QED BY <2>1 DEF Count
<1>3. \A h \in C : h \in Nat OBVIOUS
<1>4. PICK j \in F : \A h \in F : j <= h
  <2>1. F \subseteq Nat BY <1>3
  <2> QED BY <1>2, <2>1, LeastNatural
<1>5. {h \in C : h > j} = F \ {j}
  <2>1. j \in Nat /\ i \in Nat /\ j > i BY <1>3, <1>4
  <2>2. ASSUME NEW h \in C PROVE h > j <=> h > i /\ h # j
    <3>1. h > i => j <= h BY <1>4
    <3> QED BY <1>3, <2>1, <3>1
  <2> QED BY <2>2
<1>6. Cardinality(F \ {j}) = Cardinality(F) - 1 BY <1>1, <1>4, FS_RemoveElement
<1> QED BY <1>4, <1>5, <1>6 DEF Count

\* One round more: the chosen row with k others behind it comes to the top,
\* and the rows above it go down by one.
LEMMA PlaceMoves ==
    ASSUME NEW n \in Nat, NEW C \in SUBSET (1..n), NEW k \in Nat,
           NEW star \in C, Count(C, star) = k, NEW i \in 1..n
    PROVE  /\ i = star => Place(C, i, k) = star + k /\ Place(C, i, k + 1) = 1
           /\ i # star /\ Place(C, i, k) < star + k =>
                 Place(C, i, k + 1) = Place(C, i, k) + 1
           /\ i # star /\ Place(C, i, k) >= star + k =>
                 Place(C, i, k) > star + k /\ Place(C, i, k + 1) = Place(C, i, k)
           /\ Place(C, i, k) \in Nat
<1>1. star \in 1..n /\ star \in Nat /\ i \in Nat OBVIOUS
<1>2. Count(C, i) \in Nat
  <2>1. i \in 0..n /\ i \in i..n OBVIOUS
  <2> QED BY <2>1, CountApart
<1>3. CASE i = star BY <1>1, <1>2, <1>3 DEF Place
<1>4. CASE i < star
  <2>1. i \in 0..n /\ star \in i..n BY <1>1, <1>4
  <2>2. Count(C, i) > k BY <1>1, <1>4, <2>1, CountApart
  <2>3. /\ Place(C, i, k) = i + k
        /\ Place(C, i, k + 1) = i + k + 1
    BY <1>1, <1>2, <2>2 DEF Place
  <2> QED BY <1>1, <1>4, <2>3
<1>5. CASE i > star
  <2>1. star \in 0..n /\ i \in star..n BY <1>1, <1>5
  <2>2. CASE i \in C
    <3>1. Count(C, i) < k BY <1>1, <1>5, <2>1, <2>2, CountApart
    <3>2. Place(C, i, k) = k - Count(C, i) /\ Place(C, i, k + 1) = k + 1 - Count(C, i)
      BY <1>1, <1>2, <2>2, <3>1 DEF Place
    <3> QED BY <1>1, <1>2, <1>5, <3>1, <3>2
  <2>3. CASE i \notin C
    <3>1. Count(C, i) <= k /\ k < Count(C, i) + (i - star)
      BY <1>1, <1>5, <2>1, <2>3, CountApart
    <3>2. Place(C, i, k) = i + Count(C, i) /\ Place(C, i, k + 1) = i + Count(C, i)
      BY <1>1, <1>2, <2>3, <3>1 DEF Place
    <3> QED BY <1>1, <1>2, <1>5, <3>1, <3>2
  <2> QED BY <2>2, <2>3
<1> QED BY <1>1, <1>3, <1>4, <1>5

\* The loop of a letter key, between two rounds.
MoveKnown ==
    pc = "moving" =>
        /\ Len(list) = Len(pressed)
        /\ lineStart <= Count(Chosen, 0)
        /\ \A i \in DOMAIN pressed :
              /\ Place(Chosen, i, lineStart) \in DOMAIN list
              /\ list[Place(Chosen, i, lineStart)] = pressed[i]
        /\ \A p \in DOMAIN list :
              \E i \in DOMAIN pressed : Place(Chosen, i, lineStart) = p

\* The rows of the letter are rows of the list, and in the menu's letters the
\* same.
LEMMA ChosenRows ==
    ASSUME Inv, pc = "moving"
    PROVE  /\ Len(pressed) \in Nat /\ Len(list) \in Nat
           /\ DOMAIN pressed = 1..Len(pressed) /\ DOMAIN list = 1..Len(list)
           /\ Chosen \in SUBSET (1..Len(pressed))
           /\ lineStart \in Nat
           /\ \A p \in DOMAIN list : OfKey(list[p]) <=> ids[p] = key
<1>1. /\ list \in Seq(Row) /\ Len(list) <= MaxLines /\ pressed \in Seq(Row)
      /\ Lettered(ids, list) /\ key \in Letters /\ MaxLines \in Nat
      /\ lineStart \in Nat
  BY ListAssumption DEF Inv, TypeOK
<1>2. \A p \in DOMAIN list : p \in 1..MaxLines BY <1>1
<1>3. \A p \in DOMAIN list : OfKey(list[p]) <=> ids[p] = key
  BY <1>1, <1>2, ListAssumption DEF Lettered, OfKey
<1> QED BY <1>1, <1>3 DEF Chosen

\* A row the search could have found is not behind the one it has.
LEMMA LineIsLast ==
    ASSUME NEW s, NEW start \in Nat, NEW end \in Nat, NEW k,
           NEW h \in start .. end - 1, s[h + 1] = k
    PROVE  h <= LineNumber(s, start, end, k)
<1> DEFINE hits == {i \in start .. end - 1 : s[i + 1] = k}
<1>1. h \in hits OBVIOUS
<1>2. hits # {} /\ hits \subseteq 0..end BY <1>1
<1>3. \E i \in hits : \A j \in hits : j <= i BY <1>2, GreatestBelow
<1>4. LineNumber(s, start, end, k) = CHOOSE i \in hits : \A j \in hits : j <= i
  BY <1>2 DEF LineNumber
<1>5. \A j \in hits : j <= LineNumber(s, start, end, k) BY <1>3, <1>4
<1> QED BY <1>1, <1>5

\* The key meets the list as it is.
LEMMA PressPlaces ==
    ASSUME Inv, NEW k \in Letters, PressLetter(k)
    PROVE  MoveKnown'
<1>1. list \in Seq(Row) BY DEF Inv, TypeOK
<1>2. list' = list /\ pressed' = list /\ lineStart' = 0 BY DEF PressLetter
<1>3. DOMAIN list = 1..Len(list) /\ Len(list) \in Nat BY <1>1
<1> DEFINE C == Chosen'
<1>4. C \in SUBSET (1..Len(list)) BY <1>2, <1>3 DEF Chosen
<1> HIDE DEF C
<1>5. \A i \in 0..Len(list) : Count(C, i) \in Nat
  <2> SUFFICES ASSUME NEW i \in 0..Len(list) PROVE Count(C, i) \in Nat
    OBVIOUS
  <2>1. i \in i..Len(list) BY <1>3
  <2> QED BY <1>3, <1>4, <2>1, CountApart
<1>6. \A i \in 1..Len(list) : Place(C, i, 0) = i
  BY <1>3, <1>5 DEF Place
<1>7. 0 <= Count(C, 0) BY <1>3, <1>5
<1> QED BY <1>2, <1>3, <1>6, <1>7 DEF MoveKnown, C

\* A round brings up the last row of the letter that has not been moved, which
\* has as many of its letter behind it as rounds are over.
LEMMA MovePlaces ==
    ASSUME Inv, MoveKnown, MoveOne
    PROVE  MoveKnown'
<1> DEFINE n == Len(pressed)
           C == Chosen
           k == lineStart
           line == LineNumber(ids, lineStart, Len(list), key)
<1>1. /\ pc = "moving" /\ line > k /\ list' = ToTop(list, line)
      /\ lineStart' = k + 1
      /\ UNCHANGED <<pc, key, pressed>>
  BY DEF MoveOne
<1>2. /\ n \in Nat /\ C \in SUBSET (1..n) /\ k \in Nat
      /\ DOMAIN pressed = 1..n /\ DOMAIN list = 1..n /\ Len(list) = n
      /\ \A p \in 1..n : OfKey(list[p]) <=> ids[p] = key
  BY <1>1, ChosenRows DEF MoveKnown
<1>3. /\ k <= Count(C, 0)
      /\ \A i \in 1..n : Place(C, i, k) \in 1..n /\ list[Place(C, i, k)] = pressed[i]
      /\ \A p \in 1..n : \E i \in 1..n : Place(C, i, k) = p
  BY <1>1, <1>2 DEF MoveKnown
<1>4. C' = C BY <1>1 DEF Chosen, OfKey
<1>5. \A i \in 1..n : i \in C <=> OfKey(pressed[i]) BY <1>2 DEF Chosen
<1>6. line # 0 BY <1>1, <1>2
<1>7. line \in k .. n - 1 /\ ids[line + 1] = key BY <1>2, <1>6, LineFound
<1>8. \A h \in k .. n - 1 : ids[h + 1] = key => h <= line
  BY <1>2, LineIsLast
<1> HIDE DEF n, C, k, line
<1>9. \A i \in 0..n : Count(C, i) \in Nat
  <2> SUFFICES ASSUME NEW i \in 0..n PROVE Count(C, i) \in Nat
    OBVIOUS
  <2>1. i \in i..n BY <1>2
  <2> QED BY <1>2, <2>1, CountApart
<1>10. PICK star \in 1..n : Place(C, star, k) = line + 1
  <2>1. line + 1 \in 1..n BY <1>2, <1>7
  <2> QED BY <1>3, <2>1
<1>11. star \in C BY <1>2, <1>3, <1>5, <1>7, <1>10
<1>12. Count(C, star) >= k
  <2>1. Count(C, star) \in Nat BY <1>9
  <2>2. Count(C, star) < k => Place(C, star, k) <= k
    BY <1>2, <1>11, <2>1 DEF Place
  <2> QED BY <1>1, <1>2, <1>7, <1>10, <2>1, <2>2
<1>13. line + 1 = star + k
  BY <1>2, <1>9, <1>10, <1>11, <1>12 DEF Place
<1>14. Count(C, star) = k
  <2> SUFFICES ASSUME Count(C, star) > k PROVE FALSE
    BY <1>2, <1>9, <1>12
  <2>1. star \in 0..n /\ Count(C, star) > 0 /\ Count(C, star) \in Nat
    BY <1>2, <1>9
  <2>2. PICK j \in C : j > star /\ Count(C, j) = Count(C, star) - 1
    BY <1>2, <2>1, NextChosen
  <2>3. j \in 1..n /\ Count(C, j) >= k BY <1>2, <2>1, <2>2
  <2>4. Place(C, j, k) = j + k
    BY <1>2, <1>9, <2>2, <2>3 DEF Place
  <2>5. j + k \in 1..n /\ ids[j + k] = key
    BY <1>2, <1>3, <1>5, <2>2, <2>3, <2>4
  <2>6. j + k - 1 \in k .. n - 1 /\ (j + k - 1) + 1 = j + k
    BY <1>2, <2>3, <2>5
  <2>7. j + k - 1 <= line BY <1>8, <2>5, <2>6
  <2>8. line \in Nat BY <1>2, <1>7
  <2> QED BY <1>2, <1>13, <2>2, <2>3, <2>7, <2>8
<1>15. \A i \in 1..n :
          /\ i = star => Place(C, i, k + 1) = 1
          /\ i # star /\ Place(C, i, k) < line + 1 =>
                Place(C, i, k + 1) = Place(C, i, k) + 1
          /\ i # star /\ Place(C, i, k) >= line + 1 =>
                /\ Place(C, i, k) > line + 1
                /\ Place(C, i, k + 1) = Place(C, i, k)
  BY <1>2, <1>11, <1>13, <1>14, PlaceMoves
<1>16. /\ DOMAIN list' = 1..n /\ Len(list') = n
       /\ \A i \in 1..n : list'[i] = IF i = 1 THEN list[line + 1]
                                     ELSE IF i <= line + 1 THEN list[i - 1] ELSE list[i]
  <2>1. list' \in Seq(Row) BY MoveInv DEF Inv, TypeOK
  <2>2. DOMAIN list' = DOMAIN list BY <1>1 DEF ToTop
  <2>3. DOMAIN list' = 1..Len(list') /\ Len(list') \in Nat BY <2>1
  <2>4. Len(list') = n BY <1>2, <2>2, <2>3
  <2> QED BY <1>1, <1>2, <2>2, <2>4 DEF ToTop
<1>17. \A i \in 1..n : /\ Place(C, i, k + 1) \in 1..n
                       /\ list'[Place(C, i, k + 1)] = pressed[i]
  <2> SUFFICES ASSUME NEW i \in 1..n
               PROVE  /\ Place(C, i, k + 1) \in 1..n
                      /\ list'[Place(C, i, k + 1)] = pressed[i]
    OBVIOUS
  <2>1. line \in 0 .. n - 1 /\ line \in Nat BY <1>2, <1>7
  <2>2. Place(C, i, k) \in 1..n /\ list[Place(C, i, k)] = pressed[i] BY <1>3
  <2>3. CASE i = star
    BY <1>2, <1>10, <1>15, <1>16, <2>2, <2>3
  <2>4. CASE i # star /\ Place(C, i, k) < line + 1
    <3> DEFINE p == Place(C, i, k)
    <3>1. Place(C, i, k + 1) = p + 1 BY <1>15, <2>4
    <3> HIDE DEF p
    <3>2. p \in 1..n /\ p < line + 1 /\ list[p] = pressed[i] BY <2>2, <2>4 DEF p
    <3>3. p + 1 \in 1..n /\ p + 1 # 1 /\ p + 1 <= line + 1 /\ (p + 1) - 1 = p
      BY <1>2, <2>1, <3>2
    <3>4. list'[p + 1] = list[p] BY <1>16, <3>3
    <3> QED BY <3>1, <3>2, <3>3, <3>4
  <2>5. CASE i # star /\ Place(C, i, k) >= line + 1
    <3> DEFINE p == Place(C, i, k)
    <3>1. Place(C, i, k + 1) = p /\ p > line + 1 BY <1>15, <2>5
    <3> HIDE DEF p
    <3>2. p \in 1..n /\ list[p] = pressed[i] BY <2>2 DEF p
    <3>3. p # 1 /\ ~(p <= line + 1) BY <1>2, <2>1, <3>1, <3>2
    <3>4. list'[p] = list[p] BY <1>16, <3>2, <3>3
    <3> QED BY <3>1, <3>2, <3>4
  <2> QED BY <1>2, <2>1, <2>2, <2>3, <2>4, <2>5
<1>18. \A p \in 1..n : \E i \in 1..n : Place(C, i, k + 1) = p
  <2> SUFFICES ASSUME NEW p \in 1..n PROVE \E i \in 1..n : Place(C, i, k + 1) = p
    OBVIOUS
  <2>1. line \in 0 .. n - 1 /\ line \in Nat BY <1>2, <1>7
  <2>2. CASE p = 1 BY <1>15, <2>2
  <2>3. CASE p # 1 /\ p <= line + 1
    <3>1. p - 1 \in 1..n /\ p - 1 < line + 1 /\ (p - 1) + 1 = p
      BY <1>2, <2>1, <2>3
    <3>2. PICK i \in 1..n : Place(C, i, k) = p - 1 BY <1>3, <3>1
    <3>3. i # star BY <1>2, <1>10, <2>1, <3>1, <3>2
    <3>4. Place(C, i, k + 1) = (p - 1) + 1 BY <1>15, <3>1, <3>2, <3>3
    <3> QED BY <3>1, <3>4
  <2>4. CASE p > line + 1
    <3>1. PICK i \in 1..n : Place(C, i, k) = p BY <1>3
    <3>2. i # star /\ p >= line + 1 BY <1>2, <1>10, <2>1, <2>4, <3>1
    <3> QED BY <1>15, <3>1, <3>2
  <2> QED BY <1>2, <2>1, <2>2, <2>3, <2>4
<1>19. k + 1 <= Count(C, 0)
  <2>1. 0 \in 0..n /\ star \in 0..n /\ 0 < star BY <1>2
  <2>2. Count(C, star) < Count(C, 0) BY <1>2, <1>11, <2>1, CountApart
  <2> QED BY <1>2, <1>9, <1>14, <2>1, <2>2
<1>20. pc' = "moving" /\ pressed' = pressed /\ lineStart' = k + 1 /\ Chosen' = C
  BY <1>1, <1>4 DEF C
<1> QED BY <1>2, <1>16, <1>17, <1>18, <1>19, <1>20 DEF MoveKnown, n

\* The other steps are not of the loop.
LEMMA PlacesInductive == Inv /\ MoveKnown /\ [Next]_vars => MoveKnown'
<1> SUFFICES ASSUME Inv, MoveKnown, [Next]_vars PROVE MoveKnown'
  OBVIOUS
<1>1. CASE \E k \in Letters : PressLetter(k) BY <1>1, PressPlaces
<1>2. CASE MoveOne BY <1>2, MovePlaces
<1>3. CASE \/ Boot \/ MoveEnds \/ PressSave \/ UpdateTag
           \/ FileSaved \/ SaveRefused \/ SaveCutShort \/ ExitWithoutSave
  <2>1. pc' # "moving"
    BY <1>3 DEF Boot, MoveEnds, BackToMenu, PressSave, UpdateTag, FileSaved,
                SaveRefused, SaveCutShort, ExitWithoutSave, Reset
  <2> QED BY <2>1 DEF MoveKnown
<1>4. CASE \/ \E t \in Toggles : ToggleSetting(t)
           \/ \E v \in TypedTimeouts : SetTimeout(v)
           \/ RestoreDefaults
  <2>1. pc = "menu" /\ pc' = pc
    BY <1>4 DEF ToggleSetting, SetTimeout, RestoreDefaults
  <2> QED BY <2>1 DEF MoveKnown
<1>5. CASE UNCHANGED vars
  BY <1>5 DEF vars, menuVars, MoveKnown, Chosen, OfKey
<1> QED BY <1>1, <1>2, <1>3, <1>4, <1>5 DEF Next

\* The loop ends where no row of the letter is left but one that was on top.
LEMMA LastRound ==
    ASSUME Inv, MoveKnown, MoveEnds,
           NEW i \in Chosen, Count(Chosen, i) >= lineStart
    PROVE  i = 1 /\ Count(Chosen, i) = lineStart
<1> DEFINE n == Len(pressed)
           C == Chosen
           k == lineStart
           line == LineNumber(ids, lineStart, Len(list), key)
<1>1. pc = "moving" /\ line <= k BY DEF MoveEnds
<1>2. /\ n \in Nat /\ C \in SUBSET (1..n) /\ k \in Nat
      /\ DOMAIN pressed = 1..n /\ DOMAIN list = 1..n /\ Len(list) = n
      /\ \A p \in 1..n : OfKey(list[p]) <=> ids[p] = key
  BY <1>1, ChosenRows DEF MoveKnown
<1>3. \A j \in 1..n : Place(C, j, k) \in 1..n /\ list[Place(C, j, k)] = pressed[j]
  BY <1>1, <1>2 DEF MoveKnown
<1>4. \A j \in 1..n : j \in C <=> OfKey(pressed[j]) BY <1>2 DEF Chosen
<1>5. \A h \in k .. n - 1 : ids[h + 1] = key => h <= line
  BY <1>2, LineIsLast
<1>6. line \in Int
  <2>1. line # 0 => line \in k .. n - 1 BY <1>2, LineFound
  <2> QED BY <1>2, <2>1
<1> HIDE DEF n, C, k, line
<1>7. \A j \in 0..n : Count(C, j) \in Nat
  <2> SUFFICES ASSUME NEW j \in 0..n PROVE Count(C, j) \in Nat
    OBVIOUS
  <2>1. j \in j..n BY <1>2
  <2> QED BY <1>2, <2>1, CountApart
<1>8. ASSUME NEW j \in C, Count(C, j) >= k PROVE j = 1
  <2>1. j \in 1..n /\ Count(C, j) \in Nat BY <1>2, <1>7
  <2>2. Place(C, j, k) = j + k BY <1>2, <1>8, <2>1 DEF Place
  <2>3. j + k \in 1..n /\ ids[j + k] = key
    BY <1>2, <1>3, <1>4, <1>8, <2>1, <2>2
  <2>4. j + k - 1 \in k .. n - 1 /\ (j + k - 1) + 1 = j + k
    BY <1>2, <2>1, <2>3
  <2>5. j + k - 1 <= line BY <1>5, <2>3, <2>4
  <2> QED BY <1>1, <1>2, <1>6, <2>1, <2>5 DEF k
<1>9. i \in C /\ Count(C, i) >= k BY DEF C, k
<1>10. i = 1 BY <1>8, <1>9
<1>11. Count(C, i) = k
  <2> SUFFICES ASSUME Count(C, i) > k PROVE FALSE
    BY <1>2, <1>7, <1>9
  <2>1. i \in 0..n /\ Count(C, i) > 0 /\ Count(C, i) \in Nat BY <1>2, <1>7, <1>9
  <2>2. PICK j \in C : j > i /\ Count(C, j) = Count(C, i) - 1
    BY <1>2, <2>1, NextChosen
  <2>3. Count(C, j) >= k BY <1>2, <2>1, <2>2
  <2>4. j = 1 BY <1>8, <2>3
  <2> QED BY <1>10, <2>2, <2>4
<1> QED BY <1>10, <1>11 DEF C, k

\* Where the rows are when the loop ends.
LEMMA PlacesAtEnd ==
    ASSUME Inv, MoveKnown, MoveEnds
    PROVE  LET total == Count(Chosen, 0) IN
           /\ Len(list) = Len(pressed)
           /\ \A p \in DOMAIN list : OfKey(list[p]) <=> p <= total
           /\ \A i \in DOMAIN pressed \ Chosen :
                 list[i + Count(Chosen, i)] = pressed[i]
           /\ 1 \notin Chosen =>
                 \A i \in Chosen : list[total - Count(Chosen, i)] = pressed[i]
<1> DEFINE n == Len(pressed)
           C == Chosen
           k == lineStart
           total == Count(C, 0)
<1>1. pc = "moving" BY DEF MoveEnds
<1>2. /\ n \in Nat /\ C \in SUBSET (1..n) /\ k \in Nat
      /\ DOMAIN pressed = 1..n /\ DOMAIN list = 1..n /\ Len(list) = n
  BY <1>1, ChosenRows DEF MoveKnown
<1>3. /\ k <= total
      /\ \A j \in 1..n : Place(C, j, k) \in 1..n /\ list[Place(C, j, k)] = pressed[j]
      /\ \A p \in 1..n : \E j \in 1..n : Place(C, j, k) = p
  BY <1>1, <1>2 DEF MoveKnown
<1>4. \A j \in 1..n : j \in C <=> OfKey(pressed[j]) BY <1>2 DEF Chosen
<1>5. \A i \in C : Count(C, i) >= k => i = 1 /\ Count(C, i) = k
  BY LastRound
<1> HIDE DEF n, C, k
<1>6. \A j \in 0..n : Count(C, j) \in Nat
  <2> SUFFICES ASSUME NEW j \in 0..n PROVE Count(C, j) \in Nat
    OBVIOUS
  <2>1. j \in j..n BY <1>2
  <2> QED BY <1>2, <2>1, CountApart
<1>7. total \in Nat BY <1>2, <1>6
<1> HIDE DEF total
<1>8. \A i \in 1..n : /\ i \in C => Count(C, i) < total
                      /\ i \notin C => total < Count(C, i) + i
  <2> SUFFICES ASSUME NEW i \in 1..n
               PROVE  /\ i \in C => Count(C, i) < total
                      /\ i \notin C => total < Count(C, i) + i
    OBVIOUS
  <2>1. 0 \in 0..n /\ i \in 0..n /\ 0 < i /\ i - 0 = i BY <1>2
  <2> QED BY <1>2, <2>1, CountApart DEF total
<1>9. \A i \in 1..n : i \notin C =>
         Count(C, i) <= k /\ Place(C, i, k) = i + Count(C, i)
  <2> SUFFICES ASSUME NEW i \in 1..n, i \notin C
               PROVE  Count(C, i) <= k /\ Place(C, i, k) = i + Count(C, i)
    OBVIOUS
  <2>1. i \in 0..n /\ Count(C, i) \in Nat BY <1>2, <1>6
  <2>2. Count(C, i) <= k
    <3> SUFFICES ASSUME Count(C, i) > k PROVE FALSE
      BY <1>2, <2>1
    <3>1. Count(C, i) > 0 BY <1>2, <2>1
    <3>2. PICK j \in C : j > i /\ Count(C, j) = Count(C, i) - 1
      BY <1>2, <2>1, <3>1, NextChosen
    <3>3. Count(C, j) >= k BY <1>2, <2>1, <3>2
    <3>4. j = 1 BY <1>5, <3>3
    <3> QED BY <1>2, <3>2, <3>4
  <2> QED BY <1>2, <2>1, <2>2 DEF Place
<1>10. \A i \in C : Place(C, i, k) <= total
  <2> SUFFICES ASSUME NEW i \in C PROVE Place(C, i, k) <= total
    OBVIOUS
  <2>1. i \in 1..n /\ i \in 0..n /\ Count(C, i) \in Nat BY <1>2, <1>6
  <2>2. CASE Count(C, i) < k
    <3>1. Place(C, i, k) = k - Count(C, i) BY <2>1, <2>2 DEF Place
    <3> QED BY <1>2, <1>3, <1>7, <2>1, <3>1
  <2>3. CASE Count(C, i) >= k
    <3>1. i = 1 /\ Count(C, i) = k BY <1>5, <2>3
    <3>2. Place(C, i, k) = 1 + k BY <1>2, <2>1, <2>3, <3>1 DEF Place
    <3>3. k < total BY <1>8, <2>1, <3>1
    <3> QED BY <1>2, <1>7, <3>2, <3>3
  <2> QED BY <1>2, <2>1, <2>2, <2>3
<1>11. \A i \in 1..n : i \notin C => Place(C, i, k) > total
  <2> SUFFICES ASSUME NEW i \in 1..n, i \notin C PROVE Place(C, i, k) > total
    OBVIOUS
  <2>1. Count(C, i) \in Nat BY <1>2, <1>6
  <2>2. Place(C, i, k) = i + Count(C, i) /\ total < Count(C, i) + i BY <1>8, <1>9
  <2> QED BY <1>7, <2>1, <2>2
<1>12. \A p \in 1..n : OfKey(list[p]) <=> p <= total
  <2> SUFFICES ASSUME NEW p \in 1..n PROVE OfKey(list[p]) <=> p <= total
    OBVIOUS
  <2>1. PICK i \in 1..n : Place(C, i, k) = p BY <1>3
  <2>2. OfKey(list[p]) <=> i \in C BY <1>3, <1>4, <2>1
  <2> QED BY <1>2, <1>7, <1>10, <1>11, <2>1, <2>2
<1>13. \A i \in 1..n : i \notin C => list[i + Count(C, i)] = pressed[i]
  BY <1>3, <1>9
<1>14. ASSUME 1 \notin C
       PROVE  \A i \in C : list[total - Count(C, i)] = pressed[i]
  <2>1. \A i \in C : i \in 1..n /\ Count(C, i) < k BY <1>2, <1>5, <1>6, <1>14
  <2>2. total <= k
    <3> SUFFICES ASSUME total > k PROVE FALSE
      BY <1>2, <1>7
    <3>1. 0 \in 0..n /\ Count(C, 0) > 0 BY <1>2, <1>7 DEF total
    <3>2. PICK j \in C : j > 0 /\ Count(C, j) = Count(C, 0) - 1
      BY <1>2, <3>1, NextChosen
    <3>3. Count(C, j) >= k BY <1>2, <1>7, <3>2 DEF total
    <3> QED BY <1>5, <1>14, <3>3
  <2>3. k = total BY <1>2, <1>3, <1>7, <2>2
  <2> QED BY <1>3, <2>1, <2>3 DEF Place
<1> QED BY <1>2, <1>12, <1>13, <1>14 DEF n, C, total

\* Theorem: a letter key puts its devices on top, in order, and every other
\* row below them, in order (ChosenOnTop; the move_boot_list loop of main).
THEOREM ChosenRowsOnTop == Spec => ChosenOnTop
<1>1. Init => MoveKnown BY DEF Init, MoveKnown
<1>2. ASSUME Inv, MoveKnown, [Next]_vars, pc = "moving", pc' = "menu"
      PROVE  OnTop
  <2>1. MoveEnds
    BY <1>2 DEF Next, Boot, ToggleSetting, SetTimeout, RestoreDefaults, PressLetter,
                MoveOne, PressSave, UpdateTag, TagsUpdated, FileSaved, SaveRefused,
                SaveCutShort, ExitWithoutSave, vars
  <2> DEFINE total == Count(Chosen, 0)
  <2>2. /\ Len(list) = Len(pressed)
        /\ \A i \in DOMAIN list : OfKey(list[i]) <=> i <= total
        /\ \A i \in DOMAIN pressed \ Chosen : list[i + Count(Chosen, i)] = pressed[i]
        /\ 1 \notin Chosen =>
              \A i \in Chosen : list[total - Count(Chosen, i)] = pressed[i]
    BY <1>2, <2>1, PlacesAtEnd
  <2>3. /\ Chosen \in SUBSET (1..Len(pressed)) /\ Len(pressed) \in Nat
        /\ DOMAIN list = 1..Len(list) /\ Len(list) \in Nat
    BY <1>2, ChosenRows
  <2>4. total = Cardinality(Chosen) /\ total \in Nat
    <3>1. {j \in Chosen : j > 0} = Chosen
      <4>1. \A j \in Chosen : j \in 1..Len(pressed) BY <2>3
      <4>2. \A j \in 1..Len(pressed) : j > 0 BY <2>3
      <4>3. \A j \in Chosen : j > 0 BY <4>1, <4>2
      <4> QED BY <4>3
    <3>2. 0 \in 0..Len(pressed) BY <2>3
    <3>3. total \in Nat BY <2>3, <3>2, CountApart
    <3> QED BY <3>1, <3>3 DEF Count
  <2>5. \A i : Behind(i) = Count(Chosen, i) BY DEF Behind, Count
  <2>6. \A i, j \in Shown(list, {}) : i < j /\ OfKey(list[j]) => OfKey(list[i])
    <3>1. Shown(list, {}) \subseteq DOMAIN list BY DEF Shown
    <3>2. \A i, j \in DOMAIN list : i < j /\ j <= total => i <= total
      BY <2>3, <2>4
    <3> QED BY <2>2, <3>1, <3>2
  <2> HIDE DEF total
  <2> QED BY <2>2, <2>4, <2>5, <2>6 DEF OnTop
<1>3. Inv /\ MoveKnown /\ [Next]_vars
        => [pc = "moving" /\ pc' = "menu" => OnTop]_vars
  BY <1>2
<1> QED BY <1>1, <1>3, InvHolds, PlacesInductive, PTL DEF Spec, ChosenOnTop
=============================================================================
