------------------------- MODULE Algorithms_proofs -------------------------
(***************************************************************************)
(* Proofs about the pure algorithms, for every input.  The recursive       *)
(* functions of the blocklist and of the read loop are the loops of the    *)
(* code: each is shown to be what its definition says, and then to keep an *)
(* invariant from one turn to the next, by its least counterexample.       *)
(***************************************************************************)
EXTENDS Algorithms, FiniteSetTheorems, FunctionTheorems, SequenceTheorems, NaturalsInduction,
        WellFoundedInduction, TLAPS

-----------------------------------------------------------------------------
(* Numbers and sets.                                                       *)

\* Every set of numbers has a least one.
LEMMA Least ==
  ASSUME NEW T \in SUBSET Nat, T # {}
  PROVE  \E m \in T : \A k \in T : m <= k
<1>1. IsWellFoundedOn(OpToRel(<, Nat), Nat)
  BY NatLessThanWellFounded, Zenon
<1>2. PICK m \in T : \A k \in T : <<k, m>> \notin OpToRel(<, Nat)
  BY <1>1, WFMin, Zenon
<1>3. \A k \in T : ~(k < m)
  BY <1>2, Zenon DEF OpToRel
<1>. QED  BY <1>3

\* A finite function takes finitely many values.
LEMMA ImageFinite ==
  ASSUME NEW f, IsFiniteSet(DOMAIN f)
  PROVE  IsFiniteSet(Range(f))
<1>. DEFINE S == DOMAIN f
            T == Range(f)
            g == [x \in S |-> f[x]]
<1>1. g \in [S -> T] /\ \A t \in T : \E x \in S : g[x] = t
  BY DEF Range
<1>2. g \in Surjection(S, T)
  BY <1>1 DEF Surjection
<1>. HIDE DEF g, T, S
<1>3. IsFiniteSet(T)
  BY <1>2, FS_Surjection DEF S
<1>. QED  BY <1>3 DEF T

\* Sets that correspond have one size.
LEMMA SameSize ==
  ASSUME NEW S, IsFiniteSet(S), NEW T, NEW f \in [S -> T],
         \A x, y \in S : f[x] = f[y] => x = y,
         \A t \in T : \E x \in S : f[x] = t
  PROVE  Cardinality(S) = Cardinality(T)
<1>1. f \in Bijection(S, T)
  BY DEF Bijection, Injection, Surjection, IsInjective
<1>2. ExistsBijection(S, T)
  BY <1>1 DEF ExistsBijection
<1>. QED  BY <1>2, FS_Bijection

-----------------------------------------------------------------------------
(* The blocklist.                                                          *)

\* What parse has of the first m lines: list is the function of its definition.
Reads(list, lines, m) ==
  list = [k \in 0 .. m |-> IF k = 0 THEN Empty ELSE AddLine(list[k - 1], lines[k])]

\* There is such a function, for any number of lines.
LEMMA ReadsExists ==
  ASSUME NEW lines, NEW m \in Nat
  PROVE  \E list : Reads(list, lines, m)
<1>1. SUFFICES ASSUME ~\E list : Reads(list, lines, m)  PROVE FALSE
  OBVIOUS
<1>. DEFINE T == {k \in Nat : ~\E list : Reads(list, lines, k)}
<1>2. T \in SUBSET Nat /\ T # {}
  BY <1>1
<1>3. PICK k \in T : \A j \in T : k <= j
  BY <1>2, Least
<1>4. k \in Nat /\ ~\E list : Reads(list, lines, k)
  OBVIOUS
<1>5. CASE k = 0
  <2>. DEFINE f == [n \in 0 .. 0 |-> Empty]
  <2>1. \A n \in 0 .. 0 : n = 0
    OBVIOUS
  <2>2. f = [n \in 0 .. 0 |-> IF n = 0 THEN Empty ELSE AddLine(f[n - 1], lines[n])]
    BY <2>1
  <2>. QED  BY <1>4, <1>5, <2>2 DEF Reads
<1>6. CASE k # 0
  <2>1. PICK j \in Nat : k = j + 1
    <3>1. k - 1 \in Nat /\ k = (k - 1) + 1
      BY <1>4, <1>6
    <3>. QED  BY <3>1
  <2>2. PICK f : Reads(f, lines, j)
    <3>1. ~(k <= j)
      BY <2>1
    <3>. QED  BY <1>3, <3>1
  <2>. DEFINE g == [n \in 0 .. k |-> IF n = k THEN AddLine(f[j], lines[k]) ELSE f[n]]
  <2>3. \A n \in 0 .. j : f[n] = IF n = 0 THEN Empty ELSE AddLine(f[n - 1], lines[n])
    BY <2>2 DEF Reads
  <2>4. ASSUME NEW n \in 0 .. k
        PROVE  g[n] = IF n = 0 THEN Empty ELSE AddLine(g[n - 1], lines[n])
    <3>1. CASE n = k
      <4>1. n # 0 /\ n - 1 = j /\ j \in 0 .. k /\ j # k
        BY <2>1, <3>1
      <4>2. g[n] = AddLine(f[j], lines[n]) /\ g[j] = f[j]
        BY <3>1, <4>1
      <4>. QED  BY <4>1, <4>2
    <3>2. CASE n = 0 /\ n # k
      <4>1. n \in 0 .. j
        BY <2>1, <3>2
      <4>. QED  BY <2>3, <3>2, <4>1
    <3>3. CASE n # 0 /\ n # k
      <4>1. n \in 0 .. j /\ n - 1 \in 0 .. k /\ n - 1 # k
        BY <2>1, <3>3
      <4>2. g[n] = f[n] /\ g[n - 1] = f[n - 1]
        BY <3>3, <4>1
      <4>. QED  BY <2>3, <3>3, <4>1, <4>2
    <3>. QED  BY <3>1, <3>2, <3>3
  <2>5. g = [n \in 0 .. k |-> g[n]]
    OBVIOUS
  <2>. HIDE DEF g
  <2>6. g = [n \in 0 .. k |-> IF n = 0 THEN Empty ELSE AddLine(g[n - 1], lines[n])]
    BY <2>4, <2>5
  <2>. QED  BY <1>4, <2>6 DEF Reads
<1>. QED  BY <1>5, <1>6

\* The entries among the first k lines, and the rows of the list for them.
Entries(lines, k) == {j \in 1 .. k : IsEntry(lines[j])}
IPsOf(lines, k) ==
  {Unmap(lines[i].addr) : i \in {j \in 1 .. k : Loaded(lines, j) /\ lines[j].kind = "addr"}}
PrefixesOf(lines, k) ==
  {Stored(lines[i].addr, lines[i].bits) : i \in {j \in 1 .. k : Loaded(lines, j) /\ lines[j].kind = "prefix"}}

\* One more line is an entry more or not.
LEMMA OneMore ==
  ASSUME NEW lines, NEW k \in Nat
  PROVE  /\ Cardinality(Entries(lines, 0)) = 0
         /\ Cardinality(Entries(lines, k)) \in Nat
         /\ Cardinality(Entries(lines, k + 1)) =
              Cardinality(Entries(lines, k)) + (IF IsEntry(lines[k + 1]) THEN 1 ELSE 0)
<1>1. Entries(lines, 0) = {}
  BY DEF Entries
<1>2. IsFiniteSet(Entries(lines, k)) /\ Cardinality(Entries(lines, k)) \in Nat
  <2>1. IsFiniteSet(1 .. k)
    BY FS_Interval
  <2>2. Entries(lines, k) \subseteq 1 .. k
    BY DEF Entries
  <2>. QED  BY <2>1, <2>2, FS_Subset, FS_CardinalityType
<1>3. 1 .. k + 1 = (1 .. k) \cup {k + 1} /\ k + 1 \notin 1 .. k
  OBVIOUS
<1>4. CASE IsEntry(lines[k + 1])
  <2>1. Entries(lines, k + 1) = Entries(lines, k) \cup {k + 1} /\ k + 1 \notin Entries(lines, k)
    BY <1>3, <1>4 DEF Entries
  <2>2. Cardinality(Entries(lines, k) \cup {k + 1}) = Cardinality(Entries(lines, k)) + 1
    BY <1>2, <2>1, FS_AddElement
  <2>. QED  BY <1>1, <1>2, <1>4, <2>1, <2>2, FS_EmptySet
<1>5. CASE ~IsEntry(lines[k + 1])
  <2>1. Entries(lines, k + 1) = Entries(lines, k)
    BY <1>3, <1>5 DEF Entries
  <2>. QED  BY <1>1, <1>2, <1>5, <2>1, FS_EmptySet
<1>. QED  BY <1>4, <1>5

Smaller(a, b) == IF a <= b THEN a ELSE b

\* The list after k lines holds the first MaxEntries of their entries.
ListIs(l, lines, k) ==
  /\ l.n = Smaller(Cardinality(Entries(lines, k)), MaxEntries)
  /\ l.ips = IPsOf(lines, k) /\ l.prefixes = PrefixesOf(lines, k)
  /\ l = [ips |-> l.ips, prefixes |-> l.prefixes, n |-> l.n]

\* One more line keeps it so: an entry is added while there is room.
LEMMA AddsOne ==
  ASSUME NEW lines, NEW k \in Nat, NEW l, ListIs(l, lines, k)
  PROVE  ListIs(AddLine(l, lines[k + 1]), lines, k + 1)
<1>. DEFINE c == Cardinality(Entries(lines, k))
            e == lines[k + 1]
            r == AddLine(l, e)
<1>1. c \in Nat /\ MaxEntries \in Nat
      /\ Cardinality(Entries(lines, k + 1)) = c + (IF IsEntry(e) THEN 1 ELSE 0)
  BY OneMore, BlocklistAssumption
<1>2. 1 .. k + 1 = (1 .. k) \cup {k + 1}
  OBVIOUS
<1>3. Loaded(lines, k + 1) <=> IsEntry(e) /\ c < MaxEntries
  BY <1>1 DEF Loaded, Entries
<1>4. CASE l.n >= MaxEntries \/ ~IsEntry(e)
  <2>1. ~Loaded(lines, k + 1) /\ r = l
    BY <1>1, <1>3, <1>4 DEF AddLine, ListIs, Smaller
  <2>2. l.n = Smaller(Cardinality(Entries(lines, k + 1)), MaxEntries)
    BY <1>1, <1>4 DEF ListIs, Smaller
  <2>3. IPsOf(lines, k + 1) = IPsOf(lines, k) /\ PrefixesOf(lines, k + 1) = PrefixesOf(lines, k)
    BY <1>2, <2>1 DEF IPsOf, PrefixesOf
  <2>. QED  BY <2>1, <2>2, <2>3 DEF ListIs
<1>5. CASE l.n < MaxEntries /\ IsEntry(e)
  <2>0. l.n = c /\ c < MaxEntries /\ Loaded(lines, k + 1)
    BY <1>1, <1>3, <1>5 DEF ListIs, Smaller
  <2>1. CASE e.kind = "prefix"
    <3>1. r = [l EXCEPT !.prefixes = @ \cup {Stored(e.addr, e.bits)}, !.n = @ + 1]
      BY <1>1, <1>5, <2>0, <2>1 DEF AddLine
    <3>2. IPsOf(lines, k + 1) = IPsOf(lines, k)
      BY <1>2, <2>1 DEF IPsOf
    <3>3. PrefixesOf(lines, k + 1) = PrefixesOf(lines, k) \cup {Stored(e.addr, e.bits)}
      BY <1>2, <2>0, <2>1 DEF PrefixesOf
    <3>4. r.n = c + 1 /\ r.ips = l.ips /\ r.prefixes = l.prefixes \cup {Stored(e.addr, e.bits)}
          /\ r = [ips |-> r.ips, prefixes |-> r.prefixes, n |-> r.n]
      BY <2>0, <3>1 DEF ListIs
    <3>5. c + 1 = Smaller(c + 1, MaxEntries)
      BY <1>1, <2>0 DEF Smaller
    <3>. QED  BY <1>1, <1>5, <3>2, <3>3, <3>4, <3>5 DEF ListIs
  <2>2. CASE e.kind # "prefix"
    <3>0. e.kind = "addr"
      BY <1>5, <2>2 DEF IsEntry
    <3>1. r = [l EXCEPT !.ips = @ \cup {Unmap(e.addr)}, !.n = @ + 1]
      BY <1>1, <1>5, <2>0, <2>2 DEF AddLine
    <3>2. PrefixesOf(lines, k + 1) = PrefixesOf(lines, k)
      BY <1>2, <2>2 DEF PrefixesOf
    <3>3. IPsOf(lines, k + 1) = IPsOf(lines, k) \cup {Unmap(e.addr)}
      BY <1>2, <2>0, <3>0 DEF IPsOf
    <3>4. r.n = c + 1 /\ r.prefixes = l.prefixes /\ r.ips = l.ips \cup {Unmap(e.addr)}
          /\ r = [ips |-> r.ips, prefixes |-> r.prefixes, n |-> r.n]
      BY <2>0, <3>1 DEF ListIs
    <3>5. c + 1 = Smaller(c + 1, MaxEntries)
      BY <1>1, <2>0 DEF Smaller
    <3>. QED  BY <1>1, <1>5, <3>2, <3>3, <3>4, <3>5 DEF ListIs
  <2>. QED  BY <2>1, <2>2
<1>6. l.n \in Nat
  BY <1>1 DEF ListIs, Smaller
<1>. QED  BY <1>1, <1>4, <1>5, <1>6

\* So the list that parse returns holds the first MaxEntries entries.
LEMMA ParsedIs ==
  ASSUME NEW lines, Len(lines) \in Nat
  PROVE  ListIs(Parsed(lines), lines, Len(lines))
<1>. DEFINE m == Len(lines)
            list == CHOOSE f : Reads(f, lines, m)
<1>1. Parsed(lines) = list[m]
  BY DEF Parsed, Reads
<1>2. Reads(list, lines, m)
  <2>1. \E f : Reads(f, lines, m)
    BY ReadsExists
  <2>. QED  BY <2>1
<1>. HIDE DEF list
<1>3. \A k \in 0 .. m : list[k] = IF k = 0 THEN Empty ELSE AddLine(list[k - 1], lines[k])
  BY <1>2 DEF Reads
<1>4. ListIs(list[0], lines, 0)
  <2>1. list[0] = Empty
    BY <1>3
  <2>2. IPsOf(lines, 0) = {} /\ PrefixesOf(lines, 0) = {}
    BY DEF IPsOf, PrefixesOf
  <2>3. Cardinality(Entries(lines, 0)) = 0
    BY OneMore
  <2>. QED  BY <2>1, <2>2, <2>3, BlocklistAssumption DEF ListIs, Empty, Smaller
<1>5. SUFFICES ASSUME ~ListIs(list[m], lines, m)  PROVE FALSE
  BY <1>1
<1>. DEFINE T == {k \in 0 .. m : ~ListIs(list[k], lines, k)}
<1>6. m \in T /\ T \in SUBSET Nat
  BY <1>5
<1>7. PICK k \in T : \A j \in T : k <= j
  BY <1>6, Least
<1>8. k \in 0 .. m /\ k # 0 /\ ~ListIs(list[k], lines, k)
  BY <1>4
<1>9. k - 1 \in Nat /\ k - 1 \in 0 .. m /\ ~(k <= k - 1) /\ (k - 1) + 1 = k
  BY <1>8
<1>10. ListIs(list[k - 1], lines, k - 1)
  BY <1>7, <1>9
<1>11. ListIs(AddLine(list[k - 1], lines[k]), lines, k)
  BY <1>9, <1>10, AddsOne
<1>. QED  BY <1>3, <1>8, <1>11

\* A mapped address is an address of four bytes.
LEMMA UnmapType ==
  ASSUME NEW a \in Address
  PROVE  Unmap(a) \in Address
<1>1. CASE Mapped(a)
  <2>1. a.v = 6 /\ a.bit \in [1 .. Bits6 -> 0 .. 1]
    BY <1>1 DEF Mapped, Address, Width
  <2>2. \A i \in 1 .. Bits4 : Bits6 - Bits4 + i \in 1 .. Bits6
    BY BlocklistAssumption
  <2>. DEFINE bit == [i \in 1 .. Bits4 |-> a.bit[Bits6 - Bits4 + i]]
  <2>3. bit \in [1 .. Bits4 -> 0 .. 1]
    BY <2>1, <2>2
  <2>4. Unmap(a) = [v |-> 4, bit |-> bit]
    BY <1>1 DEF Unmap
  <2>. HIDE DEF bit
  <2>. QED  BY <2>3, <2>4 DEF Address, Width
<1>2. CASE ~Mapped(a)
  BY <1>2 DEF Unmap
<1>. QED  BY <1>1, <1>2

\* Two prefixes are stored as one exactly when they agree on their leading bits.
LEMMA SameMask ==
  ASSUME NEW a \in Address, NEW b \in Address, NEW m \in Nat, NEW n \in Nat, n <= Width(b.v)
  PROVE  Masked(a, m) = Masked(b, n) <=>
           m = n /\ a.v = b.v /\ \A i \in 1 .. n : a.bit[i] = b.bit[i]
<1>1. Width(a.v) \in Nat /\ Width(b.v) \in Nat
  BY BlocklistAssumption DEF Width
<1>2. ASSUME Masked(a, m) = Masked(b, n)
      PROVE  m = n /\ a.v = b.v /\ \A i \in 1 .. n : a.bit[i] = b.bit[i]
  <2>1. m = n /\ a.v = b.v
    BY <1>2 DEF Masked
  <2>2. Masked(a, m).bit = Masked(b, n).bit
    BY <1>2
  <2>3. ASSUME NEW i \in 1 .. n  PROVE a.bit[i] = b.bit[i]
    <3>1. i \in 1 .. Width(a.v) /\ i <= m /\ i \in 1 .. Width(b.v)
      BY <1>1, <2>1
    <3>2. Masked(a, m).bit[i] = a.bit[i] /\ Masked(b, n).bit[i] = b.bit[i]
      BY <3>1 DEF Masked
    <3>. QED  BY <2>2, <3>2
  <2>. QED  BY <2>1, <2>3
<1>3. ASSUME m = n, a.v = b.v, \A i \in 1 .. n : a.bit[i] = b.bit[i]
      PROVE  Masked(a, m) = Masked(b, n)
  <2>1. \A i \in 1 .. Width(a.v) :
          (IF i <= m THEN a.bit[i] ELSE 0) = (IF i <= n THEN b.bit[i] ELSE 0)
    BY <1>1, <1>3
  <2>. QED  BY <1>3, <2>1 DEF Masked
<1>. QED  BY <1>2, <1>3

\* Lookup after parse, for any file and any width of addresses: it finds exactly
\* what the first MaxEntries entries name.
THEOREM BlocklistFinds ==
  \A lines \in Seq(FileLine) : FindsWhatIsNamed(lines)
<1>. SUFFICES ASSUME NEW lines \in Seq(FileLine), NEW addr \in Address
              PROVE  Lookup(Parsed(lines), addr)
                       <=> \E k \in DOMAIN lines : Loaded(lines, k) /\ Names(lines[k], addr)
  BY DEF FindsWhatIsNamed
<1>. DEFINE list == Parsed(lines)
            a == Unmap(addr)
<1>1. Len(lines) \in Nat /\ DOMAIN lines = 1 .. Len(lines)
  BY LenProperties
<1>2. list.ips = IPsOf(lines, Len(lines)) /\ list.prefixes = PrefixesOf(lines, Len(lines))
  BY <1>1, ParsedIs DEF ListIs
<1>3. a \in Address
  BY UnmapType
<1>. HIDE DEF list, a
<1>4. \A k \in DOMAIN lines : lines[k] \in FileLine
  BY <1>1, ElementOfSeq
<1>5. a \in list.ips <=> \E k \in DOMAIN lines : Loaded(lines, k) /\ lines[k].kind = "addr" /\ Unmap(lines[k].addr) = a
  BY <1>1, <1>2 DEF IPsOf
<1>6. ASSUME NEW k \in DOMAIN lines, Loaded(lines, k), lines[k].kind = "prefix"
      PROVE  /\ lines[k].addr \in Address /\ lines[k].bits \in Nat
             /\ lines[k].bits <= Width(lines[k].addr.v)
  BY <1>4, <1>6, BlocklistAssumption DEF FileLine, Loaded, IsEntry
<1>7. ASSUME NEW k \in DOMAIN lines, Loaded(lines, k), lines[k].kind = "prefix"
      PROVE  lines[k].addr.v = a.v /\ (\A i \in 1 .. lines[k].bits : a.bit[i] = lines[k].addr.bit[i])
               <=> Masked(a, lines[k].bits) = Stored(lines[k].addr, lines[k].bits)
  BY <1>3, <1>6, <1>7, SameMask DEF Stored
<1>8. (\E bits \in Lengths(list, a.v) : Masked(a, bits) \in list.prefixes)
        <=> \E k \in DOMAIN lines :
              /\ Loaded(lines, k) /\ lines[k].kind = "prefix" /\ lines[k].addr.v = a.v
              /\ \A i \in 1 .. lines[k].bits : a.bit[i] = lines[k].addr.bit[i]
  <2>1. ASSUME NEW bits \in Lengths(list, a.v), Masked(a, bits) \in list.prefixes
        PROVE  \E k \in DOMAIN lines :
                 /\ Loaded(lines, k) /\ lines[k].kind = "prefix" /\ lines[k].addr.v = a.v
                 /\ \A i \in 1 .. lines[k].bits : a.bit[i] = lines[k].addr.bit[i]
    <3>1. PICK k \in DOMAIN lines : /\ Loaded(lines, k) /\ lines[k].kind = "prefix"
                                    /\ Masked(a, bits) = Stored(lines[k].addr, lines[k].bits)
      BY <1>1, <1>2, <2>1 DEF PrefixesOf
    <3>2. bits = lines[k].bits
      BY <3>1 DEF Stored, Masked
    <3>. QED  BY <1>7, <3>1, <3>2
  <2>2. ASSUME NEW k \in DOMAIN lines, Loaded(lines, k), lines[k].kind = "prefix", lines[k].addr.v = a.v,
               \A i \in 1 .. lines[k].bits : a.bit[i] = lines[k].addr.bit[i]
        PROVE  \E bits \in Lengths(list, a.v) : Masked(a, bits) \in list.prefixes
    <3>1. Stored(lines[k].addr, lines[k].bits) \in list.prefixes
      BY <1>1, <1>2, <2>2 DEF PrefixesOf
    <3>2. Masked(a, lines[k].bits) = Stored(lines[k].addr, lines[k].bits)
      BY <1>7, <2>2
    <3>3. Masked(a, lines[k].bits).v = a.v /\ Masked(a, lines[k].bits).bits = lines[k].bits
      BY DEF Masked
    <3>4. lines[k].bits \in Lengths(list, a.v)
      BY <3>1, <3>2, <3>3 DEF Lengths
    <3>. QED  BY <3>1, <3>2, <3>4
  <2>. QED  BY <2>1, <2>2
<1>. QED  BY <1>5, <1>8 DEF Lookup, Names, list, a

-----------------------------------------------------------------------------
(* Digests.                                                                *)

\* A half hour is one of a day, and a day one of a week.
LEMMA Halves ==
  ASSUME NEW t \in Nat
  PROVE  \E week \in Nat, wd \in 0 .. 6, rest \in 0 .. 47 :
           /\ t = week * 336 + wd * 48 + rest
           /\ t \div 48 = week * 7 + wd /\ t % 48 = rest /\ (t \div 48) % 7 = wd
<1>1. t \div 48 \in Nat /\ t % 48 \in 0 .. 47 /\ t = (t \div 48) * 48 + (t % 48)
  OBVIOUS
<1>. DEFINE day == t \div 48
<1>2. day \div 7 \in Nat /\ day % 7 \in 0 .. 6 /\ day = (day \div 7) * 7 + (day % 7)
  BY <1>1
<1>3. t = (day \div 7) * 336 + (day % 7) * 48 + (t % 48)
  BY <1>1, <1>2
<1>. QED  BY <1>1, <1>2, <1>3

\* digestSchedule.next, at any moment: the next nine o'clock, or the one of the
\* next Monday, strictly after now.
THEOREM DigestIsDue ==
  \A label \in {"daily", "weekly"}, now \in Nat : NextIsFirstAfter(label, now)
<1>. SUFFICES ASSUME NEW label \in {"daily", "weekly"}, NEW now \in Nat
              PROVE  NextIsFirstAfter(label, now)
  OBVIOUS
<1>. DEFINE next == NextDigest(label, now)
            fires(t) == t % 48 = 18 /\ (label = "weekly" => (t \div 48) % 7 = 0)
<1>1. PICK week \in Nat, wd \in 0 .. 6, rest \in 0 .. 47 :
        /\ now = week * 336 + wd * 48 + rest
        /\ now \div 48 = week * 7 + wd /\ now % 48 = rest /\ (now \div 48) % 7 = wd
  BY Halves
<1>2. SUFFICES next \in Nat /\ next > now /\ fires(next) /\ \A t \in now + 1 .. next - 1 : ~fires(t)
  BY DEF NextIsFirstAfter, PerDay, DigestAt, Weekday
<1>3. CASE label = "daily"
  <2>1. next = week * 336 + wd * 48 + (IF rest < 18 THEN 18 ELSE 66)
    BY <1>1, <1>3 DEF NextDigest, Due, PerDay, DigestAt
  <2>2. next % 48 = 18
    BY <2>1
  <2>3. ASSUME NEW t \in now + 1 .. next - 1  PROVE t % 48 # 18
    BY <2>1, <1>1
  <2>. QED  BY <1>1, <1>3, <2>1, <2>2, <2>3
<1>4. CASE label = "weekly"
  <2>1. next = week * 336 + (IF wd = 0 /\ rest < 18 THEN 18 ELSE 354)
    BY <1>1, <1>4 DEF NextDigest, Due, PerDay, DigestAt, Weekday
  <2>2. fires(next)
    <3>. DEFINE k == IF wd = 0 /\ rest < 18 THEN week ELSE week + 1
    <3>1. k \in Nat /\ next = k * 336 + 18
      BY <2>1
    <3>. HIDE DEF k
    <3>2. next \div 48 = k * 7 /\ next % 48 = 18
      BY <3>1
    <3>3. (k * 7) % 7 = 0
      BY <3>1
    <3>. QED  BY <3>2, <3>3
  <2>3. ASSUME NEW t \in now + 1 .. next - 1, fires(t)  PROVE FALSE
    <3>0. next \in Nat /\ t \in Nat
      BY <2>1
    <3>1. PICK k \in Nat, d \in 0 .. 6, r \in 0 .. 47 :
            /\ t = k * 336 + d * 48 + r
            /\ t \div 48 = k * 7 + d /\ t % 48 = r /\ (t \div 48) % 7 = d
      BY <3>0, Halves
    <3>2. t = k * 336 + 18
      BY <1>4, <2>3, <3>1
    <3>3. now < t /\ t < next
      BY <3>0
    <3>4. k = week \/ k > week \/ k < week
      OBVIOUS
    <3>. QED  BY <1>1, <2>1, <3>2, <3>3, <3>4
  <2>. QED  BY <1>1, <2>1, <2>2, <2>3
<1>. QED  BY <1>3, <1>4

-----------------------------------------------------------------------------
(* Years.                                                                  *)

\* Years follow one another, without a gap.
LEMMA YearFollows ==
  ASSUME NEW y \in Nat
  PROVE  /\ DaysBefore(y) \in Nat /\ DaysBefore(y) >= y
         /\ DaysBefore(y + 1) = DaysBefore(y) + DaysOf(y)
         /\ DaysOf(y) \in {Days - 1, Days} /\ (IsLeap(y) <=> DaysOf(y) = Days)
         /\ ~(IsLeap(y) /\ IsLeap(y + 1))
<1>. DEFINE leap(z) == (z + 3) \div 4
<1>1. Days \in Nat /\ Days >= 3
  BY CalendarAssumption
<1>2. leap(y) \in Nat /\ leap(y + 1) = leap(y) + IF y % 4 = 0 THEN 1 ELSE 0
  OBVIOUS
<1>3. (y + 1) * (Days - 1) = y * (Days - 1) + (Days - 1) /\ y * (Days - 1) \in Nat
  BY <1>1
<1>4. y * (Days - 1) >= y
  <2>1. Days - 2 \in Nat
    BY <1>1
  <2>2. y * (Days - 2) \in Nat /\ y * (Days - 1) = y * (Days - 2) + y
    BY <1>1, <2>1
  <2>. QED  BY <1>3, <2>2
<1>5. ~(y % 4 = 0 /\ (y + 1) % 4 = 0)
  OBVIOUS
<1>. DEFINE whole == y * (Days - 1)
            after == (y + 1) * (Days - 1)
<1>6. DaysBefore(y) = whole + leap(y) /\ DaysBefore(y + 1) = after + leap(y + 1)
  BY DEF DaysBefore
<1>. HIDE DEF whole, after, leap
<1>7. DaysBefore(y) \in Nat /\ DaysBefore(y) >= y
  BY <1>2, <1>3, <1>4, <1>6 DEF whole, after
<1>8. DaysBefore(y + 1) = DaysBefore(y) + DaysOf(y)
  <2>1. after = whole + (Days - 1) /\ whole \in Nat
    BY <1>3 DEF whole, after
  <2>. QED  BY <1>1, <1>2, <1>6, <2>1 DEF DaysOf, IsLeap
<1>. QED  BY <1>1, <1>5, <1>7, <1>8 DEF DaysOf, IsLeap

\* An earlier year is over before a later one begins.
LEMMA YearsInOrder ==
  ASSUME NEW a \in Nat, NEW b \in Nat, a <= b
  PROVE  DaysBefore(a) <= DaysBefore(b)
<1>1. PICK k \in Nat : b = a + k
  <2>1. b - a \in Nat /\ b = a + (b - a)
    OBVIOUS
  <2>. QED  BY <2>1
<1>2. Days - 1 \in Nat
  BY CalendarAssumption
<1>3. b * (Days - 1) = a * (Days - 1) + k * (Days - 1) /\ k * (Days - 1) \in Nat /\ a * (Days - 1) \in Nat
  BY <1>1, <1>2
<1>4. (a + 3) \div 4 <= (b + 3) \div 4 /\ (a + 3) \div 4 \in Nat /\ (b + 3) \div 4 \in Nat
  OBVIOUS
<1>. QED  BY <1>3, <1>4 DEF DaysBefore

\* t is in the year y, and in no other.
In(t, y) == 2 * DaysBefore(y) <= t /\ t < 2 * DaysBefore(y + 1)

\* Every time is in one year, the one that YearOf finds.
LEMMA YearIs ==
  ASSUME NEW t \in Nat
  PROVE  /\ YearOf(t) \in Nat /\ In(t, YearOf(t))
         /\ \A y \in Nat : In(t, y) => YearOf(t) = y
<1>1. \A a, b \in Nat : In(t, a) /\ In(t, b) => ~(a < b)
  <2>1. SUFFICES ASSUME NEW a \in Nat, NEW b \in Nat, In(t, a), In(t, b), a < b  PROVE FALSE
    OBVIOUS
  <2>2. DaysBefore(a + 1) <= DaysBefore(b)
    BY <2>1, YearsInOrder
  <2>3. DaysBefore(a + 1) \in Nat /\ DaysBefore(b) \in Nat
    BY YearFollows
  <2>. QED  BY <2>1, <2>2, <2>3 DEF In
<1>2. \A a, b \in Nat : In(t, a) /\ In(t, b) => a = b
  <2>1. \A a, b \in Nat : ~(a < b) /\ ~(b < a) => a = b
    OBVIOUS
  <2>. QED  BY <1>1, <2>1
<1>3. \E y \in 0 .. (t \div 2) : In(t, y)
  <2>. DEFINE T == {y \in Nat : t < 2 * DaysBefore(y)}
  <2>1. t + 1 \in T
    BY YearFollows
  <2>2. PICK m \in T : \A k \in T : m <= k
    BY <2>1, Least
  <2>3. m # 0
    <3>1. DaysBefore(0) = 0
      BY CalendarAssumption DEF DaysBefore
    <3>. QED  BY <2>2, <3>1
  <2>. DEFINE y == m - 1
  <2>4. y \in Nat /\ m = y + 1 /\ y \notin T
    BY <2>2, <2>3
  <2>5. In(t, y) /\ 2 * y <= t
    <3>1. DaysBefore(y) \in Nat /\ DaysBefore(y) >= y
      BY <2>4, YearFollows
    <3>2. 2 * DaysBefore(y) <= t
      BY <2>4, <3>1
    <3>. QED  BY <2>2, <2>4, <3>1, <3>2 DEF In
  <2>. HIDE DEF y
  <2>. QED  BY <2>4, <2>5
<1>. DEFINE year == CHOOSE y \in 0 .. (t \div 2) : In(t, y)
<1>4. YearOf(t) = year
  BY DEF YearOf, In
<1>5. year \in 0 .. (t \div 2) /\ In(t, year)
  BY <1>3
<1>. HIDE DEF year
<1>. QED  BY <1>2, <1>4, <1>5

\* The days of the year before the day of that name.
Past(y, day) == day - 1 - (IF ~IsLeap(y) /\ day > LeapDay THEN 1 ELSE 0)

\* A time is the date that is read off it.
LEMMA DateOfTime ==
  ASSUME NEW t \in Nat
  PROVE  /\ DayOf(t) \in 1 .. Days /\ (DayOf(t) = LeapDay => IsLeap(YearOf(t)))
         /\ Date(YearOf(t), DayOf(t), t % 2) = t
<1>. DEFINE y == YearOf(t)
            d == t \div 2 - DaysBefore(y) + 1
<1>1. y \in Nat /\ In(t, y)
  BY YearIs
<1>2. DaysBefore(y) \in Nat /\ DaysBefore(y + 1) = DaysBefore(y) + DaysOf(y) /\ DaysOf(y) \in Nat
  BY <1>1, YearFollows, CalendarAssumption
<1>3. t \div 2 \in Nat /\ t % 2 \in 0 .. 1 /\ t = 2 * (t \div 2) + (t % 2)
  OBVIOUS
<1>. HIDE DEF y
<1>4. d \in 1 .. DaysOf(y)
  BY <1>1, <1>2, <1>3 DEF In
<1>5. DayOf(t) = IF ~IsLeap(y) /\ d >= LeapDay THEN d + 1 ELSE d
  BY DEF DayOf, y
<1>6. DayOf(t) \in 1 .. Days /\ (DayOf(t) = LeapDay => IsLeap(y)) /\ Past(y, DayOf(t)) = d - 1
  BY <1>4, <1>5, CalendarAssumption DEF Past, DaysOf
<1>7. Date(y, DayOf(t), t % 2) = 2 * (DaysBefore(y) + Past(y, DayOf(t))) + (t % 2)
  BY <1>2, <1>3, <1>6, CalendarAssumption DEF Date, Past
<1>. QED  BY <1>2, <1>3, <1>6, <1>7 DEF y

\* And a date is read off its time, but for the leap day of another year.
LEMMA TimeOfDate ==
  ASSUME NEW y \in Nat, NEW day \in 1 .. Days, NEW half \in 0 .. 1
  PROVE  LET t == Date(y, day, half) IN
         /\ t \in Nat /\ YearOf(t) = y /\ t % 2 = half
         /\ DayOf(t) = IF ~IsLeap(y) /\ day = LeapDay THEN LeapDay + 1 ELSE day
<1>. DEFINE t == Date(y, day, half)
<1>1. DaysBefore(y) \in Nat /\ DaysBefore(y + 1) = DaysBefore(y) + DaysOf(y)
  BY YearFollows
<1>2. Past(y, day) \in 0 .. DaysOf(y) - 1
  BY CalendarAssumption DEF Past, DaysOf
<1>3. t = 2 * (DaysBefore(y) + Past(y, day)) + half
  BY <1>1, CalendarAssumption DEF Date, Past
<1>. HIDE DEF t
<1>4. t \in Nat /\ t % 2 = half /\ t \div 2 = DaysBefore(y) + Past(y, day)
  BY <1>1, <1>2, <1>3, CalendarAssumption DEF DaysOf
<1>5. In(t, y)
  BY <1>1, <1>2, <1>3, CalendarAssumption DEF In, DaysOf
<1>6. YearOf(t) = y
  BY <1>4, <1>5, YearIs
<1>7. DayOf(t) = IF ~IsLeap(y) /\ Past(y, day) + 1 >= LeapDay THEN Past(y, day) + 2 ELSE Past(y, day) + 1
  <2>1. t \div 2 - DaysBefore(y) + 1 = Past(y, day) + 1
    BY <1>1, <1>2, <1>4, CalendarAssumption DEF DaysOf
  <2>. QED  BY <1>2, <1>6, <2>1, CalendarAssumption DEF DayOf, DaysOf
<1>8. DayOf(t) = IF ~IsLeap(y) /\ day = LeapDay THEN LeapDay + 1 ELSE day
  BY <1>7, CalendarAssumption DEF Past
<1>. QED  BY <1>4, <1>6, <1>8 DEF t

\* parseTraditionalTS, for every line and every moment it may be read at.
THEOREM StampsAreRecovered ==
  \A stamp, now \in Nat : StampIsRecovered(stamp, now)
<1>. SUFFICES ASSUME NEW stamp \in Nat, NEW now \in Nat,
                     stamp <= now, stamp > now - 2 * (Days - 1) + 2
              PROVE  ParsedStamp(stamp, now) =
                       IF DayOf(stamp) = LeapDay /\ YearOf(stamp) # YearOf(now) THEN stamp + 2 ELSE stamp
  BY DEF StampIsRecovered
<1>. DEFINE ys == YearOf(stamp)
            yn == YearOf(now)
            n  == DayOf(stamp)
            h  == stamp % 2
            t  == Date(yn, n, h)
<1>0. Days \in Nat /\ Days >= 3 /\ LeapDay \in 2 .. Days - 1 /\ h \in 0 .. 1
  BY CalendarAssumption
<1>1. ys \in Nat /\ In(stamp, ys) /\ yn \in Nat /\ In(now, yn)
  BY YearIs
<1>2. n \in 1 .. Days /\ (n = LeapDay => IsLeap(ys)) /\ Date(ys, n, h) = stamp
  BY DateOfTime
<1>3. ParsedStamp(stamp, now) = IF t > now + 2 THEN Date(YearOf(t) - 1, DayOf(t), t % 2) ELSE t
  BY DEF ParsedStamp, RolledBack
<1>4. t \in Nat /\ YearOf(t) = yn /\ t % 2 = h
      /\ DayOf(t) = IF ~IsLeap(yn) /\ n = LeapDay THEN LeapDay + 1 ELSE n
  BY <1>0, <1>1, <1>2, TimeOfDate
<1>. HIDE DEF ys, yn, n, h, t
<1>5. yn = ys \/ yn = ys + 1
  <2>1. DaysBefore(ys) \in Nat /\ DaysBefore(yn) \in Nat /\ DaysBefore(ys + 1) \in Nat /\ DaysBefore(ys + 2) \in Nat
    BY <1>1, YearFollows
  <2>2. ~(yn < ys)
    <3>1. SUFFICES ASSUME yn + 1 <= ys  PROVE FALSE
      BY <1>1
    <3>2. DaysBefore(yn + 1) <= DaysBefore(ys) /\ DaysBefore(yn + 1) \in Nat
      BY <1>1, <3>1, YearsInOrder, YearFollows
    <3>. QED  BY <1>1, <2>1, <3>2 DEF In
  <2>3. ~(yn >= ys + 2)
    <3>1. SUFFICES ASSUME ys + 2 <= yn  PROVE FALSE
      BY <1>1
    <3>2. DaysBefore(ys + 2) <= DaysBefore(yn)
      BY <1>1, <3>1, YearsInOrder
    <3>3. DaysBefore((ys + 1) + 1) = DaysBefore(ys + 1) + DaysOf(ys + 1) /\ DaysOf(ys + 1) \in {Days - 1, Days}
      BY <1>1, YearFollows
    <3>4. (ys + 1) + 1 = ys + 2
      BY <1>1
    <3>. QED  BY <1>0, <1>1, <2>1, <3>2, <3>3, <3>4 DEF In
  <2>. QED  BY <1>1, <2>2, <2>3
<1>6. CASE yn = ys
  BY <1>0, <1>2, <1>3, <1>6 DEF t, ys, yn, n
<1>7. CASE yn = ys + 1
  <2>1. DaysBefore(ys) \in Nat /\ DaysBefore(yn) = DaysBefore(ys) + DaysOf(ys)
        /\ DaysOf(ys) \in {Days - 1, Days} /\ (IsLeap(ys) <=> DaysOf(ys) = Days) /\ ~(IsLeap(ys) /\ IsLeap(yn))
    BY <1>1, <1>7, YearFollows
  <2>2. stamp = 2 * (DaysBefore(ys) + Past(ys, n)) + h
    BY <1>0, <1>2, <2>1 DEF Date, Past
  <2>3. t = 2 * (DaysBefore(yn) + Past(yn, n)) + h
    BY <1>0, <1>2, <2>1 DEF Date, Past, t
  <2>4. Past(yn, n) >= Past(ys, n) - (IF IsLeap(ys) THEN 1 ELSE 0) /\ Past(yn, n) \in Int /\ Past(ys, n) \in Int
    BY <1>0, <1>2, <2>1 DEF Past
  <2>5. t >= stamp + 2 * (Days - 1)
    BY <1>0, <2>1, <2>2, <2>3, <2>4
  <2>6. ParsedStamp(stamp, now) = Date(ys, DayOf(t), h)
    <3>1. t > now + 2
      BY <1>0, <1>4, <2>5
    <3>2. (ys + 1) - 1 = ys
      BY <1>1
    <3>. QED  BY <1>3, <1>4, <1>7, <3>1, <3>2
  <2>7. CASE n = LeapDay
    <3>1. IsLeap(ys) /\ ~IsLeap(yn) /\ DayOf(t) = n + 1 /\ ys # yn
      BY <1>1, <1>2, <1>4, <1>7, <2>1, <2>7
    <3>2. Date(ys, n + 1, h) = stamp + 2
      BY <1>0, <1>2, <2>1, <2>2, <3>1 DEF Date, Past
    <3>. QED  BY <2>6, <2>7, <3>1, <3>2 DEF ys, yn, n
  <2>8. CASE n # LeapDay
    BY <1>2, <1>4, <2>6, <2>8 DEF n
  <2>. QED  BY <2>7, <2>8
<1>. QED  BY <1>5, <1>6, <1>7

-----------------------------------------------------------------------------
(* Lines.                                                                  *)

\* The first of the patterns, when one matches.
LEMMA FirstIs ==
  ASSUME NEW l, NEW patterns, Len(patterns) \in Nat, NEW i \in 1 .. Len(patterns),
         \A j \in 1 .. Len(patterns) : patterns[j] \in l.matches <=> j = i
  PROVE  FirstMatch(l, patterns) = i
<1>. DEFINE I == {j \in 1 .. Len(patterns) : patterns[j] \in l.matches}
<1>1. I = {i} /\ I # {}
  OBVIOUS
<1>2. Min(I) = i
  BY <1>1 DEF Min
<1>3. FirstMatch(l, patterns) = IF I # {} THEN Min(I) ELSE 0
  BY DEF FirstMatch, SelectInSeq
<1>. QED  BY <1>1, <1>2, <1>3

\* What the store keeps of an event.
Row(e) == [ts |-> e.ts, ip |-> e.ip, port |-> e.port, type |-> e.type, user |-> e.user]

\* The rows that are counted, by the lines they are of.
LEMMA CountedRows ==
  ASSUME NEW lines, NEW r, r.type \in Primary
  PROVE  r \in Rows(lines) <=> \E l \in lines : ParseLine(l).type \in Primary /\ r = Row(ParseLine(l))
<1>1. NoEvent.type \notin Primary
  BY DEF NoEvent, Primary
<1>2. \A e : Row(e).type = e.type
  BY DEF Row
<1>3. r \in Rows(lines) <=> \E l \in lines : ParseLine(l) # NoEvent /\ r = Row(ParseLine(l))
  BY DEF Rows, Row
<1>. QED  BY <1>1, <1>2, <1>3

\* What ParseLine makes of a line of sshd, by its pattern,
LEMMA SSHDLine ==
  ASSUME NEW c, NEW ts, NEW i \in 1 .. 6
  PROVE  LET l == Line(c, ts, "syslog", "sshd", sshdPatterns[i])
         IN  ParseLine(l) = Event(sshdPatterns[i], l, "sshd", c.ip,
                                  IF sshdPatterns[i] = "pam_failure" THEN NoPort ELSE c.port)
<1>. DEFINE l == Line(c, ts, "syslog", "sshd", sshdPatterns[i])
<1>1. Len(sshdPatterns) = 6 /\ \A j \in 1 .. 6 : sshdPatterns[j] \in l.matches <=> j = i
  BY DEF sshdPatterns, Line
<1>. HIDE DEF l
<1>2. FirstMatch(l, sshdPatterns) = i
  <2>1. /\ Len(sshdPatterns) \in Nat /\ i \in 1 .. Len(sshdPatterns)
        /\ \A j \in 1 .. Len(sshdPatterns) : sshdPatterns[j] \in l.matches <=> j = i
    BY <1>1
  <2>. QED  BY <2>1, FirstIs
<1>3. l.format = "syslog" /\ l.proc = "sshd" /\ l.readable = TRUE /\ l.ip = c.ip /\ l.port = c.port
  BY DEF Line, l
<1>4. ParseLine(l) = SSHDEvent(l)
  BY <1>3 DEF ParseLine, SyslogEvent
<1>. QED  BY <1>2, <1>3, <1>4 DEF SSHDEvent, TypeOf, l

\* of a line of nginx in either log,
LEMMA NginxLine ==
  ASSUME NEW c, NEW ts, NEW f \in {"nginx_error", "nginx_access"}
  PROVE  LET l == Line(c, ts, f, "", "http_auth_fail")
         IN  ParseLine(l) = Event("http_auth_fail", l, "nginx", c.ip, NoPort)
BY DEF Line, ParseLine, NginxEvent

\* and of a line of dovecot.
LEMMA DovecotLine ==
  ASSUME NEW c, NEW ts
  PROVE  LET l == Line(c, ts, "rfc3339", "dovecot", "dovecot")
         IN  ParseLine(l) = Event("mail_auth_fail", l, "dovecot", c.ip, NoPort)
BY DEF Line, ParseLine, SyslogEvent, MailEvent

-----------------------------------------------------------------------------
(* Attacks.                                                                *)

PortOf(c) == IF c.service = "sshd" THEN c.port ELSE NoPort
TypeOfAttack(c) ==
  IF c.service = "sshd" THEN "failed_password" ELSE IF c.service = "nginx" THEN "http_auth_fail" ELSE "mail_auth_fail"

PasswordRow(c, s) == [ts |-> s, ip |-> c.ip, port |-> PortOf(c), type |-> TypeOfAttack(c), user |-> c.user]
CutRow(c) == [ts |-> Last(c.wrong), ip |-> c.ip, port |-> c.port, type |-> "max_auth", user |-> c.user]

\* An attack has a first and a last wrong password, and finitely many.
LEMMA WrongType ==
  ASSUME NEW c \in Attacks
  PROVE  /\ Last(c.wrong) \in Nat /\ c.wrong[1] \in Nat
         /\ Range(c.wrong) \subseteq Nat /\ IsFiniteSet(Range(c.wrong))
<1>1. c.wrong \in Seq(Nat) /\ c.wrong # << >>
  BY DEF Attacks, Attack
<1>2. Len(c.wrong) \in Nat /\ Len(c.wrong) # 0 /\ DOMAIN c.wrong = 1 .. Len(c.wrong)
      /\ \A i \in 1 .. Len(c.wrong) : c.wrong[i] \in Nat
  BY <1>1, LenProperties, EmptySeq, ElementOfSeq
<1>3. IsFiniteSet(Range(c.wrong))
  <2>1. IsFiniteSet(DOMAIN c.wrong)
    BY <1>2, FS_Interval
  <2>. QED  BY <2>1, ImageFinite
<1>. QED  BY <1>2, <1>3 DEF Range, Last

\* What is counted of an attack: its wrong passwords, and the cut.
LEMMA AttackRows ==
  ASSUME NEW c \in Attacks, NEW r
  PROVE  (\E l \in Written(c) : ParseLine(l).type \in Primary /\ r = Row(ParseLine(l)))
           <=> \/ \E s \in Range(c.wrong) : r = PasswordRow(c, s)
               \/ c.service = "sshd" /\ c.ends = "max_auth" /\ r = CutRow(c)
<1>0. c.service \in {"sshd", "nginx", "dovecot"} /\ c.ends \in {"accepted", "disconnect_preauth", "max_auth"}
      /\ c.valid \in BOOLEAN
  BY DEF Attacks, Attack
<1>1. CASE c.service = "sshd"
  <2>. DEFINE line(s, i) == Line(c, s, "syslog", "sshd", sshdPatterns[i])
  <2>1. \A s, i : line(s, i).ts = s /\ line(s, i).user = c.user
    BY DEF Line
  <2>2. /\ sshdPatterns[1] = "accepted" /\ sshdPatterns[2] = "failed_password"
        /\ sshdPatterns[3] = "invalid_user" /\ sshdPatterns[4] = "max_auth"
        /\ sshdPatterns[5] = "disconnect_preauth" /\ sshdPatterns[6] = "pam_failure"
    BY DEF sshdPatterns
  <2>. DEFINE event(s, i) == ParseLine(line(s, i))
  <2>3. \A s : \A i \in 1 .. 6 :
          event(s, i) = Event(sshdPatterns[i], line(s, i), "sshd", c.ip,
                              IF sshdPatterns[i] = "pam_failure" THEN NoPort ELSE c.port)
    BY SSHDLine
  <2>. HIDE DEF line
  <2>4. \A s : \A i \in 1 .. 6 : event(s, i).type \in Primary <=> i \in {2, 4}
    BY <2>2, <2>3 DEF Event, Primary
  <2>5. \A s : Row(event(s, 2)) = PasswordRow(c, s)
    BY <1>1, <2>1, <2>2, <2>3 DEF Event, Row, PasswordRow, PortOf, TypeOfAttack
  <2>6. Row(event(Last(c.wrong), 4)) = CutRow(c)
    BY <2>1, <2>2, <2>3 DEF Event, Row, CutRow
  <2>. DEFINE ending == CHOOSE i \in {1, 4, 5} : sshdPatterns[i] = c.ends
  <2>7. ending \in {1, 4, 5} /\ sshdPatterns[ending] = c.ends /\ (ending = 4 <=> c.ends = "max_auth")
    <3>1. \E i \in {1, 4, 5} : sshdPatterns[i] = c.ends
      BY <1>0, <2>2
    <3>2. ending \in {1, 4, 5} /\ sshdPatterns[ending] = c.ends
      BY <3>1
    <3>. QED  BY <2>2, <3>2
  <2>. HIDE DEF ending
  <2>8. Written(c) = {line(s, 2) : s \in Range(c.wrong)}
                       \cup {line(c.wrong[1], 6), line(Last(c.wrong), ending)}
                       \cup (IF c.valid THEN {} ELSE {line(c.wrong[1], 3)})
    BY <1>1, <2>2, <2>7 DEF Written, WrittenBySSHD, line
  <2>9. ASSUME NEW l \in Written(c), ParseLine(l).type \in Primary
        PROVE  \/ \E s \in Range(c.wrong) : l = line(s, 2)
               \/ l = line(Last(c.wrong), 4) /\ c.ends = "max_auth"
    BY <2>4, <2>7, <2>8, <2>9
  <2>10. /\ \A s \in Range(c.wrong) : line(s, 2) \in Written(c)
         /\ c.ends = "max_auth" => line(Last(c.wrong), 4) \in Written(c)
    BY <2>7, <2>8
  <2>. QED  BY <1>1, <2>4, <2>5, <2>6, <2>9, <2>10
<1>2. CASE c.service = "nginx"
  <2>. DEFINE line(s, f) == Line(c, s, f, "", "http_auth_fail")
  <2>1. Written(c) = {line(s, f) : s \in Range(c.wrong), f \in {"nginx_error", "nginx_access"}}
    BY <1>2 DEF Written
  <2>2. \A s : \A f \in {"nginx_error", "nginx_access"} :
          ParseLine(line(s, f)).type \in Primary /\ Row(ParseLine(line(s, f))) = PasswordRow(c, s)
    <3>1. \A s, f : line(s, f).ts = s /\ line(s, f).user = c.user
      BY DEF Line
    <3>2. \A s : \A f \in {"nginx_error", "nginx_access"} :
            ParseLine(line(s, f)) = Event("http_auth_fail", line(s, f), "nginx", c.ip, NoPort)
      BY NginxLine
    <3>. HIDE DEF line
    <3>. QED  BY <1>2, <3>1, <3>2 DEF Event, Row, PasswordRow, PortOf, TypeOfAttack, Primary
  <2>. HIDE DEF line
  <2>. QED  BY <1>2, <2>1, <2>2
<1>3. CASE c.service = "dovecot"
  <2>. DEFINE line(s) == Line(c, s, "rfc3339", "dovecot", "dovecot")
  <2>1. Written(c) = {line(s) : s \in Range(c.wrong)}
    BY <1>3 DEF Written
  <2>2. \A s : ParseLine(line(s)).type \in Primary /\ Row(ParseLine(line(s))) = PasswordRow(c, s)
    <3>1. \A s : line(s).ts = s /\ line(s).user = c.user
      BY DEF Line
    <3>2. \A s : ParseLine(line(s)) = Event("mail_auth_fail", line(s), "dovecot", c.ip, NoPort)
      BY DovecotLine
    <3>. HIDE DEF line
    <3>. QED  BY <1>3, <3>1, <3>2 DEF Event, Row, PasswordRow, PortOf, TypeOfAttack, Primary
  <2>. HIDE DEF line
  <2>. QED  BY <1>3, <2>1, <2>2
<1>. QED  BY <1>0, <1>1, <1>2, <1>3

\* Of two patterns one matches, or none.
LEMMA FirstOfTwo ==
  ASSUME NEW l, NEW p, Len(p) = 2
  PROVE  FirstMatch(l, p) \in 0 .. 2
<1>. DEFINE I == {j \in 1 .. Len(p) : p[j] \in l.matches}
<1>1. FirstMatch(l, p) = IF I # {} THEN Min(I) ELSE 0
  BY DEF FirstMatch, SelectInSeq
<1>2. I \subseteq 1 .. 2
  OBVIOUS
<1>. HIDE DEF I
<1>3. I # {} => \E x \in I : \A y \in I : x <= y
  <2>1. CASE 1 \in I
    BY <1>2, <2>1
  <2>2. CASE 1 \notin I
    <3>1. \A y \in I : y = 2
      BY <1>2, <2>2
    <3>. QED  BY <3>1
  <2>. QED  BY <2>1, <2>2
<1>4. I # {} => Min(I) \in I
  BY <1>3 DEF Min
<1>5. CASE I = {}
  BY <1>1, <1>5
<1>6. CASE I # {}
  <2>1. FirstMatch(l, p) = Min(I)
    BY <1>1, <1>6, Zenon
  <2>2. Min(I) \in I
    BY <1>4, <1>6, Zenon
  <2>3. FirstMatch(l, p) \in 1 .. 2
    BY <1>2, <2>1, <2>2, Zenon
  <2>. QED  BY <2>3
<1>. QED  BY <1>5, <1>6

\* Nothing is counted of the other lines.
LEMMA NoiseIsSilent ==
  ASSUME NEW l \in Noise
  PROVE  ParseLine(l).type \notin Primary
<1>1. PICK ip \in IPs, u \in Users, f \in OtherLines :
        l = [format |-> f[1], proc |-> f[2], matches |-> {f[3]}, ts |-> 0, readable |-> f[4],
             ip |-> ip, user |-> u, port |-> NoPort]
  BY DEF Noise
<1>2. l.format = f[1] /\ l.proc = f[2] /\ l.readable = f[4]
  BY <1>1
<1>3. \/ f[1] = "syslog" /\ f[2] = "sudo" /\ f[4] = TRUE
      \/ f[1] \in {"rfc3339", "syslog"} /\ f[2] \in {"useradd", "userdel"} /\ f[4] = TRUE
      \/ f[1] = "fail2ban" /\ f[4] = TRUE
      \/ f[1] = "syslog" /\ f[2] = "cron" /\ f[4] = TRUE
      \/ f[1] = "syslog" /\ f[4] = FALSE
      \/ f[1] = "plain"
  <2>1. \/ f = <<"syslog", "sudo", "sudo_session", TRUE>> \/ f = <<"syslog", "sudo", "sudo_fail", TRUE>>
        \/ f = <<"rfc3339", "useradd", "user_add", TRUE>> \/ f = <<"syslog", "userdel", "user_del", TRUE>>
        \/ f = <<"fail2ban", "", "ban", TRUE>> \/ f = <<"fail2ban", "", "unban", TRUE>>
        \/ f = <<"syslog", "cron", "failed_password", TRUE>>
        \/ f = <<"syslog", "sshd", "failed_password", FALSE>>
        \/ f = <<"plain", "sshd", "failed_password", TRUE>>
    BY DEF OtherLines
  <2>2. CASE f = <<"syslog", "sudo", "sudo_session", TRUE>>
    BY <2>2
  <2>3. CASE f = <<"syslog", "sudo", "sudo_fail", TRUE>>
    BY <2>3
  <2>4. CASE f = <<"rfc3339", "useradd", "user_add", TRUE>>
    BY <2>4
  <2>5. CASE f = <<"syslog", "userdel", "user_del", TRUE>>
    BY <2>5
  <2>6. CASE f = <<"fail2ban", "", "ban", TRUE>>
    BY <2>6
  <2>7. CASE f = <<"fail2ban", "", "unban", TRUE>>
    BY <2>7
  <2>8. CASE f = <<"syslog", "cron", "failed_password", TRUE>>
    BY <2>8
  <2>9. CASE f = <<"syslog", "sshd", "failed_password", FALSE>>
    BY <2>9
  <2>10. CASE f = <<"plain", "sshd", "failed_password", TRUE>>
    BY <2>10
  <2>. QED  BY <2>1, <2>2, <2>3, <2>4, <2>5, <2>6, <2>7, <2>8, <2>9, <2>10, Zenon
<1>4. \A t, s, ad, port : t \notin Primary => Event(t, l, s, ad, port).type \notin Primary
  BY DEF Event
<1>5. NoEvent.type \notin Primary
  BY DEF NoEvent, Primary
<1>6. CASE l.format = "syslog" /\ l.proc = "sudo" /\ l.readable = TRUE
  <2>1. ParseLine(l) = SudoEvent(l)
    BY <1>6 DEF ParseLine, SyslogEvent
  <2>. DEFINE p == <<"sudo_session", "sudo_fail">>
  <2>2. Len(p) = 2 /\ \A i \in 1 .. 2 : p[i] \notin Primary
    BY DEF Primary
  <2>3. SudoEvent(l) = IF FirstMatch(l, p) = 0 THEN NoEvent
                       ELSE Event(p[FirstMatch(l, p)], l, "sudo", NoIP, NoPort)
    BY DEF SudoEvent
  <2>. HIDE DEF p
  <2>. QED  BY <1>4, <1>5, <2>1, <2>2, <2>3, FirstOfTwo
<1>7. CASE l.format \in {"rfc3339", "syslog"} /\ l.proc \in {"useradd", "userdel"} /\ l.readable = TRUE
  <2>1. ParseLine(l) = UserEvent(l)
    BY <1>7 DEF ParseLine, SyslogEvent
  <2>2. "user_add" \notin Primary /\ "user_del" \notin Primary
    BY DEF Primary
  <2>. QED  BY <1>4, <1>5, <2>1, <2>2 DEF UserEvent
<1>8. CASE l.format = "fail2ban" /\ l.readable = TRUE
  <2>1. ParseLine(l) = Fail2banEvent(l)
    BY <1>8 DEF ParseLine
  <2>. DEFINE p == <<"ban", "unban">>
  <2>2. Len(p) = 2 /\ \A i \in 1 .. 2 : p[i] \notin Primary
    BY DEF Primary
  <2>3. Fail2banEvent(l) = IF FirstMatch(l, p) = 0 THEN NoEvent
                           ELSE Event(p[FirstMatch(l, p)], l, "fail2ban", l.ip, NoPort)
    BY <1>8 DEF Fail2banEvent
  <2>. HIDE DEF p
  <2>. QED  BY <1>4, <1>5, <2>1, <2>2, <2>3, FirstOfTwo
<1>9. CASE l.format = "plain" \/ (l.format = "syslog" /\ (l.proc = "cron" \/ l.readable = FALSE))
  <2>1. ParseLine(l) = NoEvent
    BY <1>9 DEF ParseLine, SyslogEvent
  <2>. QED  BY <1>5, <2>1
<1>. QED  BY <1>2, <1>3, <1>6, <1>7, <1>8, <1>9

\* ParseLine, the dedup index and CountIPEvents, for any attacks and any other
\* lines: wrong passwords are counted once, and nothing else is.
THEOREM AttemptsAreCountedOnce ==
  ASSUME NEW attacks, attacks \subseteq Attacks, IsFiniteSet(attacks), NEW noise, noise \subseteq Noise, NEW ip
  PROVE  AttemptsAreCounted(attacks, noise, ip)
<1>. DEFINE lines == (UNION {Written(c) : c \in attacks}) \cup noise
            mine  == {c \in attacks : c.ip = ip}
            type(c) == IF c.service = "sshd" THEN "ssh" ELSE IF c.service = "nginx" THEN "http" ELSE "mail"
            cut   == {c \in mine : c.service = "sshd" /\ c.ends = "max_auth"}
            passwords == UNION {{PasswordRow(c, s) : s \in Range(c.wrong)} : c \in mine}
            cuts  == {CutRow(c) : c \in cut}
            counted == {r \in Rows(lines) : r.ip = ip /\ r.ts >= 0 /\ r.type \in Primary}
            tuples == UNION {{<<type(c), PortOf(c), c.user, s>> : s \in Range(c.wrong)} : c \in mine}
            ends  == {<<c.port, c.user, Last(c.wrong)>> : c \in cut}
<1>1. IsFiniteSet(mine) /\ IsFiniteSet(cut) /\ mine \subseteq Attacks /\ cut \subseteq Attacks
  BY FS_Subset
<1>a. \A l : l \in lines <=> l \in noise \/ \E c \in attacks : l \in Written(c)
  OBVIOUS
<1>b. \A r : r \in passwords <=> \E c \in mine : \E s \in Range(c.wrong) : r = PasswordRow(c, s)
  OBVIOUS
<1>c. \A r : r \in cuts <=> \E c \in cut : r = CutRow(c)
  OBVIOUS
<1>d. \A r : r \in counted <=> r \in Rows(lines) /\ r.ip = ip /\ r.ts >= 0 /\ r.type \in Primary
  OBVIOUS
<1>e. \A t : t \in tuples <=> \E c \in mine : \E s \in Range(c.wrong) : t = <<type(c), PortOf(c), c.user, s>>
  OBVIOUS
<1>f. \A t : t \in ends <=> \E c \in cut : t = <<c.port, c.user, Last(c.wrong)>>
  OBVIOUS
<1>9. CountIPEvents(Rows(lines), ip, 0) = Cardinality(counted)
  BY DEF CountIPEvents
<1>10. AttemptsAreCounted(attacks, noise, ip)
         <=> CountIPEvents(Rows(lines), ip, 0) = Cardinality(tuples) + Cardinality(ends)
  BY DEF AttemptsAreCounted, PortOf
<1>4. IsFiniteSet(passwords)
  <2>. DEFINE of(c) == {PasswordRow(c, s) : s \in Range(c.wrong)}
  <2>1. ASSUME NEW c \in mine  PROVE IsFiniteSet(of(c))
    <3>. DEFINE f == [s \in Range(c.wrong) |-> PasswordRow(c, s)]
    <3>1. IsFiniteSet(DOMAIN f)
      BY <1>1, WrongType
    <3>2. Range(f) = of(c)
      BY DEF Range
    <3>. HIDE DEF f, of
    <3>. QED  BY <3>1, <3>2, ImageFinite
  <2>. DEFINE g == [c \in mine |-> of(c)]
  <2>2. IsFiniteSet(DOMAIN g)
    BY <1>1
  <2>3. \A T \in Range(g) : IsFiniteSet(T)
    BY <2>1 DEF Range
  <2>4. UNION Range(g) = passwords
    <3>1. Range(g) = {of(c) : c \in mine}
      BY DEF Range
    <3>. QED  BY <3>1
  <2>. HIDE DEF g, passwords
  <2>5. IsFiniteSet(Range(g))
    BY <2>2, ImageFinite
  <2>6. IsFiniteSet(UNION Range(g))
    BY <2>3, <2>5, FS_UNION
  <2>. QED  BY <2>4, <2>6
<1>5. IsFiniteSet(cuts)
  <2>. DEFINE f == [c \in cut |-> CutRow(c)]
  <2>1. IsFiniteSet(DOMAIN f)
    BY <1>1
  <2>2. Range(f) = cuts
    BY DEF Range
  <2>. HIDE DEF f, cuts
  <2>. QED  BY <2>1, <2>2, ImageFinite
<1>. HIDE DEF lines, passwords, cuts, counted, tuples, ends
<1>2. counted = passwords \cup cuts
  <2>1. ASSUME NEW r, r.type \in Primary
        PROVE  r \in Rows(lines) <=>
                 \E c \in attacks : \/ \E s \in Range(c.wrong) : r = PasswordRow(c, s)
                                    \/ c.service = "sshd" /\ c.ends = "max_auth" /\ r = CutRow(c)
    <3>1. r \in Rows(lines) <=> \E l \in lines : ParseLine(l).type \in Primary /\ r = Row(ParseLine(l))
      BY <2>1, CountedRows
    <3>2. (\E l \in lines : ParseLine(l).type \in Primary /\ r = Row(ParseLine(l)))
            <=> \E c \in attacks : \E l \in Written(c) : ParseLine(l).type \in Primary /\ r = Row(ParseLine(l))
      BY <1>a, NoiseIsSilent
    <3>3. \A c \in attacks : (\E l \in Written(c) : ParseLine(l).type \in Primary /\ r = Row(ParseLine(l)))
           <=> \/ \E s \in Range(c.wrong) : r = PasswordRow(c, s)
               \/ c.service = "sshd" /\ c.ends = "max_auth" /\ r = CutRow(c)
      BY AttackRows
    <3>. QED  BY <3>1, <3>2, <3>3
  <2>2. \A c, s : /\ PasswordRow(c, s).ip = c.ip /\ PasswordRow(c, s).ts = s
                  /\ PasswordRow(c, s).type \in Primary
    BY DEF PasswordRow, TypeOfAttack, Primary
  <2>3. \A c : CutRow(c).ip = c.ip /\ CutRow(c).ts = Last(c.wrong) /\ CutRow(c).type \in Primary
    BY DEF CutRow, Primary
  <2>4. \A c \in attacks : Last(c.wrong) >= 0 /\ \A s \in Range(c.wrong) : s >= 0
    BY WrongType
  <2>5. ASSUME NEW r \in counted  PROVE r \in passwords \cup cuts
    <3>1. r \in Rows(lines) /\ r.ip = ip /\ r.type \in Primary
      BY <1>d
    <3>2. PICK c \in attacks : \/ \E s \in Range(c.wrong) : r = PasswordRow(c, s)
                               \/ c.service = "sshd" /\ c.ends = "max_auth" /\ r = CutRow(c)
      BY <2>1, <3>1
    <3>3. c \in mine
      BY <2>2, <2>3, <3>1, <3>2
    <3>. QED  BY <1>b, <1>c, <3>2, <3>3
  <2>6. ASSUME NEW r \in passwords \cup cuts  PROVE r \in counted
    <3>1. CASE r \in passwords
      <4>1. PICK c \in mine : \E s \in Range(c.wrong) : r = PasswordRow(c, s)
        BY <1>b, <3>1
      <4>2. r.type \in Primary /\ r.ip = ip /\ r.ts >= 0
        BY <2>2, <2>4, <4>1
      <4>. QED  BY <1>d, <2>1, <4>1, <4>2
    <3>2. CASE r \in cuts
      <4>1. PICK c \in cut : r = CutRow(c)
        BY <1>c, <3>2
      <4>2. r.type \in Primary /\ r.ip = ip /\ r.ts >= 0
        BY <2>3, <2>4, <4>1
      <4>. QED  BY <1>d, <2>1, <4>1, <4>2
    <3>. QED  BY <3>1, <3>2
  <2>. QED  BY <2>5, <2>6
<1>3. passwords \cap cuts = {}
  <2>1. \A c, s, d : PasswordRow(c, s).type # CutRow(d).type
    BY DEF PasswordRow, CutRow, TypeOfAttack
  <2>. QED  BY <1>b, <1>c, <2>1
<1>6. Cardinality(counted) = Cardinality(passwords) + Cardinality(cuts)
  <2>1. Cardinality(passwords) \in Nat /\ Cardinality(cuts) \in Nat
    BY <1>4, <1>5, FS_CardinalityType
  <2>2. Cardinality(passwords \cup cuts) = Cardinality(passwords) + Cardinality(cuts) - Cardinality({})
    BY <1>3, <1>4, <1>5, FS_Union
  <2>. QED  BY <1>2, <2>1, <2>2, FS_EmptySet
<1>7. Cardinality(passwords) = Cardinality(tuples)
  <2>. DEFINE name(t) == IF t = "failed_password" THEN "ssh" ELSE IF t = "http_auth_fail" THEN "http" ELSE "mail"
              f == [r \in passwords |-> <<name(r.type), r.port, r.user, r.ts>>]
  <2>1. ASSUME NEW c \in mine, NEW s \in Range(c.wrong)
        PROVE  /\ PasswordRow(c, s) \in passwords
               /\ f[PasswordRow(c, s)] = <<type(c), PortOf(c), c.user, s>>
    <3>1. PasswordRow(c, s) \in passwords
      BY <1>b
    <3>. DEFINE r == PasswordRow(c, s)
    <3>2. r.ts = s /\ r.port = PortOf(c) /\ r.user = c.user /\ name(r.type) = type(c)
      BY DEF PasswordRow, TypeOfAttack
    <3>3. f[r] = <<name(r.type), r.port, r.user, r.ts>>
      BY <3>1
    <3>. QED  BY <3>1, <3>2, <3>3
  <2>3. f \in [passwords -> tuples]
    <3>1. ASSUME NEW r \in passwords  PROVE f[r] \in tuples
      <4>1. PICK c \in mine : \E s \in Range(c.wrong) : r = PasswordRow(c, s)
        BY <1>b
      <4>2. PICK s \in Range(c.wrong) : r = PasswordRow(c, s)
        BY <4>1
      <4>3. f[r] = <<type(c), PortOf(c), c.user, s>>
        BY <2>1, <4>2
      <4>. QED  BY <1>e, <4>3
    <3>. QED  BY <3>1
  <2>4. ASSUME NEW t \in tuples  PROVE \E r \in passwords : f[r] = t
    <3>1. PICK c \in mine : \E s \in Range(c.wrong) : t = <<type(c), PortOf(c), c.user, s>>
      BY <1>e
    <3>2. PICK s \in Range(c.wrong) : t = <<type(c), PortOf(c), c.user, s>>
      BY <3>1
    <3>. QED  BY <2>1, <3>2
  <2>5. ASSUME NEW q \in passwords, NEW r \in passwords, f[q] = f[r]  PROVE q = r
    <3>1. PICK c \in mine : \E s \in Range(c.wrong) : q = PasswordRow(c, s)
      BY <1>b
    <3>2. PICK s \in Range(c.wrong) : q = PasswordRow(c, s)
      BY <3>1
    <3>3. PICK d \in mine : \E u \in Range(d.wrong) : r = PasswordRow(d, u)
      BY <1>b
    <3>4. PICK u \in Range(d.wrong) : r = PasswordRow(d, u)
      BY <3>3
    <3>a. <<type(c), PortOf(c), c.user, s>> = <<type(d), PortOf(d), d.user, u>>
      BY <2>1, <2>5, <3>2, <3>4
    <3>. HIDE DEF f
    <3>5. type(c) = type(d) /\ PortOf(c) = PortOf(d) /\ c.user = d.user /\ s = u
      BY <3>a
    <3>6. c.service \in {"sshd", "nginx", "dovecot"} /\ d.service \in {"sshd", "nginx", "dovecot"}
      BY <1>1 DEF Attacks, Attack
    <3>7. c.service = d.service
      BY <3>5, <3>6
    <3>8. TypeOfAttack(c) = TypeOfAttack(d) /\ c.ip = d.ip
      BY <3>7 DEF TypeOfAttack
    <3>. QED  BY <3>2, <3>4, <3>5, <3>8 DEF PasswordRow
  <2>. HIDE DEF f
  <2>. QED  BY <1>4, <2>3, <2>4, <2>5, SameSize
<1>8. Cardinality(cuts) = Cardinality(ends)
  <2>. DEFINE f == [r \in cuts |-> <<r.port, r.user, r.ts>>]
  <2>1. ASSUME NEW c \in cut  PROVE CutRow(c) \in cuts /\ f[CutRow(c)] = <<c.port, c.user, Last(c.wrong)>>
    <3>1. CutRow(c) \in cuts
      BY <1>c
    <3>2. CutRow(c).port = c.port /\ CutRow(c).user = c.user /\ CutRow(c).ts = Last(c.wrong)
      BY DEF CutRow
    <3>. QED  BY <3>1, <3>2
  <2>2. f \in [cuts -> ends]
    <3>1. \A r \in cuts : f[r] \in ends
      <4>1. SUFFICES ASSUME NEW r \in cuts  PROVE f[r] \in ends
        OBVIOUS
      <4>2. PICK c \in cut : r = CutRow(c)
        BY <1>c
      <4>3. f[r] = <<c.port, c.user, Last(c.wrong)>>
        BY <2>1, <4>2
      <4>. HIDE DEF f
      <4>. QED  BY <1>f, <4>3
    <3>. QED  BY <3>1
  <2>3. ASSUME NEW t \in ends  PROVE \E r \in cuts : f[r] = t
    <3>1. PICK c \in cut : t = <<c.port, c.user, Last(c.wrong)>>
      BY <1>f
    <3>2. CutRow(c) \in cuts /\ f[CutRow(c)] = t
      BY <2>1, <3>1
    <3>. HIDE DEF f
    <3>. QED  BY <3>2
  <2>4. ASSUME NEW q \in cuts, NEW r \in cuts, f[q] = f[r]  PROVE q = r
    <3>1. PICK c \in cut : q = CutRow(c)
      BY <1>c
    <3>2. PICK d \in cut : r = CutRow(d)
      BY <1>c
    <3>a. <<c.port, c.user, Last(c.wrong)>> = <<d.port, d.user, Last(d.wrong)>>
      BY <2>1, <2>4, <3>1, <3>2
    <3>3. c.port = d.port /\ c.user = d.user /\ Last(c.wrong) = Last(d.wrong) /\ c.ip = d.ip
      BY <3>a
    <3>. QED  BY <3>1, <3>2, <3>3 DEF CutRow
  <2>. HIDE DEF f
  <2>. QED  BY <1>5, <2>2, <2>3, <2>4, SameSize
<1>. QED  BY <1>6, <1>7, <1>8, <1>9, <1>10

-----------------------------------------------------------------------------
(* Replies.                                                                *)

Unread == [buf |-> << >>, status |-> "reading"]

\* What the read loop has after the first m pieces: read is the function of its
\* definition.
Receives(read, chunks, m) ==
  read = [k \in 0 .. m |-> IF k = 0 THEN Unread ELSE ReadInto(read[k - 1], chunks[k])]

\* There is such a function, for any number of pieces.
LEMMA ReceivesExists ==
  ASSUME NEW chunks, NEW m \in Nat
  PROVE  \E read : Receives(read, chunks, m)
<1>1. SUFFICES ASSUME ~\E read : Receives(read, chunks, m)  PROVE FALSE
  OBVIOUS
<1>. DEFINE T == {k \in Nat : ~\E read : Receives(read, chunks, k)}
<1>2. T \in SUBSET Nat /\ T # {}
  BY <1>1
<1>3. PICK k \in T : \A j \in T : k <= j
  BY <1>2, Least
<1>4. k \in Nat /\ ~\E read : Receives(read, chunks, k)
  OBVIOUS
<1>5. CASE k = 0
  <2>. DEFINE f == [n \in 0 .. 0 |-> Unread]
  <2>1. \A n \in 0 .. 0 : n = 0
    OBVIOUS
  <2>2. f = [n \in 0 .. 0 |-> IF n = 0 THEN Unread ELSE ReadInto(f[n - 1], chunks[n])]
    BY <2>1
  <2>. QED  BY <1>4, <1>5, <2>2 DEF Receives
<1>6. CASE k # 0
  <2>1. PICK j \in Nat : k = j + 1
    <3>1. k - 1 \in Nat /\ k = (k - 1) + 1
      BY <1>4, <1>6
    <3>. QED  BY <3>1
  <2>2. PICK f : Receives(f, chunks, j)
    <3>1. ~(k <= j)
      BY <2>1
    <3>. QED  BY <1>3, <3>1
  <2>. DEFINE g == [n \in 0 .. k |-> IF n = k THEN ReadInto(f[j], chunks[k]) ELSE f[n]]
  <2>3. \A n \in 0 .. j : f[n] = IF n = 0 THEN Unread ELSE ReadInto(f[n - 1], chunks[n])
    BY <2>2 DEF Receives
  <2>4. ASSUME NEW n \in 0 .. k
        PROVE  g[n] = IF n = 0 THEN Unread ELSE ReadInto(g[n - 1], chunks[n])
    <3>1. CASE n = k
      <4>1. n # 0 /\ n - 1 = j /\ j \in 0 .. k /\ j # k
        BY <2>1, <3>1
      <4>2. g[n] = ReadInto(f[j], chunks[n]) /\ g[j] = f[j]
        BY <3>1, <4>1
      <4>. QED  BY <4>1, <4>2
    <3>2. CASE n = 0 /\ n # k
      <4>1. n \in 0 .. j
        BY <2>1, <3>2
      <4>. QED  BY <2>3, <3>2, <4>1
    <3>3. CASE n # 0 /\ n # k
      <4>1. n \in 0 .. j /\ n - 1 \in 0 .. k /\ n - 1 # k
        BY <2>1, <3>3
      <4>2. g[n] = f[n] /\ g[n - 1] = f[n - 1]
        BY <3>3, <4>1
      <4>. QED  BY <2>3, <3>3, <4>1, <4>2
    <3>. QED  BY <3>1, <3>2, <3>3
  <2>5. g = [n \in 0 .. k |-> g[n]]
    OBVIOUS
  <2>. HIDE DEF g
  <2>6. g = [n \in 0 .. k |-> IF n = 0 THEN Unread ELSE ReadInto(g[n - 1], chunks[n])]
    BY <2>4, <2>5
  <2>. QED  BY <1>4, <2>6 DEF Receives
<1>. QED  BY <1>5, <1>6

\* What is read of a stream when e symbols of it have come.
ReadUpTo(r, stream, e) ==
  IF e > MaxResponse THEN r.status = "error"
  ELSE r.buf = SubSeq(stream, 1, e) /\ r.status = IF e = Len(stream) THEN "whole" ELSE "reading"

\* One more piece: the loop goes on, ends with the reply, or gives up for good.
LEMMA ReadsOn ==
  ASSUME NEW stream \in Seq(Nat), stream # << >>, HasSuffix(stream, EndMarker),
         \A n \in 1 .. Len(stream) - 1 : ~HasSuffix(SubSeq(stream, 1, n), EndMarker),
         NEW e \in 0 .. Len(stream), NEW f \in e .. Len(stream),
         NEW r, ReadUpTo(r, stream, e)
  PROVE  ReadUpTo(ReadInto(r, SubSeq(stream, e + 1, f)), stream, f)
<1>. DEFINE chunk == SubSeq(stream, e + 1, f)
            buf   == r.buf \o chunk
<1>1. Len(stream) \in Nat /\ MaxResponse \in Nat /\ Len(EndMarker) \in Nat /\ Len(EndMarker) > 0
  BY LenProperties, EmptySeq, ReplyAssumption
<1>2. CASE e > MaxResponse
  <2>1. f > MaxResponse /\ r.status = "error"
    BY <1>1, <1>2 DEF ReadUpTo
  <2>2. ReadInto(r, chunk) = r
    BY <2>1 DEF ReadInto
  <2>. QED  BY <2>1, <2>2 DEF ReadUpTo
<1>3. CASE ~(e > MaxResponse) /\ e = Len(stream)
  <2>1. f = e /\ r.status = "whole"
    BY <1>1, <1>3 DEF ReadUpTo
  <2>2. ReadInto(r, chunk) = r
    BY <2>1 DEF ReadInto
  <2>. QED  BY <2>1, <2>2
<1>4. CASE ~(e > MaxResponse) /\ e # Len(stream)
  <2>1. r.status = "reading" /\ r.buf = SubSeq(stream, 1, e)
    BY <1>4 DEF ReadUpTo
  <2>2. buf = SubSeq(stream, 1, f)
    <3>1. 1 \in 1 .. Len(stream) + 1 /\ e \in 1 - 1 .. Len(stream)
      BY <1>1
    <3>. QED  BY <2>1, <3>1, ConcatAdjacentSubSeq
  <2>3. Len(SubSeq(stream, 1, f)) = f
    <3>1. \A i \in 1 .. f : stream[i] \in Nat
      BY <1>1, ElementOfSeq
    <3>2. f \in Nat
      BY <1>1
    <3>. QED  BY <3>1, <3>2, SubSeqProperties
  <2>4. HasSuffix(SubSeq(stream, 1, f), EndMarker) <=> f = Len(stream)
    <3>1. CASE f = Len(stream)
      BY <3>1, SubSeqFull
    <3>2. CASE f = 0
      BY <1>1, <2>3, <3>2 DEF HasSuffix
    <3>3. CASE f # Len(stream) /\ f # 0
      <4>1. f \in 1 .. Len(stream) - 1
        BY <1>1, <3>3
      <4>. QED  BY <3>3, <4>1
    <3>4. f = 0 => f # Len(stream)
      BY <1>1, EmptySeq
    <3>. QED  BY <3>1, <3>2, <3>3, <3>4
  <2>. HIDE DEF chunk
  <2>5. ReadInto(r, chunk) =
          [buf |-> SubSeq(stream, 1, f),
           status |-> IF f > MaxResponse THEN "error" ELSE IF f = Len(stream) THEN "whole" ELSE "reading"]
    BY <2>1, <2>2, <2>3, <2>4 DEF ReadInto
  <2>. QED  BY <2>5 DEF ReadUpTo, chunk
<1>. QED  BY <1>2, <1>3, <1>4

\* execSocket's read loop, for any reply and however it is cut into pieces: the
\* payload when all of it came, an error and never a part otherwise.
THEOREM RepliesAreWhole ==
  ASSUME NEW body \in Seq(Nat), NEW ends, Places(ends, body)
  PROVE  ReplyIsWholeOrError(body, ends)
<1>. DEFINE stream == body \o EndMarker
            chunks == Pieces(stream, ends)
            m == Len(ends)
            read == CHOOSE f : Receives(f, chunks, m)
            e(k) == IF k = 0 THEN 0 ELSE ends[k]
<1>0. /\ EndMarker \in Seq(Nat) /\ EndMarker # << >> /\ MaxResponse \in Nat
      /\ Len(body) \in Nat /\ Len(EndMarker) \in Nat /\ Len(EndMarker) > 0
  BY ReplyAssumption, LenProperties, EmptySeq
<1>1. stream \in Seq(Nat) /\ Len(stream) = Len(body) + Len(EndMarker) /\ stream # << >>
  BY <1>0, ConcatProperties, EmptySeq
<1>2. m \in Nat /\ \A k \in 1 .. m : ends[k] \in 0 .. Len(stream)
  BY <1>1, LenProperties, ElementOfSeq DEF Places
<1>3. HasSuffix(stream, EndMarker)
  <2>1. SubSeq(stream, Len(body) + 1, Len(body) + Len(EndMarker))
          = SubSeq(EndMarker, Len(body) + 1 - Len(body), Len(body) + Len(EndMarker) - Len(body))
    <3>1. Len(body) + 1 \in Len(body) + 1 .. Len(body) + Len(EndMarker)
          /\ Len(body) + Len(EndMarker) \in Len(body) + 1 .. Len(body) + Len(EndMarker)
      BY <1>0
    <3>. QED  BY <1>0, <3>1, SubSeqOfConcat2
  <2>2. Len(body) + 1 - Len(body) = 1 /\ Len(body) + Len(EndMarker) - Len(body) = Len(EndMarker)
    BY <1>0
  <2>3. SubSeq(EndMarker, 1, Len(EndMarker)) = EndMarker
    BY <1>0, SubSeqFull
  <2>4. Len(stream) - Len(EndMarker) + 1 = Len(body) + 1
    BY <1>0, <1>1
  <2>. HIDE DEF stream
  <2>5. SubSeq(stream, Len(body) + 1, Len(body) + Len(EndMarker)) = EndMarker
    BY <2>1, <2>2, <2>3, Zenon
  <2>6. SubSeq(stream, Len(stream) - Len(EndMarker) + 1, Len(stream)) = EndMarker
    BY <1>1, <2>4, <2>5, Zenon
  <2>7. Len(stream) >= Len(EndMarker)
    BY <1>0, <1>1
  <2>. QED  BY <2>6, <2>7 DEF HasSuffix
<1>4. SubSeq(stream, 1, Len(stream) - Len(EndMarker)) = body
  <2>1. Len(stream) - Len(EndMarker) = Len(body)
    BY <1>0, <1>1
  <2>2. CASE body = << >>
    <3>1. SubSeq(stream, 1, 0) = << >> /\ Len(body) = 0
      BY <2>2, SubSeqEmpty, EmptySeq
    <3>. QED  BY <2>1, <2>2, <3>1
  <2>3. CASE body # << >>
    <3>1. 1 \in 1 .. Len(body) /\ Len(body) \in 1 .. Len(body)
      BY <1>0, <2>3, EmptySeq
    <3>2. SubSeq(stream, 1, Len(body)) = SubSeq(body, 1, Len(body))
      BY <1>0, <3>1, SubSeqOfConcat1
    <3>. QED  BY <2>1, <3>2, SubSeqFull
  <2>. QED  BY <2>2, <2>3
<1>5. Receives(read, chunks, m)
  <2>1. \E f : Receives(f, chunks, m)
    BY <1>2, ReceivesExists
  <2>. HIDE DEF chunks, m
  <2>. QED  BY <2>1
<1>6. Len(chunks) = m
  BY <1>2 DEF Pieces
<1>7. SUFFICES ASSUME \A n \in 1 .. Len(stream) - 1 : ~HasSuffix(SubSeq(stream, 1, n), EndMarker)
               PROVE  ReadReply(chunks) = IF e(m) = Len(stream) /\ e(m) <= MaxResponse
                                          THEN <<"payload", body>> ELSE <<"error">>
  <2>1. (IF ends = << >> THEN 0 ELSE ends[Len(ends)]) = e(m)
    BY <1>2, EmptySeq DEF Places
  <2>. HIDE DEF stream, e, m, chunks
  <2>. QED  BY <2>1 DEF ReplyIsWholeOrError, stream, chunks
<1>8. \A k \in 1 .. m : chunks[k] = SubSeq(stream, e(k - 1) + 1, e(k)) /\ e(k - 1) <= e(k)
  <2>1. SUFFICES ASSUME NEW k \in 1 .. m
                 PROVE  chunks[k] = SubSeq(stream, e(k - 1) + 1, e(k)) /\ e(k - 1) <= e(k)
    OBVIOUS
  <2>2. chunks[k] = SubSeq(stream, IF k = 1 THEN 1 ELSE ends[k - 1] + 1, ends[k])
    BY DEF Pieces
  <2>3. CASE k = 1
    BY <1>2, <2>2, <2>3
  <2>4. CASE k # 1
    <3>1. k - 1 \in 1 .. m - 1 /\ (k - 1) + 1 = k /\ k # 0 /\ k - 1 # 0
      BY <1>2, <2>4
    <3>2. ends[k - 1] <= ends[k]
      BY <3>1 DEF Places
    <3>. QED  BY <2>2, <2>4, <3>1, <3>2
  <2>. QED  BY <2>3, <2>4
<1>9. \A k \in 0 .. m : e(k) \in 0 .. Len(stream)
  BY <1>0, <1>1, <1>2
<1>10. ReadReply(chunks) = IF read[m].status = "whole"
                           THEN <<"payload", SubSeq(read[m].buf, 1, Len(read[m].buf) - Len(EndMarker))>>
                           ELSE <<"error">>
  <2>. HIDE DEF chunks
  <2>. QED  BY <1>6 DEF ReadReply, Receives, Unread
<1>. HIDE DEF read, chunks, m, e, stream
<1>11. \A k \in 0 .. m : read[k] = IF k = 0 THEN Unread ELSE ReadInto(read[k - 1], chunks[k])
  BY <1>5 DEF Receives
<1>12. ReadUpTo(read[0], stream, 0)
  <2>1. read[0] = Unread
    BY <1>2, <1>11
  <2>2. SubSeq(stream, 1, 0) = << >>
    BY SubSeqEmpty
  <2>3. Len(stream) # 0
    BY <1>0, <1>1
  <2>. QED  BY <1>0, <2>1, <2>2, <2>3 DEF ReadUpTo, Unread
<1>13. \A k \in 0 .. m : ReadUpTo(read[k], stream, e(k))
  <2>1. SUFFICES ASSUME ~\A k \in 0 .. m : ReadUpTo(read[k], stream, e(k))  PROVE FALSE
    OBVIOUS
  <2>. DEFINE T == {k \in 0 .. m : ~ReadUpTo(read[k], stream, e(k))}
  <2>2. T # {} /\ T \in SUBSET Nat
    BY <2>1
  <2>3. PICK k \in T : \A j \in T : k <= j
    BY <2>2, Least
  <2>4. k \in 0 .. m /\ k # 0 /\ ~ReadUpTo(read[k], stream, e(k))
    BY <1>12, <2>3 DEF e
  <2>5. k \in 1 .. m /\ k - 1 \in 0 .. m /\ ~(k <= k - 1)
    BY <1>2, <2>4
  <2>6. ReadUpTo(read[k - 1], stream, e(k - 1))
    BY <2>3, <2>5
  <2>7. e(k - 1) \in 0 .. Len(stream) /\ e(k) \in e(k - 1) .. Len(stream)
    BY <1>0, <1>1, <1>8, <1>9, <2>5
  <2>8. ReadUpTo(ReadInto(read[k - 1], SubSeq(stream, e(k - 1) + 1, e(k))), stream, e(k))
    BY <1>1, <1>3, <1>7, <2>6, <2>7, ReadsOn
  <2>. QED  BY <1>8, <1>11, <2>4, <2>5, <2>8
<1>14. ReadUpTo(read[m], stream, e(m)) /\ e(m) \in 0 .. Len(stream)
  BY <1>2, <1>9, <1>13
<1>15. SubSeq(stream, 1, Len(stream)) = stream
  BY <1>1, SubSeqFull
<1>16. CASE e(m) > MaxResponse
  <2>1. read[m].status = "error" /\ ~(e(m) <= MaxResponse)
    BY <1>0, <1>1, <1>14, <1>16 DEF ReadUpTo
  <2>. QED  BY <1>10, <2>1
<1>17. CASE ~(e(m) > MaxResponse) /\ e(m) = Len(stream)
  <2>1. read[m].status = "whole" /\ read[m].buf = stream /\ e(m) <= MaxResponse
    BY <1>0, <1>1, <1>14, <1>15, <1>17 DEF ReadUpTo
  <2>. QED  BY <1>4, <1>10, <1>17, <2>1
<1>18. CASE ~(e(m) > MaxResponse) /\ e(m) # Len(stream)
  <2>1. read[m].status = "reading"
    BY <1>14, <1>18 DEF ReadUpTo
  <2>. QED  BY <1>10, <1>18, <2>1
<1>. QED  BY <1>16, <1>17, <1>18

-----------------------------------------------------------------------------
(* The properties of the runs.                                             *)

\* The blocklist finds what its file names, whatever it holds (List.Lookup, parse).
THEOREM BlocklistExact ==
  []InputOK => []BlocklistIsExact
<1>1. InputOK => BlocklistIsExact
  BY BlocklistFinds DEF InputOK, BlocklistIsExact
<1>. QED  BY <1>1, PTL

\* What is read off any log, and any date, is right (ParseLine and CountIPEvents,
\* parseTraditionalTS, digestSchedule.next).
THEOREM LogsAndDatesRight ==
  []InputOK => []LogsAndDatesAreRight
<1>1. InputOK => LogsAndDatesAreRight
  BY AttemptsAreCountedOnce, StampsAreRecovered, DigestIsDue DEF InputOK, LogsAndDatesAreRight
<1>. QED  BY <1>1, PTL

=============================================================================
