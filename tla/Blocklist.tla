----------------------------- MODULE Blocklist -----------------------------
(***************************************************************************)
(* The offline blocklist (internal/threat/threat.go): parse builds a set   *)
(* of addresses and a set of masked prefixes, indexed by the lengths that  *)
(* occur in each family, and Lookup probes them.  An address has a family, *)
(* 4 or 6, and its bits; a 6 that begins as the mapped addresses do stands *)
(* for a 4.                                                                *)
(***************************************************************************)
EXTENDS Integers, Sequences, FiniteSets

CONSTANTS Bits4, Bits6,   \* 32 and 128 in the code
          MappedOnes,     \* bits set in the first 96 of a mapped address: 81 .. 96
          MaxEntries      \* entries that are loaded: 5 million

ASSUME BlocklistAssumption ==
  Bits4 \in Nat \ {0} /\ Bits6 \in Nat /\ Bits6 > Bits4 /\ MappedOnes \subseteq Nat /\ MaxEntries \in Nat

Width(v) == IF v = 4 THEN Bits4 ELSE Bits6

Address == UNION {[v : {f}, bit : [1 .. Width(f) -> 0 .. 1]] : f \in {4, 6}}

\* A line of the file: a comment or a malformed one, an address, or a prefix,
\* which may have host bits, and a length that is too great for its family.
FileLine ==
  {[kind |-> "skipped"]} \cup [kind : {"addr"}, addr : Address]
    \cup [kind : {"prefix"}, addr : Address, bits : 0 .. Bits6]

Mapped(a) == a.v = 6 /\ \A i \in 1 .. Bits6 - Bits4 : a.bit[i] = IF i \in MappedOnes THEN 1 ELSE 0

\* netip's Unmap
Unmap(a) ==
  IF Mapped(a) THEN [v |-> 4, bit |-> [i \in 1 .. Bits4 |-> a.bit[Bits6 - Bits4 + i]]] ELSE a

\* netip's Masked, and Addr.Prefix.
Masked(a, bits) ==
  [v |-> a.v, bit |-> [i \in 1 .. Width(a.v) |-> IF i <= bits THEN a.bit[i] ELSE 0], bits |-> bits]

\* Mutant: the host bits stay.
StoredAsWritten(addr, bits) == [v |-> addr.v, bit |-> addr.bit, bits |-> bits]

\* How a prefix is stored; it is not unmapped.
Stored(addr, bits) == Masked(addr, bits)

Empty == [ips |-> {}, prefixes |-> {}, n |-> 0]

\* Does the line parse, and count towards MaxEntries?
IsEntry(line) == line.kind = "addr" \/ (line.kind = "prefix" /\ line.bits <= Width(line.addr.v))

\* One line of the file.
AddLine(l, line) ==
  IF l.n >= MaxEntries \/ ~IsEntry(line) THEN l
  ELSE IF line.kind = "prefix"
  THEN [l EXCEPT !.prefixes = @ \cup {Stored(line.addr, line.bits)}, !.n = @ + 1]
  ELSE [l EXCEPT !.ips = @ \cup {Unmap(line.addr)}, !.n = @ + 1]

\* parse
Parsed(lines) ==
  LET list[k \in 0 .. Len(lines)] == IF k = 0 THEN Empty ELSE AddLine(list[k - 1], lines[k])
  IN  list[Len(lines)]

\* prefixLens4 and prefixLens6
Lengths(l, v) == {p.bits : p \in {q \in l.prefixes : q.v = v}}

\* Lookup: is the address listed?
Lookup(l, addr) ==
  LET a == Unmap(addr)
  IN  a \in l.ips \/ \E bits \in Lengths(l, a.v) : Masked(a, bits) \in l.prefixes

-----------------------------------------------------------------------------
(* What a blocklist means.                                                  *)

\* Does the entry name the address?  A mapped address is a 4, but a prefix of
\* mapped addresses names nothing.
Names(line, addr) ==
  LET a == Unmap(addr) IN
  \/ line.kind = "addr" /\ Unmap(line.addr) = a
  \/ line.kind = "prefix" /\ line.addr.v = a.v /\ \A i \in 1 .. line.bits : a.bit[i] = line.addr.bit[i]

\* Is line k one of the first MaxEntries entries?
Loaded(lines, k) ==
  IsEntry(lines[k]) /\ Cardinality({j \in 1 .. k : IsEntry(lines[j])}) <= MaxEntries

\* The lookup of an address finds it exactly when one of the first MaxEntries
\* entries of the file names it: masked prefixes, probed by the lengths that
\* occur, miss none and invent none (List.Lookup, parse).
FindsWhatIsNamed(lines) ==
  LET list == Parsed(lines)
  IN  \A addr \in Address :
        Lookup(list, addr) <=> \E k \in DOMAIN lines : Loaded(lines, k) /\ Names(lines[k], addr)

=============================================================================
