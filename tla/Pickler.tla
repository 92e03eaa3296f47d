------------------------------ MODULE Pickler ------------------------------
(***************************************************************************)
(* The other end of the fail2ban socket: Python's pickle, as the daemon    *)
(* uses it for its replies (external).  A Python value is a scalar of      *)
(* Pickle, a string of Python 2, a tuple, a list, a dictionary, an         *)
(* exception, or a value that holds the same object twice.                 *)
(***************************************************************************)
EXTENDS Pickle

Str2(s)    == <<"str2", s>>
Float(f)   == <<"float", f>>
Bin(s)     == <<"bytes", s>>
Tuple(s)   == <<"tuple", s>>
Dict(kv)   == <<"pydict", kv>>        \* a sequence of pairs
Exc(c, a)  == <<"exc", [class |-> c, args |-> a]>>
Twice(x)   == <<"twice", x>>

Op(name)      == <<[op |-> name]>>
Arg(name, a)  == <<[op |-> name, arg |-> a]>>

\* n as a two's-complement number of the given size, and the fewest bytes
\* that hold n.
Bytes(n, size) == [i \in 1 .. size |-> ((n % (Base ^ size)) \div (Base ^ (i - 1))) % Base]
Size(n) == CHOOSE s \in 1 .. Word :
             /\ 2 * n \in -(Base ^ s) .. (Base ^ s) - 1
             /\ s = 1 \/ 2 * n \notin -(Base ^ (s - 1)) .. (Base ^ (s - 1)) - 1

DumpInt(n, proto) ==
  CASE proto = 0 -> IF 2 * n \in -(Base ^ 4) .. (Base ^ 4) - 1
                    THEN Arg("INT", [leading0 |-> FALSE, n |-> n]) ELSE Arg("LONG", n)
    [] proto > 0 /\ n \in 0 .. Base - 1 -> Arg("BININT1", Bytes(n, 1))
    [] proto > 0 /\ n \in Base .. Base ^ 2 - 1 -> Arg("BININT2", Bytes(n, 2))
    [] OTHER -> IF 2 * n \in -(Base ^ 4) .. (Base ^ 4) - 1
                THEN Arg("BININT", Bytes(n, 4)) ELSE Arg("LONG1", Bytes(n, Size(n)))

\* The memo: protocol 4 numbers implicitly.
Put(proto, n) == IF proto = 4 THEN Op("MEMOIZE") ELSE Arg("PUT", n)

DumpStr(s, proto) ==
  CASE proto = 0 -> Arg("UNICODE", EscapeRawUnicode(s))
    [] proto = 2 -> Arg("BINUNICODE", s)
    [] OTHER -> Arg("SHORT_BINUNICODE", s)

\* repr of a string of Python 2.
Repr(s) ==
  LET quote == IF 39 \in ToSet(s) /\ 34 \notin ToSet(s) THEN 34 ELSE 39
      named == (10 :> 110) @@ (9 :> 116) @@ (13 :> 114) @@ (Backslash :> Backslash) @@ (quote :> quote)
      one(c) == CASE c \in DOMAIN named -> <<Backslash, named[c]>>
                  [] c \notin DOMAIN named /\ c \in 32 .. 126 -> <<c>>
                  [] OTHER -> <<Backslash, 120, HexDigit(c \div 16), HexDigit(c % 16)>>
  IN  <<quote>> \o FlattenSeq([i \in DOMAIN s |-> one(s[i])]) \o <<quote>>

\* Protocol 4 is Python 3's.
DumpStr2(s, proto) ==
  CASE proto = 0 -> Arg("STRING", Repr(s))
    [] proto = 2 -> Arg("SHORT_BINSTRING", s)
    [] OTHER -> DumpStr(s, proto)

\* Dump(x, proto, n): what pickles x when n numbers of the memo are taken, and
\* how many are taken then.
RECURSIVE Dump(_, _, _), DumpAll(_, _, _)
DumpAll(s, proto, n) ==
  IF s = << >> THEN [ops |-> << >>, n |-> n]
  ELSE LET first == Dump(Head(s), proto, n)
           rest  == DumpAll(Tail(s), proto, first.n)
       IN  [ops |-> first.ops \o rest.ops, n |-> rest.n]
Dump(x, proto, n) ==
  LET memoized(ops, k) == [ops |-> ops \o Put(proto, k), n |-> k + 1]
      mark(ops, name)  == Op("MARK") \o ops \o Op(name)
      one              == proto # 0
  IN
  CASE Kind(x) = "none" -> [ops |-> Op("NONE"), n |-> n]
    [] Kind(x) = "bool" ->
         [ops |-> IF proto = 0 THEN Arg("INT", [leading0 |-> TRUE, n |-> IF Val(x) THEN 1 ELSE 0])
                  ELSE Op(IF Val(x) THEN "NEWTRUE" ELSE "NEWFALSE"), n |-> n]
    [] Kind(x) = "int" -> [ops |-> DumpInt(Val(x), proto), n |-> n]
    [] Kind(x) = "float" -> [ops |-> Arg(IF proto = 0 THEN "FLOAT" ELSE "BINFLOAT", Val(x)), n |-> n]
    [] Kind(x) = "bytes" -> memoized(Arg("SHORT_BINBYTES", Val(x)), n)
    [] Kind(x) = "str" -> memoized(DumpStr(Val(x), proto), n)
    [] Kind(x) = "str2" -> memoized(DumpStr2(Val(x), proto), n)
    [] Kind(x) = "tuple" ->
         LET all == DumpAll(Val(x), proto, n) IN
         CASE Val(x) = << >> -> [ops |-> IF one THEN Op("EMPTY_TUPLE") ELSE mark(<< >>, "TUPLE"), n |-> n]
           [] Len(Val(x)) \in 1 .. 3 /\ one ->
                memoized(all.ops \o Op(<<"TUPLE1", "TUPLE2", "TUPLE3">>[Len(Val(x))]), all.n)
           [] OTHER -> memoized(mark(all.ops, "TUPLE"), all.n)
    [] Kind(x) = "list" ->
         LET start == memoized(IF one THEN Op("EMPTY_LIST") ELSE mark(<< >>, "LIST"), n)
             all   == DumpAll(Val(x), proto, n + 1)
             each  == FoldLeft(LAMBDA d, y : LET e == Dump(y, proto, d.n)
                                             IN  [ops |-> d.ops \o e.ops \o Op("APPEND"), n |-> e.n],
                               start, Val(x))
         IN  IF one /\ Len(Val(x)) > 1
             THEN [ops |-> start.ops \o mark(all.ops, "APPENDS"), n |-> all.n] ELSE each
    [] Kind(x) = "pydict" ->
         LET start == memoized(IF one THEN Op("EMPTY_DICT") ELSE mark(<< >>, "DICT"), n)
             all   == DumpAll(FlattenSeq(Val(x)), proto, n + 1)
             each  == FoldLeft(LAMBDA d, p : LET e == DumpAll(p, proto, d.n)
                                             IN  [ops |-> d.ops \o e.ops \o Op("SETITEM"), n |-> e.n],
                               start, Val(x))
         IN  IF one /\ Len(Val(x)) > 1
             THEN [ops |-> start.ops \o mark(all.ops, "SETITEMS"), n |-> all.n] ELSE each
    [] Kind(x) = "exc" ->
         LET class == IF proto = 4
                      THEN LET names == DumpAll(<<Str(Val(x).class[1]), Str(Val(x).class[2])>>, proto, n)
                           IN  memoized(names.ops \o Op("STACK_GLOBAL"), names.n)
                      ELSE memoized(Arg("GLOBAL", Val(x).class), n)
             args  == Dump(Tuple(Val(x).args), proto, class.n)
         IN  memoized(class.ops \o args.ops \o Op("REDUCE"), args.n)
    [] Kind(x) = "twice" ->
         LET first  == Dump(Val(x), proto, n)
             number == IF Kind(Val(x)) \in {"list", "pydict"} THEN n ELSE first.n - 1
             second == IF first.n = n THEN first ELSE [ops |-> Arg("GET", number), n |-> first.n]
         IN  IF one THEN memoized(first.ops \o second.ops \o Op("TUPLE2"), second.n)
             ELSE memoized(mark(first.ops \o second.ops, "TUPLE"), second.n)

\* pickle.dumps
Pickled(x, proto) ==
  (IF proto = 0 THEN << >> ELSE Op("PROTO")) \o (IF proto = 4 THEN Op("FRAME") ELSE << >>)
    \o Dump(x, proto, 0).ops \o Op("STOP")

\* What the Go values say of a Python value: a tuple is a list, a string is a
\* string, an object keeps its class and its arguments.
RECURSIVE InGo(_)
InGo(x) ==
  CASE Kind(x) = "str2" -> Str(Val(x))
    [] Kind(x) \in {"tuple", "list"} -> List([i \in DOMAIN Val(x) |-> InGo(Val(x)[i])])
    [] Kind(x) = "pydict" -> <<"dict", {<<Val(x)[i][1], InGo(Val(x)[i][2])>> : i \in DOMAIN Val(x)}>>
    [] Kind(x) = "exc" -> <<"obj", [class |-> Class(Val(x).class[1], Val(x).class[2]),
                              args |-> [i \in DOMAIN Val(x).args |-> InGo(Val(x).args[i])],
                              state |-> None]>>
    [] Kind(x) = "twice" -> List(<<InGo(Val(x)), InGo(Val(x))>>)
    [] OTHER -> x

-----------------------------------------------------------------------------
(* Properties.                                                             *)

\* The decoder returns what was pickled, in every protocol: integers of every
\* size and sign, containers inside containers, objects met again through the
\* memo.  A non-empty list that is met again is outside this: it comes back
\* empty, because the memo keeps the slice that appendTo replaced (unpickle);
\* and bytes have an opcode of their own in protocol 4 only.
RoundTrips(x) ==
  \A proto \in {0, 2, 4} :
    (Kind(x) = "bytes" => proto = 4) => Unpickle(Pickled(x, proto)) = InGo(x)

\* The arguments of a command arrive as they were given, with backslashes, line
\* ends and characters that are not ASCII (pickleCommand, escapeRawUnicode).
CommandArrives(args) ==
  Unpickle(Opcodes(PickleCommand(args))) = List([i \in DOMAIN args |-> Str(args[i])])

=============================================================================
