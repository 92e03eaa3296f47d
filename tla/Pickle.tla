------------------------------ MODULE Pickle ------------------------------
(***************************************************************************)
(* The pickle codec of the fail2ban client (internal/f2b/pickle.go).       *)
(*                                                                         *)
(* A stream is a sequence of opcodes, each with its argument as the reader *)
(* finds it; where an opcode begins and ends is left out.  The stack       *)
(* machine keeps Go's sharing: a list is a slice, whose header the memo    *)
(* copies, while dictionaries and objects are cells of a heap that every   *)
(* reference shares.  Integers keep the number of their bytes, but a byte  *)
(* has Base values.                                                        *)
(***************************************************************************)
EXTENDS Integers, SequencesExt, FiniteSetsExt

CONSTANTS
  Base,   \* values of a byte: 256 in the code
  Word    \* bytes of an int64: 8

ASSUME PickleAssumption == Base \in {2 * n : n \in 1 .. 128} /\ Word \in Nat \ {0}

-----------------------------------------------------------------------------
(* Integers.                                                               *)

\* n as a Word-byte two's-complement integer.
Wrap(n) ==
  LET m == n % (Base ^ Word)
  IN  IF m >= (Base ^ Word) \div 2 THEN m - Base ^ Word ELSE m

\* binary.LittleEndian: an unsigned number, of 1, 2 or 4 bytes.
Unsigned(bytes) == FoldRight(LAMBDA b, n : n * Base + b, bytes, 0)

\* BININT: the four bytes are an int32.
Signed(bytes) ==
  LET n == Unsigned(bytes)  size == Base ^ Len(bytes)
  IN  IF n >= size \div 2 THEN n - size ELSE n

HighBit(bytes) == Last(bytes) >= Base \div 2

\* decodeLongLE: the sign is extended when the bytes do not fill the word.
DecodeLong(bytes) ==
  LET n == FoldRight(LAMBDA b, n : Wrap(n * Base + b), bytes, 0)
  IN  IF bytes # << >> /\ HighBit(bytes) /\ Len(bytes) < Word THEN n - Base ^ Len(bytes) ELSE n

-----------------------------------------------------------------------------
(* Values and the state of the machine.  A cell of the heap is the set of  *)
(* pairs of a dictionary, or the parts of an object.                       *)

Kind(x) == x[1]
Val(x)  == x[2]

Num(n)    == <<"int", n>>
Str(s)    == <<"str", s>>
Bool(b)   == <<"bool", b>>
None      == <<"none">>
List(s)   == <<"list", s>>
Class(m, n) == <<"class", <<m, n>>>>
Mark      == <<"mark">>
Ref(kind, i) == <<kind, i>>

Start == [stack |-> << >>, memo |-> [i \in {} |-> None], heap |-> << >>, status |-> "reading"]

Fail(u)    == [u EXCEPT !.status = "error"]
Push(u, x) == [u EXCEPT !.stack = Append(@, x)]
Top(u)     == Last(u.stack)
Has(u, n)  == Len(u.stack) >= n

\* The top n elements, and the machine without them.
TopN(u, n) == SubSeq(u.stack, Len(u.stack) - n + 1, Len(u.stack))
Drop(u, n) == [u EXCEPT !.stack = SubSeq(@, 1, Len(@) - n)]

\* Replaces the top n elements by x.
Reduce(u, n, x) == Push(Drop(u, n), x)

Marks(u) == {i \in DOMAIN u.stack : u.stack[i] = Mark}

\* popMark: how many elements are above the topmost MARK.
AboveMark(u) == Len(u.stack) - Max(Marks(u))

\* A key that is not a scalar becomes its text.
MapKey(k) == IF Kind(k) \in {"str", "int", "bool", "none"} THEN k ELSE <<"text", k>>

\* The pairs that a sequence of keys and values sets; the later one wins.
SetItems(pairs, kv) ==
  LET put(d, i) == {p \in d : p[1] # MapKey(kv[2 * i - 1])} \cup {<<MapKey(kv[2 * i - 1]), kv[2 * i]>>}
  IN  FoldLeft(put, pairs, [i \in 1 .. Len(kv) \div 2 |-> i])

\* setItems: the dictionary below the top n elements takes them, in place.
SetOnTop(u, n, kv) ==
  LET v == Drop(u, n) IN
  IF v.stack = << >> \/ Kind(Top(v)) # "dict" THEN Fail(u)
  ELSE [v EXCEPT !.heap[Val(Top(v))] = SetItems(@, kv)]

\* appendTo: a longer slice takes the place of the one on the stack; the memo
\* keeps the old one.
AppendToTop(u, n, items) ==
  LET v == Drop(u, n) IN
  IF v.stack = << >> \/ Kind(Top(v)) # "list" THEN Fail(u)
  ELSE Reduce(v, 1, List(Val(Top(v)) \o items))

\* A new cell of the heap, on top of what is left of the stack.
New(u, n, kind, cell) ==
  LET v == [u EXCEPT !.heap = Append(@, cell)] IN Reduce(v, n, Ref(kind, Len(v.heap)))

-----------------------------------------------------------------------------
(* Text, as code points.  A byte of a line stands for one of them.         *)

Backslash == 92
Newline   == 10
CharU     == 117

HexDigit(d) == IF d < 10 THEN 48 + d ELSE 87 + d
HexDigits   == {HexDigit(d) : d \in 0 .. 15} \cup 65 .. 70
HexValue(c) == IF c < 58 THEN c - 48 ELSE IF c < 71 THEN c - 55 ELSE c - 87

\* \uXXXX
Escape(n) == <<Backslash, CharU>> \o [i \in 1 .. 4 |-> HexDigit((n \div (16 ^ (4 - i))) % 16)]

\* Mutant: the backslash is left as it is.
EscapedControls(c) == c = Newline \/ c > 126 \/ c < 32

\* Which characters escapeRawUnicode escapes.
Escaped(c) == c = Backslash \/ c = Newline \/ c > 126 \/ c < 32

\* utf16Pair: a character outside the basic plane is two escapes.
Utf16(c) ==
  IF c > 65535 THEN <<55296 + (c - 65536) \div 1024, 56320 + ((c - 65536) % 1024)>> ELSE <<c>>

EscapeRawUnicode(s) ==
  FlattenSeq([i \in DOMAIN s |-> IF Escaped(s[i]) THEN FlattenSeq([j \in DOMAIN Utf16(s[i]) |-> Escape(Utf16(s[i])[j])])
                                                 ELSE <<s[i]>>])

\* Is there an escape at position i of s?
EscapeAt(s, i) ==
  /\ i + 5 <= Len(s)
  /\ s[i] = Backslash /\ s[i + 1] = CharU
  /\ \A j \in 2 .. 5 : s[i + j] \in HexDigits

UnescapeRawUnicode(s) ==
  LET at[i \in 1 .. Len(s) + 1] ==
        IF i > Len(s) THEN << >>
        ELSE IF EscapeAt(s, i)
             THEN <<FoldLeft(LAMBDA n, j : 16 * n + HexValue(s[i + j]), 0, <<2, 3, 4, 5>>)>> \o at[i + 6]
             ELSE <<s[i]>> \o at[i + 1]
  IN  at[1]

\* unquotePyString: the quotes go, and what follows a backslash says what it is.
Unquote(s) ==
  LET quoted == Len(s) >= 2 /\ Head(s) \in {34, 39} /\ Last(s) = Head(s)
      t      == IF quoted THEN SubSeq(s, 2, Len(s) - 1) ELSE s
      named  == (110 :> 10) @@ (116 :> 9) @@ (114 :> 13)
      hex(i) == i + 3 <= Len(t) /\ t[i + 1] = 120 /\ {t[i + 2], t[i + 3]} \subseteq HexDigits
      at[i \in 1 .. Len(t) + 4] ==
        IF i > Len(t) THEN << >>
        ELSE IF t[i] # Backslash \/ i = Len(t) THEN <<t[i]>> \o at[i + 1]
        ELSE IF hex(i) THEN <<16 * HexValue(t[i + 2]) + HexValue(t[i + 3])>> \o at[i + 4]
        ELSE <<IF t[i + 1] \in DOMAIN named THEN named[t[i + 1]] ELSE t[i + 1]>> \o at[i + 2]
  IN  at[1]

\* pickleCommand, as the bytes of the request: ( V...\n V...\n l .
PickleCommand(args) ==
  <<40>> \o FlattenSeq([i \in DOMAIN args |-> <<86>> \o EscapeRawUnicode(args[i]) \o <<Newline>>]) \o <<108, 46>>

-----------------------------------------------------------------------------
(* step, opcode by opcode.                                                 *)

Constants == {"NONE", "NEWTRUE", "NEWFALSE", "BININT1", "BININT2", "BININT", "LONG1", "INT", "LONG",
              "SHORT_BINUNICODE", "BINUNICODE", "UNICODE", "STRING", "SHORT_BINSTRING", "BINSTRING",
              "FLOAT", "BINFLOAT", "SHORT_BINBYTES", "BINBYTES"}

\* A decimal that is no int64.
Malformed(o) ==
  \/ o.op = "LONG" /\ Wrap(o.arg) # o.arg
  \/ o.op = "INT" /\ Wrap(o.arg.n) # o.arg.n

\* What a constant opcode pushes.
Literal(o) ==
  CASE o.op = "NONE" -> None
    [] o.op = "NEWTRUE" -> Bool(TRUE)
    [] o.op = "NEWFALSE" -> Bool(FALSE)
    [] o.op \in {"BININT1", "BININT2"} -> Num(Unsigned(o.arg))
    [] o.op = "BININT" -> Num(Signed(o.arg))
    [] o.op = "LONG1" -> Num(DecodeLong(o.arg))
    [] o.op = "INT" -> IF o.arg.leading0 THEN Bool(o.arg.n = 1) ELSE Num(o.arg.n)
    [] o.op = "LONG" -> Num(o.arg)
    [] o.op \in {"SHORT_BINUNICODE", "BINUNICODE", "SHORT_BINSTRING", "BINSTRING"} -> Str(o.arg)
    [] o.op = "UNICODE" -> Str(UnescapeRawUnicode(o.arg))
    [] o.op = "STRING" -> Str(Unquote(o.arg))
    [] o.op \in {"FLOAT", "BINFLOAT"} -> <<"float", o.arg>>
    [] o.op \in {"SHORT_BINBYTES", "BINBYTES"} -> <<"bytes", o.arg>>

\* MEMOIZE numbers by the size of the memo, the PUTs carry the number.
MemoStep(u, o) ==
  IF u.stack = << >> THEN Fail(u)
  ELSE [u EXCEPT !.memo = ((IF o.op = "MEMOIZE" THEN Cardinality(DOMAIN u.memo) ELSE o.arg) :> Top(u)) @@ @]

\* The GETs; an unknown number gives None.
GetStep(u, o) == Push(u, IF o.arg \in DOMAIN u.memo THEN u.memo[o.arg] ELSE None)

Arity == [TUPLE1 |-> 1, TUPLE2 |-> 2, TUPLE3 |-> 3]

\* Opcodes that take everything above the topmost MARK.
MarkStep(u, o) ==
  LET n == AboveMark(u)  items == TopN(u, n) IN
  CASE Marks(u) = {} -> Fail(u)
    [] Marks(u) # {} /\ o.op \in {"TUPLE", "LIST"} -> Reduce(u, n + 1, List(items))
    [] Marks(u) # {} /\ o.op \in {"APPENDS", "ADDITEMS"} -> AppendToTop(u, n + 1, items)
    [] Marks(u) # {} /\ o.op = "DICT" -> New(u, n + 1, "dict", SetItems({}, items))
    [] Marks(u) # {} /\ o.op = "SETITEMS" -> SetOnTop(u, n + 1, items)

\* Tuples of a fixed size, lists and dictionaries.
ContainerStep(u, o) ==
  CASE o.op \in {"EMPTY_TUPLE", "EMPTY_LIST", "EMPTY_SET"} -> Push(u, List(<< >>))
    [] o.op = "EMPTY_DICT" -> New(u, 0, "dict", {})
    [] o.op \in DOMAIN Arity ->
         IF Has(u, Arity[o.op]) THEN Reduce(u, Arity[o.op], List(TopN(u, Arity[o.op]))) ELSE Fail(u)
    [] o.op = "APPEND" -> IF Has(u, 1) THEN AppendToTop(u, 1, TopN(u, 1)) ELSE Fail(u)
    [] o.op = "SETITEM" -> IF Has(u, 2) THEN SetOnTop(u, 2, TopN(u, 2)) ELSE Fail(u)

\* Classes, and the objects made from them.  BUILD without an object below it
\* only drops the state.
ObjectStep(u, o) ==
  CASE o.op = "GLOBAL" -> Push(u, Class(o.arg[1], o.arg[2]))
    [] o.op = "STACK_GLOBAL" ->
         IF Has(u, 2) THEN Reduce(u, 2, Class(Val(TopN(u, 2)[1]), Val(TopN(u, 2)[2]))) ELSE Fail(u)
    [] o.op \in {"REDUCE", "NEWOBJ"} ->
         IF ~Has(u, 2) THEN Fail(u)
         ELSE LET callable == TopN(u, 2)[1]  args == TopN(u, 2)[2]
              IN  New(u, 2, "obj",
                      [class |-> IF Kind(callable) = "class" THEN callable ELSE Class(<<63>>, callable),
                       args  |-> IF Kind(args) = "list" THEN Val(args) ELSE << >>,
                       state |-> None])
    [] o.op = "BUILD" ->
         IF ~Has(u, 1) THEN Fail(u)
         ELSE LET v == Drop(u, 1)
              IN  IF v.stack # << >> /\ Kind(Top(v)) = "obj"
                  THEN [v EXCEPT !.heap[Val(Top(v))].state = Top(u)] ELSE v

Step(u, o) ==
  CASE u.status # "reading" -> u
    [] u.status = "reading" /\ o.op \in {"PROTO", "FRAME"} -> u
    [] u.status = "reading" /\ o.op = "STOP" ->
         IF Has(u, 1) THEN [u EXCEPT !.status = "stop"] ELSE Fail(u)
    [] u.status = "reading" /\ o.op = "MARK" -> Push(u, Mark)
    [] u.status = "reading" /\ o.op \in Constants ->
         IF Malformed(o) THEN Fail(u) ELSE Push(u, Literal(o))
    [] u.status = "reading" /\ o.op \in {"MEMOIZE", "PUT"} -> MemoStep(u, o)
    [] u.status = "reading" /\ o.op = "GET" -> GetStep(u, o)
    [] u.status = "reading" /\ o.op \in {"TUPLE", "LIST", "APPENDS", "ADDITEMS", "DICT", "SETITEMS"} ->
         MarkStep(u, o)
    [] u.status = "reading" /\ o.op \in {"GLOBAL", "STACK_GLOBAL", "REDUCE", "NEWOBJ", "BUILD"} ->
         ObjectStep(u, o)
    [] OTHER -> ContainerStep(u, o)

\* A value with its heap cells in place of the references.
RECURSIVE Resolved(_, _)
Resolved(u, x) ==
  CASE Kind(x) = "list" -> List([i \in DOMAIN Val(x) |-> Resolved(u, Val(x)[i])])
    [] Kind(x) = "dict" -> <<"dict", {<<p[1], Resolved(u, p[2])>> : p \in u.heap[Val(x)]}>>
    [] Kind(x) = "obj" ->
         LET c == u.heap[Val(x)]
         IN  <<"obj", [class |-> c.class, args |-> [i \in DOMAIN c.args |-> Resolved(u, c.args[i])],
                     state |-> Resolved(u, c.state)]>>
    [] OTHER -> x

Error == <<"error">>

\* unpickle: a stream without STOP is an error.
Unpickle(ops) ==
  LET u == FoldLeft(Step, Start, ops)
  IN  IF u.status = "stop" THEN Resolved(u, Top(u)) ELSE Error

\* readLine, on the opcodes of a request: where each begins and ends.  A line
\* without an end, or an opcode that no request has, ends the stream.
RECURSIVE Opcodes(_)
Opcodes(bytes) ==
  LET rest == Tail(bytes)
      end  == SelectInSeq(rest, LAMBDA c : c = Newline)
      simple == [c \in {40, 108, 46} |-> CASE c = 40 -> "MARK" [] c = 108 -> "LIST" [] c = 46 -> "STOP"]
  IN  CASE bytes = << >> -> << >>
        [] bytes # << >> /\ Head(bytes) \in DOMAIN simple ->
             <<[op |-> simple[Head(bytes)]]>> \o Opcodes(rest)
        [] bytes # << >> /\ Head(bytes) = 86 /\ end > 0 ->
             <<[op |-> "UNICODE", arg |-> SubSeq(rest, 1, end - 1)]>>
               \o Opcodes(SubSeq(rest, end + 1, Len(rest)))
        [] OTHER -> << >>
=============================================================================
