------------------------------- MODULE Reply -------------------------------
(***************************************************************************)
(* Reading a reply of fail2ban (execSocket, internal/f2b/client.go).  The  *)
(* stream is a sequence of symbols, the reply and the end marker, and a    *)
(* Read returns any piece of it.                                           *)
(***************************************************************************)
EXTENDS Integers, Sequences

CONSTANTS
  EndMarker,    \* <F2B_END_COMMAND>
  MaxResponse   \* symbols of the longest reply that is read (4 MB in the code)

ASSUME ReplyAssumption == EndMarker \in Seq(Nat) \ {<< >>} /\ MaxResponse \in Nat

\* bytes.HasSuffix
HasSuffix(s, t) == Len(s) >= Len(t) /\ SubSeq(s, Len(s) - Len(t) + 1, Len(s)) = t

\* Mutant: the marker is looked for in what the last Read returned.
ReadIntoForgetful(r, chunk) ==
  LET buf == r.buf \o chunk IN
  IF r.status # "reading" THEN r
  ELSE [buf |-> buf, status |-> IF Len(buf) > MaxResponse THEN "error"
                                ELSE IF HasSuffix(chunk, EndMarker) THEN "whole" ELSE "reading"]

\* One turn of the read loop.
ReadInto(r, chunk) ==
  LET buf == r.buf \o chunk IN
  IF r.status # "reading" THEN r
  ELSE [buf |-> buf, status |-> IF Len(buf) > MaxResponse THEN "error"
                                ELSE IF HasSuffix(buf, EndMarker) THEN "whole" ELSE "reading"]

\* What the client has of a reply when the stream ends or the deadline passes:
\* the payload, or an error.
ReadReply(chunks) ==
  LET read[k \in 0 .. Len(chunks)] ==
        IF k = 0 THEN [buf |-> << >>, status |-> "reading"] ELSE ReadInto(read[k - 1], chunks[k])
      r == read[Len(chunks)]
  IN  IF r.status = "whole" THEN <<"payload", SubSeq(r.buf, 1, Len(r.buf) - Len(EndMarker))>>
      ELSE <<"error">>

-----------------------------------------------------------------------------

\* The places of the stream where the Reads may end.
Places(ends, body) ==
  /\ ends \in Seq(0 .. Len(body) + Len(EndMarker))
  /\ \A i \in 1 .. Len(ends) - 1 : ends[i] <= ends[i + 1]

\* The pieces that they return.
Pieces(stream, ends) ==
  [i \in 1 .. Len(ends) |-> SubSeq(stream, IF i = 1 THEN 1 ELSE ends[i - 1] + 1, ends[i])]

\* However a reply is cut into pieces, the marker included, the client has its
\* payload when all of it has come and it is not too long; of a reply that
\* stops before, it has an error and never a part (execSocket's read loop).
\* The reply does not show the marker before its end.
ReplyIsWholeOrError(body, ends) ==
  LET stream == body \o EndMarker
      shown(n) == HasSuffix(SubSeq(stream, 1, n), EndMarker)
      came  == IF ends = << >> THEN 0 ELSE ends[Len(ends)]
  IN  (\A n \in 1 .. Len(stream) - 1 : ~shown(n)) =>
        ReadReply(Pieces(stream, ends)) =
          IF came = Len(stream) /\ came <= MaxResponse THEN <<"payload", body>> ELSE <<"error">>

=============================================================================
