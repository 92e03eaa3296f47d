----------------------------- MODULE MCParts -----------------------------
(***************************************************************************)
(* The small components, model-checked in one run: a behaviour first takes *)
(* one of them.  The machines (rate limiter, statistics cache, migrations, *)
(* vitals, certificate and port watchers) run by themselves; the pure      *)
(* algorithms are fed one input, and their invariants compare what they    *)
(* make of it with what it means.                                          *)
(***************************************************************************)
EXTENDS Machines, Algorithms, Fail2ban

VARIABLE part

\* Three migrations, of two, one and two statements; version 2 comes last, as
\* its file was added out of turn.
MCFiles == <<[version |-> 1, statements |-> <<"create", "index">>],
             [version |-> 3, statements |-> <<"alter">>],
             [version |-> 2, statements |-> <<"drop", "recreate">>]>>

\* Fillings of 80, 85 and 95 per cent, and just under 90 that rounds to it.
MCDisk == {[total |-> 20, free |-> f] : f \in {1, 3, 4}} \cup {[total |-> 2000, free |-> 201]}

MCTargets   == <<"a", "b">>
MCHoursLeft == {-30, 14 * 24 + 23, 15 * 24}

limiterVars == <<tokens, last, calls>>
cacheVars   == <<statsCache, request>>
schemaVars  == <<schema, recorded, pc, file, applied, tx, errors, crashes>>
hostVars    == <<prev, snap, alerted, ticks>>
watchVars   == <<results, warned, certStatus, probes, checks, baseline, scans>>
vars == <<part, input, now, limiterVars, cacheVars, schemaVars, hostVars, watchVars>>

Init ==
  /\ part \in {"input", "limiter", "cache", "schema", "host", "certificates", "ports"}
  /\ input = <<"none">>
  /\ Limiter!Init /\ Cache!Init /\ Schema!Init /\ Host!Init /\ Watchers!Init

-----------------------------------------------------------------------------
(* Inputs.                                                                  *)

Upto(S, n) == UNION {[1 .. k -> S] : k \in 0 .. n}

A == Str(<<97>>)
B == Str(<<98, 97>>)
Atoms == {None, Bool(TRUE), Bool(FALSE), Num(2), Num(-9), Str(<< >>), A, B}

\* With four values to a byte: around every size, up to eight bytes.
Integers4 == {Num(s * (4 ^ k) + d) : s \in {-1, 1}, k \in 0 .. 7, d \in -1 .. 1}
               \cup {Num(s * 2 * (4 ^ k) + d) : s \in {-1, 1}, k \in 0 .. 6, d \in -1 .. 1}
               \cup {Num(2 * 4 ^ 7 - 1), Num(-2 * 4 ^ 7)}

\* Both quotes, a backslash, letters that name something after one, digits, a
\* line end and a byte that is not printed.
Strings2 == {Str2(s) : s \in Upto({34, 39, 92, 110, 120, 48, 10, 233}, 3)}
               \cup {Str2(s \o <<120, 48, 97>>) : s \in Upto({34, 39, 92}, 2)}

Sequences2 == Upto(Atoms, 2) \cup {<<A, B, None, Num(1)>>}
Containers ==
  {Tuple(s) : s \in Sequences2} \cup {List(s) : s \in Sequences2}
    \cup {Dict(<< >>)} \cup {Dict(<<<<k, v>>>>) : k \in Atoms, v \in Atoms}
    \cup {Dict(<<<<A, v>>, <<B, w>>>>) : v \in Atoms, w \in Atoms}
    \cup {Exc(<<<<97>>, <<99>>>>, s) : s \in Upto({A, Num(2)}, 2)}
SharedTwice == {x \in Containers \cup Atoms : Kind(x) # "list" \/ Val(x) = << >>}
Values ==
  Integers4 \cup Atoms \cup Containers \cup Strings2
    \cup {Bin(<<1, 0>>), List(<<Float("f"), Str2(<<97>>), Float("g")>>), Twice(Str2(<<92>>))}
    \cup {Tuple(<<x, y>>) : x \in Containers, y \in {A, Num(2)}}
    \cup {List(<<x, x, A>>) : x \in Containers}
    \cup {Twice(x) : x \in SharedTwice} \cup {Tuple(<<A, Twice(x), B>>) : x \in SharedTwice}

\* a, backslash, line end, u, 0, e with an accent, and the last of the plane.
Characters == {97, 92, 10, 117, 48, 233, 65535}
Commands   == Upto(Upto(Characters, 2), 1) \cup {<<s, <<97>>, s>> : s \in Upto(Characters, 3)}
                \cup {<<s \o <<117, 48, 48, 48, 97>>>> : s \in Upto(Characters, 2)}  \* ends in u000a

\* One password, two in a second, two in two.
MCWrong == {<<0>>, <<0, 0>>, <<0, 1>>}

\* Like the code's marker, this one does not begin again inside itself.
MCEndMarker == <<1, 2, 3>>

Unfed == part = "input" /\ input = <<"none">>

Feed(kind, x) ==
  /\ input' = <<kind>> \o x
  /\ UNCHANGED <<part, now, limiterVars, cacheVars, schemaVars, hostVars, watchVars>>

FeedPickle    == Unfed /\ \E x \in Values : Feed("pickle", <<x>>)
FeedCommand   == Unfed /\ \E args \in Commands : Feed("command", <<args>>)
FeedReply     == Unfed /\ \E body \in Upto(0 .. 3, 3) : \E ends \in SUBSET (1 .. Len(body) + 3) :
                   Feed("reply", <<body, SetToSortSeq(ends, <)>>)
FeedBan       == Unfed /\ \E bans \in SUBSET {<<49>>, <<50>>}, ip \in {<<49>>, <<50>>}, c \in Channels :
                   Feed("ban", <<bans, ip, c>>)
FeedSetting   == Unfed /\ \E val \in {1, 2}, taken \in {1, 2}, c \in Channels : Feed("setting", <<val, taken, c>>)
FeedStatus    == Unfed /\ \E files \in Upto({<<76>>, <<77>>}, 2), ips \in Upto({<<49>>, <<50>>}, 3), c \in Channels :
                   Feed("status", <<files, ips, c>>)
FeedBlocklist == Unfed /\ \E x \in FileLine, y \in FileLine, n \in 0 .. 1 :
                   Feed("blocklist", <<<<x, y>> \o [i \in 1 .. n |-> x]>>)
FeedDigest    == Unfed /\ \E label \in {"daily", "weekly"}, t \in 0 .. 15 * PerDay : Feed("digest", <<label, t>>)
FeedStamp     == Unfed /\ \E stamp \in 0 .. 10 * Days, t \in 0 .. 10 * Days : Feed("stamp", <<stamp, t>>)
FeedLines     == Unfed /\ \E x \in Attack({"sshd", "nginx", "dovecot"}, {"disconnect_preauth"}, MCWrong) :
                   \/ \E y \in Attack({"sshd"}, {"accepted", "disconnect_preauth", "max_auth"}, MCWrong) :
                        Feed("lines", <<{x, y}, {}>>)
                   \/ \E l \in Noise : Feed("lines", <<{x}, {l}>>)

Run(name, next, others) == part = name /\ next /\ UNCHANGED <<part, input, others>>

Next ==
  \/ FeedPickle \/ FeedCommand \/ FeedReply \/ FeedBan \/ FeedSetting \/ FeedStatus
  \/ FeedBlocklist \/ FeedDigest \/ FeedStamp \/ FeedLines
  \/ Run("limiter", Limiter!Next, <<cacheVars, schemaVars, hostVars, watchVars>>)
  \/ Run("cache", Cache!Next, <<limiterVars, schemaVars, hostVars, watchVars>>)
  \/ Run("schema", Schema!Next, <<now, limiterVars, cacheVars, hostVars, watchVars>>)
  \/ Run("host", Host!Next, <<now, limiterVars, cacheVars, schemaVars, watchVars>>)
  \/ Run("certificates", Watchers!CertWatch, <<now, limiterVars, cacheVars, schemaVars, hostVars>>)
  \/ Run("ports", Watchers!PortsWatch, <<now, limiterVars, cacheVars, schemaVars, hostVars>>)

Spec == Init /\ [][Next]_vars

-----------------------------------------------------------------------------
(* Properties of the codec and of the client, of what was fed; the others  *)
(* have theirs in Machines and Algorithms.                                 *)

\* The pickle codec returns what went in, and the arguments of a command arrive
\* as they were given (Pickler).
CodecIsFaithful ==
  /\ input[1] = "pickle" => RoundTrips(input[2])
  /\ input[1] = "command" => CommandArrives(input[2])

\* What a call to fail2ban returns is what fail2ban did (Fail2ban): a reply is
\* read whole or not at all, a ban or an unban that is repeated is no error, a
\* setting that succeeded is in force, and the jail's bans are found in its status.
CallsTellTheTruth ==
  /\ input[1] = "reply" => ReplyIsWholeOrError(input[2], input[3])
  /\ input[1] = "ban" => RetriesSucceed(input[2], input[3], input[4])
  /\ input[1] = "setting" => EchoIsVerified(input[2], input[3], input[4])
  /\ input[1] = "status" => StatusListsBans(input[2], input[3], input[4])

=============================================================================
