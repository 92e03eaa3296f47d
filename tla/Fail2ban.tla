----------------------------- MODULE Fail2ban -----------------------------
(***************************************************************************)
(* The fail2ban client (internal/f2b/client.go and manager.go): a command  *)
(* goes out, the reply is read (Reply), decoded (Pickle), unwrapped, and   *)
(* each operation of the Manager draws its conclusion from it.             *)
(*                                                                         *)
(* The daemon is external.  Its replies are those of the versions that the *)
(* comments of manager.go have in mind: a ban or an unban that changes     *)
(* nothing is an error in some and a count in others.  Where the socket is *)
(* absent fail2ban-client prints the same payload as text.                 *)
(***************************************************************************)
EXTENDS Pickler, Reply

-----------------------------------------------------------------------------
(* The outcome of a command: <<"ok", value>> or <<"error", text>>, where    *)
(* the text of an error is the value that it renders.                      *)

Ok(v)    == <<"ok", v>>
Err(t)   == <<"error", t>>
Failed(o) == o[1] = "error"

\* interpretResponse
Interpret(v) ==
  CASE Kind(v) # "list" -> Err(v)
    [] Kind(v) = "list" /\ Len(Val(v)) # 2 -> Err(v)
    [] OTHER ->
         LET code == Val(v)[1]  payload == Val(v)[2] IN
         CASE Kind(code) # "int" -> Err(code)
           [] Kind(code) = "int" /\ Val(code) # 0 -> Err(payload)
           [] OTHER -> Ok(payload)

\* The ways to the daemon: the socket, by the protocol of its pickles, and the
\* command line.
CommandLine == -1
Channels    == {CommandLine, 0, 2, 4}

\* What fail2ban-client prints for a payload, and for an exception (external).
CLI(reply) ==
  IF Val(reply)[1] = Num(0) THEN Ok(<<"text", InGo(Val(reply)[2])>>) ELSE Err(InGo(Val(reply)[2]))

\* Client.Exec, from the reply of the daemon: over the socket or the command
\* line.
Exec(channel, reply) ==
  IF channel = CommandLine THEN CLI(reply)
  ELSE LET v == Unpickle(Pickled(reply, channel)) IN IF v = Error THEN Err(v) ELSE Interpret(v)

\* The words of an error that the Manager looks for: its exception's text.
Says(o, text) == Failed(o) /\ Kind(o[2]) = "obj" /\ Str(text) \in Range(Val(o[2]).args)

AlreadyBanned == <<97>>
NotBanned     == <<110>>

\* A number, or a text that begins with one.
AsInt(v) ==
  CASE Kind(v) = "int" -> <<Val(v)>>
    [] Kind(v) = "text" /\ Kind(Val(v)) = "int" -> <<Val(Val(v))>>
    [] OTHER -> << >>

\* Manager.BanIP and UnbanIP: is it a success?
BanIP(o)   == ~Failed(o) \/ Says(o, AlreadyBanned)
UnbanIP(o) == ~Failed(o) \/ Says(o, NotBanned)

\* Manager.setInt: the echo, when it is a number, must be the value.
SetInt(o, val) == ~Failed(o) /\ AsInt(o[2]) \in {<< >>, <<val>>}

\* Manager.getInt
GetInt(o) == IF Failed(o) THEN << >> ELSE AsInt(o[2])

\* findStatusList: the list that goes with the key, or << >> for nil, as a
\* sequence of at most one list.
RECURSIVE FindStatusList(_, _)
FindStatusList(v, key) ==
  CASE Kind(v) # "list" -> << >>
    [] Kind(v) = "list" /\ Len(Val(v)) = 2 /\ Val(v)[1] = key ->
         IF Kind(Val(v)[2]) = "list" THEN <<Val(Val(v)[2])>> ELSE << >>
    [] OTHER ->
         FoldLeft(LAMBDA found, e : IF found # << >> THEN found ELSE FindStatusList(e, key), << >>, Val(v))

BannedIPList == Str(<<66>>)

\* The status of a reply, as a value or as fail2ban-client prints it.
StatusOf(v) == IF Kind(v) = "text" THEN Val(v) ELSE v

\* parseBannedFromCLI finds the same list in the text.
StatusList(v) == FindStatusList(StatusOf(v), BannedIPList)

\* Manager.Banned: the strings of the list; << >> without one.
Banned(o) ==
  IF Failed(o) THEN Err(o[2])
  ELSE LET found == StatusList(o[2])
       IN  Ok(IF found = << >> THEN << >>
              ELSE SelectSeq(found[1], LAMBDA e : Kind(e) = "str" /\ Val(e) # << >>))

-----------------------------------------------------------------------------
(* The daemon (external): a jail, its bans and its maxretry.                *)

Raises(text) == Tuple(<<Num(1), Exc(<<<<102>>, <<101>>>>, <<Str(text)>>)>>)
Replies(x)   == Tuple(<<Num(0), x>>)

Refusal      == Raises(<<117>>)

\* The replies to a ban and an unban of ip that the daemon does not refuse.
BanReplies(bans, ip) ==
  {Replies(Num(IF ip \in bans THEN 0 ELSE 1)), Replies(Str(ip))}
    \cup (IF ip \in bans THEN {Raises(AlreadyBanned)} ELSE {})
UnbanReplies(bans, ip) ==
  IF ip \in bans THEN {Replies(Num(1)), Replies(Str(ip))} ELSE {Replies(Num(0)), Raises(NotBanned)}

\* status <jail>, with the given log files and bans in some order.
Status(files, ips) ==
  LET strs(s) == List([i \in DOMAIN s |-> Str(s[i])])
      pair(k, v) == Tuple(<<k, v>>)
  IN  Replies(List(<<
        pair(Str(<<70>>), List(<<pair(Str(<<67>>), Num(0)), pair(Str(<<76>>), strs(files))>>)),
        pair(Str(<<65>>), List(<<pair(Str(<<84>>), Num(Len(ips))), pair(BannedIPList, strs(ips))>>))>>))

-----------------------------------------------------------------------------
(* Properties.                                                             *)

\* In every version of the daemon and over every channel, banning an address
\* that is banned and unbanning one that is not succeed, and only a refusal is
\* a failure; so a retry of either is harmless (BanIP's and UnbanIP's comments).
RetriesSucceed(bans, ip, channel) ==
  /\ \A r \in BanReplies(bans, ip) : BanIP(Exec(channel, r))
  /\ \A r \in UnbanReplies(bans, ip) : UnbanIP(Exec(channel, r))
  /\ ~BanIP(Exec(channel, Refusal)) /\ ~UnbanIP(Exec(channel, Refusal))

\* setInt succeeds exactly when the jail has the value afterwards, although the
\* daemon may take another one and say so; and getInt reads what is there
\* ("verify it stuck", manager.go:106).
EchoIsVerified(val, taken, channel) ==
  LET o == Exec(channel, Replies(Num(taken))) IN
  /\ SetInt(o, val) <=> taken = val
  /\ GetInt(o) = <<taken>>
  /\ ~SetInt(Exec(channel, Refusal), val)

\* The bans of a jail are found in its status, whatever its other lists hold
\* (Banned, findStatusList).
StatusListsBans(files, ips, channel) ==
  Banned(Exec(channel, Status(files, ips))) = Ok([i \in DOMAIN ips |-> Str(ips[i])])

=============================================================================
