------------------------------- MODULE Parse -------------------------------
(***************************************************************************)
(* From log lines to counted attempts: ParseLine (internal/parse/parser.go) *)
(* with the uniqueness of the events table and CountIPEvents               *)
(* (internal/store/sqlite.go).  A line is a record: the outer format it    *)
(* has, the process that wrote it, the set of the message patterns that    *)
(* match it, the fields their groups would give, and whether its timestamp *)
(* can be read.  What a login writes is external: OpenSSH with PAM.        *)
(***************************************************************************)
EXTENDS Integers, SequencesExt, FiniteSetsExt

CONSTANTS IPs, Users, Ports

NoEvent == [type |-> "none"]
NoIP    == "no ip"
NoPort  == -1

-----------------------------------------------------------------------------
(* ParseLine.                                                              *)

\* sshdPatterns, in the order they are tried.
sshdPatterns == <<"accepted", "failed_password", "invalid_user", "max_auth", "disconnect_preauth", "pam_failure">>

\* Mutant: the ends of a connection count as failures.
TypeOfEager(pattern) == IF pattern \in {"disconnect_preauth", "pam_failure"} THEN "failed_password" ELSE pattern

\* The event type of a pattern of sshd.
TypeOf(pattern) == pattern

Event(type, l, source, ip, port) ==
  [type |-> type, ts |-> l.ts, ip |-> ip, user |-> l.user, port |-> port, source |-> source]

\* The first of the patterns that matches the message.
FirstMatch(l, patterns) == SelectInSeq(patterns, LAMBDA p : p \in l.matches)

\* parseSSHDMessage: pam_unix lines carry no port.
SSHDEvent(l) ==
  LET i == FirstMatch(l, sshdPatterns) IN
  IF i = 0 THEN NoEvent
  ELSE Event(TypeOf(sshdPatterns[i]), l, "sshd", l.ip, IF sshdPatterns[i] = "pam_failure" THEN NoPort ELSE l.port)

\* parseMailMessage, with the pattern of the process.
MailEvent(l, source) ==
  IF source \in l.matches THEN Event("mail_auth_fail", l, source, l.ip, NoPort) ELSE NoEvent

\* parseSudoMessage: success is tried first.
SudoEvent(l) ==
  LET i == FirstMatch(l, <<"sudo_session", "sudo_fail">>)
  IN  IF i = 0 THEN NoEvent ELSE Event(<<"sudo_session", "sudo_fail">>[i], l, "sudo", NoIP, NoPort)

\* parseUserMessage
UserEvent(l) ==
  LET type == IF l.proc = "useradd" THEN "user_add" ELSE "user_del"
  IN  IF type \in l.matches THEN Event(type, l, l.proc, NoIP, NoPort) ELSE NoEvent

\* parseSyslogLine: by the process.
SyslogEvent(l) ==
  CASE ~l.readable -> NoEvent
    [] l.readable /\ l.proc \in {"sshd", "sshd-session"} -> SSHDEvent(l)
    [] l.readable /\ l.proc \in {"dovecot", "postfix"} -> MailEvent(l, l.proc)
    [] l.readable /\ l.proc = "sudo" -> SudoEvent(l)
    [] l.readable /\ l.proc \in {"useradd", "userdel"} -> UserEvent(l)
    [] OTHER -> NoEvent

\* parseNginxErrorLine and parseNginxAccessLine, where only a 401 matches.
NginxEvent(l) ==
  IF l.readable /\ "http_auth_fail" \in l.matches
  THEN Event("http_auth_fail", l, "nginx", l.ip, NoPort) ELSE NoEvent

\* parseFail2BanLine
Fail2banEvent(l) ==
  LET i == FirstMatch(l, <<"ban", "unban">>)
  IN  IF ~l.readable \/ i = 0 THEN NoEvent ELSE Event(<<"ban", "unban">>[i], l, "fail2ban", l.ip, NoPort)

ParseLine(l) ==
  CASE l.format = "fail2ban" -> Fail2banEvent(l)
    [] l.format \in {"nginx_error", "nginx_access"} -> NginxEvent(l)
    [] l.format \in {"syslog", "rfc3339"} -> SyslogEvent(l)
    [] OTHER -> NoEvent

-----------------------------------------------------------------------------
(* The store: what is kept of the events, and what is counted.              *)

\* idx_events_dedup: one row per second, address, port, type and user.
Rows(lines) ==
  {[ts |-> e.ts, ip |-> e.ip, port |-> e.port, type |-> e.type, user |-> e.user] :
     e \in {ParseLine(l) : l \in lines} \ {NoEvent}}

\* The types that CountIPEvents and AutoBanEvent count.
Primary == {"failed_password", "http_auth_fail", "mail_auth_fail", "max_auth"}

CountIPEvents(rows, ip, since) == Cardinality({r \in rows : r.ip = ip /\ r.ts >= since /\ r.type \in Primary})

-----------------------------------------------------------------------------
(* What the services write (external).  An attack is a record: the service, *)
(* its address, port and user, whether the user exists, the seconds of its  *)
(* wrong passwords in order, and, for sshd, how the connection ends.        *)

Line(c, ts, format, proc, pattern) ==
  [format |-> format, proc |-> proc, matches |-> {pattern}, ts |-> ts, readable |-> TRUE,
   ip |-> c.ip, user |-> c.user, port |-> c.port]

WrittenBySSHD(c) ==
  LET line(ts, pattern) == Line(c, ts, "syslog", "sshd", pattern)
  IN  {line(s, "failed_password") : s \in Range(c.wrong)}
        \cup {line(c.wrong[1], "pam_failure"), line(Last(c.wrong), c.ends)}
        \cup (IF c.valid THEN {} ELSE {line(c.wrong[1], "invalid_user")})

\* The lines of an attack; nginx logs a refused password twice, in its two logs.
Written(c) ==
  CASE c.service = "sshd" -> WrittenBySSHD(c)
    [] c.service = "nginx" ->
         {Line(c, s, f, "", "http_auth_fail") : s \in Range(c.wrong), f \in {"nginx_error", "nginx_access"}}
    [] c.service = "dovecot" -> {Line(c, s, "rfc3339", "dovecot", "dovecot") : s \in Range(c.wrong)}

Attack(services, ends, wrong) ==
  [service : services, ip : IPs, user : Users, port : Ports, valid : BOOLEAN, ends : ends, wrong : wrong]

\* Lines that are no attempt: the local audit, a ban, other processes, a line
\* without a readable time.
OtherLines ==
  {<<"syslog", "sudo", "sudo_session", TRUE>>, <<"syslog", "sudo", "sudo_fail", TRUE>>,
   <<"rfc3339", "useradd", "user_add", TRUE>>, <<"syslog", "userdel", "user_del", TRUE>>,
   <<"fail2ban", "", "ban", TRUE>>, <<"fail2ban", "", "unban", TRUE>>,
   <<"syslog", "cron", "failed_password", TRUE>>, <<"syslog", "sshd", "failed_password", FALSE>>,
   <<"plain", "sshd", "failed_password", TRUE>>}

Noise ==
  {[format |-> f[1], proc |-> f[2], matches |-> {f[3]}, ts |-> 0, readable |-> f[4],
    ip |-> ip, user |-> u, port |-> NoPort] : ip \in IPs, u \in Users, f \in OtherLines}

-----------------------------------------------------------------------------
(* Properties.                                                             *)

\* The count for an address is the number of its wrong passwords, plus one for
\* every connection that sshd cut off for too many of them: the auxiliary lines
\* around an attempt, nginx's second log, a success, the local audit and the
\* attempts of others add nothing (CountIPEvents's comment, sqlite.go:602-608).
\* But the wrong passwords of one second are one where they have the same port
\* and user, and those of nginx and dovecot have no port.
AttemptsAreCounted(attacks, noise, ip) ==
  LET lines == (UNION {Written(c) : c \in attacks}) \cup noise
      mine  == {c \in attacks : c.ip = ip}
      port(c) == IF c.service = "sshd" THEN c.port ELSE NoPort
      type(c) == IF c.service = "sshd" THEN "ssh" ELSE IF c.service = "nginx" THEN "http" ELSE "mail"
  IN  CountIPEvents(Rows(lines), ip, 0) =
        Cardinality(UNION {{<<type(c), port(c), c.user, s>> : s \in Range(c.wrong)} : c \in mine})
          + Cardinality({<<c.port, c.user, Last(c.wrong)>> :
                           c \in {d \in mine : d.service = "sshd" /\ d.ends = "max_auth"}})

=============================================================================
