----------------------------- MODULE Algorithms -----------------------------
(***************************************************************************)
(* The pure algorithms that are proved about, each fed one input: the      *)
(* blocklist, the parsing of log lines, the calendar, and the reading of   *)
(* replies.                                                                *)
(***************************************************************************)
EXTENDS Blocklist, Calendar, Parse, Reply

VARIABLE input   \* which algorithm is fed, and its arguments

\* The inputs that the program can meet.
Attacks == Attack({"sshd", "nginx", "dovecot"}, {"accepted", "disconnect_preauth", "max_auth"},
                  Seq(Nat) \ {<< >>})

InputOK ==
  /\ input[1] = "blocklist" => input[2] \in Seq(FileLine)
  /\ input[1] = "lines" => /\ input[2] \subseteq Attacks /\ IsFiniteSet(input[2])
                           /\ input[3] \subseteq Noise
  /\ input[1] = "stamp"  => input[2] \in Nat /\ input[3] \in Nat
  /\ input[1] = "digest" => input[2] \in {"daily", "weekly"} /\ input[3] \in Nat
  /\ input[1] = "reply"  => input[2] \in Seq(Nat) /\ Places(input[3], input[2])

\* The blocklist finds what its file names (Blocklist).
BlocklistIsExact == input[1] = "blocklist" => FindsWhatIsNamed(input[2])

\* What is read off a log is what happened, and dates are right: wrong passwords
\* are counted once (Parse), syslog timestamps get their year back, and the next
\* digest is due at the first firing time to come (Calendar).
LogsAndDatesAreRight ==
  /\ input[1] = "lines" => \A ip \in IPs : AttemptsAreCounted(input[2], input[3], ip)
  /\ input[1] = "stamp" => StampIsRecovered(input[2], input[3])
  /\ input[1] = "digest" => NextIsFirstAfter(input[2], input[3])

=============================================================================
