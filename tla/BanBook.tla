------------------------------ MODULE BanBook ------------------------------
(***************************************************************************)
(* What the ban book promises, whatever the handlers, the sweeper and the  *)
(* log mirror do between them: an address has at most one entry; an entry  *)
(* is written once, with its source and its term, and never altered in     *)
(* place (a second ban request cannot shorten, extend or take over a ban   *)
(* in force); it leaves the book only by being lifted.  BanLifecycle       *)
(* implements it with the rows of the bans table that have active = 1.     *)
(***************************************************************************)
EXTENDS Naturals

CONSTANTS
  IP,         \* the addresses that can be banned
  Source      \* who may write an entry

VARIABLE book \* [IP -> the entry in force, or NoEntry]

Entry   == [source : Source, expires : Nat]
NoEntry == [source |-> "none", expires |-> 0]

Init == book = [ip \in IP |-> NoEntry]

Enter(ip, e) ==
  /\ book[ip] = NoEntry
  /\ book' = [book EXCEPT ![ip] = e]

Lift(ip) ==
  /\ book[ip] # NoEntry
  /\ book' = [book EXCEPT ![ip] = NoEntry]

\* The program ranges over Nat for the term of a ban, so the choice of the
\* entry is stated on the successor instead of being enumerated.
Next == \E ip \in IP :
          \/ Lift(ip)
          \/ /\ book'[ip] \in Entry
             /\ Enter(ip, book'[ip])

Spec == Init /\ [][Next]_book
=============================================================================
