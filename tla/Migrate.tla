------------------------------ MODULE Migrate ------------------------------
(***************************************************************************)
(* Schema migrations (SQLiteStore.migrate, internal/store/sqlite.go): each *)
(* start applies the files whose version is not recorded, in the order of  *)
(* their names, one transaction per file.  A statement is an identifier;   *)
(* the schema is the sequence of the statements that have taken effect.    *)
(* SQLite is external: a transaction that does not commit leaves nothing.  *)
(***************************************************************************)
EXTENDS Integers, Sequences

CONSTANTS
  Files,      \* the directory, in the order of its names: a sequence of
              \* [version, statements]
  MaxErrors,  \* bound on failing statements and commits
  MaxCrashes  \* bound on crashes

VARIABLES
  schema,     \* committed statements
  recorded,   \* committed rows of schema_migrations
  pc,         \* "down", "next", "exec", "commit", "up"
  file,       \* index of the next file
  applied,    \* versions read at the start
  tx,         \* the open transaction: statements and rows
  errors, crashes

vars == <<schema, recorded, pc, file, applied, tx, errors, crashes>>

NoTx == [statements |-> << >>, versions |-> {}]

Init ==
  /\ schema = << >> /\ recorded = {} /\ pc = "down" /\ file = 1 /\ applied = {}
  /\ tx = NoTx /\ errors = 0 /\ crashes = 0

\* New: the table of versions exists, and its rows are read.
Start ==
  /\ pc = "down"
  /\ pc' = "next" /\ file' = 1 /\ applied' = recorded
  /\ UNCHANGED <<schema, recorded, tx, errors, crashes>>

\* The loop over the files: skip one that is recorded, or begin its
\* transaction; after the last one the store is open.
NextFile ==
  /\ pc = "next"
  /\ IF file > Len(Files) THEN pc' = "up" /\ UNCHANGED file
     ELSE IF Files[file].version \in applied THEN file' = file + 1 /\ UNCHANGED pc
     ELSE pc' = "exec" /\ UNCHANGED file
  /\ UNCHANGED <<schema, recorded, applied, tx, errors, crashes>>

\* An error rolls the transaction back, and the process exits.
Abort ==
  /\ errors < MaxErrors
  /\ errors' = errors + 1
  /\ pc' = "down" /\ tx' = NoTx
  /\ UNCHANGED <<schema, recorded, file, applied, crashes>>

Left == SubSeq(Files[file].statements, Len(tx.statements) + 1, Len(Files[file].statements))

\* A statement of the file, inside its transaction.
ExecStatement ==
  /\ pc = "exec" /\ Left # << >>
  /\ \/ /\ tx' = [tx EXCEPT !.statements = Append(@, Head(Left))]
        /\ UNCHANGED <<schema, recorded, pc, file, applied, errors, crashes>>
     \/ Abort

\* Mutant: the version is recorded outside the transaction, before it commits.
RecordOutside ==
  /\ pc = "exec" /\ Left = << >>
  /\ \/ /\ recorded' = recorded \cup {Files[file].version}
        /\ pc' = "commit"
        /\ UNCHANGED <<schema, file, applied, tx, errors, crashes>>
     \/ Abort

\* The row of schema_migrations, inside the transaction too.
Record ==
  /\ pc = "exec" /\ Left = << >>
  /\ \/ /\ tx' = [tx EXCEPT !.versions = {Files[file].version}]
        /\ pc' = "commit"
        /\ UNCHANGED <<schema, recorded, file, applied, errors, crashes>>
     \/ Abort

Commit ==
  /\ pc = "commit"
  /\ \/ /\ schema' = schema \o tx.statements
        /\ recorded' = recorded \cup tx.versions
        /\ tx' = NoTx /\ pc' = "next" /\ file' = file + 1
        /\ UNCHANGED <<applied, errors, crashes>>
     \/ Abort

\* The process dies, or is stopped; what is not committed is gone.
Crash ==
  /\ pc # "down" /\ crashes < MaxCrashes
  /\ crashes' = crashes + 1
  /\ pc' = "down" /\ tx' = NoTx
  /\ UNCHANGED <<schema, recorded, file, applied, errors>>

Next == Start \/ NextFile \/ ExecStatement \/ Record \/ Commit \/ Crash

Spec == Init /\ [][Next]_vars

-----------------------------------------------------------------------------
(* Properties.                                                             *)

\* The statements of the first n files.
Upto[n \in 0 .. Len(Files)] == IF n = 0 THEN << >> ELSE Upto[n - 1] \o Files[n].statements

\* Whatever fails and wherever the process dies, the schema is that of the
\* recorded versions: the statements of a beginning of the files, each once and
\* in order; and a store that is open has them all (migrate's transaction per
\* file, with its row of schema_migrations).
SchemaIsRecorded ==
  /\ \E n \in 0 .. Len(Files) :
       recorded = {Files[i].version : i \in 1 .. n} /\ schema = Upto[n]
  /\ pc = "up" => schema = Upto[Len(Files)]

=============================================================================
