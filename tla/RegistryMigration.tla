-------------------------- MODULE RegistryMigration --------------------------
(***************************************************************************)
(* SqliteIngestionRegistry._initialize on a database of before the tenants:*)
(* the API and the worker process open one file, add the columns it lacks  *)
(* and rebuild the table ingestions under its new primary key.             *)
(*                                                                         *)
(* The sqlite3 module begins a transaction at the first INSERT: what comes *)
(* before it is committed statement by statement, and from there on the    *)
(* process alone writes, up to the commit that ends the with block.  A     *)
(* statement that raises ends the process, which is started again.         *)
(***************************************************************************)
EXTENDS Naturals, Sequences, Functions

CONSTANTS Openers,      \* processes that open the file
          NewColumns,   \* the columns an old table lacks, in the order they are added
          OldRows,      \* the rows of the old table
          LaterRows     \* rows that may be accepted once the registry is open

ASSUME MigrationAssumption ==
    /\ "none" \notin Openers
    /\ Len(NewColumns) \in Nat /\ DOMAIN NewColumns = 1..Len(NewColumns)

VARIABLES database,  \* what is committed
          writer,    \* the process in a transaction, and the database it sees
          opening,   \* process |-> where it is in _initialize, the columns it read
                     \* and the next one to look at
          accepted   \* the rows that callers were told of

migrationVars == <<database, writer, opening, accepted>>

(* scoped: the primary key begins with tenant_id.  copy: ingestions_v2 is  *)
(* there, with the rows copied.                                            *)
OldFile == [scoped |-> FALSE, columns |-> {}, rows |-> OldRows, copy |-> FALSE, copied |-> {}]
NoWriter == [by |-> "none", sees |-> OldFile]

At(pc) == [pc |-> pc, seen |-> {}, next |-> 1]

MigrationInit ==
    /\ database = OldFile
    /\ writer = NoWriter
    /\ opening = [p \in Openers |-> At("down")]
    /\ accepted = OldRows

Free == writer.by = "none"
Goes(p, pc) == opening' = [opening EXCEPT ![p] = At(pc)]

(* PRAGMA table_info(ingestions), read once for all the columns.  The one  *)
(* column of idempotency_keys, read and added after them, is left out.     *)
ReadColumns(p) ==
    /\ opening[p].pc = "down"
    /\ opening' = [opening EXCEPT ![p] = [At("columns") EXCEPT !.seen = database.columns]]
    /\ UNCHANGED <<database, writer, accepted>>

NextColumn(p) == opening' = [opening EXCEPT ![p].next = @ + 1]

(* ALTER TABLE ADD COLUMN raises if the other process added it meanwhile.  *)
AddColumn(p) ==
    /\ opening[p].pc = "columns" /\ opening[p].next <= Len(NewColumns)
    /\ LET column == NewColumns[opening[p].next]
       IN  \/ column \in opening[p].seen /\ NextColumn(p) /\ UNCHANGED database
          \/ /\ column \notin opening[p].seen /\ Free
             /\ column \in database.columns /\ Goes(p, "down") /\ UNCHANGED database
          \/ /\ column \notin opening[p].seen /\ Free
             /\ column \notin database.columns /\ NextColumn(p)
             /\ database' = [database EXCEPT !.columns = @ \cup {column}]
    /\ UNCHANGED <<writer, accepted>>

ReadKey(p) ==
    /\ opening[p].pc = "columns" /\ opening[p].next > Len(NewColumns)
    /\ Goes(p, IF database.scoped THEN "open" ELSE "creating")
    /\ UNCHANGED <<database, writer, accepted>>

(* CREATE TABLE ingestions_v2, without IF NOT EXISTS.                      *)
CreateCopy(p) ==
    /\ opening[p].pc = "creating" /\ Free
    /\ IF database.copy THEN Goes(p, "down") /\ UNCHANGED database
       ELSE Goes(p, "copying") /\ database' = [database EXCEPT !.copy = TRUE, !.copied = {}]
    /\ UNCHANGED <<writer, accepted>>

(* INSERT INTO ingestions_v2 ... SELECT ... FROM ingestions.               *)
CopyRows(p) ==
    /\ opening[p].pc = "copying" /\ Free
    /\ writer' = [by |-> p, sees |-> [database EXCEPT !.copied = @ \cup database.rows]]
    /\ Goes(p, "dropping")
    /\ UNCHANGED <<database, accepted>>

(* Mutant of DropOld: a DROP commits what came before it.                  *)
DropOldAtOnce(p) ==
    /\ opening[p].pc = "dropping"
    /\ database' = [writer.sees EXCEPT !.rows = {}]
    /\ writer' = [writer EXCEPT !.sees = database']
    /\ Goes(p, "renaming")
    /\ UNCHANGED accepted

DropOld(p) ==
    /\ opening[p].pc = "dropping"
    /\ writer' = [writer EXCEPT !.sees.rows = {}]
    /\ Goes(p, "renaming")
    /\ UNCHANGED <<database, accepted>>

RenameCopy(p) ==
    /\ opening[p].pc = "renaming"
    /\ writer' = [writer EXCEPT !.sees = [@ EXCEPT !.scoped = TRUE, !.copy = FALSE,
                                                   !.rows = writer.sees.copied, !.copied = {}]]
    /\ Goes(p, "committing")
    /\ UNCHANGED <<database, accepted>>

CommitMigration(p) ==
    /\ opening[p].pc = "committing"
    /\ database' = writer.sees /\ writer' = NoWriter
    /\ Goes(p, "open")
    /\ UNCHANGED accepted

(* The process ends, and SQLite rolls its transaction back.                *)
OpenerDies(p) ==
    /\ opening[p].pc # "down"
    /\ Goes(p, "down")
    /\ writer' = IF writer.by = p THEN NoWriter ELSE writer
    /\ UNCHANGED <<database, accepted>>

(* accept by a process whose registry is open.                             *)
AcceptRow(p, row) ==
    /\ opening[p].pc = "open" /\ Free /\ row \notin accepted
    /\ database' = [database EXCEPT !.rows = @ \cup {row}]
    /\ accepted' = accepted \cup {row}
    /\ UNCHANGED <<writer, opening>>

MigrationNext ==
    \E p \in Openers :
        \/ ReadColumns(p) \/ AddColumn(p) \/ ReadKey(p) \/ CreateCopy(p) \/ CopyRows(p)
        \/ DropOld(p) \/ RenameCopy(p) \/ CommitMigration(p) \/ OpenerDies(p)
        \/ \E row \in LaterRows : AcceptRow(p, row)

MigrationSpec == MigrationInit /\ [][MigrationNext]_migrationVars

-----------------------------------------------------------------------------
(* Whoever opens the file and wherever a process ends, no accepted row is  *)
(* lost to a reader, also when two processes rebuild the table one after   *)
(* the other, and a registry that is open has the whole new schema.        *)
RowsSurviveMigration ==
    /\ accepted \subseteq database.rows
    /\ \A p \in Openers : opening[p].pc = "open" =>
          database.scoped /\ Range(NewColumns) \subseteq database.columns
=============================================================================
