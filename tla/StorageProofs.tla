--------------------------- MODULE StorageProofs ---------------------------
(***************************************************************************)
(* The stores and their setup.  A migration of the registry loses no row,  *)
(* for any processes, columns and rows; the collection is ready for        *)
(* whoever was told so, for any callers and payload indexes; the two       *)
(* adapters of the registry port are interchangeable, for any number of    *)
(* versions, keys, concurrent runs and attempts.                           *)
(***************************************************************************)
EXTENDS RegistryMigration, CollectionSchema, RegistryAdapters, TLAPS

-----------------------------------------------------------------------------
(* THE MIGRATION.                                                          *)

Columns == Range(NewColumns)
Rows    == OldRows \cup LaterRows
Files   == [scoped : BOOLEAN, columns : SUBSET Columns, rows : SUBSET Rows,
            copy : BOOLEAN, copied : SUBSET Rows]
Places  == {"down", "columns", "creating", "copying", "dropping", "renaming", "committing", "open"}
Inside  == {"dropping", "renaming", "committing"}

(* The writer is the one process inside the transaction.                   *)
MigrationTypeOK ==
    /\ database \in Files
    /\ writer \in [by : Openers \cup {"none"}, sees : Files]
    /\ opening \in [Openers -> [pc : Places, seen : SUBSET Columns, next : Nat \ {0}]]
    /\ accepted \in SUBSET Rows
    /\ \A p \in Openers : opening[p].pc \in Inside <=> writer.by = p

(* What it sees at each of its places: the copy is whole before the old    *)
(* table is dropped, and the same as the table after the renaming.         *)
WriterInv(p) ==
    /\ opening[p].pc \in Inside => writer.sees.columns = database.columns
    /\ opening[p].pc \in {"dropping", "renaming"} => accepted \subseteq writer.sees.copied
    /\ opening[p].pc = "committing" => writer.sees.scoped /\ accepted \subseteq writer.sees.rows

(* The columns behind the one p looks at are there; then all of them are.  *)
ColumnsInv(p) ==
    /\ opening[p].seen \subseteq database.columns
    /\ opening[p].pc = "columns" =>
          \A i \in DOMAIN NewColumns : i < opening[p].next => NewColumns[i] \in database.columns
    /\ opening[p].pc \notin {"down", "columns"} => Columns \subseteq database.columns

MigrationInv ==
    /\ MigrationTypeOK
    /\ accepted \subseteq database.rows
    /\ \A p \in Openers : WriterInv(p) /\ ColumnsInv(p) /\ (opening[p].pc = "open" => database.scoped)

-----------------------------------------------------------------------------
LEMMA MigrationInitially == MigrationInit => MigrationInv
<1> SUFFICES ASSUME MigrationInit PROVE MigrationInv
  OBVIOUS
<1> USE MigrationAssumption DEF MigrationInit, OldFile, NoWriter, At
<1>1. MigrationTypeOK
  BY DEF MigrationTypeOK, Files, Rows, Places, Inside
<1>2. accepted \subseteq database.rows
  OBVIOUS
<1>3. \A p \in Openers : WriterInv(p) /\ ColumnsInv(p) /\ (opening[p].pc = "open" => database.scoped)
  BY DEF WriterInv, ColumnsInv, Inside
<1> QED
  BY <1>1, <1>2, <1>3 DEF MigrationInv

LEMMA ReadColumnsKeeps ==
  ASSUME MigrationInv, NEW p \in Openers, ReadColumns(p)
  PROVE  MigrationInv'
<1> USE MigrationAssumption DEF MigrationInv, ReadColumns, At
<1>1. MigrationTypeOK'
  <2>1. (database \in Files)'
    BY DEF MigrationTypeOK, Files, Rows
  <2>2. (writer \in [by : Openers \cup {"none"}, sees : Files])'
    BY DEF MigrationTypeOK, Files, Rows
  <2>3. (opening \in [Openers -> [pc : Places, seen : SUBSET Columns, next : Nat \ {0}]])'
    BY DEF MigrationTypeOK, Places, Files
  <2>4. (accepted \in SUBSET Rows)'
    BY DEF MigrationTypeOK, Rows
  <2>5. (\A q \in Openers : opening[q].pc \in Inside <=> writer.by = q)'
    BY DEF MigrationTypeOK, Places, Inside
  <2> QED
    BY <2>1, <2>2, <2>3, <2>4, <2>5 DEF MigrationTypeOK
<1>2. (accepted \subseteq database.rows)'
  BY DEF MigrationTypeOK, Files
<1>3. ASSUME NEW q \in Openers
      PROVE  (WriterInv(q) /\ ColumnsInv(q) /\ (opening[q].pc = "open" => database.scoped))'
  <2>1. WriterInv(q)'
    BY DEF MigrationTypeOK, WriterInv, Files, Places, Inside
  <2>2. ColumnsInv(q)'
    BY DEF MigrationTypeOK, ColumnsInv, Files, Places, Inside
  <2>3. (opening[q].pc = "open" => database.scoped)'
    BY DEF MigrationTypeOK, Places
  <2> QED
    BY <2>1, <2>2, <2>3
<1> QED
  BY <1>1, <1>2, <1>3 DEF MigrationInv

LEMMA AddColumnKeeps ==
  ASSUME MigrationInv, NEW p \in Openers, AddColumn(p)
  PROVE  MigrationInv'
<1> USE MigrationAssumption DEF MigrationInv, At, Free, Goes
<1> DEFINE column == NewColumns[opening[p].next]
<1>1. opening[p].pc = "columns" /\ column \in Columns /\ opening[p].next \in Nat \ {0}
  BY DEF AddColumn, MigrationTypeOK, Columns, Range
<1>2. UNCHANGED <<writer, accepted>>
  BY DEF AddColumn
<1>3. CASE Goes(p, "down") /\ UNCHANGED database
  <2>a. opening' = [opening EXCEPT ![p] = [pc |-> "down", seen |-> {}, next |-> 1]]
    BY <1>3
  <2> USE <1>1, <1>2, <1>3, <2>a
  <2>1. MigrationTypeOK'
    <3>1. (database \in Files)'
      BY DEF MigrationTypeOK, Files, Rows
    <3>2. (writer \in [by : Openers \cup {"none"}, sees : Files])'
      BY DEF MigrationTypeOK, Files, Rows
    <3>3. (opening \in [Openers -> [pc : Places, seen : SUBSET Columns, next : Nat \ {0}]])'
      BY DEF MigrationTypeOK, Places
    <3>4. (accepted \in SUBSET Rows)'
      BY DEF MigrationTypeOK, Rows
    <3>5. (\A q \in Openers : opening[q].pc \in Inside <=> writer.by = q)'
      BY DEF MigrationTypeOK, Places, Inside
    <3> QED
      BY <3>1, <3>2, <3>3, <3>4, <3>5 DEF MigrationTypeOK
  <2>2. (accepted \subseteq database.rows)'
    BY DEF MigrationTypeOK, Files
  <2>3. ASSUME NEW q \in Openers
        PROVE  (WriterInv(q) /\ ColumnsInv(q) /\ (opening[q].pc = "open" => database.scoped))'
    <3>1. WriterInv(q)'
      BY DEF MigrationTypeOK, WriterInv, Files, Places, Inside
    <3>2. ColumnsInv(q)'
      BY DEF MigrationTypeOK, ColumnsInv, Files, Places, Inside
    <3>3. (opening[q].pc = "open" => database.scoped)'
      BY DEF MigrationTypeOK, Places
    <3> QED
      BY <3>1, <3>2, <3>3
  <2> QED
    BY <2>1, <2>2, <2>3 DEF MigrationInv
<1>4. CASE /\ NextColumn(p)
           /\ writer.by = "none" \/ UNCHANGED database
           /\ database' \in Files /\ database'.rows = database.rows
           /\ database'.scoped = database.scoped
           /\ database.columns \cup {column} \subseteq database'.columns
  <2>a. opening' = [opening EXCEPT ![p] = [opening[p] EXCEPT !.next = opening[p].next + 1]]
    BY <1>4 DEF NextColumn
  <2> USE <1>1, <1>2, <1>4, <2>a
  <2>1. MigrationTypeOK'
    <3>1. (database \in Files)'
      BY DEF MigrationTypeOK, Files, Rows
    <3>2. (writer \in [by : Openers \cup {"none"}, sees : Files])'
      BY DEF MigrationTypeOK, Files, Rows
    <3>3. (opening \in [Openers -> [pc : Places, seen : SUBSET Columns, next : Nat \ {0}]])'
      BY DEF MigrationTypeOK, Places
    <3>4. (accepted \in SUBSET Rows)'
      BY DEF MigrationTypeOK, Rows
    <3>5. (\A q \in Openers : opening[q].pc \in Inside <=> writer.by = q)'
      BY DEF MigrationTypeOK, Places, Inside
    <3> QED
      BY <3>1, <3>2, <3>3, <3>4, <3>5 DEF MigrationTypeOK
  <2>2. (accepted \subseteq database.rows)'
    BY DEF MigrationTypeOK, Files
  <2>3. ASSUME NEW q \in Openers
        PROVE  (WriterInv(q) /\ ColumnsInv(q) /\ (opening[q].pc = "open" => database.scoped))'
    <3>1. WriterInv(q)'
      BY DEF MigrationTypeOK, WriterInv, Files, Places, Inside
    <3>2. ColumnsInv(q)'
      BY DEF MigrationTypeOK, ColumnsInv, Files, Places, Inside
    <3>3. (opening[q].pc = "open" => database.scoped)'
      BY DEF MigrationTypeOK, Places
    <3> QED
      BY <3>1, <3>2, <3>3
  <2> QED
    BY <2>1, <2>2, <2>3 DEF MigrationInv
<1>5. (Goes(p, "down") /\ UNCHANGED database) \/ NextColumn(p)
  BY DEF AddColumn
<1>6. ASSUME NextColumn(p), ~(Goes(p, "down") /\ UNCHANGED database)
      PROVE  /\ writer.by = "none" \/ UNCHANGED database
             /\ database' \in Files /\ database'.rows = database.rows
             /\ database'.scoped = database.scoped
             /\ database.columns \cup {column} \subseteq database'.columns
  <2>1. CASE column \in opening[p].seen /\ UNCHANGED database
    BY <2>1 DEF MigrationTypeOK, ColumnsInv
  <2>2. CASE writer.by = "none" /\ database' = [database EXCEPT !.columns = @ \cup {column}]
    BY <1>1, <2>2 DEF MigrationTypeOK, Files
  <2> QED
    BY <1>6, <2>1, <2>2 DEF AddColumn
<1> QED
  BY <1>3, <1>4, <1>5, <1>6

LEMMA ReadKeyKeeps ==
  ASSUME MigrationInv, NEW p \in Openers, ReadKey(p)
  PROVE  MigrationInv'
<1> USE MigrationAssumption DEF MigrationInv, ReadKey, Goes, At
<1>1. MigrationTypeOK'
  <2>1. (database \in Files)'
    BY DEF MigrationTypeOK, Files, Rows
  <2>2. (writer \in [by : Openers \cup {"none"}, sees : Files])'
    BY DEF MigrationTypeOK, Files, Rows
  <2>3. (opening \in [Openers -> [pc : Places, seen : SUBSET Columns, next : Nat \ {0}]])'
    BY DEF MigrationTypeOK, Places
  <2>4. (accepted \in SUBSET Rows)'
    BY DEF MigrationTypeOK, Rows
  <2>5. (\A q \in Openers : opening[q].pc \in Inside <=> writer.by = q)'
    BY DEF MigrationTypeOK, Places, Inside
  <2> QED
    BY <2>1, <2>2, <2>3, <2>4, <2>5 DEF MigrationTypeOK
<1>2. (accepted \subseteq database.rows)'
  BY DEF MigrationTypeOK, Files
<1>3. ASSUME NEW q \in Openers
      PROVE  (WriterInv(q) /\ ColumnsInv(q) /\ (opening[q].pc = "open" => database.scoped))'
  <2>1. WriterInv(q)'
    BY DEF MigrationTypeOK, WriterInv, Files, Places, Inside
  <2>2. ColumnsInv(q)'
    BY DEF MigrationTypeOK, ColumnsInv, Columns, Range
  <2>3. (opening[q].pc = "open" => database.scoped)'
    BY DEF MigrationTypeOK, Places
  <2> QED
    BY <2>1, <2>2, <2>3
<1> QED
  BY <1>1, <1>2, <1>3 DEF MigrationInv

LEMMA CreateCopyKeeps ==
  ASSUME MigrationInv, NEW p \in Openers, CreateCopy(p)
  PROVE  MigrationInv'
<1> USE MigrationAssumption DEF MigrationInv, CreateCopy, Goes, At, Free
<1>a. PICK pc \in {"down", "copying"} : opening' = [opening EXCEPT ![p] = [pc |-> pc, seen |-> {}, next |-> 1]]
  OBVIOUS
<1>b. /\ writer.by = "none" /\ opening[p].pc = "creating" /\ UNCHANGED <<writer, accepted>>
      /\ database' \in Files /\ database'.rows = database.rows
      /\ database'.scoped = database.scoped /\ database'.columns = database.columns
  <2>1. CASE database.copy
    BY <2>1 DEF MigrationTypeOK
  <2>2. CASE ~database.copy
    <3>1. database' = [database EXCEPT !.copy = TRUE, !.copied = {}]
      BY <2>2
    <3>2. database' \in Files
      BY <3>1 DEF MigrationTypeOK, Files
    <3>3. database'.rows = database.rows /\ database'.scoped = database.scoped
      BY <3>1 DEF MigrationTypeOK, Files
    <3>4. database'.columns = database.columns
      BY <3>1 DEF MigrationTypeOK, Files
    <3> QED
      BY <2>2, <3>2, <3>3, <3>4
  <2> QED
    BY <2>1, <2>2
<1> USE <1>a, <1>b
<1> HIDE DEF CreateCopy
<1>1. MigrationTypeOK'
  <2>1. (database \in Files)'
    BY DEF MigrationTypeOK, Files, Rows
  <2>2. (writer \in [by : Openers \cup {"none"}, sees : Files])'
    BY DEF MigrationTypeOK, Files, Rows
  <2>3. (opening \in [Openers -> [pc : Places, seen : SUBSET Columns, next : Nat \ {0}]])'
    BY DEF MigrationTypeOK, Places
  <2>4. (accepted \in SUBSET Rows)'
    BY DEF MigrationTypeOK, Rows
  <2>5. (\A q \in Openers : opening[q].pc \in Inside <=> writer.by = q)'
    BY DEF MigrationTypeOK, Places, Inside
  <2> QED
    BY <2>1, <2>2, <2>3, <2>4, <2>5 DEF MigrationTypeOK
<1>2. (accepted \subseteq database.rows)'
  BY DEF MigrationTypeOK, Files
<1>3. ASSUME NEW q \in Openers
      PROVE  (WriterInv(q) /\ ColumnsInv(q) /\ (opening[q].pc = "open" => database.scoped))'
  <2>1. WriterInv(q)'
    BY DEF MigrationTypeOK, WriterInv, Files, Places, Inside
  <2>2. ColumnsInv(q)'
    BY DEF MigrationTypeOK, ColumnsInv, Files, Places, Inside
  <2>3. (opening[q].pc = "open" => database.scoped)'
    BY DEF MigrationTypeOK, Places
  <2> QED
    BY <2>1, <2>2, <2>3
<1> QED
  BY <1>1, <1>2, <1>3 DEF MigrationInv

LEMMA CopyRowsKeeps ==
  ASSUME MigrationInv, NEW p \in Openers, CopyRows(p)
  PROVE  MigrationInv'
<1> USE MigrationAssumption DEF MigrationInv, CopyRows, Free, Goes, At
<1>1. MigrationTypeOK'
  <2>1. (database \in Files)'
    BY DEF MigrationTypeOK, Files, Rows
  <2>2. (writer \in [by : Openers \cup {"none"}, sees : Files])'
    BY DEF MigrationTypeOK, Files, Rows
  <2>3. (opening \in [Openers -> [pc : Places, seen : SUBSET Columns, next : Nat \ {0}]])'
    BY DEF MigrationTypeOK, Places
  <2>4. (accepted \in SUBSET Rows)'
    BY DEF MigrationTypeOK, Rows
  <2>5. (\A q \in Openers : opening[q].pc \in Inside <=> writer.by = q)'
    BY DEF MigrationTypeOK, Places, Inside
  <2> QED
    BY <2>1, <2>2, <2>3, <2>4, <2>5 DEF MigrationTypeOK
<1>2. (accepted \subseteq database.rows)'
  BY DEF MigrationTypeOK, Files
<1>3. ASSUME NEW q \in Openers
      PROVE  (WriterInv(q) /\ ColumnsInv(q) /\ (opening[q].pc = "open" => database.scoped))'
  <2>1. WriterInv(q)'
    BY DEF MigrationTypeOK, WriterInv, Files, Places, Inside
  <2>2. ColumnsInv(q)'
    BY DEF MigrationTypeOK, ColumnsInv, Files, Places, Inside
  <2>3. (opening[q].pc = "open" => database.scoped)'
    BY DEF MigrationTypeOK, Places
  <2> QED
    BY <2>1, <2>2, <2>3
<1> QED
  BY <1>1, <1>2, <1>3 DEF MigrationInv

LEMMA DropOldKeeps ==
  ASSUME MigrationInv, NEW p \in Openers, DropOld(p)
  PROVE  MigrationInv'
<1> USE MigrationAssumption DEF MigrationInv, DropOld, Goes, At
<1>1. MigrationTypeOK'
  <2>1. (database \in Files)'
    BY DEF MigrationTypeOK, Files, Rows
  <2>2. (writer \in [by : Openers \cup {"none"}, sees : Files])'
    BY DEF MigrationTypeOK, Files, Rows
  <2>3. (opening \in [Openers -> [pc : Places, seen : SUBSET Columns, next : Nat \ {0}]])'
    BY DEF MigrationTypeOK, Places
  <2>4. (accepted \in SUBSET Rows)'
    BY DEF MigrationTypeOK, Rows
  <2>5. (\A q \in Openers : opening[q].pc \in Inside <=> writer.by = q)'
    BY DEF MigrationTypeOK, Places, Inside
  <2> QED
    BY <2>1, <2>2, <2>3, <2>4, <2>5 DEF MigrationTypeOK
<1>2. (accepted \subseteq database.rows)'
  BY DEF MigrationTypeOK, Files
<1>3. ASSUME NEW q \in Openers
      PROVE  (WriterInv(q) /\ ColumnsInv(q) /\ (opening[q].pc = "open" => database.scoped))'
  <2>1. WriterInv(q)'
    BY DEF MigrationTypeOK, WriterInv, Files, Places, Inside
  <2>2. ColumnsInv(q)'
    BY DEF MigrationTypeOK, ColumnsInv, Files, Places, Inside
  <2>3. (opening[q].pc = "open" => database.scoped)'
    BY DEF MigrationTypeOK, Places
  <2> QED
    BY <2>1, <2>2, <2>3
<1> QED
  BY <1>1, <1>2, <1>3 DEF MigrationInv

LEMMA RenameCopyKeeps ==
  ASSUME MigrationInv, NEW p \in Openers, RenameCopy(p)
  PROVE  MigrationInv'
<1> USE MigrationAssumption DEF MigrationInv, RenameCopy, Goes, At
<1>1. MigrationTypeOK'
  <2>1. (database \in Files)'
    BY DEF MigrationTypeOK, Files, Rows
  <2>2. (writer \in [by : Openers \cup {"none"}, sees : Files])'
    BY DEF MigrationTypeOK, Files, Rows
  <2>3. (opening \in [Openers -> [pc : Places, seen : SUBSET Columns, next : Nat \ {0}]])'
    BY DEF MigrationTypeOK, Places
  <2>4. (accepted \in SUBSET Rows)'
    BY DEF MigrationTypeOK, Rows
  <2>5. (\A q \in Openers : opening[q].pc \in Inside <=> writer.by = q)'
    BY DEF MigrationTypeOK, Places, Inside
  <2> QED
    BY <2>1, <2>2, <2>3, <2>4, <2>5 DEF MigrationTypeOK
<1>2. (accepted \subseteq database.rows)'
  BY DEF MigrationTypeOK, Files
<1>3. ASSUME NEW q \in Openers
      PROVE  (WriterInv(q) /\ ColumnsInv(q) /\ (opening[q].pc = "open" => database.scoped))'
  <2>1. WriterInv(q)'
    <3>1. CASE q = p
      <4>1. accepted \subseteq writer.sees.copied /\ writer.sees.columns = database.columns
        BY DEF WriterInv, Inside
      <4>2. /\ writer'.sees.rows = writer.sees.copied /\ writer'.sees.scoped
            /\ writer'.sees.columns = writer.sees.columns
        BY DEF MigrationTypeOK, Files
      <4>3. opening'[p].pc = "committing"
        BY DEF MigrationTypeOK
      <4> QED
        BY <3>1, <4>1, <4>2, <4>3 DEF WriterInv
    <3>2. CASE q # p
      <4> opening[q]'.pc \notin Inside
        BY <3>2 DEF MigrationTypeOK, Places, Inside
      <4> QED
        BY DEF WriterInv, Inside
    <3> QED
      BY <3>1, <3>2
  <2>2. ColumnsInv(q)'
    BY DEF MigrationTypeOK, ColumnsInv, Files, Places, Inside
  <2>3. (opening[q].pc = "open" => database.scoped)'
    BY DEF MigrationTypeOK, Places
  <2> QED
    BY <2>1, <2>2, <2>3
<1> QED
  BY <1>1, <1>2, <1>3 DEF MigrationInv

LEMMA CommitMigrationKeeps ==
  ASSUME MigrationInv, NEW p \in Openers, CommitMigration(p)
  PROVE  MigrationInv'
<1> USE MigrationAssumption DEF MigrationInv, CommitMigration, Goes, At, NoWriter
<1>1. MigrationTypeOK'
  <2>1. (database \in Files)'
    BY DEF MigrationTypeOK, Files, Rows
  <2>2. (writer \in [by : Openers \cup {"none"}, sees : Files])'
    BY DEF MigrationTypeOK, Files, OldFile, Rows
  <2>3. (opening \in [Openers -> [pc : Places, seen : SUBSET Columns, next : Nat \ {0}]])'
    BY DEF MigrationTypeOK, Places
  <2>4. (accepted \in SUBSET Rows)'
    BY DEF MigrationTypeOK, Rows
  <2>5. (\A q \in Openers : opening[q].pc \in Inside <=> writer.by = q)'
    BY DEF MigrationTypeOK, Places, Inside
  <2> QED
    BY <2>1, <2>2, <2>3, <2>4, <2>5 DEF MigrationTypeOK
<1>2. (accepted \subseteq database.rows)'
  BY DEF MigrationTypeOK, WriterInv
<1>3. ASSUME NEW q \in Openers
      PROVE  (WriterInv(q) /\ ColumnsInv(q) /\ (opening[q].pc = "open" => database.scoped))'
  <2>1. WriterInv(q)'
    BY DEF MigrationTypeOK, WriterInv, Files, Places, Inside
  <2>2. ColumnsInv(q)'
    BY DEF MigrationTypeOK, ColumnsInv, WriterInv, Places, Inside
  <2>3. (opening[q].pc = "open" => database.scoped)'
    BY DEF MigrationTypeOK, WriterInv, Places
  <2> QED
    BY <2>1, <2>2, <2>3
<1> QED
  BY <1>1, <1>2, <1>3 DEF MigrationInv

LEMMA OpenerDiesKeeps ==
  ASSUME MigrationInv, NEW p \in Openers, OpenerDies(p)
  PROVE  MigrationInv'
<1> USE MigrationAssumption DEF MigrationInv, OpenerDies, Goes, At, NoWriter
<1>1. MigrationTypeOK'
  <2>1. (database \in Files)'
    BY DEF MigrationTypeOK, Files, Rows
  <2>2. (writer \in [by : Openers \cup {"none"}, sees : Files])'
    BY DEF MigrationTypeOK, Files, OldFile, Rows
  <2>3. (opening \in [Openers -> [pc : Places, seen : SUBSET Columns, next : Nat \ {0}]])'
    BY DEF MigrationTypeOK, Places
  <2>4. (accepted \in SUBSET Rows)'
    BY DEF MigrationTypeOK, Rows
  <2>5. (\A q \in Openers : opening[q].pc \in Inside <=> writer.by = q)'
    BY DEF MigrationTypeOK, Places, Inside
  <2> QED
    BY <2>1, <2>2, <2>3, <2>4, <2>5 DEF MigrationTypeOK
<1>2. (accepted \subseteq database.rows)'
  BY DEF MigrationTypeOK, Files
<1>3. ASSUME NEW q \in Openers
      PROVE  (WriterInv(q) /\ ColumnsInv(q) /\ (opening[q].pc = "open" => database.scoped))'
  <2>1. WriterInv(q)'
    BY DEF MigrationTypeOK, WriterInv, Files, Places, Inside
  <2>2. ColumnsInv(q)'
    BY DEF MigrationTypeOK, ColumnsInv, Files, Places, Inside
  <2>3. (opening[q].pc = "open" => database.scoped)'
    BY DEF MigrationTypeOK, Places
  <2> QED
    BY <2>1, <2>2, <2>3
<1> QED
  BY <1>1, <1>2, <1>3 DEF MigrationInv

LEMMA AcceptRowKeeps ==
  ASSUME MigrationInv, NEW p \in Openers, NEW row \in LaterRows, AcceptRow(p, row)
  PROVE  MigrationInv'
<1> USE MigrationAssumption DEF MigrationInv, AcceptRow, Free
<1>1. MigrationTypeOK'
  <2>1. (database \in Files)'
    BY DEF MigrationTypeOK, Files, Rows
  <2>2. (writer \in [by : Openers \cup {"none"}, sees : Files])'
    BY DEF MigrationTypeOK, Files, Rows
  <2>3. (opening \in [Openers -> [pc : Places, seen : SUBSET Columns, next : Nat \ {0}]])'
    BY DEF MigrationTypeOK, Places
  <2>4. (accepted \in SUBSET Rows)'
    BY DEF MigrationTypeOK, Rows
  <2>5. (\A q \in Openers : opening[q].pc \in Inside <=> writer.by = q)'
    BY DEF MigrationTypeOK, Places, Inside
  <2> QED
    BY <2>1, <2>2, <2>3, <2>4, <2>5 DEF MigrationTypeOK
<1>2. (accepted \subseteq database.rows)'
  BY DEF MigrationTypeOK, Files
<1>3. ASSUME NEW q \in Openers
      PROVE  (WriterInv(q) /\ ColumnsInv(q) /\ (opening[q].pc = "open" => database.scoped))'
  <2>1. WriterInv(q)'
    BY DEF MigrationTypeOK, WriterInv, Files, Places, Inside
  <2>2. ColumnsInv(q)'
    BY DEF MigrationTypeOK, ColumnsInv, Files, Places, Inside
  <2>3. (opening[q].pc = "open" => database.scoped)'
    BY DEF MigrationTypeOK, Places
  <2> QED
    BY <2>1, <2>2, <2>3
<1> QED
  BY <1>1, <1>2, <1>3 DEF MigrationInv

-----------------------------------------------------------------------------
(* MigrationInv holds of a new process and a step of any process keeps it.  *)
THEOREM MigrationInductive == MigrationSpec => []MigrationInv
<1>1. MigrationInv /\ [MigrationNext]_migrationVars => MigrationInv'
  <2> SUFFICES ASSUME MigrationInv, [MigrationNext]_migrationVars PROVE MigrationInv'
    OBVIOUS
  <2>1. CASE UNCHANGED migrationVars
    <3> USE <2>1 DEF migrationVars
    <3>1. MigrationTypeOK'
      BY DEF MigrationInv, MigrationTypeOK
    <3>2. \A q \in Openers : WriterInv(q)' /\ ColumnsInv(q)' /\ (opening[q].pc = "open" => database.scoped)'
      BY DEF MigrationInv, WriterInv, ColumnsInv
    <3> QED
      BY <3>1, <3>2 DEF MigrationInv
  <2>2. ASSUME NEW p \in Openers, NEW row \in LaterRows, AcceptRow(p, row) PROVE MigrationInv'
    BY <2>2, AcceptRowKeeps
  <2>3. ASSUME NEW p \in Openers,
               \/ ReadColumns(p) \/ AddColumn(p) \/ ReadKey(p) \/ CreateCopy(p) \/ CopyRows(p)
               \/ DropOld(p) \/ RenameCopy(p) \/ CommitMigration(p) \/ OpenerDies(p)
        PROVE  MigrationInv'
    BY <2>3, ReadColumnsKeeps, AddColumnKeeps, ReadKeyKeeps, CreateCopyKeeps, CopyRowsKeeps,
       DropOldKeeps, RenameCopyKeeps, CommitMigrationKeeps, OpenerDiesKeeps
  <2> QED
    BY <2>1, <2>2, <2>3 DEF MigrationNext
<1> QED
  BY <1>1, MigrationInitially, PTL DEF MigrationSpec

(* However the processes that open an old file interleave and wherever one *)
(* of them ends in _initialize, a reader finds every accepted row, and an  *)
(* open registry has the new primary key and all the new columns.          *)
THEOREM NoRowIsLost == MigrationSpec => []RowsSurviveMigration
<1>1. MigrationInv => RowsSurviveMigration
  BY DEF MigrationInv, ColumnsInv, RowsSurviveMigration, Columns
<1> QED
  BY <1>1, MigrationInductive, PTL

-----------------------------------------------------------------------------
(* THE COLLECTION.                                                         *)

CallPlaces == {"idle", "returned", "raised", "creating", "validating", "indexing"}

Infos == [there : BOOLEAN, dense : {"ours", "resized", "missing"},
          sparse : {"idf", "plain", "missing"}, indexes : SUBSET Indexes]

SchemaTypeOK ==
    /\ collection \in Infos
    /\ ~collection.there => collection = NoCollection
    /\ ensuring \in [Callers -> [pc : CallPlaces, seen : SUBSET Indexes, next : Nat \ {0}]]

(* What a call was told of stays true, and it leaves no index behind.      *)
CallInv(c) ==
    /\ ensuring[c].seen \subseteq collection.indexes
    /\ ensuring[c].pc \in {"indexing", "returned"} => collection.there /\ Compatible(collection)
    /\ ensuring[c].pc = "indexing" =>
          \A i \in DOMAIN PayloadIndexes :
              i < ensuring[c].next => PayloadIndexes[i] \in collection.indexes
    /\ ensuring[c].pc = "returned" => Indexes \subseteq collection.indexes

SchemaInv == SchemaTypeOK /\ \A c \in Callers : CallInv(c)

-----------------------------------------------------------------------------
(* A collection that is there keeps its vectors and its indexes.           *)
Grows ==
    /\ collection' \in Infos
    /\ ~collection'.there => collection' = NoCollection
    /\ collection.there => collection'.there
    /\ collection.there /\ Compatible(collection) => Compatible(collection')
    /\ collection.indexes \subseteq collection'.indexes

LEMMA UnchangedGrows ==
  ASSUME SchemaTypeOK, UNCHANGED collection
  PROVE  Grows
BY DEF SchemaTypeOK, Grows, Compatible

(* A step of c that makes the collection grow is checked for c alone.      *)
LEMMA OthersKeep ==
  ASSUME SchemaInv, Grows, NEW c \in Callers,
         NEW call \in [pc : CallPlaces, seen : SUBSET Indexes, next : Nat \ {0}],
         ensuring' = [ensuring EXCEPT ![c] = call], CallInv(c)'
  PROVE  SchemaInv'
<1>1. SchemaTypeOK'
  BY DEF SchemaInv, SchemaTypeOK, Grows
<1>2. ASSUME NEW d \in Callers, d # c PROVE CallInv(d)'
  <2>1. ensuring'[d] = ensuring[d]
    BY <1>2 DEF SchemaInv, SchemaTypeOK
  <2>2. CallInv(d)
    BY DEF SchemaInv
  <2> QED
    BY <2>1, <2>2 DEF CallInv, Grows
<1> QED
  BY <1>1, <1>2 DEF SchemaInv

LEMMA SchemaInitially == SchemaInit => SchemaInv
<1> SUFFICES ASSUME SchemaInit PROVE SchemaInv
  OBVIOUS
<1>1. collection \in Infos /\ (~collection.there => collection = NoCollection)
  <2>1. CASE collection \in Collections
    BY <2>1 DEF Infos, Collections
  <2>2. CASE collection = NoCollection
    BY <2>2 DEF Infos, NoCollection
  <2> QED
    BY <2>1, <2>2 DEF SchemaInit
<1>2. \A c \in Callers : ensuring[c] = Call("idle", {})
  BY DEF SchemaInit
<1>3. ensuring \in [Callers -> [pc : CallPlaces, seen : SUBSET Indexes, next : Nat \ {0}]]
  BY DEF SchemaInit, Call, CallPlaces
<1> QED
  BY <1>1, <1>2, <1>3 DEF SchemaInv, SchemaTypeOK, CallInv, Call

LEMMA CheckExistsKeeps ==
  ASSUME SchemaInv, NEW c \in Callers, CheckExists(c)
  PROVE  SchemaInv'
<1>1. PICK pc \in {"validating", "creating"} : ensuring' = [ensuring EXCEPT ![c] = Call(pc, {})]
  BY DEF CheckExists, CallGoes
<1>2. Grows
  BY UnchangedGrows DEF CheckExists, SchemaInv
<1>3. CallInv(c)'
  BY <1>1 DEF CallInv, Call, SchemaInv, SchemaTypeOK
<1>4. Call(pc, {}) \in [pc : CallPlaces, seen : SUBSET Indexes, next : Nat \ {0}]
  BY DEF Call, CallPlaces
<1> QED
  BY <1>1, <1>2, <1>3, <1>4, OthersKeep

LEMMA CreateCollectionKeeps ==
  ASSUME SchemaInv, NEW c \in Callers, CreateCollection(c)
  PROVE  SchemaInv'
<1>1. PICK pc \in {"indexing", "raised"} :
        /\ ensuring' = [ensuring EXCEPT ![c] = Call(pc, {})]
        /\ pc = "indexing" => collection' = NewCollection
  BY DEF CreateCollection, CallGoes
<1>2. Grows
  <2>1. CASE UNCHANGED collection
    BY <2>1, UnchangedGrows DEF SchemaInv
  <2>2. CASE ~collection.there /\ collection' = NewCollection
    BY <2>2 DEF SchemaInv, SchemaTypeOK, Grows, Infos, NoCollection, NewCollection
  <2> QED
    BY <2>1, <2>2 DEF CreateCollection
<1>3. CallInv(c)'
  <2>1. ensuring'[c] = Call(pc, {})
    BY <1>1 DEF SchemaInv, SchemaTypeOK
  <2> QED
    BY <1>1, <2>1, SchemaAssumption DEF CallInv, Call, NewCollection, Compatible
<1>4. Call(pc, {}) \in [pc : CallPlaces, seen : SUBSET Indexes, next : Nat \ {0}]
  BY DEF Call, CallPlaces
<1> QED
  BY <1>1, <1>2, <1>3, <1>4, OthersKeep

LEMMA ValidateExistingKeeps ==
  ASSUME SchemaInv, NEW c \in Callers, ValidateExisting(c)
  PROVE  SchemaInv'
<1>1. PICK pc \in {"indexing", "raised"}, seen \in SUBSET collection.indexes :
        /\ ensuring' = [ensuring EXCEPT ![c] = Call(pc, seen)]
        /\ pc = "indexing" => Compatible(collection)
  BY DEF ValidateExisting, CallGoes
<1>2. Grows
  BY UnchangedGrows DEF ValidateExisting, SchemaInv
<1>3. CallInv(c)'
  <2>1. ensuring'[c] = Call(pc, seen) /\ collection' = collection
    BY <1>1 DEF SchemaInv, SchemaTypeOK, ValidateExisting
  <2>2. Compatible(collection) => collection.there
    BY DEF SchemaInv, SchemaTypeOK, Compatible, NoCollection
  <2> QED
    BY <1>1, <2>1, <2>2, SchemaAssumption DEF CallInv, Call
<1>4. Call(pc, seen) \in [pc : CallPlaces, seen : SUBSET Indexes, next : Nat \ {0}]
  BY DEF Call, CallPlaces, SchemaInv, SchemaTypeOK, Infos
<1> QED
  BY <1>1, <1>2, <1>3, <1>4, OthersKeep

LEMMA EnsureIndexKeeps ==
  ASSUME SchemaInv, NEW c \in Callers, EnsureIndex(c)
  PROVE  SchemaInv'
<1> DEFINE field == PayloadIndexes[ensuring[c].next]
           onward == [ensuring[c] EXCEPT !.next = @ + 1]
<1>1. field \in Indexes /\ ensuring[c].next \in Nat \ {0} /\ ensuring[c].pc = "indexing"
  BY SchemaAssumption DEF EnsureIndex, SchemaInv, SchemaTypeOK, Indexes, Range
<1>2. collection.there /\ Compatible(collection) /\ CallInv(c)
  BY <1>1 DEF SchemaInv, CallInv
<1>3. UNCHANGED collection \/ collection' = [collection EXCEPT !.indexes = @ \cup {field}]
  BY DEF EnsureIndex
<1>4. Grows
  <2>1. CASE UNCHANGED collection
    BY <2>1, UnchangedGrows DEF SchemaInv
  <2>2. CASE collection' = [collection EXCEPT !.indexes = @ \cup {field}]
    BY <1>1, <1>2, <2>2 DEF SchemaInv, SchemaTypeOK, Grows, Infos, NoCollection, Compatible
  <2> QED
    BY <1>3, <2>1, <2>2
<1>5. CASE ensuring' = [ensuring EXCEPT ![c] = Call("raised", {})]
  <2>1. CallInv(c)'
    BY <1>5 DEF SchemaInv, SchemaTypeOK, CallInv, Call
  <2>2. Call("raised", {}) \in [pc : CallPlaces, seen : SUBSET Indexes, next : Nat \ {0}]
    BY DEF Call, CallPlaces
  <2> QED
    BY <1>4, <1>5, <2>1, <2>2, OthersKeep
<1>6. CASE NextIndex(c)
  <2>1. ensuring' = [ensuring EXCEPT ![c] = onward]
    BY <1>6 DEF NextIndex
  <2>2. onward \in [pc : CallPlaces, seen : SUBSET Indexes, next : Nat \ {0}]
    BY <1>1 DEF SchemaInv, SchemaTypeOK
  <2>3. ensuring'[c].pc = "indexing" /\ ensuring'[c].seen = ensuring[c].seen /\ ensuring'[c].next = ensuring[c].next + 1
    BY <1>1, <2>1 DEF SchemaInv, SchemaTypeOK
  <2>4. field \in collection'.indexes
    <3>1. CASE field \in ensuring[c].seen /\ UNCHANGED collection
      BY <1>2, <3>1 DEF CallInv
    <3>2. CASE collection' = [collection EXCEPT !.indexes = @ \cup {field}]
      BY <3>2 DEF SchemaInv, SchemaTypeOK, Infos
    <3> QED
      BY <3>1, <3>2 DEF EnsureIndex
  <2>5. ASSUME NEW i \in DOMAIN PayloadIndexes, i < ensuring'[c].next
        PROVE  PayloadIndexes[i] \in collection'.indexes
    <3>1. i < ensuring[c].next \/ i = ensuring[c].next
      BY <1>1, <2>3, <2>5, SchemaAssumption
    <3> QED
      BY <1>1, <1>2, <1>4, <2>4, <3>1 DEF CallInv, Grows
  <2>6. CallInv(c)'
    BY <1>2, <1>4, <2>3, <2>5 DEF CallInv, Grows
  <2> QED
    BY <1>4, <2>1, <2>2, <2>6, OthersKeep
<1> QED
  BY <1>5, <1>6 DEF EnsureIndex, CallGoes

LEMMA EnsureReturnsKeeps ==
  ASSUME SchemaInv, NEW c \in Callers, EnsureReturns(c)
  PROVE  SchemaInv'
<1>1. ensuring' = [ensuring EXCEPT ![c] = Call("returned", {})]
  BY DEF EnsureReturns, CallGoes
<1>2. Grows
  BY UnchangedGrows DEF EnsureReturns, SchemaInv
<1>3. Indexes \subseteq collection.indexes
  BY SchemaAssumption DEF EnsureReturns, SchemaInv, SchemaTypeOK, CallInv, Indexes, Range
<1>4. CallInv(c)'
  <2>1. ensuring'[c] = Call("returned", {}) /\ collection' = collection /\ CallInv(c)
    BY <1>1 DEF SchemaInv, SchemaTypeOK, EnsureReturns
  <2> QED
    BY <1>3, <2>1 DEF CallInv, Call, EnsureReturns
<1>5. Call("returned", {}) \in [pc : CallPlaces, seen : SUBSET Indexes, next : Nat \ {0}]
  BY DEF Call, CallPlaces
<1> QED
  BY <1>1, <1>2, <1>4, <1>5, OthersKeep

LEMMA EnsureFailsKeeps ==
  ASSUME SchemaInv, NEW c \in Callers, EnsureFails(c)
  PROVE  SchemaInv'
<1>1. ensuring' = [ensuring EXCEPT ![c] = Call("raised", {})]
  BY DEF EnsureFails, CallGoes
<1>2. Grows
  BY UnchangedGrows DEF EnsureFails, SchemaInv
<1>3. CallInv(c)'
  BY <1>1 DEF SchemaInv, SchemaTypeOK, CallInv, Call
<1>4. Call("raised", {}) \in [pc : CallPlaces, seen : SUBSET Indexes, next : Nat \ {0}]
  BY DEF Call, CallPlaces
<1> QED
  BY <1>1, <1>2, <1>3, <1>4, OthersKeep

-----------------------------------------------------------------------------
(* However calls of ensure_collection overlap and fail, the collection has *)
(* both vectors and every index for a call that returned.                  *)
THEOREM ReadyForCallers == SchemaSpec => []ReturnedMeansReady
<1>1. SchemaInv /\ [SchemaNext]_schemaVars => SchemaInv'
  <2> SUFFICES ASSUME SchemaInv, [SchemaNext]_schemaVars PROVE SchemaInv'
    OBVIOUS
  <2>1. CASE UNCHANGED schemaVars
    BY <2>1 DEF schemaVars, SchemaInv, SchemaTypeOK, CallInv, Compatible
  <2>2. ASSUME NEW c \in Callers,
               \/ CheckExists(c) \/ CreateCollection(c) \/ ValidateExisting(c)
               \/ EnsureIndex(c) \/ EnsureReturns(c) \/ EnsureFails(c)
        PROVE  SchemaInv'
    BY <2>2, CheckExistsKeeps, CreateCollectionKeeps, ValidateExistingKeeps, EnsureIndexKeeps,
       EnsureReturnsKeeps, EnsureFailsKeeps
  <2> QED
    BY <2>1, <2>2 DEF SchemaNext
<1>2. SchemaInv => ReturnedMeansReady
  BY DEF SchemaInv, CallInv, ReturnedMeansReady
<1> QED
  BY <1>1, <1>2, SchemaInitially, PTL DEF SchemaSpec

-----------------------------------------------------------------------------
(* THE TWO ADAPTERS.                                                       *)

Errors   == {"none", "retryable", "fatal"}
JobRow   == [status : {"absent", "queued", "running", "succeeded", "failed"},
             progress : Nat, error : Errors, stage : StageNames \cup {"none"},
             failed : StageNames \cup {"none"}, attempts : Nat]
Events   == [StageNames -> {"none", "running", "succeeded", "failed"}]
Snapshot == [row : JobRow, stages : Events]
Statuses == {"absent", "indexing", "active", "failed", "deleted"}

SqliteState == [rows : [Numbers -> JobRow], shown : [Numbers -> Statuses],
                keys : [HeaderKeys -> Numbers \cup {0}], events : [Numbers -> Events]]
MemoryState == [receipts : [Numbers -> Statuses], byKey : [HeaderKeys -> Numbers \cup {0}],
                jobs : [Numbers -> Snapshot], history : [Numbers -> Events]]
CallRow     == [pc : {"idle", "index", "indexing", "activate", "activating",
                      "complete", "failing"},
                job : Numbers \cup {0}, fromSqlite : Snapshot, fromMemory : Snapshot]

(* The adapters keep the same columns, receipts, keys and events.  The     *)
(* stages of a snapshot in memory are those of the events, but for the     *)
(* versions apart.                                                         *)
SameContents(s, m, apart) ==
    /\ m.receipts = s.shown /\ m.byKey = s.keys /\ m.history = s.events
    /\ \A v \in Numbers : m.jobs[v].row = s.rows[v]
    /\ \A v \in Numbers \ apart : m.jobs[v].stages = s.events[v]

(* A version without a row has no status, no events and no key.            *)
RowsBeforeTheRest(s) ==
    /\ \A v \in Numbers : s.shown[v] = "absent" <=> s.rows[v].status = "absent"
    /\ \A v \in Numbers : s.rows[v].status = "absent" => s.events[v] = NoEvents
    /\ \A k \in HeaderKeys : s.keys[k] # 0 => s.rows[s.keys[k]].status # "absent"

Matched(s, m, apart) ==
    /\ s \in SqliteState /\ m \in MemoryState
    /\ SameContents(s, m, apart) /\ RowsBeforeTheRest(s)

(* A run that is about to write from an older read has read the same row   *)
(* from both, and from memory the stages as they are, unless another run   *)
(* is at work on the job.                                                  *)
RunReads(s, row, apart) ==
    /\ row.pc # "idle" => row.job \in Numbers /\ s.rows[row.job].status # "absent"
    /\ row.pc \in {"complete", "failing"} =>
          /\ row.fromSqlite.row = row.fromMemory.row
          /\ row.job \notin apart => row.fromMemory.stages = s.events[row.job]

RunsApart ==
    \A r, o \in JobRuns :
        r # o /\ calls[r].pc # "idle" /\ calls[o].pc # "idle" /\ calls[r].job = calls[o].job
            => calls[r].job \in shared

AdaptersInv ==
    /\ Matched(sqlite, inmemory, shared)
    /\ calls \in [JobRuns -> CallRow]
    /\ \A r \in JobRuns : RunReads(sqlite, calls[r], shared)
    /\ RunsApart

LEMMA Constants == 0 \notin Numbers /\ Tries \in Nat
  BY AdaptersAssumption

LEMMA InitialRecords ==
  /\ NoEvents \in Events /\ NewRow \in JobRow /\ NewRow.status = "queued"
  /\ AbsentRow \in JobRow /\ AbsentRow.status = "absent"
  /\ AbsentJob \in Snapshot /\ AbsentJob.row = AbsentRow /\ AbsentJob.stages = NoEvents
  /\ IdleRun \in CallRow /\ IdleRun.pc = "idle"
  <1>1. NoEvents \in Events
    BY DEF NoEvents, Events
  <1>2. NewRow \in JobRow /\ NewRow.status = "queued"
    BY DEF NewRow, JobRow, Errors
  <1>3. AbsentRow \in JobRow /\ AbsentRow.status = "absent"
    <2>1. PICK row \in JobRow : row = NewRow
      BY <1>2
    <2>2. PICK e : e = [row EXCEPT !.status = "absent"]
      OBVIOUS
    <2>3. e \in JobRow /\ e.status = "absent"
      BY <2>2 DEF JobRow
    <2> QED BY <2>1, <2>2, <2>3 DEF AbsentRow
  <1>4. AbsentJob \in Snapshot /\ AbsentJob.row = AbsentRow /\ AbsentJob.stages = NoEvents
    BY <1>1, <1>3 DEF AbsentJob, Snapshot
  <1>5. IdleRun \in CallRow /\ IdleRun.pc = "idle"
    BY <1>4 DEF IdleRun, CallRow
  <1> QED BY <1>1, <1>2, <1>3, <1>4, <1>5

-----------------------------------------------------------------------------
(* WHAT THE OPERATIONS OF THE ADAPTERS RETURN.                             *)

LEMMA SqliteUpdateIs ==
  ASSUME NEW s \in SqliteState, NEW v \in Numbers, NEW row
  PROVE  SqliteUpdate(s, v, row) =
            [rows |-> [s.rows EXCEPT ![v] = row], shown |-> s.shown, keys |-> s.keys,
             events |-> s.events]
  BY DEF SqliteUpdate, SqliteState

LEMMA MemoryUpdateIs ==
  ASSUME NEW m \in MemoryState, NEW v \in Numbers, NEW snapshot
  PROVE  MemoryUpdate(m, v, snapshot) =
            [receipts |-> m.receipts, byKey |-> m.byKey,
             jobs |-> [m.jobs EXCEPT ![v] = snapshot], history |-> m.history]
  BY DEF MemoryUpdate, MemoryState

LEMMA SetStatusIs ==
  ASSUME NEW s \in SqliteState, NEW m \in MemoryState, NEW v \in Numbers, NEW status
  PROVE  /\ SqliteSetStatus(s, v, status) =
               [rows |-> s.rows, shown |-> [s.shown EXCEPT ![v] = status], keys |-> s.keys,
                events |-> s.events]
         /\ MemorySetStatus(m, v, status) =
               [receipts |-> [m.receipts EXCEPT ![v] = status], byKey |-> m.byKey,
                jobs |-> m.jobs, history |-> m.history]
  BY DEF SqliteSetStatus, SqliteState, MemorySetStatus, MemoryState

(* The receipts after activate_document_version and delete_document.       *)
ActivatedFrom(shown, v) ==
    [w \in Numbers |-> IF w = v THEN "active"
                       ELSE IF shown[w] = "active" THEN "deleted" ELSE shown[w]]

LEMMA ActivateIs ==
  ASSUME NEW s \in SqliteState, NEW m \in MemoryState, NEW v \in Numbers
  PROVE  /\ SqliteActivate(s, v) =
               [rows |-> s.rows, shown |-> ActivatedFrom(s.shown, v), keys |-> s.keys,
                events |-> s.events]
         /\ MemoryActivate(m, v) =
               [receipts |-> ActivatedFrom(m.receipts, v), byKey |-> m.byKey,
                jobs |-> m.jobs, history |-> m.history]
  BY DEF SqliteActivate, SqliteState, MemoryActivate, MemoryState, ActivatedFrom

LEMMA DeleteIs ==
  ASSUME NEW s \in SqliteState, NEW m \in MemoryState
  PROVE  /\ SqliteDelete(s) =
               [rows |-> s.rows,
                shown |-> [v \in Numbers |->
                             IF s.rows[v].status = "absent" THEN "absent" ELSE "deleted"],
                keys |-> s.keys, events |-> s.events]
         /\ MemoryDelete(m) =
               [receipts |-> [v \in Numbers |->
                                IF m.receipts[v] = "absent" THEN "absent" ELSE "deleted"],
                byKey |-> m.byKey, jobs |-> m.jobs, history |-> m.history]
  BY SMTT(20) DEF SqliteDelete, SqliteState, MemoryDelete, MemoryState

(* What a stage event makes of a row and of the events.                    *)
Recorded(row, name, status, error) ==
    [status |-> row.status, progress |-> row.progress,
     error |-> IF error = "none" THEN row.error ELSE error, stage |-> name,
     failed |-> IF status = "failed" THEN name ELSE row.failed, attempts |-> row.attempts]
WithStatus(events, name, status) == [events EXCEPT ![name] = status]

LEMMA RecordedRow ==
  ASSUME NEW row \in JobRow, NEW name, NEW e, NEW f,
         NEW r, r = [[[row EXCEPT !.stage = name] EXCEPT !.error = e] EXCEPT !.failed = f]
  PROVE  r = [status |-> row.status, progress |-> row.progress, error |-> e, stage |-> name,
              failed |-> f, attempts |-> row.attempts]
  BY DEF JobRow

LEMMA SqliteRecordIs ==
  ASSUME NEW s \in SqliteState, NEW v \in Numbers, NEW name, NEW status, NEW error
  PROVE  SqliteRecord(s, v, name, status, error) =
            [rows |-> [s.rows EXCEPT ![v] = Recorded(s.rows[v], name, status, error)],
             shown |-> s.shown, keys |-> s.keys,
             events |-> [s.events EXCEPT ![v] = WithStatus(s.events[v], name, status)]]
  <1>1. PICK row \in JobRow : row = s.rows[v]
    BY DEF SqliteState
  <1>2. PICK rows \in [Numbers -> JobRow] : rows = s.rows
    BY DEF SqliteState
  <1>14. PICK E : E = IF error = "none" THEN row.error ELSE error
    OBVIOUS
  <1>16. PICK F : F = IF status = "failed" THEN name ELSE row.failed
    OBVIOUS
  <1>3. PICK s1 : s1 = [s EXCEPT !.events[v][name] = status]
    OBVIOUS
  <1>4. PICK s2 : s2 = [s1 EXCEPT !.rows[v].stage = name]
    OBVIOUS
  <1>5. PICK s3 : s3 = [s2 EXCEPT !.rows[v].error = E]
    OBVIOUS
  <1>6. PICK s4 : s4 = [s3 EXCEPT !.rows[v].failed = F]
    OBVIOUS
  <1>7. SqliteRecord(s, v, name, status, error) = s4
    BY <1>1, <1>3, <1>4, <1>5, <1>6, <1>14, <1>16 DEF SqliteRecord
  <1>8. s1 = [rows |-> s.rows, shown |-> s.shown, keys |-> s.keys,
              events |-> [s.events EXCEPT ![v] = WithStatus(s.events[v], name, status)]]
    BY <1>3 DEF SqliteState, WithStatus
  <1>9. s2 = [rows |-> [rows EXCEPT ![v].stage = name],
              shown |-> s1.shown, keys |-> s1.keys, events |-> s1.events]
    BY <1>2, <1>4, <1>8
  <1>10. s3 = [rows |-> [[rows EXCEPT ![v].stage = name] EXCEPT ![v].error = E],
               shown |-> s1.shown, keys |-> s1.keys, events |-> s1.events]
    BY <1>5, <1>9
  <1>11. s4 = [rows |-> [[[rows EXCEPT ![v].stage = name] EXCEPT ![v].error = E]
                             EXCEPT ![v].failed = F],
               shown |-> s1.shown, keys |-> s1.keys, events |-> s1.events]
    BY <1>6, <1>10
  <1>12. PICK r : r = [[[row EXCEPT !.stage = name] EXCEPT !.error = E] EXCEPT !.failed = F]
    OBVIOUS
  <1>13. [[[rows EXCEPT ![v].stage = name] EXCEPT ![v].error = E] EXCEPT ![v].failed = F]
            = [rows EXCEPT ![v] = r]
    BY <1>1, <1>2, <1>12
  <1>15. r = Recorded(row, name, status, error)
    <2>1. r = [status |-> row.status, progress |-> row.progress, error |-> E, stage |-> name,
               failed |-> F, attempts |-> row.attempts]
      BY <1>12, RecordedRow, ZenonT(40)
    <2> QED BY <1>1, <1>14, <1>16, <2>1 DEF Recorded
  <1> QED BY <1>1, <1>2, <1>7, <1>8, <1>11, <1>13, <1>15

LEMMA MemoryRecordIs ==
  ASSUME NEW m \in MemoryState, NEW v \in Numbers, NEW name, NEW status, NEW error
  PROVE  MemoryRecord(m, v, name, status, error) =
            [receipts |-> m.receipts, byKey |-> m.byKey,
             jobs |-> [m.jobs EXCEPT ![v] =
                          [row |-> Recorded(m.jobs[v].row, name, status, error),
                           stages |-> WithStatus(m.history[v], name, status)]],
             history |-> [m.history EXCEPT ![v] = WithStatus(m.history[v], name, status)]]
  <1>1. PICK row \in JobRow : row = m.jobs[v].row
    BY DEF MemoryState, Snapshot
  <1>7. PICK E : E = IF error = "none" THEN row.error ELSE error
    OBVIOUS
  <1>8. PICK F : F = IF status = "failed" THEN name ELSE row.failed
    OBVIOUS
  <1> DEFINE H == WithStatus(m.history[v], name, status)
  <1> HIDE DEF H
  <1>2. PICK r : r = [[[row EXCEPT !.stage = name] EXCEPT !.error = E] EXCEPT !.failed = F]
    OBVIOUS
  <1>3. r = Recorded(row, name, status, error)
    <2>1. r = [status |-> row.status, progress |-> row.progress, error |-> E, stage |-> name,
               failed |-> F, attempts |-> row.attempts]
      BY <1>2, RecordedRow, ZenonT(40)
    <2> QED BY <1>1, <1>7, <1>8, <2>1 DEF Recorded
  <1>4. PICK n : n = [[m EXCEPT !.history[v] = H] EXCEPT !.jobs[v] = [stages |-> H, row |-> r]]
    OBVIOUS
  <1>5. MemoryRecord(m, v, name, status, error) = n
    BY <1>1, <1>2, <1>4, <1>7, <1>8 DEF MemoryRecord, WithStatus, H
  <1>6. n = [receipts |-> m.receipts, byKey |-> m.byKey,
             jobs |-> [m.jobs EXCEPT ![v] = [stages |-> H, row |-> r]],
             history |-> [m.history EXCEPT ![v] = H]]
    BY <1>4 DEF MemoryState
  <1> QED BY <1>1, <1>3, <1>5, <1>6 DEF H

(* The row that claim_job leaves.                                          *)
Claimed(row) ==
    [status |-> "running", progress |-> IF row.progress > 1 THEN row.progress ELSE 1,
     error |-> "none", stage |-> row.stage, failed |-> row.failed,
     attempts |-> row.attempts + 1]

LEMMA ClaimedRow ==
  ASSUME NEW row \in JobRow, NEW p, p = IF row.progress > 1 THEN row.progress ELSE 1,
         NEW r, r = [[[[row EXCEPT !.status = "running"] EXCEPT !.progress = p]
                          EXCEPT !.error = "none"] EXCEPT !.attempts = row.attempts + 1]
  PROVE  r = Claimed(row)
  <1>1. r = [status |-> "running", progress |-> p, error |-> "none", stage |-> row.stage,
             failed |-> row.failed, attempts |-> row.attempts + 1]
    BY DEF JobRow
  <1> QED BY <1>1 DEF Claimed

LEMMA SqliteClaimIs ==
  ASSUME NEW s \in SqliteState, NEW v \in Numbers
  PROVE  SqliteClaim(s, v) = SqliteUpdate(s, v, Claimed(s.rows[v]))
  <1>1. PICK row \in JobRow : row = s.rows[v]
    BY DEF SqliteState
  <1>2. PICK rows \in [Numbers -> JobRow] : rows = s.rows
    BY DEF SqliteState
  <1> DEFINE P == IF row.progress > 1 THEN row.progress ELSE 1
             N == row.attempts + 1
  <1> HIDE DEF P, N
  <1>3. PICK s1 : s1 = [s EXCEPT !.rows[v].status = "running"]
    OBVIOUS
  <1>4. PICK s2 : s2 = [s1 EXCEPT !.rows[v].progress = P]
    OBVIOUS
  <1>5. PICK s3 : s3 = [s2 EXCEPT !.rows[v].error = "none"]
    OBVIOUS
  <1>6. PICK s4 : s4 = [s3 EXCEPT !.rows[v].attempts = N]
    OBVIOUS
  <1>7. SqliteClaim(s, v) = s4
    BY <1>1, <1>3, <1>4, <1>5, <1>6 DEF SqliteClaim, P, N
  <1>8. s1 = [rows |-> [rows EXCEPT ![v].status = "running"],
              shown |-> s.shown, keys |-> s.keys, events |-> s.events]
    BY <1>2, <1>3 DEF SqliteState
  <1>9. s2 = [rows |-> [[rows EXCEPT ![v].status = "running"] EXCEPT ![v].progress = P],
              shown |-> s.shown, keys |-> s.keys, events |-> s.events]
    BY <1>4, <1>8
  <1>10. s3 = [rows |-> [[[rows EXCEPT ![v].status = "running"] EXCEPT ![v].progress = P]
                             EXCEPT ![v].error = "none"],
               shown |-> s.shown, keys |-> s.keys, events |-> s.events]
    BY <1>5, <1>9
  <1>11. s4 = [rows |-> [[[[rows EXCEPT ![v].status = "running"] EXCEPT ![v].progress = P]
                             EXCEPT ![v].error = "none"] EXCEPT ![v].attempts = N],
               shown |-> s.shown, keys |-> s.keys, events |-> s.events]
    BY <1>6, <1>10
  <1>12. PICK r : r = [[[[row EXCEPT !.status = "running"] EXCEPT !.progress = P]
                            EXCEPT !.error = "none"] EXCEPT !.attempts = N]
    OBVIOUS
  <1>13. [[[[rows EXCEPT ![v].status = "running"] EXCEPT ![v].progress = P]
              EXCEPT ![v].error = "none"] EXCEPT ![v].attempts = N] = [rows EXCEPT ![v] = r]
    BY <1>1, <1>2, <1>12
  <1>14. r = Claimed(row)
    BY <1>12, ClaimedRow DEF P, N
  <1>15. s4 = [rows |-> [s.rows EXCEPT ![v] = Claimed(s.rows[v])],
               shown |-> s.shown, keys |-> s.keys, events |-> s.events]
    BY <1>1, <1>2, <1>11, <1>13, <1>14
  <1> QED BY <1>7, <1>15, SqliteUpdateIs

LEMMA MemoryClaimIs ==
  ASSUME NEW m \in MemoryState, NEW v \in Numbers
  PROVE  MemoryClaim(m, v) =
            MemoryUpdate(m, v, [row |-> Claimed(m.jobs[v].row), stages |-> m.jobs[v].stages])
  <1>1. PICK row \in JobRow : row = m.jobs[v].row
    BY DEF MemoryState, Snapshot
  <1>2. PICK jobs \in [Numbers -> Snapshot] : jobs = m.jobs
    BY DEF MemoryState
  <1> DEFINE P == IF row.progress > 1 THEN row.progress ELSE 1
             N == row.attempts + 1
  <1> HIDE DEF P, N
  <1>3. PICK m1 : m1 = [m EXCEPT !.jobs[v].row.status = "running"]
    OBVIOUS
  <1>4. PICK m2 : m2 = [m1 EXCEPT !.jobs[v].row.progress = P]
    OBVIOUS
  <1>5. PICK m3 : m3 = [m2 EXCEPT !.jobs[v].row.error = "none"]
    OBVIOUS
  <1>6. PICK m4 : m4 = [m3 EXCEPT !.jobs[v].row.attempts = N]
    OBVIOUS
  <1>7. MemoryClaim(m, v) = m4
    BY <1>1, <1>3, <1>4, <1>5, <1>6 DEF MemoryClaim, P, N
  <1>8. m1 = [receipts |-> m.receipts, byKey |-> m.byKey, history |-> m.history,
              jobs |-> [jobs EXCEPT ![v].row.status = "running"]]
    BY <1>2, <1>3 DEF MemoryState
  <1>9. m2 = [receipts |-> m.receipts, byKey |-> m.byKey, history |-> m.history,
              jobs |-> [[jobs EXCEPT ![v].row.status = "running"] EXCEPT ![v].row.progress = P]]
    BY <1>4, <1>8
  <1>10. m3 = [receipts |-> m.receipts, byKey |-> m.byKey, history |-> m.history,
               jobs |-> [[[jobs EXCEPT ![v].row.status = "running"]
                             EXCEPT ![v].row.progress = P] EXCEPT ![v].row.error = "none"]]
    BY <1>5, <1>9
  <1>11. m4 = [receipts |-> m.receipts, byKey |-> m.byKey, history |-> m.history,
               jobs |-> [[[[jobs EXCEPT ![v].row.status = "running"]
                             EXCEPT ![v].row.progress = P] EXCEPT ![v].row.error = "none"]
                             EXCEPT ![v].row.attempts = N]]
    BY <1>6, <1>10
  <1>12. PICK r : r = [[[[row EXCEPT !.status = "running"] EXCEPT !.progress = P]
                            EXCEPT !.error = "none"] EXCEPT !.attempts = N]
    OBVIOUS
  <1>13. PICK job \in Snapshot : job = jobs[v]
    OBVIOUS
  <1>14. PICK j1 : j1 = [job EXCEPT !.row.status = "running"]
    OBVIOUS
  <1>15. PICK j2 : j2 = [j1 EXCEPT !.row.progress = P]
    OBVIOUS
  <1>16. PICK j3 : j3 = [j2 EXCEPT !.row.error = "none"]
    OBVIOUS
  <1>17. PICK j4 : j4 = [j3 EXCEPT !.row.attempts = N]
    OBVIOUS
  <1>18. job = [row |-> row, stages |-> job.stages]
    BY <1>1, <1>2, <1>13 DEF Snapshot
  <1>19. j1 = [row |-> [row EXCEPT !.status = "running"], stages |-> job.stages]
    BY <1>14, <1>18
  <1>20. j2 = [row |-> [[row EXCEPT !.status = "running"] EXCEPT !.progress = P],
               stages |-> job.stages]
    BY <1>15, <1>19
  <1>21. j3 = [row |-> [[[row EXCEPT !.status = "running"] EXCEPT !.progress = P]
                           EXCEPT !.error = "none"], stages |-> job.stages]
    BY <1>16, <1>20
  <1>22. j4 = [row |-> r, stages |-> job.stages]
    BY <1>12, <1>17, <1>21
  <1>23. [[[[jobs EXCEPT ![v].row.status = "running"]
              EXCEPT ![v].row.progress = P] EXCEPT ![v].row.error = "none"]
              EXCEPT ![v].row.attempts = N] = [jobs EXCEPT ![v] = j4]
    BY <1>13, <1>14, <1>15, <1>16, <1>17
  <1>24. r = Claimed(row)
    BY <1>12, ClaimedRow DEF P, N
  <1>25. m4 = [receipts |-> m.receipts, byKey |-> m.byKey,
               jobs |-> [m.jobs EXCEPT ![v] = [row |-> Claimed(m.jobs[v].row),
                                               stages |-> m.jobs[v].stages]],
               history |-> m.history]
    BY <1>1, <1>2, <1>11, <1>13, <1>22, <1>23, <1>24
  <1> QED BY <1>7, <1>25, MemoryUpdateIs

(* What accept makes of the keys, the rows, the receipts and the jobs.     *)
Keyed(keys, v, k) == [i \in HeaderKeys |-> IF i = k THEN v ELSE keys[i]]

LEMMA SqliteAcceptIs ==
  ASSUME NEW s \in SqliteState, NEW v \in Numbers, NEW k
  PROVE  SqliteAccept(s, v, k) =
            [rows |-> [s.rows EXCEPT ![v] =
                          IF s.rows[v].status = "absent" THEN NewRow ELSE s.rows[v]],
             shown |-> [s.shown EXCEPT ![v] =
                          IF s.rows[v].status = "absent" THEN "indexing" ELSE s.shown[v]],
             keys |-> Keyed(s.keys, v, k), events |-> s.events]
  <1> DEFINE R == IF s.rows[v].status = "absent" THEN NewRow ELSE s.rows[v]
             S == IF s.rows[v].status = "absent" THEN "indexing" ELSE s.shown[v]
             K == Keyed(s.keys, v, k)
  <1> HIDE DEF R, S, K
  <1>1. PICK t : t = [[[s EXCEPT !.keys = K] EXCEPT !.rows[v] = R] EXCEPT !.shown[v] = S]
    OBVIOUS
  <1>2. SqliteAccept(s, v, k) = t
    BY <1>1 DEF SqliteAccept, Keyed, R, S, K
  <1>3. t = [rows |-> [s.rows EXCEPT ![v] = R], shown |-> [s.shown EXCEPT ![v] = S],
             keys |-> K, events |-> s.events]
    BY <1>1 DEF SqliteState
  <1> QED BY <1>2, <1>3 DEF R, S, K

LEMMA MemoryAcceptIs ==
  ASSUME NEW m \in MemoryState, NEW v \in Numbers, NEW k
  PROVE  MemoryAccept(m, v, k) =
            [receipts |-> [m.receipts EXCEPT ![v] =
                              IF m.receipts[v] = "absent" THEN "indexing" ELSE m.receipts[v]],
             byKey |-> Keyed(m.byKey, v, k),
             jobs |-> [m.jobs EXCEPT ![v] =
                          IF m.receipts[v] = "absent" THEN [row |-> NewRow, stages |-> NoEvents]
                          ELSE m.jobs[v]],
             history |-> m.history]
  <1>1. PICK job : job = [AbsentJob EXCEPT !.row = NewRow]
    OBVIOUS
  <1>2. job = [row |-> NewRow, stages |-> NoEvents]
    BY <1>1 DEF AbsentJob
  <1> DEFINE S == IF m.receipts[v] = "absent" THEN "indexing" ELSE m.receipts[v]
             J == IF m.receipts[v] = "absent" THEN job ELSE m.jobs[v]
             K == Keyed(m.byKey, v, k)
  <1> HIDE DEF J, S, K
  <1>3. PICK n : n = [[[m EXCEPT !.byKey = K] EXCEPT !.receipts[v] = S] EXCEPT !.jobs[v] = J]
    OBVIOUS
  <1>4. MemoryAccept(m, v, k) = n
    BY <1>1, <1>3 DEF MemoryAccept, Keyed, J, S, K
  <1>5. n = [receipts |-> [m.receipts EXCEPT ![v] = S], byKey |-> K,
             jobs |-> [m.jobs EXCEPT ![v] = J], history |-> m.history]
    BY <1>3 DEF MemoryState
  <1> QED BY <1>2, <1>4, <1>5 DEF J, S, K

-----------------------------------------------------------------------------
(* THE OPERATIONS KEEP THE ADAPTERS MATCHED.                               *)

(* What a run on version v leaves to the others.                           *)
Moved(s, t, v) ==
    /\ \A w \in Numbers : s.rows[w].status # "absent" => t.rows[w].status # "absent"
    /\ \A w \in Numbers : w # v => t.events[w] = s.events[w]

LEMMA MovedTwice ==
  ASSUME NEW s, NEW t, NEW u, NEW v, Moved(s, t, v), Moved(t, u, v) PROVE Moved(s, u, v)
  BY DEF Moved

LEMMA MatchedBreaks ==
  ASSUME NEW s, NEW m, NEW apart, Matched(s, m, apart)
  PROVE  /\ s \in SqliteState /\ m \in MemoryState
         /\ s.rows \in [Numbers -> JobRow] /\ s.shown \in [Numbers -> Statuses]
         /\ s.keys \in [HeaderKeys -> Numbers \cup {0}] /\ s.events \in [Numbers -> Events]
         /\ m.jobs \in [Numbers -> Snapshot]
         /\ m.receipts = s.shown /\ m.byKey = s.keys /\ m.history = s.events
         /\ \A v \in Numbers : m.jobs[v].row = s.rows[v]
         /\ \A v \in Numbers \ apart : m.jobs[v].stages = s.events[v]
         /\ \A v \in Numbers : s.shown[v] = "absent" <=> s.rows[v].status = "absent"
         /\ \A v \in Numbers : s.rows[v].status = "absent" => s.events[v] = NoEvents
         /\ \A k \in HeaderKeys : s.keys[k] # 0 => s.rows[s.keys[k]].status # "absent"
  BY DEF Matched, SameContents, RowsBeforeTheRest, SqliteState, MemoryState

LEMMA MatchedMade ==
  ASSUME NEW apart,
         NEW rows \in [Numbers -> JobRow], NEW shown \in [Numbers -> Statuses],
         NEW keys \in [HeaderKeys -> Numbers \cup {0}], NEW events \in [Numbers -> Events],
         NEW jobs \in [Numbers -> Snapshot],
         \A v \in Numbers : jobs[v].row = rows[v],
         \A v \in Numbers \ apart : jobs[v].stages = events[v],
         \A v \in Numbers : shown[v] = "absent" <=> rows[v].status = "absent",
         \A v \in Numbers : rows[v].status = "absent" => events[v] = NoEvents,
         \A k \in HeaderKeys : keys[k] # 0 => rows[keys[k]].status # "absent"
  PROVE  Matched([rows |-> rows, shown |-> shown, keys |-> keys, events |-> events],
                 [receipts |-> shown, byKey |-> keys, jobs |-> jobs, history |-> events],
                 apart)
  BY DEF Matched, SameContents, RowsBeforeTheRest, SqliteState, MemoryState

LEMMA UpdateMatched ==
  ASSUME NEW s, NEW m, NEW apart, Matched(s, m, apart), NEW v \in Numbers,
         NEW row \in JobRow, row.status # "absent", s.rows[v].status # "absent",
         NEW stages \in Events, v \notin apart => stages = s.events[v]
  PROVE  /\ Matched(SqliteUpdate(s, v, row),
                    MemoryUpdate(m, v, [row |-> row, stages |-> stages]), apart)
         /\ Moved(s, SqliteUpdate(s, v, row), v)
         /\ SqliteUpdate(s, v, row).rows[v] = row
         /\ SqliteUpdate(s, v, row).events = s.events
  <1>1. PICK job \in Snapshot : job = [row |-> row, stages |-> stages]
    BY DEF Snapshot
  <1>2. PICK rows \in [Numbers -> JobRow], jobs \in [Numbers -> Snapshot] :
            rows = [s.rows EXCEPT ![v] = row] /\ jobs = [m.jobs EXCEPT ![v] = job]
    BY MatchedBreaks
  <1>3. /\ SqliteUpdate(s, v, row) =
              [rows |-> rows, shown |-> s.shown, keys |-> s.keys, events |-> s.events]
        /\ MemoryUpdate(m, v, job) =
              [receipts |-> s.shown, byKey |-> s.keys, jobs |-> jobs, history |-> s.events]
    BY <1>2, MatchedBreaks, SqliteUpdateIs, MemoryUpdateIs
  <1>4. /\ rows[v] = row /\ jobs[v] = job
        /\ \A w \in Numbers : w # v => rows[w] = s.rows[w] /\ jobs[w] = m.jobs[w]
    BY <1>2, MatchedBreaks
  <1>5. /\ \A w \in Numbers : jobs[w].row = rows[w]
        /\ \A w \in Numbers \ apart : jobs[w].stages = s.events[w]
    BY <1>1, <1>4, MatchedBreaks
  <1>6. /\ \A w \in Numbers : s.shown[w] = "absent" <=> rows[w].status = "absent"
        /\ \A w \in Numbers : rows[w].status = "absent" => s.events[w] = NoEvents
        /\ \A w \in Numbers : s.rows[w].status # "absent" => rows[w].status # "absent"
    BY <1>4, MatchedBreaks
  <1>7. \A k \in HeaderKeys : s.keys[k] # 0 => rows[s.keys[k]].status # "absent"
    BY <1>6, MatchedBreaks
  <1>8. Matched(SqliteUpdate(s, v, row), MemoryUpdate(m, v, job), apart)
    <2>1. /\ s.rows \in [Numbers -> JobRow] /\ s.shown \in [Numbers -> Statuses]
          /\ s.keys \in [HeaderKeys -> Numbers \cup {0}]
          /\ s.events \in [Numbers -> Events] /\ m.jobs \in [Numbers -> Snapshot]
      BY MatchedBreaks
    <2>2. Matched([rows |-> rows, shown |-> s.shown, keys |-> s.keys, events |-> s.events],
                  [receipts |-> s.shown, byKey |-> s.keys, jobs |-> jobs, history |-> s.events], apart)
      BY <1>5, <1>6, <1>7, <2>1, MatchedMade
    <2> QED BY <1>3, <2>2
  <1> QED BY <1>1, <1>3, <1>4, <1>6, <1>8 DEF Moved

LEMMA ClaimMatched ==
  ASSUME NEW s, NEW m, NEW apart, Matched(s, m, apart), NEW v \in Numbers,
         s.rows[v].status # "absent"
  PROVE  /\ Matched(SqliteClaim(s, v), MemoryClaim(m, v), apart)
         /\ Moved(s, SqliteClaim(s, v), v)
         /\ SqliteClaim(s, v).rows[v].status # "absent"
  <1>1. s.rows[v] \in JobRow /\ m.jobs[v].stages \in Events /\ m.jobs[v].row = s.rows[v]
    BY MatchedBreaks DEF Snapshot
  <1>2. PICK row : row = Claimed(s.rows[v])
    OBVIOUS
  <1>3. row \in JobRow /\ row.status # "absent"
    BY <1>1, <1>2 DEF JobRow, Claimed, Errors
  <1>4. v \notin apart => m.jobs[v].stages = s.events[v]
    BY MatchedBreaks
  <1>5. /\ SqliteClaim(s, v) = SqliteUpdate(s, v, row)
        /\ MemoryClaim(m, v) = MemoryUpdate(m, v, [row |-> row, stages |-> m.jobs[v].stages])
    BY <1>1, <1>2, MatchedBreaks, SqliteClaimIs, MemoryClaimIs
  <1> QED BY <1>1, <1>3, <1>4, <1>5, UpdateMatched

LEMMA SetStatusMatched ==
  ASSUME NEW s, NEW m, NEW apart, Matched(s, m, apart), NEW v \in Numbers,
         s.rows[v].status # "absent", NEW status \in Statuses, status # "absent"
  PROVE  /\ Matched(SqliteSetStatus(s, v, status), MemorySetStatus(m, v, status), apart)
         /\ Moved(s, SqliteSetStatus(s, v, status), v)
         /\ SqliteSetStatus(s, v, status).rows = s.rows
         /\ SqliteSetStatus(s, v, status).events = s.events
         /\ MemorySetStatus(m, v, status).jobs = m.jobs
  <1>1. PICK shown \in [Numbers -> Statuses] : shown = [s.shown EXCEPT ![v] = status]
    BY MatchedBreaks
  <1>2. /\ SqliteSetStatus(s, v, status) =
              [rows |-> s.rows, shown |-> shown, keys |-> s.keys, events |-> s.events]
        /\ MemorySetStatus(m, v, status) =
              [receipts |-> shown, byKey |-> s.keys, jobs |-> m.jobs, history |-> s.events]
    BY <1>1, MatchedBreaks, SetStatusIs
  <1>3. \A w \in Numbers : shown[w] = "absent" <=> s.rows[w].status = "absent"
    BY <1>1, MatchedBreaks
  <1>4. Matched(SqliteSetStatus(s, v, status), MemorySetStatus(m, v, status), apart)
    <2>1. /\ s.rows \in [Numbers -> JobRow] /\ s.shown \in [Numbers -> Statuses]
          /\ s.keys \in [HeaderKeys -> Numbers \cup {0}]
          /\ s.events \in [Numbers -> Events] /\ m.jobs \in [Numbers -> Snapshot]
      BY MatchedBreaks
    <2>3. /\ \A w \in Numbers : m.jobs[w].row = s.rows[w]
          /\ \A w \in Numbers \ apart : m.jobs[w].stages = s.events[w]
          /\ \A w \in Numbers : s.rows[w].status = "absent" => s.events[w] = NoEvents
          /\ \A k \in HeaderKeys : s.keys[k] # 0 => s.rows[s.keys[k]].status # "absent"
      BY MatchedBreaks
    <2>2. Matched([rows |-> s.rows, shown |-> shown, keys |-> s.keys, events |-> s.events],
                  [receipts |-> shown, byKey |-> s.keys, jobs |-> m.jobs, history |-> s.events], apart)
      BY <1>3, <2>1, <2>3, MatchedMade
    <2> QED BY <1>2, <2>2
  <1> QED BY <1>2, <1>4 DEF Moved

LEMMA ActivateMatched ==
  ASSUME NEW s, NEW m, NEW apart, Matched(s, m, apart), NEW v \in Numbers,
         s.rows[v].status # "absent"
  PROVE  /\ Matched(SqliteActivate(s, v), MemoryActivate(m, v), apart)
         /\ Moved(s, SqliteActivate(s, v), v)
         /\ SqliteActivate(s, v).rows = s.rows
  <1>1. PICK shown \in [Numbers -> Statuses] : shown = ActivatedFrom(s.shown, v)
    <2>1. \A w \in Numbers : s.shown[w] \in Statuses
      BY MatchedBreaks
    <2>2. ActivatedFrom(s.shown, v) \in [Numbers -> Statuses]
      BY <2>1 DEF ActivatedFrom, Statuses
    <2> QED BY <2>2
  <1>2. /\ SqliteActivate(s, v) =
              [rows |-> s.rows, shown |-> shown, keys |-> s.keys, events |-> s.events]
        /\ MemoryActivate(m, v) =
              [receipts |-> shown, byKey |-> s.keys, jobs |-> m.jobs, history |-> s.events]
    BY <1>1, MatchedBreaks, ActivateIs
  <1>3. \A w \in Numbers : shown[w] = "absent" <=> s.rows[w].status = "absent"
    BY <1>1, MatchedBreaks DEF ActivatedFrom
  <1>4. Matched(SqliteActivate(s, v), MemoryActivate(m, v), apart)
    <2>1. /\ s.rows \in [Numbers -> JobRow] /\ s.shown \in [Numbers -> Statuses]
          /\ s.keys \in [HeaderKeys -> Numbers \cup {0}]
          /\ s.events \in [Numbers -> Events] /\ m.jobs \in [Numbers -> Snapshot]
      BY MatchedBreaks
    <2>3. /\ \A w \in Numbers : m.jobs[w].row = s.rows[w]
          /\ \A w \in Numbers \ apart : m.jobs[w].stages = s.events[w]
          /\ \A w \in Numbers : s.rows[w].status = "absent" => s.events[w] = NoEvents
          /\ \A k \in HeaderKeys : s.keys[k] # 0 => s.rows[s.keys[k]].status # "absent"
      BY MatchedBreaks
    <2>2. Matched([rows |-> s.rows, shown |-> shown, keys |-> s.keys, events |-> s.events],
                  [receipts |-> shown, byKey |-> s.keys, jobs |-> m.jobs, history |-> s.events], apart)
      BY <1>3, <2>1, <2>3, MatchedMade
    <2> QED BY <1>2, <2>2
  <1> QED BY <1>2, <1>4 DEF Moved

LEMMA DeleteMatched ==
  ASSUME NEW s, NEW m, NEW apart, Matched(s, m, apart)
  PROVE  /\ Matched(SqliteDelete(s), MemoryDelete(m), apart)
         /\ SqliteDelete(s).rows = s.rows /\ SqliteDelete(s).events = s.events
  <1>1. PICK shown : shown = [v \in Numbers |->
                                 IF s.rows[v].status = "absent" THEN "absent" ELSE "deleted"]
    OBVIOUS
  <1>2. /\ shown \in [Numbers -> Statuses]
        /\ \A w \in Numbers : shown[w] = "absent" <=> s.rows[w].status = "absent"
    BY <1>1 DEF Statuses
  <1>3. shown = [v \in Numbers |-> IF s.shown[v] = "absent" THEN "absent" ELSE "deleted"]
    BY <1>1, MatchedBreaks
  <1>4. /\ SqliteDelete(s) =
              [rows |-> s.rows, shown |-> shown, keys |-> s.keys, events |-> s.events]
        /\ MemoryDelete(m) =
              [receipts |-> shown, byKey |-> s.keys, jobs |-> m.jobs, history |-> s.events]
    BY <1>1, <1>3, MatchedBreaks, DeleteIs
  <1>5. Matched(SqliteDelete(s), MemoryDelete(m), apart)
    <2>1. /\ s.rows \in [Numbers -> JobRow] /\ s.shown \in [Numbers -> Statuses]
          /\ s.keys \in [HeaderKeys -> Numbers \cup {0}]
          /\ s.events \in [Numbers -> Events] /\ m.jobs \in [Numbers -> Snapshot]
      BY MatchedBreaks
    <2>3. /\ \A w \in Numbers : m.jobs[w].row = s.rows[w]
          /\ \A w \in Numbers \ apart : m.jobs[w].stages = s.events[w]
          /\ \A w \in Numbers : s.rows[w].status = "absent" => s.events[w] = NoEvents
          /\ \A k \in HeaderKeys : s.keys[k] # 0 => s.rows[s.keys[k]].status # "absent"
      BY MatchedBreaks
    <2>2. Matched([rows |-> s.rows, shown |-> shown, keys |-> s.keys, events |-> s.events],
                  [receipts |-> shown, byKey |-> s.keys, jobs |-> m.jobs, history |-> s.events], apart)
      BY <1>2, <2>1, <2>3, MatchedMade
    <2> QED BY <1>4, <2>2
  <1> QED BY <1>4, <1>5

LEMMA RecordMatched ==
  ASSUME NEW s, NEW m, NEW apart, Matched(s, m, apart), NEW v \in Numbers,
         s.rows[v].status # "absent", NEW name \in StageNames,
         NEW status \in {"running", "succeeded", "failed"}, NEW error \in Errors
  PROVE  /\ Matched(SqliteRecord(s, v, name, status, error),
                    MemoryRecord(m, v, name, status, error), apart)
         /\ Moved(s, SqliteRecord(s, v, name, status, error), v)
  <1>1. PICK row \in JobRow : row = Recorded(s.rows[v], name, status, error)
                              /\ row.status = s.rows[v].status
    <2>1. s.rows[v] \in JobRow
      BY MatchedBreaks
    <2>2. PICK row : row = s.rows[v] /\ row \in JobRow
      BY <2>1
    <2>3. PICK e \in Errors : e = IF error = "none" THEN row.error ELSE error
      BY <2>2 DEF JobRow
    <2>4. PICK f \in StageNames \cup {"none"} :
              f = IF status = "failed" THEN name ELSE row.failed
      BY <2>2 DEF JobRow
    <2>5. PICK r : r = [status |-> row.status, progress |-> row.progress, error |-> e,
                        stage |-> name, failed |-> f, attempts |-> row.attempts]
      OBVIOUS
    <2>6. r \in JobRow /\ r.status = row.status
      BY <2>2, <2>5 DEF JobRow
    <2>7. r = Recorded(row, name, status, error)
      BY <2>3, <2>4, <2>5 DEF Recorded
    <2> QED BY <2>2, <2>6, <2>7
  <1>2. PICK stages \in Events : stages = WithStatus(s.events[v], name, status)
    <2>1. s.events[v] \in Events
      BY MatchedBreaks
    <2> QED BY <2>1 DEF Events, WithStatus
  <1>3. PICK job \in Snapshot : job = [row |-> row, stages |-> stages]
    BY DEF Snapshot
  <1>4. PICK rows \in [Numbers -> JobRow], jobs \in [Numbers -> Snapshot],
             events \in [Numbers -> Events] :
            /\ rows = [s.rows EXCEPT ![v] = row] /\ jobs = [m.jobs EXCEPT ![v] = job]
            /\ events = [s.events EXCEPT ![v] = stages]
    BY MatchedBreaks
  <1>5. /\ SqliteRecord(s, v, name, status, error) =
              [rows |-> rows, shown |-> s.shown, keys |-> s.keys, events |-> events]
        /\ MemoryRecord(m, v, name, status, error) =
              [receipts |-> s.shown, byKey |-> s.keys, jobs |-> jobs, history |-> events]
    BY <1>1, <1>2, <1>3, <1>4, MatchedBreaks, SqliteRecordIs, MemoryRecordIs, SMTT(20)
  <1>6. /\ rows[v] = row /\ jobs[v] = job /\ events[v] = stages
        /\ \A w \in Numbers : w # v => /\ rows[w] = s.rows[w] /\ jobs[w] = m.jobs[w]
                                       /\ events[w] = s.events[w]
    BY <1>4, MatchedBreaks
  <1>7. /\ \A w \in Numbers : jobs[w].row = rows[w]
        /\ \A w \in Numbers \ apart : jobs[w].stages = events[w]
    BY <1>3, <1>6, MatchedBreaks
  <1>8. /\ \A w \in Numbers : s.shown[w] = "absent" <=> rows[w].status = "absent"
        /\ \A w \in Numbers : rows[w].status = "absent" => events[w] = NoEvents
        /\ \A w \in Numbers : s.rows[w].status # "absent" => rows[w].status # "absent"
    BY <1>1, <1>6, MatchedBreaks
  <1>9. \A k \in HeaderKeys : s.keys[k] # 0 => rows[s.keys[k]].status # "absent"
    BY <1>8, MatchedBreaks
  <1>10. Matched(SqliteRecord(s, v, name, status, error),
                 MemoryRecord(m, v, name, status, error), apart)
    <2>1. /\ s.rows \in [Numbers -> JobRow] /\ s.shown \in [Numbers -> Statuses]
          /\ s.keys \in [HeaderKeys -> Numbers \cup {0}]
          /\ s.events \in [Numbers -> Events] /\ m.jobs \in [Numbers -> Snapshot]
      BY MatchedBreaks
    <2>2. Matched([rows |-> rows, shown |-> s.shown, keys |-> s.keys, events |-> events],
                  [receipts |-> s.shown, byKey |-> s.keys, jobs |-> jobs, history |-> events], apart)
      BY <1>7, <1>8, <1>9, <2>1, MatchedMade
    <2> QED BY <1>5, <2>2
  <1> QED BY <1>5, <1>6, <1>8, <1>10 DEF Moved

LEMMA AcceptMatched ==
  ASSUME NEW s, NEW m, NEW apart, Matched(s, m, apart), NEW v \in Numbers, NEW k
  PROVE  /\ Matched(SqliteAccept(s, v, k), MemoryAccept(m, v, k), apart)
         /\ SqliteAccept(s, v, k).events = s.events
         /\ \A w \in Numbers : s.rows[w].status # "absent"
                                  => SqliteAccept(s, v, k).rows[w].status # "absent"
  <1>1. PICK row \in JobRow :
            /\ row = IF s.rows[v].status = "absent" THEN NewRow ELSE s.rows[v]
            /\ row.status # "absent"
    BY MatchedBreaks, InitialRecords
  <1>2. PICK status \in Statuses :
            /\ status = IF s.rows[v].status = "absent" THEN "indexing" ELSE s.shown[v]
            /\ status = IF s.shown[v] = "absent" THEN "indexing" ELSE s.shown[v]
            /\ status # "absent"
    BY MatchedBreaks DEF Statuses
  <1>3. PICK job \in Snapshot :
            /\ job = IF s.shown[v] = "absent" THEN [row |-> NewRow, stages |-> NoEvents]
                     ELSE m.jobs[v]
            /\ job.row = row /\ (v \notin apart => job.stages = s.events[v])
    <2>1. CASE s.shown[v] = "absent"
      <3>1. [row |-> NewRow, stages |-> NoEvents] \in Snapshot
        BY InitialRecords DEF Snapshot
      <3>2. row = NewRow /\ s.events[v] = NoEvents
        BY <1>1, <2>1, MatchedBreaks
      <3> QED BY <2>1, <3>1, <3>2
    <2>2. CASE s.shown[v] # "absent"
      BY <1>1, <2>2, MatchedBreaks
    <2> QED BY <2>1, <2>2
  <1>4. PICK rows \in [Numbers -> JobRow], jobs \in [Numbers -> Snapshot],
             shown \in [Numbers -> Statuses], keys \in [HeaderKeys -> Numbers \cup {0}] :
            /\ rows = [s.rows EXCEPT ![v] = row] /\ jobs = [m.jobs EXCEPT ![v] = job]
            /\ shown = [s.shown EXCEPT ![v] = status] /\ keys = Keyed(s.keys, v, k)
    BY MatchedBreaks DEF Keyed
  <1>5. SqliteAccept(s, v, k) =
            [rows |-> rows, shown |-> shown, keys |-> keys, events |-> s.events]
    BY <1>1, <1>2, <1>4, MatchedBreaks, SqliteAcceptIs
  <1>6. MemoryAccept(m, v, k) =
            [receipts |-> shown, byKey |-> keys, jobs |-> jobs, history |-> s.events]
    BY <1>2, <1>3, <1>4, MatchedBreaks, MemoryAcceptIs
  <1>7. /\ rows[v] = row /\ jobs[v] = job /\ shown[v] = status
        /\ \A w \in Numbers : w # v => /\ rows[w] = s.rows[w] /\ jobs[w] = m.jobs[w]
                                       /\ shown[w] = s.shown[w]
    BY <1>4, MatchedBreaks
  <1>8. /\ \A w \in Numbers : jobs[w].row = rows[w]
        /\ \A w \in Numbers \ apart : jobs[w].stages = s.events[w]
    BY <1>3, <1>7, MatchedBreaks, SMTT(20)
  <1>9. /\ \A w \in Numbers : shown[w] = "absent" <=> rows[w].status = "absent"
        /\ \A w \in Numbers : rows[w].status = "absent" => s.events[w] = NoEvents
        /\ \A w \in Numbers : s.rows[w].status # "absent" => rows[w].status # "absent"
    BY <1>1, <1>2, <1>7, MatchedBreaks
  <1>10. ASSUME NEW i \in HeaderKeys, keys[i] # 0 PROVE rows[keys[i]].status # "absent"
    <2>1. keys[i] = v \/ keys[i] = s.keys[i]
      BY <1>4 DEF Keyed
    <2> QED BY <1>1, <1>7, <1>9, <1>10, <2>1, MatchedBreaks
  <1>11. Matched(SqliteAccept(s, v, k), MemoryAccept(m, v, k), apart)
    BY <1>5, <1>6, <1>8, <1>9, <1>10, MatchedBreaks, MatchedMade, SMTT(20)
  <1> QED BY <1>5, <1>9, <1>11

-----------------------------------------------------------------------------
(* THE STEPS.                                                              *)

LEMMA AdaptersInitInv == AdaptersInit => AdaptersInv
  <1> SUFFICES ASSUME AdaptersInit PROVE AdaptersInv
    OBVIOUS
  <1>1. PICK rows \in [Numbers -> JobRow], jobs \in [Numbers -> Snapshot],
             shown \in [Numbers -> Statuses], keys \in [HeaderKeys -> Numbers \cup {0}],
             events \in [Numbers -> Events] :
            /\ rows = [v \in Numbers |-> AbsentRow] /\ jobs = [v \in Numbers |-> AbsentJob]
            /\ shown = [v \in Numbers |-> "absent"] /\ keys = [k \in HeaderKeys |-> 0]
            /\ events = [v \in Numbers |-> NoEvents]
    BY InitialRecords DEF Statuses
  <1>2. /\ sqlite = [rows |-> rows, shown |-> shown, keys |-> keys, events |-> events]
        /\ inmemory = [receipts |-> shown, byKey |-> keys, jobs |-> jobs, history |-> events]
    BY <1>1 DEF AdaptersInit
  <1>3. /\ \A v \in Numbers : jobs[v].row = rows[v]
        /\ \A v \in Numbers \ shared : jobs[v].stages = events[v]
        /\ \A v \in Numbers : shown[v] = "absent" <=> rows[v].status = "absent"
        /\ \A v \in Numbers : rows[v].status = "absent" => events[v] = NoEvents
        /\ \A k \in HeaderKeys : keys[k] # 0 => rows[keys[k]].status # "absent"
    BY <1>1, InitialRecords
  <1>4. Matched(sqlite, inmemory, shared)
    BY <1>2, <1>3, MatchedMade
  <1>5. calls \in [JobRuns -> CallRow] /\ \A r \in JobRuns : calls[r].pc = "idle"
    BY InitialRecords DEF AdaptersInit
  <1> QED BY <1>4, <1>5 DEF AdaptersInv, RunReads, RunsApart

(* A step of run r on its job: what it must leave behind.                  *)
LEMMA RunStep ==
  ASSUME AdaptersInv, NEW r \in JobRuns, NEW row \in CallRow, calls[r].pc # "idle",
         calls' = [calls EXCEPT ![r] = row], row.pc # "idle" => row.job = calls[r].job,
         UNCHANGED shared, Matched(sqlite', inmemory', shared),
         Moved(sqlite, sqlite', calls[r].job), RunReads(sqlite', row, shared)
  PROVE  AdaptersInv'
  <1>1. /\ calls \in [JobRuns -> CallRow]
        /\ \A o \in JobRuns : RunReads(sqlite, calls[o], shared)
    BY DEF AdaptersInv
  <1>2. /\ calls' \in [JobRuns -> CallRow] /\ calls'[r] = row
        /\ \A o \in JobRuns : o # r => calls'[o] = calls[o]
    BY <1>1
  <1>3. ASSUME NEW o \in JobRuns, o # r PROVE RunReads(sqlite', calls[o], shared)
    <2>1. RunReads(sqlite, calls[o], shared)
      BY <1>1
    <2>2. CASE calls[o].pc = "idle"
      BY <2>2 DEF RunReads
    <2>3. CASE calls[o].pc # "idle"
      <3>1. /\ calls[o].job \in Numbers
            /\ calls[o].job = calls[r].job => calls[o].job \in shared
        BY <1>3, <2>1, <2>3 DEF RunReads, AdaptersInv, RunsApart
      <3> QED BY <2>1, <3>1 DEF RunReads, Moved
    <2> QED BY <2>2, <2>3
  <1>4. \A o \in JobRuns : RunReads(sqlite', calls'[o], shared)
    BY <1>2, <1>3
  <1>5. RunsApart'
    BY <1>2 DEF AdaptersInv, RunsApart
  <1> QED BY <1>2, <1>4, <1>5 DEF AdaptersInv

(* Where a run moves on, or stops, with nothing read to write later.       *)
LEMMA RunMoves ==
  ASSUME AdaptersInv, NEW r \in JobRuns, calls[r].pc # "idle",
         NEW pc \in {"index", "indexing", "activate", "activating"},
         calls' = [calls EXCEPT ![r].pc = pc],
         UNCHANGED shared, Matched(sqlite', inmemory', shared),
         Moved(sqlite, sqlite', calls[r].job)
  PROVE  AdaptersInv'
  <1>1. PICK row \in CallRow : row = calls[r]
    BY DEF AdaptersInv
  <1>2. PICK after : after = [row EXCEPT !.pc = pc]
    OBVIOUS
  <1>3. after = [pc |-> pc, job |-> row.job, fromSqlite |-> row.fromSqlite,
                 fromMemory |-> row.fromMemory]
    BY <1>2 DEF CallRow
  <1>4. after \in CallRow
    BY <1>3 DEF CallRow
  <1>5. calls' = [calls EXCEPT ![r] = after]
    BY <1>1, <1>2 DEF AdaptersInv
  <1>6. RunReads(sqlite, row, shared)
    BY <1>1 DEF AdaptersInv
  <1>7. RunReads(sqlite', after, shared)
    BY <1>1, <1>3, <1>6 DEF RunReads, Moved
  <1> QED BY <1>1, <1>3, <1>4, <1>5, <1>7, RunStep

LEMMA RunEnds ==
  ASSUME AdaptersInv, NEW r \in JobRuns, calls[r].pc # "idle",
         calls' = [calls EXCEPT ![r] = IdleRun],
         UNCHANGED shared, Matched(sqlite', inmemory', shared),
         Moved(sqlite, sqlite', calls[r].job)
  PROVE  AdaptersInv'
  <1>1. RunReads(sqlite', IdleRun, shared)
    BY InitialRecords DEF RunReads, IdleRun
  <1> QED BY <1>1, InitialRecords, RunStep

(* Where a run keeps what it reads back.                                   *)
LEMMA RunReadsBack ==
  ASSUME AdaptersInv, NEW r \in JobRuns, calls[r].pc # "idle",
         NEW pc \in {"complete", "failing"}, ReadBack(r, pc),
         UNCHANGED shared, Matched(sqlite', inmemory', shared),
         Moved(sqlite, sqlite', calls[r].job)
  PROVE  AdaptersInv'
  <1>1. PICK row \in CallRow : row = calls[r]
    BY DEF AdaptersInv
  <1>2. row.job \in Numbers /\ sqlite.rows[row.job].status # "absent"
    BY <1>1 DEF AdaptersInv, RunReads
  <1>3. PICK v \in Numbers : v = row.job
    BY <1>2
  <1>4. PICK fromSqlite : fromSqlite = [row |-> sqlite'.rows[v], stages |-> sqlite'.events[v]]
    OBVIOUS
  <1>5. PICK fromMemory : fromMemory = inmemory'.jobs[v]
    OBVIOUS
  <1>6. /\ sqlite'.rows[v] \in JobRow /\ sqlite'.events[v] \in Events
        /\ inmemory'.jobs[v] \in Snapshot /\ inmemory'.jobs[v].row = sqlite'.rows[v]
        /\ v \notin shared => inmemory'.jobs[v].stages = sqlite'.events[v]
        /\ sqlite'.rows[v].status # "absent"
    BY <1>2, <1>3, <1>1, MatchedBreaks DEF Moved
  <1>7. fromSqlite \in Snapshot /\ fromMemory \in Snapshot
    BY <1>4, <1>5, <1>6 DEF Snapshot
  <1>8. PICK after : after = [[[row EXCEPT !.pc = pc] EXCEPT !.fromSqlite = fromSqlite]
                                 EXCEPT !.fromMemory = fromMemory]
    OBVIOUS
  <1>9. after = [pc |-> pc, job |-> v, fromSqlite |-> fromSqlite, fromMemory |-> fromMemory]
    BY <1>3, <1>8 DEF CallRow
  <1>10. after \in CallRow
    BY <1>7, <1>9 DEF CallRow
  <1>11. calls' = [calls EXCEPT ![r].pc = pc, ![r].fromSqlite = fromSqlite,
                                ![r].fromMemory = fromMemory]
    BY <1>1, <1>3, <1>4, <1>5 DEF ReadBack, SqliteJob, MemoryJob
  <1>12. calls' = [calls EXCEPT ![r] = after]
    BY <1>1, <1>8, <1>11 DEF AdaptersInv
  <1>13. RunReads(sqlite', after, shared)
    BY <1>4, <1>5, <1>6, <1>9 DEF RunReads
  <1> QED BY <1>1, <1>3, <1>9, <1>10, <1>12, <1>13, RunStep

(* The rows that run_job writes.                                           *)
LEMMA RowSet ==
  ASSUME NEW row \in JobRow, NEW status \in {"queued", "running", "succeeded", "failed"},
         NEW progress \in Nat, NEW r, r = [row EXCEPT !.status = status, !.progress = progress]
  PROVE  r \in JobRow /\ r.status # "absent"
  <1>1. r = [status |-> status, progress |-> progress, error |-> row.error,
             stage |-> row.stage, failed |-> row.failed, attempts |-> row.attempts]
    BY DEF JobRow
  <1> QED BY <1>1 DEF JobRow

LEMMA FailedRow ==
  ASSUME NEW row \in JobRow PROVE Failed(row) \in JobRow /\ Failed(row).status # "absent"
  <1>1. PICK n \in Nat : n = IF row.error = "retryable" THEN row.attempts ELSE Tries
    BY Constants DEF JobRow
  <1>2. PICK r : r = [row EXCEPT !.status = "failed", !.attempts = n]
    OBVIOUS
  <1>3. r = [status |-> "failed", progress |-> row.progress, error |-> row.error,
             stage |-> row.stage, failed |-> row.failed, attempts |-> n]
    BY <1>2 DEF JobRow
  <1>4. Failed(row) = r
    BY <1>1, <1>2 DEF Failed
  <1> QED BY <1>3, <1>4 DEF JobRow

LEMMA SnapshotWith ==
  ASSUME NEW job \in Snapshot, NEW row
  PROVE  [job EXCEPT !.row = row] = [row |-> row, stages |-> job.stages]
  BY DEF Snapshot

(* A run at work has a job with a row.                                     *)
LEMMA AtWork ==
  ASSUME AdaptersInv, NEW r \in JobRuns, calls[r].pc # "idle"
  PROVE  /\ calls[r].job \in Numbers /\ sqlite.rows[calls[r].job].status # "absent"
         /\ Matched(sqlite, inmemory, shared)
  BY DEF AdaptersInv, RunReads

(* Writing a row over a job whose snapshot in memory is the current one.   *)
LEMMA OverwriteMatched ==
  ASSUME NEW s, NEW m, NEW apart, Matched(s, m, apart), NEW v \in Numbers,
         s.rows[v].status # "absent", NEW row \in JobRow, row.status # "absent"
  PROVE  /\ Matched(SqliteUpdate(s, v, row),
                    MemoryUpdate(m, v, [m.jobs[v] EXCEPT !.row = row]), apart)
         /\ Moved(s, SqliteUpdate(s, v, row), v)
         /\ SqliteUpdate(s, v, row).rows[v] = row
  <1>1. /\ m.jobs[v] \in Snapshot /\ m.jobs[v].stages \in Events
        /\ v \notin apart => m.jobs[v].stages = s.events[v]
    BY MatchedBreaks DEF Snapshot
  <1>2. [m.jobs[v] EXCEPT !.row = row] = [row |-> row, stages |-> m.jobs[v].stages]
    BY <1>1, SnapshotWith
  <1> QED BY <1>1, <1>2, UpdateMatched

LEMMA BeginStageInv ==
  ASSUME AdaptersInv, NEW r \in JobRuns, BeginStage(r) PROVE AdaptersInv'
  <1>1. calls[r].pc # "idle" /\ calls[r].pc \in StageNames
    BY DEF BeginStage, StageNames
  <1>2. PICK v \in Numbers : v = calls[r].job /\ sqlite.rows[v].status # "absent"
    BY <1>1, AtWork
  <1>3. /\ sqlite' = SqliteRecord(sqlite, v, calls[r].pc, "running", "none")
        /\ inmemory' = MemoryRecord(inmemory, v, calls[r].pc, "running", "none")
        /\ UNCHANGED shared
    BY <1>2 DEF BeginStage, Both
  <1>4. Matched(sqlite', inmemory', shared) /\ Moved(sqlite, sqlite', v)
    BY <1>1, <1>2, <1>3, AtWork, RecordMatched DEF Errors
  <1>5. PICK pc \in {"indexing", "activating"} :
            pc = IF calls[r].pc = "index" THEN "indexing" ELSE "activating"
    OBVIOUS
  <1>6. calls' = [calls EXCEPT ![r].pc = pc]
    BY <1>5 DEF BeginStage
  <1> QED BY <1>1, <1>2, <1>3, <1>4, <1>6, RunMoves

LEMMA FinishIndexingInv ==
  ASSUME AdaptersInv, NEW r \in JobRuns, FinishIndexing(r) PROVE AdaptersInv'
  <1>1. calls[r].pc # "idle"
    BY DEF FinishIndexing
  <1>2. PICK v \in Numbers : v = calls[r].job /\ sqlite.rows[v].status # "absent"
    BY <1>1, AtWork
  <1>3. PICK s, m : /\ s = SqliteRecord(sqlite, v, "index", "succeeded", "none")
                    /\ m = MemoryRecord(inmemory, v, "index", "succeeded", "none")
    OBVIOUS
  <1>4. Matched(s, m, shared) /\ Moved(sqlite, s, v)
    BY <1>1, <1>2, <1>3, AtWork, RecordMatched DEF Errors, StageNames
  <1>5. s.rows[v] \in JobRow /\ m.jobs[v].row = s.rows[v] /\ s.rows[v].status # "absent"
    BY <1>2, <1>4, MatchedBreaks DEF Moved
  <1>6. PICK row : row = [s.rows[v] EXCEPT !.status = "running", !.progress = 50]
    OBVIOUS
  <1>7. row \in JobRow /\ row.status # "absent"
    BY <1>5, <1>6, RowSet
  <1>8. /\ sqlite' = SqliteUpdate(s, v, row)
        /\ inmemory' = MemoryUpdate(m, v, [m.jobs[v] EXCEPT !.row = row])
        /\ calls' = [calls EXCEPT ![r].pc = "activate"]
        /\ UNCHANGED shared
    BY <1>2, <1>3, <1>5, <1>6 DEF FinishIndexing, Both
  <1>9. Matched(sqlite', inmemory', shared) /\ Moved(s, sqlite', v)
    BY <1>4, <1>5, <1>7, <1>8, OverwriteMatched
  <1>10. Moved(sqlite, sqlite', v)
    BY <1>4, <1>9, MovedTwice
  <1> QED BY <1>1, <1>2, <1>8, <1>9, <1>10, RunMoves

LEMMA FinishActivationInv ==
  ASSUME AdaptersInv, NEW r \in JobRuns, FinishActivation(r) PROVE AdaptersInv'
  <1>1. calls[r].pc # "idle"
    BY DEF FinishActivation
  <1>2. PICK v \in Numbers : v = calls[r].job /\ sqlite.rows[v].status # "absent"
    BY <1>1, AtWork
  <1>3. PICK s, m : s = SqliteActivate(sqlite, v) /\ m = MemoryActivate(inmemory, v)
    OBVIOUS
  <1>4. Matched(s, m, shared) /\ Moved(sqlite, s, v) /\ s.rows[v].status # "absent"
    BY <1>1, <1>2, <1>3, AtWork, ActivateMatched
  <1>5. /\ sqlite' = SqliteRecord(s, v, "activate", "succeeded", "none")
        /\ inmemory' = MemoryRecord(m, v, "activate", "succeeded", "none")
        /\ ReadBack(r, "complete") /\ UNCHANGED shared
    BY <1>2, <1>3 DEF FinishActivation, Both
  <1>6. Matched(sqlite', inmemory', shared) /\ Moved(s, sqlite', v)
    BY <1>4, <1>5, RecordMatched DEF Errors, StageNames
  <1>7. Moved(sqlite, sqlite', v)
    BY <1>4, <1>6, MovedTwice
  <1> QED BY <1>1, <1>2, <1>5, <1>6, <1>7, RunReadsBack

LEMMA FailStageInv ==
  ASSUME AdaptersInv, NEW r \in JobRuns, NEW error \in {"retryable", "fatal"},
         FailStage(r, error)
  PROVE  AdaptersInv'
  <1>1. calls[r].pc # "idle"
    BY DEF FailStage
  <1>2. PICK v \in Numbers : v = calls[r].job /\ sqlite.rows[v].status # "absent"
    BY <1>1, AtWork
  <1>3. PICK name \in StageNames :
            name = IF calls[r].pc = "indexing" THEN "index" ELSE "activate"
    BY DEF StageNames
  <1>4. /\ sqlite' = SqliteRecord(sqlite, v, name, "failed", error)
        /\ inmemory' = MemoryRecord(inmemory, v, name, "failed", error)
        /\ ReadBack(r, "failing") /\ UNCHANGED shared
    BY <1>2, <1>3 DEF FailStage, Both
  <1>5. Matched(sqlite', inmemory', shared) /\ Moved(sqlite, sqlite', v)
    BY <1>1, <1>2, <1>4, AtWork, RecordMatched DEF Errors
  <1> QED BY <1>1, <1>2, <1>4, <1>5, RunReadsBack

(* The run writes from what it read last: the row that both adapters gave  *)
(* it, and the stages that memory gave it.                                 *)
LEMMA WhatItRead ==
  ASSUME AdaptersInv, NEW r \in JobRuns, calls[r].pc \in {"complete", "failing"}
  PROVE  LET row == calls[r].fromSqlite.row
             snapshot == calls[r].fromMemory
         IN  /\ row \in JobRow /\ snapshot.row = row
             /\ snapshot \in Snapshot /\ snapshot.stages \in Events
             /\ calls[r].job \notin shared => snapshot.stages = sqlite.events[calls[r].job]
  <1>1. calls[r] \in CallRow /\ RunReads(sqlite, calls[r], shared)
    BY DEF AdaptersInv
  <1> QED BY <1>1 DEF CallRow, Snapshot, RunReads

LEMMA CompleteRunInv ==
  ASSUME AdaptersInv, NEW r \in JobRuns, CompleteRun(r) PROVE AdaptersInv'
  <1>1. calls[r].pc = "complete"
    BY DEF CompleteRun
  <1>2. PICK v \in Numbers : v = calls[r].job /\ sqlite.rows[v].status # "absent"
    BY <1>1, AtWork
  <1>3. PICK old \in JobRow, stages \in Events :
            /\ old = calls[r].fromSqlite.row /\ old = calls[r].fromMemory.row
            /\ stages = calls[r].fromMemory.stages
            /\ v \notin shared => stages = sqlite.events[v]
    BY <1>1, <1>2, WhatItRead
  <1>4. PICK row : row = [old EXCEPT !.status = "succeeded", !.progress = 100]
    OBVIOUS
  <1>5. row \in JobRow /\ row.status # "absent"
    BY <1>4, RowSet
  <1>6. [calls[r].fromMemory EXCEPT !.row = row] = [row |-> row, stages |-> stages]
    BY <1>1, <1>3, WhatItRead, SnapshotWith
  <1>7. PICK s, m : /\ s = SqliteUpdate(sqlite, v, row)
                    /\ m = MemoryUpdate(inmemory, v, [row |-> row, stages |-> stages])
    OBVIOUS
  <1>8. Matched(s, m, shared) /\ Moved(sqlite, s, v) /\ s.rows[v].status # "absent"
    BY <1>1, <1>2, <1>3, <1>5, <1>7, AtWork, UpdateMatched
  <1>9. /\ sqlite' = SqliteRecord(s, v, "complete", "succeeded", "none")
        /\ inmemory' = MemoryRecord(m, v, "complete", "succeeded", "none")
        /\ calls' = [calls EXCEPT ![r] = IdleRun] /\ UNCHANGED shared
    BY <1>2, <1>3, <1>4, <1>6, <1>7 DEF CompleteRun, Both
  <1>10. Matched(sqlite', inmemory', shared) /\ Moved(s, sqlite', v)
    BY <1>8, <1>9, RecordMatched DEF Errors, StageNames
  <1>11. Moved(sqlite, sqlite', v)
    BY <1>8, <1>10, MovedTwice
  <1> QED BY <1>1, <1>2, <1>9, <1>10, <1>11, RunEnds

LEMMA FailRunInv ==
  ASSUME AdaptersInv, NEW r \in JobRuns, FailRun(r) PROVE AdaptersInv'
  <1>1. calls[r].pc = "failing"
    BY DEF FailRun
  <1>2. PICK v \in Numbers : v = calls[r].job /\ sqlite.rows[v].status # "absent"
    BY <1>1, AtWork
  <1>3. PICK old \in JobRow, stages \in Events :
            /\ old = calls[r].fromSqlite.row /\ old = calls[r].fromMemory.row
            /\ stages = calls[r].fromMemory.stages
            /\ v \notin shared => stages = sqlite.events[v]
    BY <1>1, <1>2, WhatItRead
  <1>4. PICK row \in JobRow : row = Failed(old) /\ row.status # "absent"
    BY FailedRow
  <1>5. [calls[r].fromMemory EXCEPT !.row = row] = [row |-> row, stages |-> stages]
    BY <1>1, <1>3, WhatItRead, SnapshotWith
  <1>6. PICK s, m : /\ s = SqliteSetStatus(sqlite, v, "failed")
                    /\ m = MemorySetStatus(inmemory, v, "failed")
    OBVIOUS
  <1>7. /\ Matched(s, m, shared) /\ Moved(sqlite, s, v)
        /\ s.rows[v].status # "absent" /\ s.events = sqlite.events
    BY <1>1, <1>2, <1>6, AtWork, SetStatusMatched DEF Statuses
  <1>8. /\ sqlite' = SqliteUpdate(s, v, row)
        /\ inmemory' = MemoryUpdate(m, v, [row |-> row, stages |-> stages])
        /\ calls' = [calls EXCEPT ![r] = IdleRun] /\ UNCHANGED shared
    BY <1>2, <1>3, <1>4, <1>5, <1>6 DEF FailRun, Both
  <1>9. Matched(sqlite', inmemory', shared) /\ Moved(s, sqlite', v)
    BY <1>3, <1>4, <1>7, <1>8, UpdateMatched
  <1>10. Moved(sqlite, sqlite', v)
    BY <1>7, <1>9, MovedTwice
  <1> QED BY <1>1, <1>2, <1>8, <1>9, <1>10, RunEnds

LEMMA MatchedWider ==
  ASSUME NEW s, NEW m, NEW apart, Matched(s, m, {}) PROVE Matched(s, m, apart)
  BY DEF Matched, SameContents

LEMMA StartRunInv ==
  ASSUME AdaptersInv, NEW r \in JobRuns, NEW v \in Numbers, StartRun(r, v)
  PROVE  AdaptersInv'
  <1>1. shared = {} /\ sqlite.rows[v].status # "absent" /\ calls[r].pc = "idle"
    BY DEF StartRun
  <1>2. Matched(sqlite, inmemory, {})
    BY <1>1 DEF AdaptersInv
  <1>3. PICK s, m : /\ s = IF Claims(sqlite.rows[v]) THEN SqliteClaim(sqlite, v) ELSE sqlite
                    /\ m = IF Claims(sqlite.rows[v]) THEN MemoryClaim(inmemory, v) ELSE inmemory
    OBVIOUS
  <1>4. Matched(s, m, {}) /\ Moved(sqlite, s, v) /\ s.rows[v].status # "absent"
    <2>1. CASE Claims(sqlite.rows[v])
      BY <1>1, <1>2, <1>3, <2>1, ClaimMatched
    <2>2. CASE ~Claims(sqlite.rows[v])
      BY <1>1, <1>2, <1>3, <2>2 DEF Moved
    <2> QED BY <2>1, <2>2
  <1>5. PICK s1, m1 : /\ s1 = SqliteSetStatus(s, v, "indexing")
                      /\ m1 = MemorySetStatus(m, v, "indexing")
    OBVIOUS
  <1>6. /\ Matched(s1, m1, {}) /\ Moved(s, s1, v)
        /\ s1.rows[v].status # "absent" /\ m1.jobs = m.jobs
    BY <1>4, <1>5, SetStatusMatched DEF Statuses
  <1>7. s.rows[v] \in JobRow /\ m.jobs[v].row = s.rows[v]
    BY <1>4, MatchedBreaks
  <1>8. PICK row : row = [s.rows[v] EXCEPT !.status = "running", !.progress = 1]
    OBVIOUS
  <1>9. row \in JobRow /\ row.status # "absent"
    BY <1>7, <1>8, RowSet
  <1>10. /\ sqlite' = SqliteUpdate(s1, v, row)
         /\ inmemory' = MemoryUpdate(m1, v, [m1.jobs[v] EXCEPT !.row = row])
    BY <1>3, <1>5, <1>6, <1>7, <1>8 DEF StartRun, Both
  <1>11. Matched(sqlite', inmemory', {}) /\ Moved(s1, sqlite', v)
         /\ sqlite'.rows[v].status # "absent"
    BY <1>6, <1>9, <1>10, OverwriteMatched
  <1>12. Moved(sqlite, sqlite', v)
    BY <1>4, <1>6, <1>11, MovedTwice
  <1>13. PICK old \in CallRow : old = calls[r]
    BY DEF AdaptersInv
  <1>14. PICK new : new = [[old EXCEPT !.pc = "index"] EXCEPT !.job = v]
    OBVIOUS
  <1>15. new = [pc |-> "index", job |-> v, fromSqlite |-> old.fromSqlite,
                fromMemory |-> old.fromMemory]
    BY <1>14 DEF CallRow
  <1>16. new \in CallRow
    BY <1>15 DEF CallRow
  <1>17. calls' = [calls EXCEPT ![r] = new]
    BY <1>13, <1>14 DEF StartRun, AdaptersInv
  <1>18. /\ calls' \in [JobRuns -> CallRow] /\ calls'[r] = new
         /\ \A o \in JobRuns : o # r => calls'[o] = calls[o]
    BY <1>16, <1>17 DEF AdaptersInv
  <1>19. shared' = IF \E o \in JobRuns \ {r} : calls[o].job = v THEN {v} ELSE {}
    BY DEF StartRun
  <1>20. ASSUME NEW o \in JobRuns, o # r PROVE RunReads(sqlite', calls[o], shared')
    <2>1. RunReads(sqlite, calls[o], {})
      BY <1>1 DEF AdaptersInv
    <2>2. calls[o].job = v => v \in shared'
      BY <1>19, <1>20
    <2> QED BY <1>12, <2>1, <2>2 DEF RunReads, Moved
  <1>21. RunReads(sqlite', new, shared')
    BY <1>11, <1>15 DEF RunReads
  <1>22. \A o \in JobRuns : RunReads(sqlite', calls'[o], shared')
    BY <1>18, <1>20, <1>21
  <1>23. RunsApart'
    <2> SUFFICES ASSUME NEW q \in JobRuns, NEW o \in JobRuns, q # o,
                        calls'[q].pc # "idle", calls'[o].pc # "idle",
                        calls'[q].job = calls'[o].job
                 PROVE  calls'[q].job \in shared'
      BY DEF RunsApart
    <2>1. CASE q # r /\ o # r
      BY <1>1, <1>18, <2>1 DEF AdaptersInv, RunsApart
    <2>2. CASE q = r
      BY <1>15, <1>18, <1>19, <2>2
    <2>3. CASE o = r
      BY <1>15, <1>18, <1>19, <2>3
    <2> QED BY <2>1, <2>2, <2>3
  <1> QED BY <1>11, <1>18, <1>22, <1>23, MatchedWider DEF AdaptersInv

(* An upload or a deletion: no run moves.                                  *)
LEMMA NoRunMoves ==
  ASSUME AdaptersInv, UNCHANGED <<calls, shared>>, Matched(sqlite', inmemory', shared),
         sqlite'.events = sqlite.events,
         \A w \in Numbers : sqlite.rows[w].status # "absent"
                               => sqlite'.rows[w].status # "absent"
  PROVE  AdaptersInv'
  BY DEF AdaptersInv, RunReads, RunsApart

LEMMA AdaptersNextInv == AdaptersInv /\ [AdaptersNext]_adapterVars => AdaptersInv'
  <1> SUFFICES ASSUME AdaptersInv, [AdaptersNext]_adapterVars PROVE AdaptersInv'
    OBVIOUS
  <1>0. Matched(sqlite, inmemory, shared)
    BY DEF AdaptersInv
  <1>1. ASSUME NEW v \in Numbers, NEW k \in HeaderKeys \cup {"absent"}, AcceptBoth(v, k)
        PROVE  AdaptersInv'
    <2>1. /\ sqlite' = SqliteAccept(sqlite, v, k) /\ inmemory' = MemoryAccept(inmemory, v, k)
          /\ UNCHANGED <<calls, shared>>
      BY <1>1 DEF AcceptBoth, Both
    <2> QED BY <1>0, <2>1, AcceptMatched, NoRunMoves
  <1>2. CASE DeleteBoth
    <2>1. /\ sqlite' = SqliteDelete(sqlite) /\ inmemory' = MemoryDelete(inmemory)
          /\ UNCHANGED <<calls, shared>>
      BY <1>2 DEF DeleteBoth, Both
    <2> QED BY <1>0, <2>1, DeleteMatched, NoRunMoves
  <1>3. ASSUME NEW r \in JobRuns, NEW v \in Numbers, StartRun(r, v) PROVE AdaptersInv'
    BY <1>3, StartRunInv
  <1>4. ASSUME NEW r \in JobRuns,
               BeginStage(r) \/ FinishIndexing(r) \/ FinishActivation(r)
                  \/ CompleteRun(r) \/ FailRun(r)
        PROVE  AdaptersInv'
    BY <1>4, BeginStageInv, FinishIndexingInv, FinishActivationInv, CompleteRunInv, FailRunInv
  <1>5. ASSUME NEW r \in JobRuns, NEW error \in {"retryable", "fatal"}, FailStage(r, error)
        PROVE  AdaptersInv'
    BY <1>5, FailStageInv
  <1>6. CASE UNCHANGED adapterVars
    BY <1>6 DEF adapterVars, AdaptersInv, RunsApart
  <1> QED BY <1>1, <1>2, <1>3, <1>4, <1>5, <1>6 DEF AdaptersNext

-----------------------------------------------------------------------------
(* Matched adapters answer alike.                                          *)
LEMMA SameReplies ==
  ASSUME NEW s, NEW m, NEW apart, Matched(s, m, apart), NEW v \in Numbers,
         NEW k \in HeaderKeys \cup {"absent"}
  PROVE  SqliteReply(s, v, k) = MemoryReply(m, v, k)
  <1>1. s.shown[v] = "absent" <=> s.rows[v].status = "absent"
    BY MatchedBreaks
  <1>2. ASSUME k \in HeaderKeys, s.keys[k] = v PROVE s.shown[v] # "absent"
    BY <1>2, MatchedBreaks, Constants
  <1>3. m.receipts = s.shown /\ m.byKey = s.keys
    BY MatchedBreaks
  <1>4. CASE k \notin HeaderKeys
    BY <1>1, <1>3, <1>4 DEF SqliteReply, MemoryReply
  <1>5. CASE k \in HeaderKeys
    BY <1>1, <1>2, <1>3, <1>5 DEF SqliteReply, MemoryReply
  <1> QED BY <1>4, <1>5

LEMMA SamePolls ==
  ASSUME NEW s, NEW m, NEW apart, Matched(s, m, apart)
  PROVE  SqliteRecoverable(s) = MemoryRecoverable(m) /\ (SqliteBusy(s) <=> MemoryBusy(m))
  <1>1. \A v \in Numbers : s.rows[v] \in JobRow /\ m.jobs[v].row = s.rows[v]
    BY MatchedBreaks
  <1>2. \A v \in Numbers :
            /\ s.rows[v].status \in {"absent", "queued", "running", "succeeded", "failed"}
            /\ s.rows[v].attempts \in Nat
    BY <1>1 DEF JobRow
  <1>3. \A v \in Numbers : s.rows[v].attempts < Tries <=> ~(s.rows[v].attempts >= Tries)
    BY <1>2, Constants
  <1> QED BY <1>1, <1>2, <1>3
          DEF SqliteRecoverable, MemoryRecoverable, SqliteBusy, MemoryBusy

(* A service that runs on the memory adapter, as the tests do, and one     *)
(* that runs on SQLite read the same rows and documents, get the same      *)
(* replies to an upload, refuse the same deletions and poll the same jobs. *)
THEOREM SameService == AdaptersSpec => []AdaptersAgree
  <1>1. AdaptersInv => AdaptersAgree
    <2> SUFFICES ASSUME AdaptersInv PROVE AdaptersAgree
      OBVIOUS
    <2>1. Matched(sqlite, inmemory, shared)
      BY DEF AdaptersInv
    <2>2. ASSUME NEW v \in Numbers
          PROVE  /\ SqliteJob(sqlite, v).row = MemoryJob(inmemory, v).row
                 /\ v \notin shared => SqliteJob(sqlite, v) = MemoryJob(inmemory, v)
      <3>1. /\ inmemory.jobs[v] \in Snapshot /\ inmemory.jobs[v].row = sqlite.rows[v]
            /\ v \notin shared => inmemory.jobs[v].stages = sqlite.events[v]
        BY <2>1, MatchedBreaks
      <3>2. inmemory.jobs[v] = [row |-> inmemory.jobs[v].row, stages |-> inmemory.jobs[v].stages]
        BY <3>1 DEF Snapshot
      <3> QED BY <3>1, <3>2 DEF SqliteJob, MemoryJob
    <2>3. Shown(sqlite.shown) = Shown(inmemory.receipts)
      BY <2>1, MatchedBreaks
    <2>4. \A v \in Numbers : \A k \in HeaderKeys \cup {"absent"} :
              SqliteReply(sqlite, v, k) = MemoryReply(inmemory, v, k)
      BY <2>1, SameReplies
    <2>5. /\ SqliteRecoverable(sqlite) = MemoryRecoverable(inmemory)
          /\ SqliteBusy(sqlite) <=> MemoryBusy(inmemory)
      BY <2>1, SamePolls
    <2> QED BY <2>2, <2>3, <2>4, <2>5 DEF AdaptersAgree
  <1> QED BY <1>1, AdaptersInitInv, AdaptersNextInv, PTL DEF AdaptersSpec
=============================================================================
