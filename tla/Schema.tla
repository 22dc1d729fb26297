------------------------------- MODULE Schema -------------------------------
(***************************************************************************)
(* How a server starts: init_schema and migrate_schema of mysql.rs against *)
(* whatever database it meets, the callers that take or ignore their       *)
(* errors, and migrate_encrypt_paths, which encrypts old paths in one      *)
(* transaction.  Servers start, crash and start again, several at a time,  *)
(* on one database; no migration takes a lock.                             *)
(*                                                                         *)
(* migrate_schema asks information_schema for one item, alters the         *)
(* database if the answer calls for it, and goes on to the next.  The      *)
(* model keeps that list as data, MigrateSchema, one entry per query; each *)
(* entry is a step, since DDL commits by itself.                           *)
(***************************************************************************)
EXTENDS Naturals, Sequences, Functions

CONSTANTS
  Instances,     \* servers on the database
  Deployments,   \* how each of them is started on which database: [schema, rows, mode]
  Files, Rows,   \* file ids, and rows of the files table
  Batch,         \* LIMIT of migrate_encrypt_paths
  TextDefaults   \* does the database accept a DEFAULT for a TEXT column?

VARIABLES
  schema,  \* the items there are: <<table, column, key or index>>
  stale,   \* columns added to old rows and not yet given their values
  rows,    \* the files table: what is stored of each path
  mode,    \* how each instance is started
  inst     \* where each instance is

vars == <<schema, stale, rows, mode, inst>>

-----------------------------------------------------------------------------
(***************************************************************************)
(* A query of the migration.  Ask reads information_schema and skips the   *)
(* next `skip' entries unless `item' is there as `wanted'; on an error it  *)
(* fails, or answers as the code's unwrap_or does.  A statement needs      *)
(* items (`valued' ones with values in their old rows), adds and drops     *)
(* items, leaves old rows with a default and fills them.  Adding what is   *)
(* there is an error or, where the statement may run twice, nothing.  An   *)
(* error ends the migration unless the code drops it (`lax').              *)
(***************************************************************************)
NoItem == <<"none", "none">>
Table(t) == <<t, "table">>
Of(t, names) == {<<t, c>> : c \in names}

Ask(item, wanted, skip, onError) ==
  [op |-> "ask", item |-> item, wanted |-> wanted, skip |-> skip, onError |-> onError]

Statement(needs, adds) ==
  [op |-> "run", needs |-> needs, adds |-> adds, drops |-> {}, defaults |-> {},
   valued |-> {}, fills |-> {}, lax |-> FALSE, twice |-> FALSE, skip |-> 0]

Lax(s) == [s EXCEPT !.lax = TRUE]

CreateTable(t, needs, names) ==
  Statement({Table(u) : u \in needs}, Of(t, names \cup {"table"}))
AddColumn(t, c) == Statement({Table(t)}, {<<t, c>>})
AddKey(t, columns, k) == Statement(Of(t, columns \cup {"table"}), {<<t, k>>})
Modify(t, c) == [Statement({Table(t)}, {<<t, c>>}) EXCEPT !.twice = TRUE]
Fill(t, c) == [Statement({<<t, c>>}, {}) EXCEPT !.fills = {<<t, c>>}]

IfMissing(t, c, statements) ==
  <<Ask(<<t, c>>, FALSE, Len(statements), "fail")>> \o statements
IfNeeded(t, c, statements) ==
  <<Ask(<<t, c>>, FALSE, Len(statements), "skip")>> \o statements
UnlessThere(t, c, statements) ==
  <<Ask(<<t, c>>, FALSE, Len(statements), "run")>> \o statements

-----------------------------------------------------------------------------
(* The items the server knows of: tables, and their columns, keys and      *)
(* indexes.                                                                *)

Tables ==
  {"accounts", "auth_tokens", "devices", "files", "encryption_keys",
   "watcher_conditions", "watcher_groups", "watchers", "watcher_presets"}

FilesColumns ==
  {"is_encrypted", "eq_index", "eq_index key", "token_path", "key_id",
   "server_group_id", "server_watcher_id", "binary path", "binary name"}

WatchersColumns ==
  {"watcher_id", "local_group_id", "is_recursive", "extra_json", "title",
   "folder", "created_at", "updated_at", "is_active"}

Names ==
  {"table", "operation_type", "key_id key", "account_hash", "account foreign key",
   "account index", "account watcher index", "watcher foreign key", "unique key",
   "local index", "presets", "preset_json", "unique account"}
  \cup FilesColumns \cup WatchersColumns

Items == Tables \X Names

-----------------------------------------------------------------------------
(* init_schema: CREATE TABLE IF NOT EXISTS, five times. *)

InitSchema ==
  LET Create(t, needs, names) ==
        [CreateTable(t, needs, names) EXCEPT !.twice = TRUE] IN
  << Create("accounts", {}, {}),
     Create("auth_tokens", {"accounts"}, {}),
     Create("devices", {"accounts"}, {}),
     Create("files", {"accounts"}, FilesColumns),
     Create("encryption_keys", {"accounts"}, {}) >>

(* migrate_schema, in the order of the code. *)

\* Mutant: the new column is added and the old one dropped afterwards.
RenamePresetsInTwo ==
  << Ask(<<"watcher_presets", "presets">>, TRUE, 2, "fail"),
     AddColumn("watcher_presets", "preset_json"),
     [Statement({}, {}) EXCEPT !.drops = {<<"watcher_presets", "presets">>}] >>

\* The column presets becomes preset_json.
RenamePresets ==
  << Ask(<<"watcher_presets", "presets">>, TRUE, 1, "fail"),
     [Statement({}, {<<"watcher_presets", "preset_json">>})
        EXCEPT !.drops = {<<"watcher_presets", "presets">>}] >>

MigrateFileFlags ==
  IfMissing("files", "is_encrypted", <<AddColumn("files", "is_encrypted")>>)
  \o IfMissing("files", "operation_type",
       << AddColumn("files", "operation_type"), Fill("files", "operation_type") >>)

\* The index is asked for only where the column was missing.
MigrateEqIndex ==
  IfMissing("files", "eq_index",
    <<AddColumn("files", "eq_index")>>
    \o IfMissing("files", "eq_index key",
         <<AddKey("files", {"eq_index"}, "eq_index key")>>))

\* What comes with token_path is best effort; what follows asks again.
MigrateTokenPath ==
  IfMissing("files", "token_path",
    << Lax(AddColumn("files", "token_path")),
       Lax(AddKey("files", {"key_id"}, "key_id key")),
       Lax(AddColumn("files", "server_group_id")) >>)

MigrateServerIds ==
  IfMissing("files", "key_id",
    << AddColumn("files", "key_id"),
       Lax(AddKey("files", {"key_id"}, "key_id key")) >>)
  \o IfMissing("files", "server_group_id", <<AddColumn("files", "server_group_id")>>)
  \o IfMissing("files", "server_watcher_id", <<AddColumn("files", "server_watcher_id")>>)

\* An unanswered question is taken for a no, and the column is modified again.
MigratePathTypes ==
  UnlessThere("files", "binary path", <<Modify("files", "binary path")>>)
  \o UnlessThere("files", "binary name", <<Modify("files", "binary name")>>)

\* An old table gets the account of each condition from its watcher.
MigrateConditions ==
  LET t == "watcher_conditions"
      account == <<t, "account_hash">>
      old == IfMissing(t, "account_hash",
               << [AddColumn(t, "account_hash") EXCEPT !.defaults = {account}],
                  [Fill(t, "account_hash") EXCEPT !.needs = @ \cup {Table("watchers")}],
                  [AddKey(t, {"account_hash"}, "account foreign key")
                     EXCEPT !.valued = {account}],
                  AddKey(t, {"account_hash"}, "account index"),
                  AddKey(t, {"account_hash"}, "account watcher index") >>)
      new == CreateTable(t, {"accounts"},
               {"account_hash", "account foreign key", "account index",
                "account watcher index"})
  IN  IfMissing(t, "table", <<[new EXCEPT !.skip = Len(old)]>>) \o old

MigrateGroups ==
  IfMissing("watcher_groups", "table",
    <<CreateTable("watcher_groups", {"accounts"}, {})>>)

MigrateWatchers ==
  IfMissing("watchers", "table",
    << CreateTable("watchers", {"accounts", "watcher_groups"}, WatchersColumns),
       [Lax(AddKey("watcher_conditions", {}, "watcher foreign key"))
          EXCEPT !.needs = @ \cup {Table("watchers")}] >>)

MigrateUniqueWatchers ==
  UnlessThere("watchers", "unique key",
    << [Lax(AddKey("watchers", {"watcher_id", "local_group_id"}, "unique key"))
          EXCEPT !.valued = {<<"watchers", "watcher_id">>}] >>)

MigrateWatcherId ==
  IfMissing("watchers", "watcher_id",
    << [AddColumn("watchers", "watcher_id") EXCEPT !.defaults = {<<"watchers", "watcher_id">>}],
       Fill("watchers", "watcher_id") >>)

\* extra_json is a TEXT column with a default.
MigrateWatcherColumns ==
  LET Add(c) == IfNeeded("watchers", c, <<AddColumn("watchers", c)>>)
      TryAdd(c) == IfNeeded("watchers", c, <<Lax(AddColumn("watchers", c))>>)
      text == [AddColumn("watchers", "extra_json")
                 EXCEPT !.needs = IF TextDefaults THEN @ ELSE @ \cup {NoItem}]
  IN  IfNeeded("watchers", "local_group_id",
        << AddColumn("watchers", "local_group_id"),
           Lax(AddKey("watchers", {"watcher_id", "local_group_id"}, "local index")) >>)
      \o Add("is_recursive") \o IfNeeded("watchers", "extra_json", <<text>>)
      \o Add("title") \o Add("folder")
      \o TryAdd("created_at") \o TryAdd("updated_at") \o TryAdd("is_active")

MigratePresets ==
  LET t == "watcher_presets"
      old == UnlessThere(t, "preset_json", <<Lax(AddColumn(t, "preset_json"))>>)
             \o IfMissing(t, "unique account", <<Lax(AddKey(t, {}, "unique account"))>>)
      new == CreateTable(t, {"accounts"}, {"preset_json", "unique account"})
  IN  IfMissing(t, "table", <<[new EXCEPT !.skip = Len(old)]>>) \o old

MigrateSchema ==
  RenamePresets \o MigrateFileFlags \o MigrateEqIndex \o MigrateTokenPath
  \o MigrateServerIds \o MigratePathTypes \o MigrateConditions \o MigrateGroups
  \o MigrateWatchers \o MigrateUniqueWatchers \o MigrateWatcherId
  \o MigrateWatcherColumns \o MigratePresets

(***************************************************************************)
(* What one entry does to a database d and the migration that runs it: the *)
(* entry to run next, and whether it failed or was not quite clean.        *)
(***************************************************************************)
Succeeds(d, s) ==
  /\ s.needs \subseteq d.schema
  /\ s.drops \subseteq d.schema
  /\ s.valued \cap d.stale = {}
  /\ s.adds \cap d.schema = {}

Answer(d, s, yes) == [d EXCEPT !.pc = IF yes THEN @ + 1 ELSE @ + 1 + s.skip]

Run(d, s) ==
  IF s.op = "ask" THEN Answer(d, s, (s.item \in d.schema) = s.wanted)
  ELSE IF s.twice /\ s.adds \cap d.schema # {} THEN [d EXCEPT !.pc = @ + 1]
  ELSE IF Succeeds(d, s)
  THEN [d EXCEPT !.schema = (@ \ s.drops) \cup s.adds,
                 !.stale = (@ \cup s.defaults) \ s.fills,
                 !.pc = @ + 1 + s.skip]
  ELSE IF s.lax THEN [d EXCEPT !.pc = @ + 1, !.clean = FALSE]
  ELSE [d EXCEPT !.failed = TRUE]

\* The database does not answer the entry.
RunFails(d, s) ==
  LET e == [d EXCEPT !.clean = FALSE] IN
  IF s.op = "ask"
  THEN IF s.onError = "fail" THEN [e EXCEPT !.failed = TRUE]
       ELSE Answer(e, s, s.onError = "run")
  ELSE IF s.lax THEN [e EXCEPT !.pc = @ + 1]
  ELSE [e EXCEPT !.failed = TRUE]

-----------------------------------------------------------------------------
(***************************************************************************)
(* A path as stored: how often it is encrypted, and the text its eq_index  *)
(* and token_path were made from.                                          *)
(***************************************************************************)
NoIndex == "none"
Cell == [layers : 0..2, index : {NoIndex, "plain", "cipher"}]
NoCell == [layers |-> 0, index |-> "absent"]
NoRow == [file |-> "none", layers |-> 0, index |-> "absent"]
Row == [file : Files, layers : 0..2, index : {NoIndex, "plain", "cipher"}]

\* decrypt_text returns bytes that do not decrypt as they are.
DecryptText(layers) == IF layers = 0 THEN 0 ELSE layers - 1

\* It reads as the path, and its index is one of the path.
Readable(c) == DecryptText(c.layers) = 0 /\ c.index \in {NoIndex, "plain"}

\* The databases met are MySQL's: no column without its table, and no path
\* that was encrypted twice.
ASSUME DatabaseAssumption ==
  /\ Batch \in Nat
  /\ \A db \in Deployments :
       /\ db.mode \in [Instances -> {"main", "component", "state"}]
       /\ db.schema \subseteq Items
       /\ \A x \in db.schema : Table(x[1]) \in db.schema
       /\ db.rows \in [Rows -> Row \cup {NoRow}]
       /\ \A r \in Rows : db.rows[r] # NoRow => Readable(db.rows[r])

Present == {r \in Rows : rows[r] # NoRow}

\* Mutant: whatever is stored is encrypted.
EncryptBlindly(c) ==
  [layers |-> IF c.layers = 2 THEN 2 ELSE c.layers + 1,
   index |-> IF c.layers = 0 THEN "plain" ELSE "cipher"]

\* What decrypts stays; the rest is taken for a plain path and encrypted.
Encrypted(c) ==
  IF c.layers > 0
  THEN [layers |-> c.layers,
        index |-> IF DecryptText(c.layers) = 0 THEN "plain" ELSE "cipher"]
  ELSE [layers |-> 1, index |-> "plain"]

(***************************************************************************)
(* An instance: the phase of its start, the entry of the migration it is   *)
(* at, whether the database answered every entry, whether migrate_schema   *)
(* returned Ok, and its transaction: the rows still to update as it read   *)
(* them, and what it has written of each file.                             *)
(***************************************************************************)
NoTx == [todo |-> <<>>, read |-> [r \in Rows |-> NoCell],
         wrote |-> [f \in Files |-> NoCell]]

Down == [phase |-> "down", pc |-> 1, clean |-> TRUE, migrated |-> FALSE, tx |-> NoTx]

Init ==
  /\ \E db \in Deployments : schema = db.schema /\ rows = db.rows /\ mode = db.mode
  /\ stale = {}
  /\ inst = [i \in Instances |-> Down]

Enter(i, phase) == inst' = [inst EXCEPT ![i].phase = phase]
Exit(i) == inst' = [inst EXCEPT ![i] = Down]

\* Strict starts are those of AppState::new; the others log and go on.
Strict(i) == mode[i] = "state"

Start(i) ==
  /\ inst[i].phase = "down"
  /\ Enter(i, "connect")
  /\ UNCHANGED <<schema, stale, rows, mode>>

Connect(i) ==
  /\ inst[i].phase = "connect"
  /\ Enter(i, "init")
  /\ UNCHANGED <<schema, stale, rows, mode>>

\* SyncServerComponent goes on with storage in memory.
ConnectFails(i) ==
  /\ inst[i].phase = "connect"
  /\ IF mode[i] = "component" THEN Enter(i, "memory") ELSE Exit(i)
  /\ UNCHANGED <<schema, stale, rows, mode>>

-----------------------------------------------------------------------------
Program(i) == IF inst[i].phase = "init" THEN InitSchema ELSE MigrateSchema

State(i) ==
  [schema |-> schema, stale |-> stale, pc |-> inst[i].pc,
   clean |-> inst[i].clean, failed |-> FALSE]

\* Mutant: the end is found one entry late.
AfterOneMore(i, d) ==
  LET r == [inst[i] EXCEPT !.pc = d.pc, !.clean = d.clean]
      init == r.phase = "init" IN
  IF d.failed /\ Strict(i) THEN Down
  ELSE IF d.failed \/ d.pc > Len(Program(i)) + 1
  THEN [r EXCEPT !.pc = 1, !.phase = IF init THEN "migrate" ELSE "files",
                 !.migrated = ~init /\ ~d.failed]
  ELSE r

\* Mutant: a failed migration is reported as done.
AfterAlwaysOk(i, d) ==
  LET r == [inst[i] EXCEPT !.pc = d.pc, !.clean = d.clean]
      init == r.phase = "init" IN
  IF d.failed \/ d.pc > Len(Program(i))
  THEN [r EXCEPT !.pc = 1, !.phase = IF init THEN "migrate" ELSE "files",
                 !.migrated = ~init]
  ELSE r

\* Where the instance goes when an entry leaves its migration in d.
After(i, d) ==
  LET r == [inst[i] EXCEPT !.pc = d.pc, !.clean = d.clean]
      init == r.phase = "init" IN
  IF d.failed /\ Strict(i) THEN Down
  ELSE IF d.failed \/ d.pc > Len(Program(i))
  THEN [r EXCEPT !.pc = 1, !.phase = IF init THEN "migrate" ELSE "files",
                 !.migrated = ~init /\ ~d.failed]
  ELSE r

Goto(i, d) ==
  /\ schema' = d.schema
  /\ stale' = d.stale
  /\ inst' = [inst EXCEPT ![i] = After(i, d)]
  /\ UNCHANGED <<rows, mode>>

(***************************************************************************)
(* An entry that has nothing to do stays so: items asked for are never     *)
(* dropped, and presets is never added.  Such entries are passed in the    *)
(* step of the entry after them; each may fail.                            *)
(***************************************************************************)
Settled(s) ==
  IF s.op = "ask" THEN (s.item \in schema) # s.wanted
  ELSE s.twice /\ s.adds \cap schema # {}

\* Entries from k on that have nothing to do, and those that they skip.
Idle(program, k) == {j \in k..Len(program) : Settled(program[j])}
Skipped(program, k) == UNION {j + 1 .. j + program[j].skip : j \in Idle(program, k)}

\* The entries a migration at entry k may be at when the next one is run.
Reached(program, k) ==
  LET skipped == Skipped(program, k)
      passed == Idle(program, k) \cup skipped
  IN  {m \in (k .. Len(program) + 1) \ skipped : k .. m - 1 \subseteq passed}

Migrating(i) == inst[i].phase \in {"init", "migrate"}

Migrate(i) ==
  LET program == Program(i) IN
  /\ Migrating(i)
  /\ \E k \in Reached(program, inst[i].pc) :
       LET d == [State(i) EXCEPT !.pc = k] IN
       \/ k > Len(program) /\ Goto(i, d)
       \/ /\ k <= Len(program)
          /\ ~Settled(program[k])
          /\ Goto(i, Run(d, program[k]))

MigrateFails(i) ==
  LET program == Program(i) IN
  /\ Migrating(i)
  /\ \E k \in Reached(program, inst[i].pc) :
       /\ k <= Len(program)
       /\ Goto(i, RunFails([State(i) EXCEPT !.pc = k], program[k]))

CreateFileStorage(i) ==
  /\ inst[i].phase = "files"
  /\ Enter(i, IF mode[i] = "component" THEN "select" ELSE "serving")
  /\ UNCHANGED <<schema, stale, rows, mode>>

CreateFileStorageFails(i) ==
  /\ inst[i].phase = "files"
  /\ Exit(i)
  /\ UNCHANGED <<schema, stale, rows, mode>>

-----------------------------------------------------------------------------
(* migrate_encrypt_paths.  An UPDATE locks the rows of its file. *)

Candidates == {r \in Present : rows[r].index = NoIndex}

Locked(i, f) == \E j \in Instances \ {i} : inst[j].tx.wrote[f] # NoCell

EncryptSelect(i) ==
  /\ inst[i].phase = "select"
  /\ \E n \in 0..Batch : \E todo \in [1..n -> Candidates] :
       /\ IsInjective(todo)
       /\ n = Batch \/ Range(todo) = Candidates
       /\ inst' = [inst EXCEPT
            ![i].phase = "encrypt",
            ![i].tx = [inst[i].tx EXCEPT
               !.todo = todo,
               !.read = [r \in Rows |->
                  IF r \in Range(todo) THEN [layers |-> rows[r].layers, index |-> rows[r].index]
                  ELSE NoCell]]]
  /\ UNCHANGED <<schema, stale, rows, mode>>

EncryptUpdate(i) ==
  LET tx == inst[i].tx
      r == Head(tx.todo) IN
  /\ inst[i].phase = "encrypt"
  /\ tx.todo # <<>>
  /\ ~Locked(i, rows[r].file)
  /\ inst' = [inst EXCEPT ![i].tx =
       [tx EXCEPT !.todo = Tail(tx.todo),
                  !.read[r] = NoCell,
                  !.wrote[rows[r].file] = Encrypted(tx.read[r])]]
  /\ UNCHANGED <<schema, stale, rows, mode>>

\* UPDATE ... WHERE file_id = ? has written every row of the file.
EncryptCommit(i) ==
  LET wrote == inst[i].tx.wrote IN
  /\ inst[i].phase = "encrypt"
  /\ inst[i].tx.todo = <<>>
  /\ rows' = [r \in Rows |->
       IF r \in Present /\ wrote[rows[r].file] # NoCell
       THEN [rows[r] EXCEPT !.layers = wrote[rows[r].file].layers,
                            !.index = wrote[rows[r].file].index]
       ELSE rows[r]]
  /\ inst' = [inst EXCEPT ![i].phase = "serving", ![i].tx = NoTx]
  /\ UNCHANGED <<schema, stale, mode>>

\* Mutant: the transaction is left open.
RollbackNothing(i) ==
  /\ inst[i].phase \in {"select", "encrypt"}
  /\ Enter(i, "serving")
  /\ UNCHANGED <<schema, stale, rows, mode>>

\* An error drops the transaction; it is logged and the start goes on.
Rollback(i) ==
  /\ inst[i].phase \in {"select", "encrypt"}
  /\ inst' = [inst EXCEPT ![i].phase = "serving", ![i].tx = NoTx]
  /\ UNCHANGED <<schema, stale, rows, mode>>

\* The database aborts a transaction that waits for one that waits for it.
EncryptDeadlock(i) ==
  LET Waits(j, k) == /\ inst[j].phase = "encrypt"
                     /\ inst[j].tx.todo # <<>>
                     /\ inst[k].tx.wrote[rows[Head(inst[j].tx.todo)].file] # NoCell IN
  /\ \E j \in Instances \ {i} : Waits(i, j) /\ Waits(j, i)
  /\ Rollback(i)

EncryptFails(i) == Rollback(i)

-----------------------------------------------------------------------------
\* store_file adds a revision to a file, its path as it was read and no index.
Restore(i, r, from) ==
  /\ inst[i].phase = "serving"
  /\ rows[r] = NoRow
  /\ from \in Present
  /\ ~Locked(i, rows[from].file)
  /\ rows' = [rows EXCEPT ![r] =
       [file |-> rows[from].file, layers |-> DecryptText(rows[from].layers),
        index |-> NoIndex]]
  /\ UNCHANGED <<schema, stale, mode, inst>>

\* A signal: what is still connected is waited for, for a while.
Shutdown(i) ==
  /\ inst[i].phase \in {"serving", "memory"}
  /\ Exit(i)
  /\ UNCHANGED <<schema, stale, rows, mode>>

\* The process dies; the database rolls its transaction back.
Crash(i) ==
  /\ inst[i].phase \notin {"down", "serving", "memory"}
  /\ Exit(i)
  /\ UNCHANGED <<schema, stale, rows, mode>>

EncryptPaths(i) ==
  EncryptSelect(i) \/ EncryptUpdate(i) \/ EncryptCommit(i) \/ EncryptDeadlock(i)

Step(i) == Connect(i) \/ Migrate(i) \/ CreateFileStorage(i) \/ EncryptPaths(i)

Fault(i) ==
  ConnectFails(i) \/ MigrateFails(i) \/ CreateFileStorageFails(i) \/ EncryptFails(i)

Next ==
  \E i \in Instances :
    \/ Start(i) \/ Step(i) \/ Fault(i)
    \/ \E r, from \in Rows : Restore(i, r, from)
    \/ Shutdown(i) \/ Crash(i)

Spec == Init /\ [][Next]_vars

(***************************************************************************)
(* The task of a migration and its query in the database go on.  A query   *)
(* that waits for a lock is queued for it, so it gets it (strong fairness) *)
(* if it is freed again and again; waiting in a circle is ended by the     *)
(* database.  Nobody has to start or stop a server, nothing has to fail.   *)
(***************************************************************************)
Fairness == \A i \in Instances : SF_vars(EncryptPaths(i))

FairSpec == Spec /\ Fairness

-----------------------------------------------------------------------------
Phases == {"down", "connect", "init", "migrate", "files", "select", "encrypt",
           "serving", "memory"}

\* Every variable holds what its declaration says.
TypeOK ==
  /\ schema \subseteq Items
  /\ stale \subseteq schema
  /\ rows \in [Rows -> Row \cup {NoRow}]
  /\ mode \in [Instances -> {"main", "component", "state"}]
  /\ \A i \in Instances :
       /\ inst[i].phase \in Phases
       /\ inst[i].pc \in 1..Len(Program(i))
       /\ inst[i].clean \in BOOLEAN
       /\ inst[i].migrated \in BOOLEAN
       /\ inst[i].tx.wrote \in [Files -> Cell \cup {NoCell}]

\* The tables and columns a migration answers for: it gives up where one of
\* them cannot be had.
Required ==
  {Table(t) : t \in {"files", "watcher_conditions", "watcher_groups", "watchers",
                      "watcher_presets"}}
  \cup Of("files", (FilesColumns \ {"eq_index key", "token_path"})
                     \cup {"operation_type"})
  \cup {<<"watcher_conditions", "account_hash">>, <<"watchers", "watcher_id">>}

\* And those it does not have when the database failed to answer.
Expected ==
  Required \cup Of("files", {"token_path"}) \cup Of("watchers", WatchersColumns)
  \cup Of("watcher_presets", {"preset_json"})

\* A server whose migrate_schema returned Ok, or that serves although it would
\* have given up otherwise, has every table and column the migration answers
\* for, whatever other servers altered between its questions and its
\* statements, and all of them if the database answered all it asked.
OkMeansMigrated ==
  \A i \in Instances :
    inst[i].migrated \/ (Strict(i) /\ inst[i].phase = "serving")
    => /\ Required \subseteq schema
       /\ inst[i].clean => Expected \subseteq schema
       /\ <<"watcher_presets", "presets">> \notin schema

(***************************************************************************)
(* A start on its own that nothing disturbs, from the present database.    *)
(***************************************************************************)
Progress ==
  [schema : SUBSET Items, stale : SUBSET Items, pc : Nat, clean : BOOLEAN, failed : BOOLEAN]

Completed(d, program) ==
  LET run[e \in Progress] ==
        IF e.failed \/ e.pc > Len(program) THEN e ELSE run[Run(e, program[e.pc])]
  IN  run[[d EXCEPT !.pc = 1]]

RunAlone(d) == Completed(Completed(d, InitSchema), MigrateSchema)

Quiet == \A i \in Instances : inst[i].phase \in {"down", "serving", "memory"}

\* Wherever crashes, failures and other servers left the database, the next
\* start of migrate_schema on its own succeeds and leaves nothing out, if the
\* database can have extra_json; and the one after it has also made the unique
\* key of watchers, unless old rows were left without their watcher_id.
NextStartMigrates ==
  LET now == [schema |-> schema, stale |-> stale, pc |-> 1, clean |-> TRUE,
              failed |-> FALSE]
      next == RunAlone(now)
  IN  /\ Quiet
      /\ \/ TextDefaults
         \/ Table("watchers") \in schema => <<"watchers", "extra_json">> \in schema
      => /\ ~next.failed
         /\ Expected \subseteq next.schema
         /\ \/ <<"watchers", "watcher_id">> \in next.stale
            \/ <<"watchers", "unique key">> \in RunAlone(next).schema

\* However migrations, restores and failures overlap, every stored path reads
\* as the file's path (decrypt_text), and its index is one of that path.
PathsReadable == \A r \in Present : Readable(rows[r])

\* A server that comes to migrate_encrypt_paths gets past it: migrations of
\* several servers, which lock the files in any order, do not wait forever.
EncryptEnds ==
  \A i \in Instances :
    inst[i].phase = "select" ~> inst[i].phase \in {"serving", "down"}

=============================================================================
