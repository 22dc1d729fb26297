------------------------------ MODULE Watchers ------------------------------
(***************************************************************************)
(* Watcher groups, watchers and conditions of one account: the requests of *)
(* handlers/watcher_handler.rs, create_or_get_watcher of app_state.rs and  *)
(* the id assignment of an upload, over the three tables that              *)
(* storage/mysql_watcher.rs and storage/mysql.rs write.                    *)
(*                                                                         *)
(* A request is a sequence of statements and transactions, each a step.  A *)
(* transaction that decides on what it read takes two: the SELECTs see the *)
(* snapshot of the first, the writes act on the latest rows.               *)
(*                                                                         *)
(* A title stands for the client group it was sent for.  A message carries *)
(* at most one watcher.  Server ids are taken in order of insertion; the   *)
(* gaps an upsert leaves in AUTO_INCREMENT are left out.  Requests that    *)
(* are refused before they reach a table (token, device, numeric folder)   *)
(* change nothing and are left out.                                        *)
(***************************************************************************)
EXTENDS Naturals, FiniteSets

CONSTANTS
  Gids,        \* client group ids, numbers like the server's
  Wids,        \* client watcher ids
  Folders,     \* normalised folders
  Conds,       \* conditions, union or subtracting
  Configs,     \* the sets of groups a sync_configuration brings
  Requests,    \* requests served at once
  Attempts,    \* attempts to find the group of a new watcher (15)
  MaxRequests, \* bound: requests served in all
  MaxTime      \* bound: clock

ASSUME WatcherAssumption ==
  /\ Gids \subseteq Nat \ {0}
  /\ Configs \subseteq SUBSET Gids
  /\ Attempts \in Nat \ {0}
  /\ MaxRequests \in Nat
  /\ MaxTime \in Nat

VARIABLES
  groups,      \* rows of watcher_groups
  watchers,    \* rows of watchers
  conditions,  \* rows of watcher_conditions
  nextGroup,   \* next id of watcher_groups
  nextWatcher, \* next id of watchers
  req,         \* what each request has read and is about to do
  served,      \* requests accepted so far
  clock        \* Utc::now() in seconds

tables == <<groups, watchers, conditions, nextGroup, nextWatcher>>
vars == <<groups, watchers, conditions, nextGroup, nextWatcher, req, served, clock>>

(***************************************************************************)
(* Rows and messages.  Of a condition row only its watcher and its content *)
(* matter; equal rows are one.                                             *)
(***************************************************************************)
Group == [id : Nat, gid : Gids, title : Gids, upd : Nat]
Watcher == [id : Nat, wid : Wids, group : Nat, local : Gids,
            folder : Folders, upd : Nat]
Condition == [watcher : Nat, cond : Conds]

WatcherData == [wid : Wids, folder : Folders, conds : SUBSET Conds]
Optional(S) == {<<>>} \cup {<<x>> : x \in S}

Ops == {"idle", "register", "update", "delete", "sync", "incremental", "ensure",
        "get", "list"}

Pcs == {"idle", "register", "upsert", "wait", "existing", "insert", "fetch",
        "folder", "save_found", "save", "compare", "set", "lookup", "select",
        "delete", "ids", "map", "next", "list", "each", "row", "rows",
        "watcher", "answer", "broadcast"}

\* gid, data: the message; todo: groups of a sync or a list still to do;
\* ts: the time it stamps; sid, wat: server ids it read; try: attempts made;
\* rows: ids of the watchers a get has still to read, seen: client groups of
\* the ones it read.
Request == [op : Ops, pc : Pcs, gid : Gids \cup {0}, data : Optional(WatcherData),
            todo : SUBSET Gids, ts : Nat, sid : Nat, wat : Nat,
            try : 0 .. Attempts - 1,
            rows : SUBSET Nat, seen : SUBSET Gids]

Idle == [op |-> "idle", pc |-> "idle", gid |-> 0, data |-> <<>>, todo |-> {},
         ts |-> 0, sid |-> 0, wat |-> 0, try |-> 0,
         rows |-> {}, seen |-> {}]

GroupsOf(g) == {r \in groups : r.gid = g}
WatchersOf(g, w) == {r \in watchers : r.local = g /\ r.wid = w}
ConditionsOf(i) == {c \in conditions : c.watcher = i}

Conditions(i, cs) == {[watcher |-> i, cond |-> c] : c \in cs}

NewGroup(g, t) == [id |-> nextGroup, gid |-> g, title |-> g, upd |-> t]
NewWatcher(d, sid, g, t) ==
  [id |-> nextWatcher, wid |-> d.wid, group |-> sid, local |-> g,
   folder |-> d.folder, upd |-> t]

\* A foreign key: the group of a watcher, the watcher of a condition.
GroupExists(i) == \E r \in groups : r.id = i
WatcherExists(i) == \E r \in watchers : r.id = i

(***************************************************************************)
(* Control.  A request goes on with some of its fields changed, or ends.   *)
(* In sync_configuration an error is noted as a conflict and the next      *)
(* group is taken, in get_watcher_groups the group is left out; anywhere   *)
(* else an error ends the request.                                         *)
(***************************************************************************)
At(q, pc) == req[q].pc = pc
Goto(q, pc) == req' = [req EXCEPT ![q].pc = pc]
Finish(q) == req' = [req EXCEPT ![q] = Idle]
Sync(q) == req[q].op \in {"sync", "incremental"}
Data(q) == req[q].data[1]

\* A group has been dealt with: of the request, only the other groups of a
\* sync_configuration or a get_watcher_groups still matter.
Settled(r, pc) ==
  [Idle EXCEPT !.op = r.op, !.pc = pc, !.todo = r.todo,
               !.data = IF r.todo = {} THEN <<>> ELSE r.data]

Leave(q) ==
  CASE Sync(q) -> req' = [req EXCEPT ![q] = Settled(@, "next")]
    [] req[q].op = "list" -> req' = [req EXCEPT ![q] = Settled(@, "each")]
    [] OTHER -> Finish(q)

Error(q) ==
  IF Sync(q) /\ req[q].pc \in {"folder", "save_found", "wait", "existing", "insert"}
  THEN req' = [req EXCEPT ![q] = Settled(@, "broadcast")]
  ELSE Leave(q)

\* create_watcher_with_conditions is called; it stamps the current time.
ToCreate(r) == [r EXCEPT !.pc = "wait", !.try = 0, !.ts = clock, !.sid = 0]

\* The group of the message is stored: on to its watcher, if it has one.
AfterGroup(r) ==
  IF r.data = <<>> THEN Settled(r, "broadcast")
  ELSE IF r.op = "register" THEN ToCreate(r)
  ELSE [r EXCEPT !.pc = "folder", !.ts = 0, !.sid = 0]

\* The watcher of the message has server id i.  update_watcher_group then
\* replaces its conditions and stamps the group with the current time.
AfterWatcher(r, i) ==
  IF r.op # "update" THEN Settled(r, "broadcast")
  ELSE LET s == [r EXCEPT !.sid = 0, !.try = 0]
       IN  IF r.data[1].conds # {} THEN [s EXCEPT !.wat = i, !.pc = "save", !.ts = 0]
           ELSE [s EXCEPT !.wat = 0, !.pc = "compare", !.ts = clock]

-----------------------------------------------------------------------------
Init ==
  /\ groups = {}
  /\ watchers = {}
  /\ conditions = {}
  /\ nextGroup = 1
  /\ nextWatcher = 1
  /\ req = [q \in Requests |-> Idle]
  /\ served = 0
  /\ clock = 0

Accept(q, r) ==
  /\ req[q] = Idle
  /\ served < MaxRequests
  /\ served' = served + 1
  /\ req' = [req EXCEPT ![q] = r]
  /\ UNCHANGED <<tables, clock>>

(***************************************************************************)
(* register_watcher_group.  The handler builds the group with the current  *)
(* time; the storage skips it if the server's is as new, else upserts.     *)
(***************************************************************************)
RegisterWatcherGroup(q, g, d) ==
  Accept(q, [Idle EXCEPT !.op = "register", !.pc = "register", !.gid = g,
                         !.data = d, !.ts = clock])

RegisterSelect(q) ==
  /\ At(q, "register")
  /\ req' = [req EXCEPT ![q] =
       IF \E r \in GroupsOf(req[q].gid) : r.upd >= req[q].ts
       THEN AfterGroup(@)
       ELSE [@ EXCEPT !.pc = "upsert"]]
  /\ UNCHANGED <<tables, served, clock>>

\* Mutant: the group is deleted and inserted again, under a new id.
RegisterReplace(q) ==
  /\ At(q, "upsert")
  /\ groups' = (groups \ GroupsOf(req[q].gid)) \cup {NewGroup(req[q].gid, req[q].ts)}
  /\ nextGroup' = nextGroup + 1
  /\ req' = [req EXCEPT ![q] = AfterGroup(@)]
  /\ UNCHANGED <<watchers, conditions, nextWatcher, served, clock>>

RegisterUpsert(q) ==
  /\ At(q, "upsert")
  /\ LET g == req[q].gid
     IN  \/ /\ GroupsOf(g) # {}
            /\ groups' = {IF r.gid = g THEN [r EXCEPT !.title = g, !.upd = req[q].ts]
                                       ELSE r : r \in groups}
            /\ UNCHANGED nextGroup
         \/ /\ GroupsOf(g) = {}
            /\ groups' = groups \cup {NewGroup(g, req[q].ts)}
            /\ nextGroup' = nextGroup + 1
  /\ req' = [req EXCEPT ![q] = AfterGroup(@)]
  /\ UNCHANGED <<watchers, conditions, nextWatcher, served, clock>>

(***************************************************************************)
(* create_watcher_with_conditions: wait for the group, then one            *)
(* transaction: a watcher as new as the message is left alone, any other   *)
(* is upserted and the conditions of the message are added to it.          *)
(***************************************************************************)
\* Mutant: one attempt too many.
CreateWaitLonger(q) ==
  /\ At(q, "wait")
  /\ \/ \E r \in GroupsOf(req[q].gid) :
          req' = [req EXCEPT ![q].sid = r.id, ![q].pc = "existing"]
     \/ /\ GroupsOf(req[q].gid) = {}
        /\ req[q].try < Attempts
        /\ req' = [req EXCEPT ![q].try = @ + 1]
  /\ UNCHANGED <<tables, served, clock>>

CreateWait(q) ==
  /\ At(q, "wait")
  /\ \/ \E r \in GroupsOf(req[q].gid) :
          req' = [req EXCEPT ![q].sid = r.id, ![q].pc = "existing"]
     \/ /\ GroupsOf(req[q].gid) = {}
        /\ req[q].try + 1 < Attempts
        /\ req' = [req EXCEPT ![q].try = @ + 1]
     \/ /\ GroupsOf(req[q].gid) = {}
        /\ req[q].try + 1 = Attempts
        /\ Error(q)
  /\ UNCHANGED <<tables, served, clock>>

CreateSelect(q) ==
  /\ At(q, "existing")
  /\ LET newer == {r \in WatchersOf(req[q].gid, Data(q).wid) : r.upd >= req[q].ts}
     IN  \/ \E r \in newer : req' = [req EXCEPT ![q] = AfterWatcher(@, r.id)]
         \/ newer = {} /\ Goto(q, "insert")
  /\ UNCHANGED <<tables, served, clock>>

\* Mutant: the schema has no foreign key from watchers to their group.
CreateInsertUnchecked(q) ==
  /\ At(q, "insert")
  /\ LET g == req[q].gid
         i == nextWatcher
     IN  /\ WatchersOf(g, Data(q).wid) = {}
         /\ watchers' = watchers \cup {NewWatcher(Data(q), req[q].sid, g, req[q].ts)}
         /\ nextWatcher' = nextWatcher + 1
         /\ conditions' = conditions \cup Conditions(i, Data(q).conds)
         /\ req' = [req EXCEPT ![q] = AfterWatcher(@, i)]
  /\ UNCHANGED <<groups, nextGroup, served, clock>>

CreateInsert(q) ==
  /\ At(q, "insert")
  /\ LET g == req[q].gid
         d == Data(q)
         sid == req[q].sid
     IN  \/ /\ ~GroupExists(sid)
            /\ Error(q)
            /\ UNCHANGED <<watchers, nextWatcher, conditions>>
         \/ /\ GroupExists(sid)
            /\ \E w \in WatchersOf(g, d.wid) :
                 /\ watchers' = (watchers \ {w}) \cup
                      {[w EXCEPT !.group = sid, !.folder = d.folder, !.upd = req[q].ts]}
                 /\ conditions' = conditions \cup Conditions(w.id, d.conds)
                 /\ req' = [req EXCEPT ![q] = AfterWatcher(@, w.id)]
            /\ UNCHANGED nextWatcher
         \/ /\ GroupExists(sid)
            /\ WatchersOf(g, d.wid) = {}
            /\ watchers' = watchers \cup {NewWatcher(d, sid, g, req[q].ts)}
            /\ nextWatcher' = nextWatcher + 1
            /\ conditions' = conditions \cup Conditions(nextWatcher, d.conds)
            /\ req' = [req EXCEPT ![q] = AfterWatcher(@, nextWatcher)]
  /\ UNCHANGED <<groups, nextGroup, served, clock>>

(***************************************************************************)
(* create_or_get_watcher.  find_watcher_by_folder compares group_id, a     *)
(* server id, with the client's id.  A watcher that is found keeps its     *)
(* conditions if the message has none, else they are replaced.             *)
(***************************************************************************)
\* Mutant: an empty list of conditions replaces the stored ones.
FindWatcherByFolderAlwaysSaves(q) ==
  /\ At(q, "folder")
  /\ \E r \in watchers :
       /\ r.group = req[q].gid /\ r.folder = Data(q).folder
       /\ req' = [req EXCEPT ![q].wat = r.id, ![q].pc = "save_found"]
  /\ UNCHANGED <<tables, served, clock>>

FindWatcherByFolder(q) ==
  /\ At(q, "folder")
  /\ LET found == {r \in watchers : r.group = req[q].gid /\ r.folder = Data(q).folder}
     IN  \/ /\ found = {}
            /\ req' = [req EXCEPT ![q] = ToCreate(@)]
         \/ \E r \in found :
              req' = [req EXCEPT ![q] = IF Data(q).conds # {}
                                        THEN [@ EXCEPT !.wat = r.id, !.pc = "save_found"]
                                        ELSE AfterWatcher(@, r.id)]
  /\ UNCHANGED <<tables, served, clock>>

\* save_watcher_conditions, called with the conditions of the message.
SaveWatcherConditions(q) ==
  /\ req[q].pc \in {"save_found", "save"}
  /\ LET i == req[q].wat
     IN  \/ /\ ~WatcherExists(i)
            /\ Error(q)
            /\ UNCHANGED conditions
         \/ /\ WatcherExists(i)
            /\ conditions' = (conditions \ ConditionsOf(i))
                               \cup Conditions(i, Data(q).conds)
            /\ req' = [req EXCEPT ![q] =
                 IF @.pc = "save_found" THEN AfterWatcher(@, i)
                 ELSE [@ EXCEPT !.pc = "compare", !.ts = clock, !.wat = 0]]
  /\ UNCHANGED <<groups, watchers, nextGroup, nextWatcher, served, clock>>

(***************************************************************************)
(* update_watcher_group.  The handler passes the client's id to the        *)
(* storage as the server id of the row; sync_configuration passes the id   *)
(* it read.  The storage compares times in a statement of its own.         *)
(***************************************************************************)
UpdateWatcherGroup(q, g, d) ==
  Accept(q, [Idle EXCEPT !.op = "update", !.pc = "fetch", !.gid = g, !.data = d])

UpdateFetch(q) ==
  /\ At(q, "fetch")
  /\ IF GroupsOf(req[q].gid) = {} THEN Finish(q)
     ELSE req' = [req EXCEPT ![q] =
            IF @.data = <<>> THEN [@ EXCEPT !.pc = "compare", !.ts = clock]
            ELSE [@ EXCEPT !.pc = "folder"]]
  /\ UNCHANGED <<tables, served, clock>>

TargetId(q) == IF Sync(q) THEN req[q].sid ELSE req[q].gid

Stored(r) == IF r.op = "update" THEN Settled(r, "broadcast") ELSE AfterGroup(r)

UpdateCompare(q) ==
  /\ At(q, "compare")
  /\ req' = [req EXCEPT ![q] =
       IF \E r \in groups : r.id = TargetId(q) /\ r.upd >= @.ts THEN Stored(@)
       ELSE [@ EXCEPT !.pc = "set"]]
  /\ UNCHANGED <<tables, served, clock>>

UpdateSet(q) ==
  /\ At(q, "set")
  /\ groups' = {IF r.id = TargetId(q)
                THEN [r EXCEPT !.title = req[q].gid, !.upd = req[q].ts]
                ELSE r : r \in groups}
  /\ req' = [req EXCEPT ![q] = Stored(@)]
  /\ UNCHANGED <<watchers, conditions, nextGroup, nextWatcher, served, clock>>

(***************************************************************************)
(* delete_watcher_group: the handler reads the group for the notification, *)
(* the storage reads its server id and deletes conditions, watchers and    *)
(* group in one transaction.                                               *)
(***************************************************************************)
DeleteWatcherGroup(q, g) ==
  Accept(q, [Idle EXCEPT !.op = "delete", !.pc = "lookup", !.gid = g])

DeleteLookup(q) ==
  /\ At(q, "lookup")
  /\ IF GroupsOf(req[q].gid) = {} THEN Finish(q) ELSE Goto(q, "select")
  /\ UNCHANGED <<tables, served, clock>>

DeleteSelect(q) ==
  /\ At(q, "select")
  /\ \/ /\ GroupsOf(req[q].gid) = {}
        /\ req' = [req EXCEPT ![q] = Settled(@, "broadcast")]
     \/ \E r \in GroupsOf(req[q].gid) :
          req' = [req EXCEPT ![q].sid = r.id, ![q].pc = "delete"]
  /\ UNCHANGED <<tables, served, clock>>

DeleteCommit(q) ==
  /\ At(q, "delete")
  /\ LET gone == {w \in watchers : w.group = req[q].sid}
     IN  /\ conditions' = {c \in conditions : \A w \in gone : c.watcher # w.id}
         /\ watchers' = watchers \ gone
         /\ groups' = {r \in groups : r.id # req[q].sid}
  /\ req' = [req EXCEPT ![q] = Settled(@, "broadcast")]
  /\ UNCHANGED <<nextGroup, nextWatcher, served, clock>>

(***************************************************************************)
(* sync_configuration: each group of the message is updated if the server  *)
(* has it (unless the sync is incremental and not forced), else            *)
(* registered, and its watcher applied.                                    *)
(***************************************************************************)
SyncConfiguration(q, op, G, d) ==
  Accept(q, [Idle EXCEPT !.op = op, !.pc = "next", !.data = d, !.todo = G])

SyncGroup(q) ==
  /\ At(q, "next")
  /\ \/ req[q].todo = {} /\ Finish(q)
     \/ \E g \in req[q].todo : \* an error in reading the group is a conflict
          req' = [req EXCEPT ![q].todo = @ \ {g}]
     \/ \E g \in req[q].todo :
          LET r == [req[q] EXCEPT !.gid = g, !.todo = @ \ {g}, !.ts = clock]
          IN  \/ /\ GroupsOf(g) = {}
                 /\ req' = [req EXCEPT ![q] = [r EXCEPT !.pc = "register"]]
              \/ \E row \in GroupsOf(g) :
                   req' = [req EXCEPT ![q] =
                     IF r.op = "sync" THEN [r EXCEPT !.sid = row.id, !.pc = "compare"]
                     ELSE Settled(r, "next")]
  /\ UNCHANGED <<tables, served, clock>>

(***************************************************************************)
(* ensure_server_ids_for, called by an upload: one transaction that        *)
(* inserts what the snapshot does not have.  A row that another request    *)
(* inserted since violates a unique key, a group deleted since violates    *)
(* the foreign key; both roll the transaction back.                        *)
(***************************************************************************)
EnsureServerIds(q, g, d) ==
  Accept(q, [Idle EXCEPT !.op = "ensure", !.pc = "ids", !.gid = g, !.data = <<d>>])

EnsureSelect(q) ==
  /\ At(q, "ids")
  /\ \E sid \in IF GroupsOf(req[q].gid) = {} THEN {0}
                ELSE {r.id : r \in GroupsOf(req[q].gid)} :
     \E wat \in IF WatchersOf(req[q].gid, Data(q).wid) = {} THEN {0}
                ELSE {r.id : r \in WatchersOf(req[q].gid, Data(q).wid)} :
       req' = [req EXCEPT ![q] =
         IF sid # 0 /\ wat # 0 THEN Idle
         ELSE [@ EXCEPT !.sid = sid, !.wat = wat, !.pc = "map"]]
  /\ UNCHANGED <<tables, served, clock>>

EnsureInsert(q) ==
  /\ At(q, "map")
  /\ LET g == req[q].gid
         new == req[q].sid = 0
         sid == IF new THEN nextGroup ELSE req[q].sid
         ok == /\ IF new THEN GroupsOf(g) = {} ELSE GroupExists(sid)
               /\ WatchersOf(g, Data(q).wid) = {}
     IN  \/ /\ ~ok
            /\ UNCHANGED <<groups, watchers, nextGroup, nextWatcher>>
         \/ /\ ok
            /\ groups' = groups \cup (IF new THEN {NewGroup(g, clock)} ELSE {})
            /\ nextGroup' = IF new THEN nextGroup + 1 ELSE nextGroup
            /\ watchers' = watchers \cup {NewWatcher(Data(q), sid, g, clock)}
            /\ nextWatcher' = nextWatcher + 1
  /\ Finish(q)
  /\ UNCHANGED <<conditions, served, clock>>

(***************************************************************************)
(* get_watcher_group: the row of the group, then the watchers that carry   *)
(* its server id, then each of them by its own id.                         *)
(* get_watcher_groups does this for every group it found.                  *)
(***************************************************************************)
GetWatcherGroup(q, g) ==
  Accept(q, [Idle EXCEPT !.op = "get", !.pc = "row", !.gid = g])

GetWatcherGroups(q) ==
  Accept(q, [Idle EXCEPT !.op = "list", !.pc = "list"])

ListGroups(q) ==
  /\ At(q, "list")
  /\ req' = [req EXCEPT ![q].pc = "each", ![q].todo = {r.gid : r \in groups}]
  /\ UNCHANGED <<tables, served, clock>>

EachGroup(q) ==
  /\ At(q, "each")
  /\ \/ req[q].todo = {} /\ Finish(q)
     \/ \E g \in req[q].todo :
          req' = [req EXCEPT ![q].gid = g, ![q].todo = @ \ {g}, ![q].pc = "row"]
  /\ UNCHANGED <<tables, served, clock>>

GetRow(q) ==
  /\ At(q, "row")
  /\ \/ GroupsOf(req[q].gid) = {} /\ Leave(q)
     \/ \E r \in GroupsOf(req[q].gid) :
          req' = [req EXCEPT ![q].sid = r.id, ![q].pc = "rows"]
  /\ UNCHANGED <<tables, served, clock>>

\* Mutant: the watchers are selected by the client's id.
GetWatchersByClientId(q) ==
  /\ At(q, "rows")
  /\ req' = [req EXCEPT ![q].pc = "watcher", ![q].rows =
               {w.id : w \in {w \in watchers : w.group = req[q].gid}}]
  /\ UNCHANGED <<tables, served, clock>>

GetWatchers(q) ==
  /\ At(q, "rows")
  /\ req' = [req EXCEPT ![q].pc = "watcher", ![q].rows =
               {w.id : w \in {w \in watchers : w.group = req[q].sid}}]
  /\ UNCHANGED <<tables, served, clock>>

\* A watcher that is gone, or cannot be read, is left out.
GetWatcher(q) ==
  /\ At(q, "watcher")
  /\ \/ req[q].rows = {} /\ Goto(q, "answer")
     \/ \E i \in req[q].rows :
          req' = [req EXCEPT ![q].rows = @ \ {i},
                             ![q].seen = @ \cup {w.local : w \in {w \in watchers : w.id = i}}]
     \/ \E i \in req[q].rows : req' = [req EXCEPT ![q].rows = @ \ {i}]
  /\ UNCHANGED <<tables, served, clock>>

\* A response is sent, or a notification: its content and its delivery are
\* in module Subscriptions.  An error in broadcasting is only logged.
Answer(q) ==
  /\ req[q].pc \in {"answer", "broadcast"}
  /\ Leave(q)
  /\ UNCHANGED <<tables, served, clock>>

\* A storage call fails and, in a transaction, everything is rolled back.
StorageError(q) ==
  /\ req[q].pc \notin {"idle", "next", "each", "watcher", "answer", "broadcast"}
  /\ IF req[q].pc = "list" THEN Finish(q) ELSE Error(q)
  /\ UNCHANGED <<tables, served, clock>>

Tick ==
  /\ clock < MaxTime
  /\ clock' = clock + 1
  /\ UNCHANGED <<tables, req, served>>

Arrive(q) ==
  \/ \E g \in Gids :
       \/ \E d \in Optional(WatcherData) :
            RegisterWatcherGroup(q, g, d) \/ UpdateWatcherGroup(q, g, d)
       \/ DeleteWatcherGroup(q, g)
       \/ GetWatcherGroup(q, g)
       \/ \E d \in WatcherData : d.conds = {} /\ EnsureServerIds(q, g, d)
  \/ GetWatcherGroups(q)
  \/ \E op \in {"sync", "incremental"}, G \in Configs, d \in Optional(WatcherData) :
       SyncConfiguration(q, op, G, d)

Serve(q) ==
  \/ RegisterSelect(q) \/ RegisterUpsert(q)
  \/ CreateWait(q) \/ CreateSelect(q) \/ CreateInsert(q)
  \/ FindWatcherByFolder(q) \/ SaveWatcherConditions(q)
  \/ UpdateFetch(q) \/ UpdateCompare(q) \/ UpdateSet(q)
  \/ DeleteLookup(q) \/ DeleteSelect(q) \/ DeleteCommit(q)
  \/ SyncGroup(q)
  \/ EnsureSelect(q) \/ EnsureInsert(q)
  \/ ListGroups(q) \/ EachGroup(q) \/ GetRow(q) \/ GetWatchers(q) \/ GetWatcher(q)
  \/ Answer(q)

Next ==
  \/ Tick
  \/ \E q \in Requests : Arrive(q) \/ Serve(q) \/ StorageError(q)

Spec == Init /\ [][Next]_vars

(***************************************************************************)
(* Properties.                                                             *)
(***************************************************************************)
\* Every table and every request keeps its type.
TypeOK ==
  /\ groups \subseteq Group
  /\ watchers \subseteq Watcher
  /\ conditions \subseteq Condition
  /\ nextGroup \in Nat /\ nextWatcher \in Nat
  /\ req \in [Requests -> Request]
  /\ served \in Nat /\ clock \in Nat

\* No orphans: a watcher's group_id is the server id of the group the client
\* put it in, and a condition belongs to a stored watcher, whatever deletes,
\* registrations and uploads run between the statements of a request.
NoOrphans ==
  /\ \A w \in watchers : \E r \in groups : r.id = w.group /\ r.gid = w.local
  /\ \A c \in conditions : WatcherExists(c.watcher)

\* get_watcher_group, which reads a group and its watchers in separate
\* statements, never answers with a watcher of another client group.
AnswersOwnWatchers ==
  \A q \in Requests : At(q, "answer") => req[q].seen \subseteq {req[q].gid}

\* A message without conditions removes none (the guards in
\* create_or_get_watcher and update_watcher_group): conditions go away only
\* by a message that brings others or by the deletion of a group.
EmptyMessagesKeepConditions ==
  [][\A c \in conditions \ conditions' : \E q \in Requests :
       /\ req'[q] # req[q]
       /\ \/ req[q].op = "delete"
          \/ req[q].data # <<>> /\ Data(q).conds # {}]_vars

\* The tables implement the id mapping the files rely on.
Ids == INSTANCE IdMap WITH
  group <- [g \in {r.gid : r \in groups} |-> (CHOOSE r \in groups : r.gid = g).id],
  watcher <- [p \in {<<w.local, w.wid>> : w \in watchers} |->
                LET w == CHOOSE w \in watchers : <<w.local, w.wid>> = p
                IN  [group |-> w.group, id |-> w.id]],
  usedG <- 1 .. nextGroup - 1,
  usedW <- 1 .. nextWatcher - 1

\* Ids of groups and watchers are assigned once, do not change while the
\* client's id is stored, and go away together with the group.
ImplementsIdMap == Ids!Spec
=============================================================================
