--------------------------- MODULE WatchersProofs ---------------------------
(***************************************************************************)
(* Proofs about Watchers, for any number of groups, watchers, folders and  *)
(* requests: there are no orphans, a group is answered with its own        *)
(* watchers only, a message without conditions removes none, and the       *)
(* tables implement module IdMap.                                          *)
(*                                                                         *)
(* Requests act on server ids that they read in an earlier statement.  The *)
(* rows may be gone by then, and rows with other ids there, but an id that *)
(* was read never comes to stand for another client group: ids are not     *)
(* assigned again.  Own and RequestInv say so; GroupsInv and WatchersInv   *)
(* have the unique keys that the upserts rest on.                          *)
(*                                                                         *)
(* The first part is about a request: each step of each handler leaves one *)
(* that relies on nothing it has not read.  The second is about the        *)
(* tables, and the third about the mapping they are.                       *)
(***************************************************************************)
EXTENDS Watchers, TLAPS

\* Server id i was assigned to client group g: no other group has it.
Own(i, g) == i < nextGroup /\ \A r \in groups : r.id = i => r.gid = g

\* The same for the watcher with server id i.
OwnWatcher(i, g) == i < nextWatcher /\ \A w \in watchers : w.id = i => w.local = g

RequestInv(r) ==
  /\ r.pc \notin {"idle", "next", "each", "list", "broadcast"} => r.gid \in Gids
  /\ r.pc \in {"wait", "existing", "insert", "folder", "save_found", "save", "ids", "map"}
       => r.data # <<>>
  /\ r.pc \in {"save_found", "save"} => r.data[1].conds # {}
  /\ r.pc \in {"lookup", "select", "delete"} => r.op = "delete"
  /\ r.pc \in {"existing", "insert", "delete", "rows"} => Own(r.sid, r.gid)
  /\ r.pc = "map" => r.sid = 0 \/ Own(r.sid, r.gid)
  /\ r.pc \in {"list", "each", "row", "rows"} => r.seen = {}
  /\ r.pc \in {"watcher", "answer"} => r.seen \subseteq {r.gid}
  /\ r.pc = "watcher" => \A i \in r.rows : OwnWatcher(i, r.gid)

GroupsInv ==
  /\ groups \subseteq Group
  /\ nextGroup \in Nat \ {0}
  /\ \A r \in groups : r.id \in 1 .. nextGroup - 1
  /\ \A r, s \in groups : r.id = s.id \/ r.gid = s.gid => r = s

WatchersInv ==
  /\ watchers \subseteq Watcher
  /\ nextWatcher \in Nat \ {0}
  /\ \A w \in watchers : w.id \in 1 .. nextWatcher - 1
  /\ \A v, w \in watchers : v.id = w.id \/ (v.local = w.local /\ v.wid = w.wid) => v = w

RequestsInv ==
  /\ req \in [Requests -> Request]
  /\ \A q \in Requests : RequestInv(req[q])
  /\ served \in Nat /\ clock \in Nat

Inv ==
  /\ GroupsInv
  /\ WatchersInv
  /\ conditions \subseteq Condition
  /\ NoOrphans
  /\ RequestsInv

-----------------------------------------------------------------------------
(***************************************************************************)
(* Requests.  What a handler goes on with is a request, and it relies on   *)
(* no server id that it has not read.                                      *)
(***************************************************************************)
USE WatcherAssumption

\* A request that has ended, or is about to take the next group.
LEMMA IdleRequest == Idle \in Request /\ RequestInv(Idle)
BY DEF Idle, Request, RequestInv, Ops, Pcs, Optional

\* The values that Idle and a new attempt start from.
LEMMA Typed == <<>> \in Optional(WatcherData) /\ 0 \in 0 .. Attempts - 1
BY DEF Optional

\* A request whose group has been dealt with.
LEMMA SettledRequest ==
  ASSUME NEW r \in Request, NEW pc \in {"next", "each", "broadcast"}
  PROVE  Settled(r, pc) \in Request /\ RequestInv(Settled(r, pc))
<1>1. Settled(r, pc) \in Request
  <2>1. (IF r.todo = {} THEN <<>> ELSE r.data) \in Optional(WatcherData)
    BY Typed DEF Request
  <2>2. r.op \in Ops /\ r.todo \in SUBSET Gids /\ pc \in Pcs
    BY DEF Request, Pcs
  <2> QED
    BY Zenon, <2>1, <2>2, Typed DEF Settled, Idle, Request
<1>2. Settled(r, pc).pc = pc /\ Settled(r, pc).seen = {}
  BY DEF Settled, Idle
<1> QED
  BY <1>1, <1>2 DEF RequestInv

\* The watcher of a message that has one.
LEMMA DataOfRequest ==
  ASSUME NEW r \in Request, r.data # <<>>
  PROVE  r.data[1] \in WatcherData
BY DEF Request, Optional

\* create_watcher_with_conditions is entered with a watcher to create.
LEMMA ToCreateRequest ==
  ASSUME NEW r \in Request, r.gid \in Gids, r.data # <<>>, clock \in Nat
  PROVE  ToCreate(r) \in Request /\ RequestInv(ToCreate(r))
<1>1. ToCreate(r) \in Request
  BY Zenon, Typed DEF ToCreate, Request, Pcs
<1>2. /\ ToCreate(r).pc = "wait" /\ ToCreate(r).gid = r.gid
      /\ ToCreate(r).data = r.data
  BY DEF ToCreate, Request
<1> QED
  BY <1>1, <1>2 DEF RequestInv

\* After its group, a request goes on with its watcher or is settled.
LEMMA AfterGroupRequest ==
  ASSUME NEW r \in Request, r.gid \in Gids, clock \in Nat
  PROVE  AfterGroup(r) \in Request /\ RequestInv(AfterGroup(r))
<1>1. CASE r.data = <<>>
  BY <1>1, SettledRequest DEF AfterGroup
<1>2. CASE r.data # <<>> /\ r.op = "register"
  BY <1>2, ToCreateRequest DEF AfterGroup
<1>3. CASE r.data # <<>> /\ r.op # "register"
  BY Zenon, <1>3 DEF AfterGroup, Request, RequestInv, Pcs
<1> QED
  BY <1>1, <1>2, <1>3

\* After its watcher, update_watcher_group saves conditions or the group.
LEMMA AfterWatcherRequest ==
  ASSUME NEW r \in Request, r.gid \in Gids, r.data # <<>>, clock \in Nat, NEW i \in Nat
  PROVE  AfterWatcher(r, i) \in Request /\ RequestInv(AfterWatcher(r, i))
<1>1. CASE r.op # "update"
  BY <1>1, SettledRequest DEF AfterWatcher
<1>2. CASE r.op = "update"
  <2> DEFINE s == AfterWatcher(r, i)
  <2>1. s \in Request
    BY Zenon, <1>2, Typed DEF AfterWatcher, Request, Pcs
  <2>2. /\ s.pc \in {"save", "compare"} /\ s.gid = r.gid /\ s.data = r.data
        /\ s.pc = "save" => s.data[1].conds # {}
    BY <1>2 DEF AfterWatcher, Request
  <2> QED
    BY <2>1, <2>2 DEF RequestInv
<1> QED
  BY <1>1, <1>2

-----------------------------------------------------------------------------
(***************************************************************************)
(* Steps of requests.  Proceeds(q): q goes on as a request that relies on  *)
(* nothing it has not read.                                                *)
(***************************************************************************)
Becomes(q, r) == req' = [req EXCEPT ![q] = r]
Proceeds(q) == \E r \in Request : RequestInv(r) /\ Becomes(q, r)

\* A request that ends relies on nothing.
LEMMA FinishProceeds ==
  ASSUME NEW q \in Requests, Finish(q)
  PROVE  Proceeds(q)
BY Zenon, IdleRequest DEF Finish, Proceeds, Becomes

\* Leave and Error end the request or settle its group.
LEMMA LeaveProceeds ==
  ASSUME RequestsInv, NEW q \in Requests, Leave(q)
  PROVE  Proceeds(q)
<1>1. req[q] \in Request
  BY DEF RequestsInv
<1>2. CASE Finish(q)
  BY <1>2, FinishProceeds
<1>3. CASE Becomes(q, Settled(req[q], "next"))
  BY <1>1, <1>3, SettledRequest DEF Proceeds
<1>4. CASE Becomes(q, Settled(req[q], "each"))
  BY <1>1, <1>4, SettledRequest DEF Proceeds
<1> QED
  BY <1>2, <1>3, <1>4 DEF Leave, Becomes

\* A failed call settles the group of a sync or ends the request.
LEMMA ErrorProceeds ==
  ASSUME RequestsInv, NEW q \in Requests, Error(q)
  PROVE  Proceeds(q)
<1>1. req[q] \in Request
  BY DEF RequestsInv
<1>2. CASE Leave(q)
  BY <1>2, LeaveProceeds
<1>3. CASE Becomes(q, Settled(req[q], "broadcast"))
  BY <1>1, <1>3, SettledRequest DEF Proceeds
<1> QED
  BY <1>2, <1>3 DEF Error, Becomes

\* What q knows of itself before a step.
LEMMA Known ==
  ASSUME RequestsInv, NEW q \in Requests
  PROVE  /\ req[q] \in Request
         /\ RequestInv(req[q])
         /\ clock \in Nat
         /\ DOMAIN req = Requests
BY DEF RequestsInv

\* A request arrives having read nothing; it changes no table.
LEMMA ArriveProceeds ==
  ASSUME Inv, NEW q \in Requests, Arrive(q)
  PROVE  /\ Proceeds(q)
         /\ served' \in Nat
         /\ UNCHANGED <<tables, clock>>
<1>0. served \in Nat /\ clock \in Nat
  BY DEF Inv, RequestsInv
<1>1. ASSUME NEW r \in Request, RequestInv(r), Accept(q, r)
      PROVE  Proceeds(q) /\ served' \in Nat /\ UNCHANGED <<tables, clock>>
  <2>1. Proceeds(q)
    BY Zenon, <1>1 DEF Accept, Proceeds, Becomes
  <2>2. served' \in Nat /\ UNCHANGED <<tables, clock>>
    BY <1>0, <1>1 DEF Accept
  <2> QED
    BY <2>1, <2>2
<1>2. ASSUME NEW g \in Gids, NEW d \in Optional(WatcherData), RegisterWatcherGroup(q, g, d)
      PROVE  Proceeds(q) /\ served' \in Nat /\ UNCHANGED <<tables, clock>>
  <2> DEFINE r == [Idle EXCEPT !.op = "register", !.pc = "register", !.gid = g,
                               !.data = d, !.ts = clock]
  <2>1. r \in Request
    BY Zenon, <1>0, Typed DEF Idle, Request, Ops, Pcs
  <2>2. RequestInv(r)
    BY DEF Idle, RequestInv
  <2> QED
    BY <1>1, <1>2, <2>1, <2>2 DEF RegisterWatcherGroup
<1>3. ASSUME NEW g \in Gids, NEW d \in Optional(WatcherData), UpdateWatcherGroup(q, g, d)
      PROVE  Proceeds(q) /\ served' \in Nat /\ UNCHANGED <<tables, clock>>
  <2> DEFINE r == [Idle EXCEPT !.op = "update", !.pc = "fetch", !.gid = g, !.data = d]
  <2>1. r \in Request
    BY Zenon, Typed DEF Idle, Request, Ops, Pcs
  <2>2. RequestInv(r)
    BY DEF Idle, RequestInv
  <2> QED
    BY <1>1, <1>3, <2>1, <2>2 DEF UpdateWatcherGroup
<1>4. ASSUME NEW g \in Gids, DeleteWatcherGroup(q, g) \/ GetWatcherGroup(q, g)
      PROVE  Proceeds(q) /\ served' \in Nat /\ UNCHANGED <<tables, clock>>
  <2> DEFINE del == [Idle EXCEPT !.op = "delete", !.pc = "lookup", !.gid = g]
             get == [Idle EXCEPT !.op = "get", !.pc = "row", !.gid = g]
  <2>1. del \in Request /\ get \in Request
    BY Zenon, Typed DEF Idle, Request, Ops, Pcs
  <2>2. RequestInv(del) /\ RequestInv(get)
    BY DEF Idle, RequestInv
  <2>3. CASE DeleteWatcherGroup(q, g)
    BY <1>1, <2>1, <2>2, <2>3 DEF DeleteWatcherGroup
  <2>4. CASE GetWatcherGroup(q, g)
    BY <1>1, <2>1, <2>2, <2>4 DEF GetWatcherGroup
  <2> QED
    BY <1>4, <2>3, <2>4
<1>5. ASSUME NEW g \in Gids, NEW d \in WatcherData, EnsureServerIds(q, g, d)
      PROVE  Proceeds(q) /\ served' \in Nat /\ UNCHANGED <<tables, clock>>
  <2> DEFINE r == [Idle EXCEPT !.op = "ensure", !.pc = "ids", !.gid = g, !.data = <<d>>]
  <2>1. <<d>> \in Optional(WatcherData) /\ <<d>> # <<>>
    BY DEF Optional
  <2>2. r \in Request
    BY Zenon, <2>1, Typed DEF Idle, Request, Ops, Pcs
  <2>3. RequestInv(r)
    BY <2>1 DEF Idle, RequestInv
  <2> QED
    BY <1>1, <1>5, <2>2, <2>3 DEF EnsureServerIds
<1>6. ASSUME GetWatcherGroups(q)
      PROVE  Proceeds(q) /\ served' \in Nat /\ UNCHANGED <<tables, clock>>
  <2> DEFINE r == [Idle EXCEPT !.op = "list", !.pc = "list"]
  <2>1. r \in Request
    BY Zenon, Typed DEF Idle, Request, Ops, Pcs
  <2>2. RequestInv(r)
    BY DEF Idle, RequestInv
  <2> QED
    BY <1>1, <1>6, <2>1, <2>2 DEF GetWatcherGroups
<1>7. ASSUME NEW op \in {"sync", "incremental"}, NEW G \in Configs,
             NEW d \in Optional(WatcherData), SyncConfiguration(q, op, G, d)
      PROVE  Proceeds(q) /\ served' \in Nat /\ UNCHANGED <<tables, clock>>
  <2> DEFINE r == [Idle EXCEPT !.op = op, !.pc = "next", !.data = d, !.todo = G]
  <2>1. r \in Request
    BY Zenon, Typed DEF Idle, Request, Ops, Pcs
  <2>2. RequestInv(r)
    BY DEF Idle, RequestInv
  <2> QED
    BY <1>1, <1>7, <2>1, <2>2 DEF SyncConfiguration
<1> QED
  BY <1>2, <1>3, <1>4, <1>5, <1>6, <1>7 DEF Arrive

\* The steps of register_watcher_group and update_watcher_group.
LEMMA StoreProceeds ==
  ASSUME Inv, NEW q \in Requests,
         \/ RegisterSelect(q) \/ RegisterUpsert(q)
         \/ UpdateFetch(q) \/ UpdateCompare(q) \/ UpdateSet(q)
  PROVE  Proceeds(q)
<1> DEFINE r == req[q]
<1>0. r \in Request /\ RequestInv(r) /\ clock \in Nat
  BY Known DEF Inv
<1>1. CASE RegisterSelect(q) \/ RegisterUpsert(q)
  <2>1. r.gid \in Gids
    BY Zenon, <1>0, <1>1 DEF RequestInv, RegisterSelect, RegisterUpsert, At
  <2>2. AfterGroup(r) \in Request /\ RequestInv(AfterGroup(r))
    BY <1>0, <2>1, AfterGroupRequest
  <2> DEFINE s == [r EXCEPT !.pc = "upsert"]
  <2>3. s \in Request
    BY <1>0 DEF Request, Pcs
  <2>4. RequestInv(s)
    BY <1>0, <2>1 DEF Request, RequestInv
  <2>5. Becomes(q, AfterGroup(r)) \/ Becomes(q, s)
    BY Zenon, <1>1 DEF RegisterSelect, RegisterUpsert, Becomes
  <2> QED
    BY <2>2, <2>3, <2>4, <2>5 DEF Proceeds
<1>2. CASE UpdateFetch(q)
  <2>1. r.gid \in Gids
    BY <1>0, <1>2 DEF RequestInv, UpdateFetch, At
  <2> DEFINE s == [r EXCEPT !.pc = "compare", !.ts = clock]
             t == [r EXCEPT !.pc = "folder"]
  <2>2. s \in Request /\ t \in Request
    BY Zenon, <1>0 DEF Request, Pcs
  <2>3. RequestInv(s)
    BY <1>0, <2>1 DEF Request, RequestInv
  <2>4. r.data # <<>> => RequestInv(t)
    BY <1>0, <2>1 DEF Request, RequestInv
  <2>5. Finish(q) \/ Becomes(q, s) \/ (r.data # <<>> /\ Becomes(q, t))
    BY <1>2 DEF UpdateFetch, Becomes
  <2> QED
    BY <2>2, <2>3, <2>4, <2>5, FinishProceeds DEF Proceeds
<1>3. CASE UpdateCompare(q) \/ UpdateSet(q)
  <2>1. r.gid \in Gids
    BY Zenon, <1>0, <1>3 DEF RequestInv, UpdateCompare, UpdateSet, At
  <2>2. Stored(r) \in Request /\ RequestInv(Stored(r))
    BY <1>0, <2>1, AfterGroupRequest, SettledRequest DEF Stored
  <2> DEFINE s == [r EXCEPT !.pc = "set"]
  <2>3. s \in Request
    BY <1>0 DEF Request, Pcs
  <2>4. RequestInv(s)
    BY <1>0, <2>1 DEF Request, RequestInv
  <2>5. Becomes(q, Stored(r)) \/ Becomes(q, s)
    BY Zenon, <1>3 DEF UpdateCompare, UpdateSet, Becomes
  <2> QED
    BY <2>2, <2>3, <2>4, <2>5 DEF Proceeds
<1> QED
  BY <1>1, <1>2, <1>3

\* The server id read from the row of a group is the group's own.
LEMMA OwnRow ==
  ASSUME GroupsInv, NEW g, NEW row \in GroupsOf(g)
  PROVE  row.id \in Nat \ {0} /\ Own(row.id, g)
BY DEF GroupsInv, GroupsOf, Own, Group

\* The steps of create_watcher_with_conditions.
LEMMA CreateProceeds ==
  ASSUME Inv, NEW q \in Requests,
         CreateWait(q) \/ CreateSelect(q) \/ CreateInsert(q)
  PROVE  Proceeds(q)
<1> DEFINE r == req[q]
<1>0. r \in Request /\ RequestInv(r) /\ clock \in Nat /\ RequestsInv
  BY Known DEF Inv
<1>1. r.gid \in Gids /\ r.data # <<>>
  BY Zenon, <1>0 DEF RequestInv, CreateWait, CreateSelect, CreateInsert, At
<1>2. \A i \in Nat : Becomes(q, AfterWatcher(r, i)) => Proceeds(q)
  BY <1>0, <1>1, AfterWatcherRequest DEF Proceeds
<1>3. CASE CreateWait(q)
  <2>1. ASSUME NEW row \in GroupsOf(r.gid),
               req' = [req EXCEPT ![q].sid = row.id, ![q].pc = "existing"]
        PROVE  Proceeds(q)
    <3> DEFINE s == [r EXCEPT !.sid = row.id, !.pc = "existing"]
    <3>1. row.id \in Nat /\ Own(row.id, r.gid)
      BY <1>0, OwnRow DEF Inv
    <3>2. s \in Request
      BY Zenon, <1>0, <3>1 DEF Request, Pcs
    <3>3. RequestInv(s)
      BY <1>0, <1>1, <3>1 DEF Request, RequestInv
    <3>4. Becomes(q, s)
      BY Zenon, <1>0, <2>1 DEF Becomes, RequestsInv
    <3> QED
      BY <3>2, <3>3, <3>4 DEF Proceeds
  <2>2. ASSUME r.try + 1 < Attempts, req' = [req EXCEPT ![q].try = @ + 1]
        PROVE  Proceeds(q)
    <3> DEFINE s == [r EXCEPT !.try = @ + 1]
    <3>1. r.try + 1 \in 0 .. Attempts - 1
      BY <1>0, <2>2 DEF Request
    <3>2. s \in Request
      BY <1>0, <3>1 DEF Request
    <3>3. RequestInv(s)
      BY <1>0 DEF Request, RequestInv
    <3>4. Becomes(q, s)
      BY <1>0, <2>2 DEF Becomes, RequestsInv
    <3> QED
      BY <3>2, <3>3, <3>4 DEF Proceeds
  <2> QED
    BY Zenon, <1>0, <1>3, <2>1, <2>2, ErrorProceeds DEF CreateWait
<1>4. CASE CreateSelect(q)
  <2>1. ASSUME NEW row \in watchers, Becomes(q, AfterWatcher(r, row.id))
        PROVE  Proceeds(q)
    BY <1>2, <2>1 DEF Inv, WatchersInv, Watcher
  <2>2. ASSUME Goto(q, "insert")
        PROVE  Proceeds(q)
    <3> DEFINE s == [r EXCEPT !.pc = "insert"]
    <3>1. s \in Request
      BY <1>0 DEF Request, Pcs
    <3>2. RequestInv(s)
      BY <1>0, <1>1, <1>4 DEF Request, RequestInv, CreateSelect, At
    <3>3. Becomes(q, s)
      BY <1>0, <2>2 DEF Goto, Becomes, RequestsInv
    <3> QED
      BY <3>1, <3>2, <3>3 DEF Proceeds
  <2> QED
    BY <1>4, <2>1, <2>2 DEF CreateSelect, WatchersOf, Becomes
<1>5. CASE CreateInsert(q)
  <2>1. \A w \in watchers : w.id \in Nat
    BY DEF Inv, WatchersInv, Watcher
  <2>2. nextWatcher \in Nat
    BY DEF Inv, WatchersInv
  <2>3. \/ Error(q)
        \/ \E w \in watchers : Becomes(q, AfterWatcher(r, w.id))
        \/ Becomes(q, AfterWatcher(r, nextWatcher))
    BY Zenon, <1>5 DEF CreateInsert, WatchersOf, Becomes
  <2> QED
    BY <1>0, <1>2, <2>1, <2>2, <2>3, ErrorProceeds
<1> QED
  BY <1>3, <1>4, <1>5

\* The steps of create_or_get_watcher and save_watcher_conditions.
LEMMA FindProceeds ==
  ASSUME Inv, NEW q \in Requests,
         FindWatcherByFolder(q) \/ SaveWatcherConditions(q)
  PROVE  Proceeds(q)
<1> DEFINE r == req[q]
<1>0. r \in Request /\ RequestInv(r) /\ clock \in Nat /\ RequestsInv
  BY Known DEF Inv
<1>1. r.gid \in Gids /\ r.data # <<>>
  BY Zenon, <1>0 DEF RequestInv, FindWatcherByFolder, SaveWatcherConditions, At
<1>2. \A i \in Nat : Becomes(q, AfterWatcher(r, i)) => Proceeds(q)
  BY <1>0, <1>1, AfterWatcherRequest DEF Proceeds
<1>3. CASE FindWatcherByFolder(q)
  <2>1. ASSUME Becomes(q, ToCreate(r)) PROVE Proceeds(q)
    BY <1>0, <1>1, <2>1, ToCreateRequest DEF Proceeds
  <2>2. ASSUME NEW row \in watchers,
               Becomes(q, [r EXCEPT !.wat = row.id, !.pc = "save_found"]),
               Data(q).conds # {}
        PROVE  Proceeds(q)
    <3> DEFINE s == [r EXCEPT !.wat = row.id, !.pc = "save_found"]
    <3>1. row.id \in Nat
      BY DEF Inv, WatchersInv, Watcher
    <3>2. s \in Request
      BY Zenon, <1>0, <3>1 DEF Request, Pcs
    <3>3. RequestInv(s)
      BY <1>0, <1>1, <2>2 DEF Request, RequestInv, Data
    <3> QED
      BY <2>2, <3>2, <3>3 DEF Proceeds
  <2>3. \A row \in watchers : row.id \in Nat
    BY DEF Inv, WatchersInv, Watcher
  <2> QED
    BY Zenon, <1>2, <1>3, <2>1, <2>2, <2>3 DEF FindWatcherByFolder, Becomes
<1>4. CASE SaveWatcherConditions(q)
  <2> DEFINE s == [r EXCEPT !.pc = "compare", !.ts = clock, !.wat = 0]
  <2>1. s \in Request
    BY Zenon, <1>0 DEF Request, Pcs
  <2>2. RequestInv(s)
    BY <1>0, <1>1 DEF Request, RequestInv
  <2>3. Error(q) \/ Becomes(q, AfterWatcher(r, r.wat)) \/ Becomes(q, s)
    BY <1>4 DEF SaveWatcherConditions, Becomes
  <2>4. r.wat \in Nat
    BY <1>0 DEF Request
  <2> QED
    BY <1>0, <1>2, <2>1, <2>2, <2>3, <2>4, ErrorProceeds DEF Proceeds
<1> QED
  BY <1>3, <1>4

\* The steps of delete_watcher_group and ensure_server_ids_for.
LEMMA DeleteProceeds ==
  ASSUME Inv, NEW q \in Requests,
         \/ DeleteLookup(q) \/ DeleteSelect(q) \/ DeleteCommit(q)
         \/ EnsureSelect(q) \/ EnsureInsert(q)
  PROVE  Proceeds(q)
<1> DEFINE r == req[q]
<1>0. r \in Request /\ RequestInv(r) /\ clock \in Nat /\ RequestsInv
  BY Known DEF Inv
<1>1. r.gid \in Gids
  BY Zenon, <1>0 DEF RequestInv, DeleteLookup, DeleteSelect, DeleteCommit, EnsureSelect,
              EnsureInsert, At
<1>2. Becomes(q, Settled(r, "broadcast")) => Proceeds(q)
  BY <1>0, SettledRequest DEF Proceeds
<1>3. CASE DeleteLookup(q)
  <2> DEFINE s == [r EXCEPT !.pc = "select"]
  <2>1. s \in Request
    BY <1>0 DEF Request, Pcs
  <2>2. RequestInv(s)
    BY <1>0, <1>1, <1>3 DEF Request, RequestInv, DeleteLookup, At
  <2>3. Finish(q) \/ Becomes(q, s)
    BY <1>0, <1>3 DEF DeleteLookup, Goto, Becomes, RequestsInv
  <2> QED
    BY <2>1, <2>2, <2>3, FinishProceeds DEF Proceeds
<1>4. CASE DeleteSelect(q)
  <2>1. ASSUME NEW row \in GroupsOf(r.gid),
               req' = [req EXCEPT ![q].sid = row.id, ![q].pc = "delete"]
        PROVE  Proceeds(q)
    <3> DEFINE s == [r EXCEPT !.sid = row.id, !.pc = "delete"]
    <3>1. row.id \in Nat /\ Own(row.id, r.gid)
      BY OwnRow DEF Inv
    <3>2. s \in Request
      BY Zenon, <1>0, <3>1 DEF Request, Pcs
    <3>3. RequestInv(s)
      BY <1>0, <1>1, <1>4, <3>1 DEF Request, RequestInv, DeleteSelect, At
    <3>4. Becomes(q, s)
      BY Zenon, <1>0, <2>1 DEF Becomes, RequestsInv
    <3> QED
      BY <3>2, <3>3, <3>4 DEF Proceeds
  <2> QED
    BY Zenon, <1>2, <1>4, <2>1 DEF DeleteSelect, Becomes
<1>5. CASE DeleteCommit(q)
  BY <1>2, <1>5 DEF DeleteCommit, Becomes
<1>6. CASE EnsureSelect(q)
  <2> DEFINE s(sid, wat) == [r EXCEPT !.sid = sid, !.wat = wat, !.pc = "map"]
  <2>1. PICK sid \in IF GroupsOf(r.gid) = {} THEN {0}
                     ELSE {row.id : row \in GroupsOf(r.gid)},
             wat \in IF WatchersOf(r.gid, Data(q).wid) = {} THEN {0}
                     ELSE {w.id : w \in WatchersOf(r.gid, Data(q).wid)} :
          Becomes(q, Idle) \/ Becomes(q, s(sid, wat))
    BY Zenon, <1>6 DEF EnsureSelect, Becomes
  <2>2. sid \in Nat /\ (sid = 0 \/ Own(sid, r.gid))
    BY OwnRow DEF Inv
  <2>3. wat \in Nat
    BY DEF Inv, WatchersInv, WatchersOf, Watcher
  <2>4. s(sid, wat) \in Request
    BY Zenon, <1>0, <2>2, <2>3 DEF Request, Pcs
  <2>5. RequestInv(s(sid, wat))
    BY Zenon, <1>0, <1>1, <1>6, <2>2 DEF Request, RequestInv, EnsureSelect, At
  <2> QED
    BY <2>1, <2>4, <2>5, IdleRequest DEF Proceeds
<1>7. CASE EnsureInsert(q)
  BY <1>7, FinishProceeds DEF EnsureInsert
<1> QED
  BY <1>3, <1>4, <1>5, <1>6, <1>7

\* The steps of sync_configuration and get_watcher_groups between groups.
LEMMA LoopProceeds ==
  ASSUME Inv, NEW q \in Requests, SyncGroup(q) \/ ListGroups(q) \/ EachGroup(q)
  PROVE  Proceeds(q)
<1> DEFINE r == req[q]
<1>0. r \in Request /\ RequestInv(r) /\ clock \in Nat /\ RequestsInv
  BY Known DEF Inv
<1>1. CASE SyncGroup(q)
  <2>1. ASSUME NEW g \in r.todo, req' = [req EXCEPT ![q].todo = @ \ {g}]
        PROVE  Proceeds(q)
    <3> DEFINE s == [r EXCEPT !.todo = @ \ {g}]
    <3>1. s \in Request
      BY <1>0 DEF Request
    <3>2. RequestInv(s)
      BY Zenon, <1>0, <1>1 DEF Request, RequestInv, SyncGroup, At
    <3>3. Becomes(q, s)
      BY <1>0, <2>1 DEF Becomes, RequestsInv
    <3> QED
      BY <3>1, <3>2, <3>3 DEF Proceeds
  <2>2. ASSUME NEW g \in r.todo
        PROVE  LET t == [r EXCEPT !.gid = g, !.todo = @ \ {g}, !.ts = clock]
               IN  /\ Becomes(q, [t EXCEPT !.pc = "register"]) => Proceeds(q)
                   /\ Becomes(q, Settled(t, "next")) => Proceeds(q)
                   /\ \A i \in Nat : Becomes(q, [t EXCEPT !.sid = i, !.pc = "compare"])
                                        => Proceeds(q)
    <3> DEFINE t == [r EXCEPT !.gid = g, !.todo = @ \ {g}, !.ts = clock]
    <3>1. t \in Request /\ t.gid = g /\ g \in Gids
      BY Zenon, <1>0 DEF Request
    <3> HIDE DEF t
    <3>2. /\ [t EXCEPT !.pc = "register"] \in Request
          /\ RequestInv([t EXCEPT !.pc = "register"])
      BY <3>1 DEF Request, RequestInv, Pcs
    <3>3. Settled(t, "next") \in Request /\ RequestInv(Settled(t, "next"))
      BY <3>1, SettledRequest
    <3>4. ASSUME NEW i \in Nat, Becomes(q, [t EXCEPT !.sid = i, !.pc = "compare"])
          PROVE  Proceeds(q)
      <4> DEFINE s == [t EXCEPT !.sid = i, !.pc = "compare"]
      <4>1. s \in Request
        BY Zenon, <3>1 DEF Request, Pcs
      <4>2. RequestInv(s)
        BY <3>1 DEF Request, RequestInv
      <4> QED
        BY <3>4, <4>1, <4>2 DEF Proceeds
    <3> QED
      BY Zenon, <3>2, <3>3, <3>4 DEF Proceeds, t
  <2>3. \A g : \A row \in GroupsOf(g) : row.id \in Nat
    BY DEF Inv, GroupsInv, GroupsOf, Group
  <2> QED
    BY Zenon, <1>1, <2>1, <2>2, <2>3, FinishProceeds DEF SyncGroup, Becomes
<1>2. CASE ListGroups(q)
  <2> DEFINE s == [r EXCEPT !.pc = "each", !.todo = {row.gid : row \in groups}]
  <2>1. {row.gid : row \in groups} \in SUBSET Gids
    BY DEF Inv, GroupsInv, Group
  <2>2. s \in Request
    BY Zenon, <1>0, <2>1 DEF Request, Pcs
  <2>3. RequestInv(s)
    BY <1>0, <1>2 DEF Request, RequestInv, ListGroups, At
  <2>4. Becomes(q, s)
    BY Zenon, <1>0, <1>2 DEF ListGroups, Becomes, RequestsInv
  <2> QED
    BY <2>2, <2>3, <2>4 DEF Proceeds
<1>3. CASE EachGroup(q)
  <2>1. ASSUME NEW g \in r.todo,
               req' = [req EXCEPT ![q].gid = g, ![q].todo = @ \ {g}, ![q].pc = "row"]
        PROVE  Proceeds(q)
    <3> DEFINE s == [r EXCEPT !.gid = g, !.todo = @ \ {g}, !.pc = "row"]
    <3>1. s \in Request
      BY Zenon, <1>0 DEF Request, Pcs
    <3>2. RequestInv(s)
      BY Zenon, <1>0, <1>3 DEF Request, RequestInv, EachGroup, At
    <3>3. Becomes(q, s)
      BY Zenon, <1>0, <2>1 DEF Becomes, RequestsInv
    <3> QED
      BY <3>1, <3>2, <3>3 DEF Proceeds
  <2> QED
    BY Zenon, <1>3, <2>1, FinishProceeds DEF EachGroup
<1> QED
  BY <1>1, <1>2, <1>3

\* The steps of get_watcher_group: the watchers it selects by a server id of
\* its own are its own.
LEMMA GetProceeds ==
  ASSUME Inv, NEW q \in Requests, GetRow(q) \/ GetWatchers(q) \/ GetWatcher(q)
  PROVE  Proceeds(q)
<1> DEFINE r == req[q]
<1>0. r \in Request /\ RequestInv(r) /\ RequestsInv
  BY Known DEF Inv
<1>1. r.gid \in Gids
  BY <1>0 DEF RequestInv, GetRow, GetWatchers, GetWatcher, At
<1>2. CASE GetRow(q)
  <2>1. ASSUME NEW row \in GroupsOf(r.gid),
               req' = [req EXCEPT ![q].sid = row.id, ![q].pc = "rows"]
        PROVE  Proceeds(q)
    <3> DEFINE s == [r EXCEPT !.sid = row.id, !.pc = "rows"]
    <3>1. row.id \in Nat /\ Own(row.id, r.gid)
      BY OwnRow DEF Inv
    <3>2. s \in Request
      BY Zenon, <1>0, <3>1 DEF Request, Pcs
    <3>3. RequestInv(s)
      BY <1>0, <1>1, <1>2, <3>1 DEF Request, RequestInv, GetRow, At
    <3>4. Becomes(q, s)
      BY Zenon, <1>0, <2>1 DEF Becomes, RequestsInv
    <3> QED
      BY <3>2, <3>3, <3>4 DEF Proceeds
  <2> QED
    BY Zenon, <1>0, <1>2, <2>1, LeaveProceeds DEF GetRow
<1>3. CASE GetWatchers(q)
  <2> DEFINE own == {w \in watchers : w.group = r.sid}
             ids == {w.id : w \in own}
             s == [r EXCEPT !.pc = "watcher", !.rows = ids]
  <2>1. Own(r.sid, r.gid) /\ r.seen = {}
    BY <1>0, <1>3 DEF RequestInv, GetWatchers, At
  <2>2. \A w \in own : w.local = r.gid
    BY <2>1 DEF Inv, NoOrphans, Own
  <2>3. \A i \in ids : i \in Nat /\ OwnWatcher(i, r.gid)
    BY <2>2 DEF Inv, WatchersInv, Watcher, OwnWatcher
  <2> HIDE DEF ids
  <2>4. s \in Request
    BY Zenon, <1>0, <2>3 DEF Request, Pcs
  <2>5. RequestInv(s)
    BY <1>0, <1>1, <2>1, <2>3 DEF Request, RequestInv
  <2>6. Becomes(q, s)
    BY Zenon, <1>0, <1>3 DEF GetWatchers, Becomes, RequestsInv, ids
  <2> QED
    BY <2>4, <2>5, <2>6 DEF Proceeds
<1>4. CASE GetWatcher(q)
  <2>1. /\ r.pc = "watcher"
        /\ r.seen \subseteq {r.gid}
        /\ \A i \in r.rows : OwnWatcher(i, r.gid)
    BY <1>0, <1>4 DEF RequestInv, GetWatcher, At
  <2>2. ASSUME Goto(q, "answer") PROVE Proceeds(q)
    <3> DEFINE s == [r EXCEPT !.pc = "answer"]
    <3>1. s \in Request
      BY <1>0 DEF Request, Pcs
    <3>2. RequestInv(s)
      BY <1>0, <1>1, <2>1 DEF Request, RequestInv
    <3>3. Becomes(q, s)
      BY <1>0, <2>2 DEF Goto, Becomes, RequestsInv
    <3> QED
      BY <3>1, <3>2, <3>3 DEF Proceeds
  <2>3. ASSUME NEW i \in r.rows, NEW new \in SUBSET {r.gid},
               Becomes(q, [r EXCEPT !.rows = @ \ {i}, !.seen = @ \cup new])
        PROVE  Proceeds(q)
    <3> DEFINE s == [r EXCEPT !.rows = @ \ {i}, !.seen = @ \cup new]
    <3>1. s \in Request
      BY Zenon, <1>0, <1>1 DEF Request
    <3>2. RequestInv(s)
      BY Zenon, <1>0, <1>1, <2>1 DEF Request, RequestInv
    <3> QED
      BY <2>3, <3>1, <3>2 DEF Proceeds
  <2>4. ASSUME NEW i \in r.rows,
               req' = [req EXCEPT ![q].rows = @ \ {i},
                         ![q].seen = @ \cup {w.local : w \in {w \in watchers : w.id = i}}]
        PROVE  Proceeds(q)
    <3> DEFINE new == {w.local : w \in {w \in watchers : w.id = i}}
    <3>1. new \in SUBSET {r.gid}
      BY <2>1, <2>4 DEF OwnWatcher
    <3> HIDE DEF new
    <3>2. Becomes(q, [r EXCEPT !.rows = @ \ {i}, !.seen = @ \cup new])
      BY Zenon, <1>0, <2>4 DEF Becomes, RequestsInv, new
    <3> QED
      BY Zenon, <2>3, <3>1, <3>2
  <2>5. ASSUME NEW i \in r.rows, req' = [req EXCEPT ![q].rows = @ \ {i}]
        PROVE  Proceeds(q)
    <3> DEFINE s == [r EXCEPT !.rows = @ \ {i}]
    <3>1. s \in Request
      BY <1>0 DEF Request
    <3>2. RequestInv(s)
      BY Zenon, <1>0, <1>1, <2>1 DEF Request, RequestInv
    <3>3. Becomes(q, s)
      BY <1>0, <2>5 DEF Becomes, RequestsInv
    <3> QED
      BY <3>1, <3>2, <3>3 DEF Proceeds
  <2> QED
    BY Zenon, <1>4, <2>2, <2>4, <2>5 DEF GetWatcher
<1> QED
  BY <1>2, <1>3, <1>4

\* Every step of a request, failed calls and answers included.
LEMMA ServeProceeds ==
  ASSUME Inv, NEW q \in Requests, Serve(q) \/ StorageError(q)
  PROVE  Proceeds(q) /\ UNCHANGED <<served, clock>>
<1>1. RequestsInv
  BY DEF Inv
<1>2. CASE Answer(q)
  BY <1>1, <1>2, LeaveProceeds DEF Answer
<1>3. CASE StorageError(q)
  BY <1>1, <1>3, FinishProceeds, ErrorProceeds DEF StorageError
<1>4. CASE SyncGroup(q) \/ ListGroups(q) \/ EachGroup(q)
  BY Zenon, <1>4, LoopProceeds DEF SyncGroup, ListGroups, EachGroup
<1>5. CASE GetRow(q) \/ GetWatchers(q) \/ GetWatcher(q)
  BY Zenon, <1>5, GetProceeds DEF GetRow, GetWatchers, GetWatcher
<1>6. CASE \/ DeleteLookup(q) \/ DeleteSelect(q) \/ DeleteCommit(q)
           \/ EnsureSelect(q) \/ EnsureInsert(q)
  BY Zenon, <1>6, DeleteProceeds DEF DeleteLookup, DeleteSelect, DeleteCommit, EnsureSelect,
                              EnsureInsert
<1>7. CASE FindWatcherByFolder(q) \/ SaveWatcherConditions(q)
  BY Zenon, <1>7, FindProceeds DEF FindWatcherByFolder, SaveWatcherConditions
<1>8. CASE CreateWait(q) \/ CreateSelect(q) \/ CreateInsert(q)
  BY Zenon, <1>8, CreateProceeds DEF CreateWait, CreateSelect, CreateInsert
<1>9. CASE \/ RegisterSelect(q) \/ RegisterUpsert(q)
           \/ UpdateFetch(q) \/ UpdateCompare(q) \/ UpdateSet(q)
  BY Zenon, <1>9, StoreProceeds DEF RegisterSelect, RegisterUpsert, UpdateFetch,
                                    UpdateCompare, UpdateSet
<1> QED
  BY <1>2, <1>3, <1>4, <1>5, <1>6, <1>7, <1>8, <1>9 DEF Serve

-----------------------------------------------------------------------------
(***************************************************************************)
(* Steps of the tables.  Six actions write to them.  RowsKept: a row with  *)
(* an id that was assigned before the step stands for what it stood for.   *)
(***************************************************************************)
TableInv == GroupsInv /\ WatchersInv /\ conditions \subseteq Condition /\ NoOrphans

RowsKept ==
  /\ nextGroup' \in Nat /\ nextGroup <= nextGroup'
  /\ nextWatcher' \in Nat /\ nextWatcher <= nextWatcher'
  /\ \A r \in groups' : r.id < nextGroup
       => \E s \in groups : s.id = r.id /\ s.gid = r.gid
  /\ \A w \in watchers' : w.id < nextWatcher
       => \E v \in watchers : v.id = w.id /\ v.local = w.local

\* What a step may do to the tables, seen from the ids.
SameGroups ==
  /\ \A r \in groups : \E s \in groups' : s.id = r.id /\ s.gid = r.gid
  /\ \A s \in groups' : \E r \in groups : s.id = r.id /\ s.gid = r.gid
  /\ nextGroup' = nextGroup

SameWatcher(v, w) ==
  v.id = w.id /\ v.group = w.group /\ v.local = w.local /\ v.wid = w.wid

SameWatchers ==
  /\ \A v \in watchers : \E w \in watchers' : SameWatcher(v, w)
  /\ \A w \in watchers' : \E v \in watchers : SameWatcher(v, w)
  /\ nextWatcher' = nextWatcher

AddsGroup(g) ==
  /\ GroupsOf(g) = {}
  /\ \E u \in Nat : groups' = groups \cup {NewGroup(g, u)}
  /\ nextGroup' = nextGroup + 1

AddsWatcher(g, w) ==
  /\ WatchersOf(g, w) = {}
  /\ \E d \in WatcherData, sid \in Nat, u \in Nat :
       /\ d.wid = w
       /\ watchers' = watchers \cup {NewWatcher(d, sid, g, u)}
       /\ \E r \in groups' : r.id = sid /\ r.gid = g
  /\ nextWatcher' = nextWatcher + 1

Removes(g) ==
  /\ GroupsOf(g) # {}
  /\ groups' = {r \in groups : r.gid # g}
  /\ watchers' = {w \in watchers : w.local # g}
  /\ UNCHANGED <<nextGroup, nextWatcher>>

TableStep ==
  \/ SameGroups /\ SameWatchers
  \/ \E g \in Gids :
       \/ AddsGroup(g) /\ SameWatchers
       \/ \E w \in Wids : SameGroups /\ AddsWatcher(g, w)
       \/ \E w \in Wids : AddsGroup(g) /\ AddsWatcher(g, w)
       \/ Removes(g)

\* A step that writes no table.
LEMMA TablesSame ==
  ASSUME TableInv, UNCHANGED tables
  PROVE  TableInv' /\ RowsKept /\ TableStep
<1>1. TableInv' /\ RowsKept
  BY DEF TableInv, GroupsInv, WatchersInv, NoOrphans, WatcherExists, tables, RowsKept
<1>2. SameGroups /\ SameWatchers
  BY DEF SameGroups, SameWatchers, SameWatcher, tables
<1> QED
  BY <1>1, <1>2 DEF TableStep

\* Groups whose title and time are set keep their ids.
Touch(r, T, t, u) == IF r \in T THEN [r EXCEPT !.title = t, !.upd = u] ELSE r

Touched(T, t, u) ==
  /\ \A s \in groups' : \E r \in groups : s = Touch(r, T, t, u)
  /\ \A r \in groups : Touch(r, T, t, u) \in groups'

\* A row whose title and time are set keeps its type and its ids.
LEMMA TouchedRow ==
  ASSUME NEW r \in Group, NEW T, NEW t \in Gids, NEW u \in Nat
  PROVE  /\ Touch(r, T, t, u) \in Group
         /\ Touch(r, T, t, u).id = r.id
         /\ Touch(r, T, t, u).gid = r.gid
BY Zenon DEF Touch, Group

\* An update of title and time, by client id or by server id.
LEMMA GroupsTouched ==
  ASSUME TableInv, NEW T, NEW t \in Gids, NEW u \in Nat,
         Touched(T, t, u),
         UNCHANGED <<watchers, conditions, nextGroup, nextWatcher>>
  PROVE  TableInv' /\ RowsKept /\ TableStep
<1>1. /\ groups \subseteq Group /\ nextGroup \in Nat \ {0}
      /\ \A r \in groups : r.id \in 1 .. nextGroup - 1
      /\ \A r, s \in groups : r.id = s.id \/ r.gid = s.gid => r = s
  BY DEF TableInv, GroupsInv
<1>2. \A r \in groups' : \E s \in groups :
        r = Touch(s, T, t, u) /\ r \in Group /\ r.id = s.id /\ r.gid = s.gid
  BY <1>1, TouchedRow DEF Touched
<1>3. \A s \in groups : \E r \in groups' : r.id = s.id /\ r.gid = s.gid
  BY <1>1, TouchedRow DEF Touched
<1>4. nextGroup' = nextGroup
  OBVIOUS
<1>5. GroupsInv'
  <2>1. groups' \subseteq Group
    BY <1>2
  <2>2. \A r \in groups' : r.id \in 1 .. nextGroup - 1
    BY <1>1, <1>2
  <2>3. \A r, s \in groups' : r.id = s.id \/ r.gid = s.gid => r = s
    BY <1>1, <1>2
  <2> QED
    BY <1>1, <1>4, <2>1, <2>2, <2>3 DEF GroupsInv
<1>6. NoOrphans'
  <2>1. \A w \in watchers : \E r \in groups' : r.id = w.group /\ r.gid = w.local
    BY <1>3 DEF TableInv, NoOrphans
  <2> QED
    BY <2>1 DEF TableInv, NoOrphans, WatcherExists
<1>7. RowsKept
  <2>1. nextWatcher \in Nat /\ nextWatcher' = nextWatcher /\ watchers' = watchers
    BY DEF TableInv, WatchersInv
  <2> QED
    BY <1>1, <1>2, <1>4, <2>1 DEF RowsKept
<1>8. TableInv'
  BY <1>5, <1>6 DEF TableInv, WatchersInv
<1>9. SameGroups /\ SameWatchers
  BY <1>2, <1>3, <1>4 DEF SameGroups, SameWatchers, SameWatcher
<1> QED
  BY <1>7, <1>8, <1>9 DEF TableStep

\* A group that is not stored is inserted under the next id.
LEMMA GroupInserted ==
  ASSUME TableInv, NEW g \in Gids, NEW u \in Nat, GroupsOf(g) = {},
         groups' = groups \cup {NewGroup(g, u)}, nextGroup' = nextGroup + 1
  PROVE  /\ GroupsInv'
         /\ \A r \in groups : r \in groups'
         /\ \A r \in groups' : r.id < nextGroup => r \in groups
         /\ nextGroup' \in Nat /\ nextGroup <= nextGroup'
<1> DEFINE n == NewGroup(g, u)
<1>1. n \in Group /\ n.id = nextGroup /\ n.gid = g
  BY DEF NewGroup, Group, TableInv, GroupsInv
<1> HIDE DEF n
<1>2. nextGroup \in Nat \ {0} /\ nextGroup' = nextGroup + 1 /\ groups' = groups \cup {n}
  BY DEF TableInv, GroupsInv, n
<1>3. \A r \in groups : r.id \in 1 .. nextGroup - 1 /\ r.gid # g
  BY DEF TableInv, GroupsInv, GroupsOf
<1>4. groups' \subseteq Group
  BY <1>1, <1>2 DEF TableInv, GroupsInv
<1>5. \A r \in groups' : r.id \in 1 .. nextGroup' - 1
  BY <1>1, <1>2, <1>3
<1>6. \A r, s \in groups' : r.id = s.id \/ r.gid = s.gid => r = s
  BY <1>1, <1>2, <1>3 DEF TableInv, GroupsInv
<1> QED
  BY <1>1, <1>2, <1>4, <1>5, <1>6 DEF GroupsInv

\* A watcher that is not stored is inserted under the next id.
LEMMA WatcherInserted ==
  ASSUME TableInv, NEW d \in WatcherData, NEW sid \in Nat, NEW g \in Gids, NEW u \in Nat,
         WatchersOf(g, d.wid) = {},
         watchers' = watchers \cup {NewWatcher(d, sid, g, u)},
         nextWatcher' = nextWatcher + 1
  PROVE  /\ WatchersInv'
         /\ \A w \in watchers' : w.id < nextWatcher => w \in watchers
         /\ \A w \in watchers' : w \in watchers \/ (w.group = sid /\ w.local = g)
         /\ \A w \in watchers : w \in watchers'
         /\ \E w \in watchers' : w.id = nextWatcher
         /\ nextWatcher' \in Nat /\ nextWatcher <= nextWatcher'
<1> DEFINE n == NewWatcher(d, sid, g, u)
<1>1. n \in Watcher /\ n.id = nextWatcher /\ n.local = g /\ n.wid = d.wid /\ n.group = sid
  BY DEF NewWatcher, Watcher, WatcherData, TableInv, WatchersInv
<1> HIDE DEF n
<1>2. /\ nextWatcher \in Nat \ {0} /\ nextWatcher' = nextWatcher + 1
      /\ watchers' = watchers \cup {n}
  BY DEF TableInv, WatchersInv, n
<1>3. \A w \in watchers : w.id \in 1 .. nextWatcher - 1 /\ ~(w.local = g /\ w.wid = d.wid)
  BY DEF TableInv, WatchersInv, WatchersOf
<1>4. watchers' \subseteq Watcher
  BY <1>1, <1>2 DEF TableInv, WatchersInv
<1>5. \A w \in watchers' : w.id \in 1 .. nextWatcher' - 1
  BY <1>1, <1>2, <1>3
<1>6. \A v, w \in watchers' : v.id = w.id \/ (v.local = w.local /\ v.wid = w.wid) => v = w
  BY <1>1, <1>2, <1>3 DEF TableInv, WatchersInv
<1>7. WatchersInv'
  BY <1>2, <1>4, <1>5, <1>6 DEF WatchersInv
<1> QED
  BY <1>1, <1>2, <1>7

\* register_watcher_group updates the stored group or inserts a new one.
LEMMA RegisterTables ==
  ASSUME Inv, NEW q \in Requests, RegisterUpsert(q)
  PROVE  TableInv' /\ RowsKept /\ TableStep
<1> DEFINE g == req[q].gid
           u == req[q].ts
<1>1. TableInv /\ g \in Gids /\ u \in Nat
  BY Zenon, Known DEF Inv, TableInv, RegisterUpsert, At, RequestInv, Request
<1>2. CASE GroupsOf(g) # {}
  <2>1. Touched(GroupsOf(g), g, u)
    <3> DEFINE f(r) == IF r.gid = g THEN [r EXCEPT !.title = g, !.upd = u] ELSE r
    <3>1. groups' = {f(r) : r \in groups}
      BY Zenon, <1>2 DEF RegisterUpsert
    <3>2. \A r \in groups : Touch(r, GroupsOf(g), g, u) = f(r)
      BY DEF Touch, GroupsOf
    <3> HIDE DEF f
    <3> QED
      BY <3>1, <3>2 DEF Touched
  <2>2. UNCHANGED <<watchers, conditions, nextGroup, nextWatcher>>
    BY Zenon, <1>2 DEF RegisterUpsert
  <2> QED
    BY Zenon, <1>1, <2>1, <2>2, GroupsTouched
<1>3. CASE GroupsOf(g) = {}
  <2>1. /\ groups' = groups \cup {NewGroup(g, u)} /\ nextGroup' = nextGroup + 1
        /\ UNCHANGED <<watchers, conditions, nextWatcher>>
    BY <1>3 DEF RegisterUpsert
  <2>2. /\ GroupsInv'
        /\ \A r \in groups : r \in groups'
        /\ \A r \in groups' : r.id < nextGroup => r \in groups
        /\ nextGroup' \in Nat /\ nextGroup <= nextGroup'
    BY Zenon, <1>1, <1>3, <2>1, GroupInserted
  <2>3. TableInv'
    <3>1. \A w \in watchers : \E r \in groups' : r.id = w.group /\ r.gid = w.local
      BY <1>1, <2>2 DEF TableInv, NoOrphans
    <3>2. NoOrphans'
      BY <1>1, <2>1, <3>1 DEF TableInv, NoOrphans, WatcherExists
    <3> QED
      BY <1>1, <2>1, <2>2, <3>2 DEF TableInv, WatchersInv
  <2>4. RowsKept
    BY <1>1, <2>1, <2>2 DEF RowsKept, TableInv, WatchersInv
  <2>5. AddsGroup(g) /\ SameWatchers
    BY <1>1, <1>3, <2>1 DEF AddsGroup, SameWatchers, SameWatcher
  <2> QED
    BY Zenon, <1>1, <2>3, <2>4, <2>5 DEF TableStep
<1> QED
  BY <1>2, <1>3

\* update_watcher_group sets title and time of at most one row.
LEMMA UpdateTables ==
  ASSUME Inv, NEW q \in Requests, UpdateSet(q)
  PROVE  TableInv' /\ RowsKept /\ TableStep
<1> DEFINE T == {r \in groups : r.id = TargetId(q)}
<1>1. TableInv /\ req[q].gid \in Gids /\ req[q].ts \in Nat
  BY Zenon, Known DEF Inv, TableInv, UpdateSet, At, RequestInv, Request
<1>2. Touched(T, req[q].gid, req[q].ts)
  <2> DEFINE f(r) == IF r.id = TargetId(q)
                     THEN [r EXCEPT !.title = req[q].gid, !.upd = req[q].ts] ELSE r
  <2>1. groups' = {f(r) : r \in groups}
    BY Zenon DEF UpdateSet
  <2>2. \A r \in groups : Touch(r, T, req[q].gid, req[q].ts) = f(r)
    BY DEF Touch
  <2> HIDE DEF f
  <2> QED
    BY <2>1, <2>2 DEF Touched
<1>3. UNCHANGED <<watchers, conditions, nextGroup, nextWatcher>>
  BY Zenon DEF UpdateSet
<1> QED
  BY Zenon, <1>1, <1>2, <1>3, GroupsTouched

\* save_watcher_conditions writes conditions of a stored watcher.
LEMMA SaveTables ==
  ASSUME Inv, NEW q \in Requests, SaveWatcherConditions(q)
  PROVE  TableInv' /\ RowsKept /\ TableStep
<1>1. TableInv /\ UNCHANGED <<groups, watchers, nextGroup, nextWatcher>>
  BY DEF Inv, TableInv, SaveWatcherConditions
<1>2. req[q] \in Request /\ req[q].data # <<>>
  BY Known DEF Inv, SaveWatcherConditions, RequestInv
<1>3. req[q].wat \in Nat /\ Data(q).conds \subseteq Conds
  BY Zenon, <1>2, DataOfRequest DEF Request, Data, WatcherData
<1>4. \A c \in conditions' : c \in Condition /\ \E w \in watchers : w.id = c.watcher
  <2>1. \A c \in conditions : c \in Condition /\ \E w \in watchers : w.id = c.watcher
    BY DEF Inv, NoOrphans, WatcherExists
  <2>2. \A c \in Conditions(req[q].wat, Data(q).conds) :
          c \in Condition /\ c.watcher = req[q].wat
    BY <1>3 DEF Conditions, Condition
  <2> QED
    BY <2>1, <2>2 DEF SaveWatcherConditions, WatcherExists
<1>5. TableInv'
  BY <1>1, <1>4 DEF TableInv, GroupsInv, WatchersInv, NoOrphans, WatcherExists
<1>6. RowsKept
  BY <1>1 DEF RowsKept, TableInv, GroupsInv, WatchersInv
<1>7. SameGroups /\ SameWatchers
  BY <1>1 DEF SameGroups, SameWatchers, SameWatcher
<1> QED
  BY <1>5, <1>6, <1>7 DEF TableStep

\* A watcher is written under the id read for its group, which the foreign
\* key finds to be stored; the group of a stored watcher does not change.
LEMMA CreateTables ==
  ASSUME Inv, NEW q \in Requests, CreateInsert(q)
  PROVE  TableInv' /\ RowsKept /\ TableStep
<1> DEFINE r == req[q]
           g == r.gid
           d == Data(q)
<1>1. TableInv /\ UNCHANGED <<groups, nextGroup>>
  BY Zenon DEF Inv, TableInv, CreateInsert
<1>2. r \in Request /\ g \in Gids /\ r.data # <<>> /\ Own(r.sid, g)
  BY Zenon, Known DEF Inv, CreateInsert, At, RequestInv
<1>3. d \in WatcherData /\ r.sid \in Nat /\ r.ts \in Nat
  BY <1>2, DataOfRequest DEF Data, Request
<1>4. \A i \in Nat : \A c \in Conditions(i, d.conds) : c \in Condition /\ c.watcher = i
  BY <1>3 DEF Conditions, Condition, WatcherData
<1>5. \A c \in conditions : c \in Condition /\ \E w \in watchers : w.id = c.watcher
  BY <1>1 DEF TableInv, NoOrphans, WatcherExists
<1>6. CASE UNCHANGED <<watchers, nextWatcher, conditions>>
  BY <1>1, <1>6, TablesSame DEF tables
<1>7. ASSUME GroupExists(r.sid), NEW w \in WatchersOf(g, d.wid), UNCHANGED nextWatcher,
             watchers' = (watchers \ {w}) \cup
               {[w EXCEPT !.group = r.sid, !.folder = d.folder, !.upd = r.ts]},
             conditions' = conditions \cup Conditions(w.id, d.conds)
      PROVE  TableInv' /\ RowsKept /\ TableStep
  <2> DEFINE n == [w EXCEPT !.group = r.sid, !.folder = d.folder, !.upd = r.ts]
  <2>1. w \in watchers /\ w \in Watcher /\ w.local = g /\ w.group = r.sid /\ w.id \in Nat
    BY <1>1, <1>2, <1>7 DEF WatchersOf, TableInv, WatchersInv, NoOrphans, Own, GroupsInv,
                            GroupExists, Watcher
  <2>2. n \in Watcher /\ SameWatcher(n, w)
    BY Zenon, <1>3, <2>1 DEF Watcher, WatcherData, SameWatcher
  <2> HIDE DEF n
  <2>3. watchers' = (watchers \ {w}) \cup {n}
    BY <1>7 DEF n
  <2>4. SameWatchers
    BY <1>7, <2>1, <2>2, <2>3 DEF SameWatchers, SameWatcher
  <2>5. WatchersInv'
    <3>1. watchers' \subseteq Watcher /\ nextWatcher' \in Nat \ {0}
      BY <1>1, <1>7, <2>2, <2>3 DEF TableInv, WatchersInv
    <3>2. \A v \in watchers' : v.id \in 1 .. nextWatcher' - 1
      BY <1>1, <1>7, <2>1, <2>2, <2>3 DEF TableInv, WatchersInv, SameWatcher
    <3>3. \A u, v \in watchers' : u.id = v.id \/ (u.local = v.local /\ u.wid = v.wid)
                                    => u = v
      BY <1>1, <2>1, <2>2, <2>3 DEF TableInv, WatchersInv, SameWatcher
    <3> QED
      BY <3>1, <3>2, <3>3 DEF WatchersInv
  <2>6. NoOrphans' /\ conditions' \subseteq Condition
    <3>1. \A v \in watchers' : \E s \in groups : s.id = v.group /\ s.gid = v.local
      BY <1>1, <2>4 DEF TableInv, NoOrphans, SameWatchers, SameWatcher
    <3>2. \A c \in conditions' : c \in Condition /\ \E v \in watchers : v.id = c.watcher
      BY <1>4, <1>5, <1>7, <2>1
    <3>3. \A c \in conditions' : \E v \in watchers' : v.id = c.watcher
      BY <2>4, <3>2 DEF SameWatchers, SameWatcher
    <3> QED
      BY <1>1, <3>1, <3>2, <3>3 DEF NoOrphans, WatcherExists
  <2>7. RowsKept
    BY <1>1, <1>7, <2>4 DEF RowsKept, TableInv, GroupsInv, WatchersInv, SameWatchers,
                            SameWatcher
  <2>8. SameGroups
    BY <1>1 DEF SameGroups
  <2> QED
    BY <1>1, <2>4, <2>5, <2>6, <2>7, <2>8 DEF TableInv, GroupsInv, TableStep
<1>8. ASSUME GroupExists(r.sid), WatchersOf(g, d.wid) = {},
             watchers' = watchers \cup {NewWatcher(d, r.sid, g, r.ts)},
             nextWatcher' = nextWatcher + 1,
             conditions' = conditions \cup Conditions(nextWatcher, d.conds)
      PROVE  TableInv' /\ RowsKept /\ TableStep
  <2>1. /\ WatchersInv'
        /\ \A w \in watchers' : w.id < nextWatcher => w \in watchers
        /\ \A w \in watchers' : w \in watchers \/ (w.group = r.sid /\ w.local = g)
        /\ \A w \in watchers : w \in watchers'
        /\ \E w \in watchers' : w.id = nextWatcher
        /\ nextWatcher' \in Nat /\ nextWatcher <= nextWatcher'
    BY Zenon, <1>1, <1>2, <1>3, <1>8, WatcherInserted
  <2>2. PICK s \in groups : s.id = r.sid /\ s.gid = g
    BY <1>2, <1>8 DEF GroupExists, Own
  <2>3. \A w \in watchers' : \E t \in groups : t.id = w.group /\ t.gid = w.local
    BY <1>1, <2>1, <2>2 DEF TableInv, NoOrphans
  <2>4. nextWatcher \in Nat
    BY <1>1 DEF TableInv, WatchersInv
  <2>5. \A c \in conditions' : c \in Condition /\ \E w \in watchers' : w.id = c.watcher
    BY <1>4, <1>5, <1>8, <2>1, <2>4
  <2>6. NoOrphans' /\ conditions' \subseteq Condition
    BY <1>1, <2>3, <2>5 DEF NoOrphans, WatcherExists
  <2>7. RowsKept
    BY <1>1, <2>1 DEF RowsKept, TableInv, GroupsInv
  <2>8. AddsWatcher(g, d.wid) /\ SameGroups /\ d.wid \in Wids
    BY <1>1, <1>3, <1>8, <2>2 DEF AddsWatcher, SameGroups, WatcherData
  <2> QED
    BY Zenon, <1>1, <1>2, <2>1, <2>6, <2>7, <2>8 DEF TableInv, GroupsInv, TableStep
<1> QED
  BY Zenon, <1>6, <1>7, <1>8 DEF CreateInsert

\* A deletion takes the group that was looked up, or nothing if it is gone.
LEMMA DeleteTables ==
  ASSUME Inv, NEW q \in Requests, DeleteCommit(q)
  PROVE  TableInv' /\ RowsKept /\ TableStep
<1> DEFINE i == req[q].sid
           g == req[q].gid
<1>1. TableInv /\ UNCHANGED <<nextGroup, nextWatcher>>
  BY DEF Inv, TableInv, DeleteCommit
<1>2. g \in Gids /\ Own(i, g)
  BY Known DEF Inv, DeleteCommit, At, RequestInv
<1>3. /\ groups' = {r \in groups : r.id # i}
      /\ watchers' = {w \in watchers : w.group # i}
      /\ conditions' = {c \in conditions :
                          \A w \in watchers : w.group = i => c.watcher # w.id}
  BY DEF DeleteCommit
<1>4. GroupsInv'
  BY <1>1, <1>3 DEF TableInv, GroupsInv
<1>5. WatchersInv'
  BY <1>1, <1>3 DEF TableInv, WatchersInv
<1>6. NoOrphans' /\ conditions' \subseteq Condition
  <2>1. \A w \in watchers' : \E r \in groups' : r.id = w.group /\ r.gid = w.local
    BY <1>1, <1>3 DEF TableInv, NoOrphans
  <2>2. \A c \in conditions' : \E w \in watchers' : w.id = c.watcher
    BY <1>1, <1>3 DEF TableInv, NoOrphans, WatcherExists
  <2> QED
    BY <1>1, <1>3, <2>1, <2>2 DEF TableInv, NoOrphans, WatcherExists
<1>7. RowsKept
  BY <1>1, <1>3 DEF RowsKept, TableInv, GroupsInv, WatchersInv
<1>8. CASE ~GroupExists(i)
  <2>1. groups' = groups /\ watchers' = watchers
    BY <1>1, <1>3, <1>8 DEF TableInv, NoOrphans, GroupExists
  <2>2. SameGroups /\ SameWatchers
    BY <1>1, <2>1 DEF SameGroups, SameWatchers, SameWatcher
  <2> QED
    BY <1>4, <1>5, <1>6, <1>7, <2>2 DEF TableInv, TableStep
<1>9. CASE GroupExists(i)
  <2>1. PICK s \in groups : s.id = i /\ s.gid = g
    BY <1>2, <1>9 DEF GroupExists, Own
  <2>2. \A r \in groups : r.id = i <=> r.gid = g
    BY <1>1, <2>1 DEF TableInv, GroupsInv
  <2>3. \A w \in watchers : w.group = i <=> w.local = g
    BY <1>1, <2>2 DEF TableInv, NoOrphans
  <2>4. Removes(g)
    BY <1>1, <1>3, <2>1, <2>2, <2>3 DEF Removes, GroupsOf
  <2> QED
    BY Zenon, <1>2, <1>4, <1>5, <1>6, <1>7, <2>4 DEF TableInv, TableStep
<1> QED
  BY <1>8, <1>9

\* An upload inserts the watcher, and the group with it if it read none.
LEMMA EnsureTables ==
  ASSUME Inv, NEW q \in Requests, EnsureInsert(q)
  PROVE  TableInv' /\ RowsKept /\ TableStep
<1> DEFINE r == req[q]
           g == r.gid
           d == Data(q)
<1>1. TableInv /\ UNCHANGED conditions /\ clock \in Nat
  BY Known DEF Inv, TableInv, EnsureInsert
<1>2. r \in Request /\ g \in Gids /\ r.data # <<>> /\ (r.sid = 0 \/ Own(r.sid, g))
  BY Known DEF Inv, EnsureInsert, At, RequestInv
<1>3. d \in WatcherData /\ r.sid \in Nat /\ d.wid \in Wids
  BY Zenon, <1>2, DataOfRequest DEF Data, Request, WatcherData
<1>4. nextGroup \in Nat
  BY <1>1 DEF TableInv, GroupsInv
<1>5. CASE UNCHANGED <<groups, watchers, nextGroup, nextWatcher>>
  BY <1>1, <1>5, TablesSame DEF tables
<1>6. ASSUME NEW sid \in Nat, WatchersOf(g, d.wid) = {},
             watchers' = watchers \cup {NewWatcher(d, sid, g, clock)},
             nextWatcher' = nextWatcher + 1,
             GroupsInv', \A s \in groups : s \in groups',
             \A s \in groups' : s.id < nextGroup => s \in groups,
             nextGroup' \in Nat /\ nextGroup <= nextGroup',
             \E s \in groups' : s.id = sid /\ s.gid = g
      PROVE  TableInv' /\ RowsKept /\ AddsWatcher(g, d.wid)
  <2>1. /\ WatchersInv'
        /\ \A w \in watchers' : w.id < nextWatcher => w \in watchers
        /\ \A w \in watchers' : w \in watchers \/ (w.group = sid /\ w.local = g)
        /\ \A w \in watchers : w \in watchers'
        /\ nextWatcher' \in Nat /\ nextWatcher <= nextWatcher'
    <3>1. WatchersOf(g, d.wid) = {}
      BY <1>6
    <3>2. watchers' = watchers \cup {NewWatcher(d, sid, g, clock)}
      BY <1>6
    <3>3. nextWatcher' = nextWatcher + 1
      BY <1>6
    <3> HIDE DEF d, g
    <3> QED
      BY Zenon, <1>1, <1>2, <1>3, <3>1, <3>2, <3>3, WatcherInserted
  <2>2. \A w \in watchers' : \E t \in groups' : t.id = w.group /\ t.gid = w.local
    BY <1>1, <1>6, <2>1 DEF TableInv, NoOrphans
  <2>3. \A c \in conditions' : \E w \in watchers' : w.id = c.watcher
    BY <1>1, <2>1 DEF TableInv, NoOrphans, WatcherExists
  <2>4. NoOrphans'
    BY <2>2, <2>3 DEF NoOrphans, WatcherExists
  <2>5. RowsKept
    BY <1>6, <2>1 DEF RowsKept
  <2>6. AddsWatcher(g, d.wid)
    BY <1>1, <1>3, <1>6 DEF AddsWatcher
  <2> QED
    BY <1>1, <1>6, <2>1, <2>4, <2>5, <2>6 DEF TableInv
<1>7. ASSUME r.sid = 0, GroupsOf(g) = {}, WatchersOf(g, d.wid) = {},
             groups' = groups \cup {NewGroup(g, clock)}, nextGroup' = nextGroup + 1,
             watchers' = watchers \cup {NewWatcher(d, nextGroup, g, clock)},
             nextWatcher' = nextWatcher + 1
      PROVE  TableInv' /\ RowsKept /\ TableStep
  <2>1. /\ GroupsInv'
        /\ \A s \in groups : s \in groups'
        /\ \A s \in groups' : s.id < nextGroup => s \in groups
        /\ nextGroup' \in Nat /\ nextGroup <= nextGroup'
    BY Zenon, <1>1, <1>2, <1>7, GroupInserted
  <2>2. \E s \in groups' : s.id = nextGroup /\ s.gid = g
    <3>1. NewGroup(g, clock) \in groups'
      BY <1>7
    <3>2. NewGroup(g, clock).id = nextGroup /\ NewGroup(g, clock).gid = g
      BY DEF NewGroup
    <3> QED
      BY <3>1, <3>2
  <2>3. TableInv' /\ RowsKept /\ AddsWatcher(g, d.wid)
    BY <1>4, <1>6, <1>7, <2>1, <2>2
  <2>4. AddsGroup(g)
    BY <1>1, <1>7 DEF AddsGroup
  <2> QED
    BY <1>2, <1>3, <2>3, <2>4 DEF TableStep
<1>8. ASSUME r.sid # 0, GroupExists(r.sid), WatchersOf(g, d.wid) = {},
             groups' = groups, nextGroup' = nextGroup,
             watchers' = watchers \cup {NewWatcher(d, r.sid, g, clock)},
             nextWatcher' = nextWatcher + 1
      PROVE  TableInv' /\ RowsKept /\ TableStep
  <2>1. \E s \in groups' : s.id = r.sid /\ s.gid = g
    BY <1>2, <1>8 DEF GroupExists, Own
  <2>2. GroupsInv'
    BY <1>1, <1>8 DEF TableInv, GroupsInv
  <2>3. TableInv' /\ RowsKept /\ AddsWatcher(g, d.wid)
    <3>1. nextGroup' \in Nat /\ nextGroup <= nextGroup'
      BY <1>4, <1>8
    <3>2. /\ \A s \in groups : s \in groups'
          /\ \A s \in groups' : s.id < nextGroup => s \in groups
      BY <1>8
    <3> HIDE DEF d, g, r
    <3> QED
      BY <1>3, <1>6, <1>8, <2>1, <2>2, <3>1, <3>2, Zenon
  <2>4. SameGroups
    BY <1>8 DEF SameGroups
  <2> QED
    BY <1>2, <1>3, <2>3, <2>4 DEF TableStep
<1> QED
  BY Zenon, <1>5, <1>7, <1>8 DEF EnsureInsert

-----------------------------------------------------------------------------
(***************************************************************************)
(* The invariant.                                                          *)
(***************************************************************************)
\* What a request relies on survives the steps of the others.
LEMMA RequestKept ==
  ASSUME TableInv, RowsKept, NEW r \in Request, RequestInv(r)
  PROVE  RequestInv(r)'
<1>1. nextGroup \in Nat /\ nextWatcher \in Nat
  BY DEF TableInv, GroupsInv, WatchersInv
<1>2. ASSUME NEW i \in Nat, NEW g, Own(i, g) PROVE Own(i, g)'
  <2>1. i < nextGroup /\ i < nextGroup'
    BY <1>1, <1>2 DEF Own, RowsKept
  <2>2. ASSUME NEW s \in groups', s.id = i PROVE s.gid = g
    BY <1>2, <2>1, <2>2 DEF Own, RowsKept
  <2> QED
    BY <2>1, <2>2 DEF Own
<1>3. ASSUME NEW i \in Nat, NEW g, OwnWatcher(i, g) PROVE OwnWatcher(i, g)'
  <2>1. i < nextWatcher /\ i < nextWatcher'
    BY <1>1, <1>3 DEF OwnWatcher, RowsKept
  <2>2. ASSUME NEW w \in watchers', w.id = i PROVE w.local = g
    BY <1>3, <2>1, <2>2 DEF OwnWatcher, RowsKept
  <2> QED
    BY <2>1, <2>2 DEF OwnWatcher
<1>4. r.sid \in Nat /\ r.rows \subseteq Nat
  BY DEF Request
<1> QED
  BY <1>2, <1>3, <1>4 DEF RequestInv

\* One request proceeds; the others keep what they rely on.
LEMMA RequestsStep ==
  ASSUME Inv, RowsKept, NEW q \in Requests, Proceeds(q), served' \in Nat, clock' \in Nat
  PROVE  RequestsInv'
<1>1. PICK r \in Request : RequestInv(r) /\ Becomes(q, r)
  BY DEF Proceeds
<1>2. req \in [Requests -> Request] /\ req' = [req EXCEPT ![q] = r]
  BY <1>1 DEF Inv, RequestsInv, Becomes
<1>3. ASSUME NEW p \in Requests
      PROVE  RequestInv(req[p])'
  <2>1. PICK s \in Request : s = req'[p] /\ RequestInv(s)
    BY <1>1, <1>2 DEF Inv, RequestsInv
  <2>2. RequestInv(s)'
    BY <2>1, RequestKept DEF Inv, TableInv
  <2> QED
    BY <2>1, <2>2 DEF RequestInv
<1> QED
  BY <1>2, <1>3 DEF RequestsInv

\* Requests keep what they rely on when neither they nor the tables change.
LEMMA RequestsSame ==
  ASSUME RequestsInv, req' = req, UNCHANGED tables, served' \in Nat, clock' \in Nat
  PROVE  RequestsInv'
<1>1. groups' = groups /\ watchers' = watchers /\ nextGroup' = nextGroup
      /\ nextWatcher' = nextWatcher
  BY DEF tables
<1>2. ASSUME NEW i, NEW g
      PROVE  (Own(i, g) => Own(i, g)') /\ (OwnWatcher(i, g) => OwnWatcher(i, g)')
  BY <1>1 DEF Own, OwnWatcher
<1>3. ASSUME NEW p \in Requests
      PROVE  RequestInv(req[p])'
  <2>1. RequestInv(req[p]) /\ req'[p] = req[p]
    BY DEF RequestsInv
  <2> QED
    BY <1>2, <2>1 DEF RequestInv
<1> QED
  BY <1>3 DEF RequestsInv

\* Six actions write to the tables.
LEMMA Writers ==
  ASSUME NEW q \in Requests, Serve(q) \/ StorageError(q)
  PROVE  \/ UNCHANGED tables
         \/ RegisterUpsert(q) \/ UpdateSet(q) \/ SaveWatcherConditions(q)
         \/ CreateInsert(q) \/ DeleteCommit(q) \/ EnsureInsert(q)
BY DEF Serve, StorageError, RegisterSelect, CreateWait, CreateSelect, FindWatcherByFolder,
       UpdateFetch, UpdateCompare, DeleteLookup, DeleteSelect, SyncGroup, EnsureSelect,
       ListGroups, EachGroup, GetRow, GetWatchers, GetWatcher, Answer

\* Every step keeps the invariant, and does one of six things to the ids.
LEMMA InvStep ==
  ASSUME Inv, [Next]_vars
  PROVE  Inv' /\ TableStep
<1>1. TableInv /\ served \in Nat /\ clock \in Nat
  BY DEF Inv, TableInv, RequestsInv
<1>2. CASE UNCHANGED vars
  <2>1. TableInv' /\ TableStep
    BY <1>1, <1>2, TablesSame DEF vars, tables
  <2>2. RequestsInv'
    BY <1>1, <1>2, RequestsSame DEF Inv, vars, tables
  <2> QED
    BY <2>1, <2>2 DEF Inv, TableInv
<1>3. CASE Tick
  <2>1. TableInv' /\ TableStep
    BY <1>1, <1>3, TablesSame DEF Tick
  <2>2. RequestsInv'
    BY <1>1, <1>3, RequestsSame DEF Inv, Tick
  <2> QED
    BY <2>1, <2>2 DEF Inv, TableInv
<1>4. ASSUME NEW q \in Requests, TableInv', RowsKept, TableStep, Proceeds(q),
             served' \in Nat, clock' \in Nat
      PROVE  Inv' /\ TableStep
  BY <1>4, RequestsStep DEF Inv, TableInv
<1>5. ASSUME NEW q \in Requests, Arrive(q)
      PROVE  Inv' /\ TableStep
  <2>1. Proceeds(q) /\ served' \in Nat /\ clock' \in Nat /\ UNCHANGED tables
    BY <1>1, <1>5, ArriveProceeds
  <2> QED
    BY <1>1, <1>4, <2>1, TablesSame
<1>6. ASSUME NEW q \in Requests, Serve(q) \/ StorageError(q)
      PROVE  Inv' /\ TableStep
  <2>1. Proceeds(q) /\ served' \in Nat /\ clock' \in Nat
    BY <1>1, <1>6, ServeProceeds
  <2>2. \/ UNCHANGED tables
        \/ RegisterUpsert(q) \/ UpdateSet(q) \/ SaveWatcherConditions(q)
        \/ CreateInsert(q) \/ DeleteCommit(q) \/ EnsureInsert(q)
    BY <1>6, Writers
  <2>3. TableInv' /\ RowsKept /\ TableStep
    BY <1>1, <2>2, TablesSame, RegisterTables, UpdateTables, SaveTables, CreateTables,
       DeleteTables, EnsureTables
  <2> QED
    BY <1>4, <2>1, <2>3
<1> QED
  BY <1>2, <1>3, <1>5, <1>6 DEF Next

\* No rows and no requests.
LEMMA InvInit == Init => Inv
<1> SUFFICES ASSUME Init PROVE Inv
  OBVIOUS
<1>1. GroupsInv /\ WatchersInv
  BY DEF Init, GroupsInv, WatchersInv
<1>2. NoOrphans /\ conditions \subseteq Condition
  BY DEF Init, NoOrphans
<1>3. RequestsInv
  BY IdleRequest DEF Init, RequestsInv
<1> QED
  BY <1>1, <1>2, <1>3 DEF Inv

\* The invariant holds in every state the server reaches.
LEMMA InvAlways == Spec => []Inv
BY InvInit, InvStep, PTL DEF Spec

\* Tables and requests of watcher_handler.rs and mysql_watcher.rs keep their
\* types, for any groups, watchers, folders and requests.
THEOREM TypeCorrect == Spec => []TypeOK
<1>1. Inv => TypeOK
  BY DEF Inv, GroupsInv, WatchersInv, RequestsInv, TypeOK
<1> QED
  BY <1>1, InvAlways, PTL

\* Whatever deletes, registrations and uploads run between the statements of
\* a request, a watcher is stored under the server id of its own group and a
\* condition under a stored watcher.
THEOREM OrphansNever == Spec => []NoOrphans
<1>1. Inv => NoOrphans
  BY DEF Inv
<1> QED
  BY <1>1, InvAlways, PTL

\* get_watcher_group answers with watchers of the group it was asked for, and
\* so does get_watcher_groups for each of its groups.
THEOREM AnswersAreOwn == Spec => []AnswersOwnWatchers
<1>1. Inv => AnswersOwnWatchers
  BY DEF Inv, RequestsInv, RequestInv, AnswersOwnWatchers, At
<1> QED
  BY <1>1, InvAlways, PTL

\* Conditions go away only by a message that brings others or by the deletion
\* of their group: the guards in create_or_get_watcher and
\* update_watcher_group hold until save_watcher_conditions runs.
THEOREM EmptyMessagesHarmless == Spec => EmptyMessagesKeepConditions
<1> DEFINE Justified ==
      \A c \in conditions \ conditions' : \E q \in Requests :
        /\ req'[q] # req[q]
        /\ \/ req[q].op = "delete"
           \/ req[q].data # <<>> /\ Data(q).conds # {}
<1>1. ASSUME Inv, NEW q \in Requests, SaveWatcherConditions(q)
      PROVE  Justified
  <2> DEFINE r == req[q]
  <2>1. r \in Request /\ r.pc \in {"save_found", "save"} /\ DOMAIN req = Requests
    BY <1>1, Known DEF Inv, SaveWatcherConditions
  <2>2. r.data # <<>> /\ Data(q).conds # {}
    BY <1>1, <2>1, Known DEF Inv, RequestInv, Data
  <2>3. CASE UNCHANGED conditions
    BY <2>3
  <2>4. CASE /\ r.pc = "save_found"
             /\ req' = [req EXCEPT ![q] = AfterWatcher(r, r.wat)]
    <3>1. AfterWatcher(r, r.wat).pc # "save_found"
      BY <2>1 DEF AfterWatcher, Settled, Idle, Request
    <3>2. req'[q] # r
      BY <2>1, <2>4, <3>1
    <3> QED
      BY <2>2, <3>2
  <2>5. CASE /\ r.pc = "save"
             /\ req' = [req EXCEPT ![q] = [r EXCEPT !.pc = "compare", !.ts = clock, !.wat = 0]]
    <3>1. req'[q].pc = "compare"
      BY <2>1, <2>5 DEF Request
    <3> QED
      BY <2>2, <2>5, <3>1
  <2> QED
    BY <1>1, <2>1, <2>3, <2>4, <2>5 DEF SaveWatcherConditions
<1>2. ASSUME Inv, NEW q \in Requests, DeleteCommit(q)
      PROVE  Justified
  <2>1. req[q].pc = "delete" /\ req[q].op = "delete" /\ DOMAIN req = Requests
    BY <1>2, Known DEF Inv, RequestInv, DeleteCommit, At
  <2>2. req'[q].pc = "broadcast"
    BY <1>2, <2>1 DEF DeleteCommit, Settled, Idle
  <2> QED
    BY <2>1, <2>2
<1>3. ASSUME Inv, [Next]_vars
      PROVE  [Justified]_vars
  <2>1. \/ conditions \subseteq conditions'
        \/ \E q \in Requests : SaveWatcherConditions(q) \/ DeleteCommit(q)
    <3>1. CASE UNCHANGED vars \/ Tick
      BY <3>1 DEF vars, Tick, tables
    <3>2. ASSUME NEW q \in Requests, Arrive(q) PROVE UNCHANGED conditions
      BY <1>3, <3>2, ArriveProceeds DEF tables
    <3>3. ASSUME NEW q \in Requests, Serve(q) \/ StorageError(q),
                 ~SaveWatcherConditions(q), ~DeleteCommit(q)
          PROVE  conditions \subseteq conditions'
      BY <3>3, Writers DEF tables, RegisterUpsert, UpdateSet, CreateInsert, EnsureInsert
    <3> QED
      BY <1>3, <3>1, <3>2, <3>3 DEF Next
  <2> QED
    BY <1>1, <1>2, <1>3, <2>1
<1> QED
  BY <1>3, InvAlways, PTL DEF Spec, EmptyMessagesKeepConditions

-----------------------------------------------------------------------------
(***************************************************************************)
(* The mapping.  First what inserting, rewriting and deleting rows does to *)
(* it, as a function of the rows; then each TableStep is taken to a step   *)
(* of IdMap.                                                               *)
(***************************************************************************)
KeyOf(w) == <<w.local, w.wid>>
IdsOf(w) == [group |-> w.group, id |-> w.id]

GroupMap(G) == [g \in {r.gid : r \in G} |-> (CHOOSE r \in G : r.gid = g).id]
WatcherMap(W) ==
  [p \in {KeyOf(w) : w \in W} |-> IdsOf(CHOOSE w \in W : KeyOf(w) = p)]

GroupKeys(G) == \A r, s \in G : r.id = s.id \/ r.gid = s.gid => r = s
WatcherKeys(W) == \A v, w \in W : v.id = w.id \/ KeyOf(v) = KeyOf(w) => v = w

\* Function f has the ids of every group in G, and of no other.
MapsGroups(f, G) ==
  /\ \A r \in G : r.gid \in DOMAIN f /\ f[r.gid] = r.id
  /\ \A g \in DOMAIN f : \E r \in G : r.gid = g

MapsWatchers(f, W) ==
  /\ \A w \in W : KeyOf(w) \in DOMAIN f /\ f[KeyOf(w)] = IdsOf(w)
  /\ \A p \in DOMAIN f : \E w \in W : KeyOf(w) = p

\* With the unique keys there is one such function, the mapping.
LEMMA GroupMapping ==
  ASSUME NEW G, GroupKeys(G)
  PROVE  MapsGroups(GroupMap(G), G)
<1>1. ASSUME NEW r \in G
      PROVE  (CHOOSE s \in G : s.gid = r.gid) = r
  BY <1>1 DEF GroupKeys
<1> QED
  BY <1>1 DEF GroupMap, MapsGroups

\* The same for watchers, keyed by client group and client id.
LEMMA WatcherMapping ==
  ASSUME NEW W, WatcherKeys(W)
  PROVE  MapsWatchers(WatcherMap(W), W)
<1>1. ASSUME NEW w \in W
      PROVE  (CHOOSE v \in W : KeyOf(v) = KeyOf(w)) = w
  BY <1>1 DEF WatcherKeys
<1> QED
  BY <1>1 DEF WatcherMap, MapsWatchers

\* A function that has the ids of the groups in G is the mapping of G.
LEMMA GroupMapIs ==
  ASSUME NEW G, GroupKeys(G), NEW f, f = [g \in DOMAIN f |-> f[g]], MapsGroups(f, G)
  PROVE  f = GroupMap(G)
<1> DEFINE m == GroupMap(G)
<1>1. MapsGroups(m, G)
  BY GroupMapping
<1>2. m = [g \in DOMAIN m |-> m[g]]
  BY DEF GroupMap
<1> HIDE DEF m
<1>3. DOMAIN m = DOMAIN f
  <2>1. \A g \in DOMAIN m : g \in DOMAIN f
    BY <1>1 DEF MapsGroups
  <2>2. \A g \in DOMAIN f : g \in DOMAIN m
    BY <1>1 DEF MapsGroups
  <2> QED
    BY <2>1, <2>2
<1>4. \A g \in DOMAIN f : f[g] = m[g]
  BY <1>1 DEF MapsGroups
<1> QED
  BY <1>2, <1>3, <1>4 DEF m

\* A function that has the ids of the watchers in W is the mapping of W.
LEMMA WatcherMapIs ==
  ASSUME NEW W, WatcherKeys(W), NEW f, f = [p \in DOMAIN f |-> f[p]], MapsWatchers(f, W)
  PROVE  f = WatcherMap(W)
<1> DEFINE m == WatcherMap(W)
<1>1. MapsWatchers(m, W)
  BY WatcherMapping
<1>2. m = [p \in DOMAIN m |-> m[p]]
  BY DEF WatcherMap
<1> HIDE DEF m
<1>3. DOMAIN m = DOMAIN f
  <2>1. \A p \in DOMAIN m : p \in DOMAIN f
    BY <1>1 DEF MapsWatchers
  <2>2. \A p \in DOMAIN f : p \in DOMAIN m
    BY <1>1 DEF MapsWatchers
  <2> QED
    BY <2>1, <2>2
<1>4. \A p \in DOMAIN f : f[p] = m[p]
  BY <1>1 DEF MapsWatchers
<1> QED
  BY <1>2, <1>3, <1>4 DEF m

\* Rewriting rows without changing their ids leaves the mapping alone.
LEMMA SameGroupMap ==
  ASSUME NEW G, NEW H, GroupKeys(G), GroupKeys(H),
         \A r \in G : \E s \in H : s.id = r.id /\ s.gid = r.gid,
         \A s \in H : \E r \in G : s.id = r.id /\ s.gid = r.gid
  PROVE  GroupMap(G) = GroupMap(H)
<1>1. MapsGroups(GroupMap(G), G)
  BY GroupMapping
<1>2. MapsGroups(GroupMap(G), H)
  BY <1>1 DEF MapsGroups
<1>3. GroupMap(G) = [g \in DOMAIN GroupMap(G) |-> GroupMap(G)[g]]
  BY DEF GroupMap
<1> QED
  BY <1>2, <1>3, GroupMapIs

\* The same for watchers: an upsert of a stored watcher moves no id.
LEMMA SameWatcherMap ==
  ASSUME NEW V, NEW W, WatcherKeys(V), WatcherKeys(W),
         \A v \in V : \E w \in W : KeyOf(w) = KeyOf(v) /\ IdsOf(w) = IdsOf(v),
         \A w \in W : \E v \in V : KeyOf(w) = KeyOf(v) /\ IdsOf(w) = IdsOf(v)
  PROVE  WatcherMap(V) = WatcherMap(W)
<1>1. MapsWatchers(WatcherMap(V), V)
  BY WatcherMapping
<1>2. MapsWatchers(WatcherMap(V), W)
  BY <1>1 DEF MapsWatchers
<1>3. WatcherMap(V) = [p \in DOMAIN WatcherMap(V) |-> WatcherMap(V)[p]]
  BY DEF WatcherMap
<1> QED
  BY <1>2, <1>3, WatcherMapIs

\* Inserting a row extends the mapping.
LEMMA NewGroupMap ==
  ASSUME NEW G, NEW r, GroupKeys(G), GroupKeys(G \cup {r}), \A s \in G : s.gid # r.gid
  PROVE  /\ r.gid \notin DOMAIN GroupMap(G)
         /\ Ids!Extend(GroupMap(G), r.gid, r.id) = GroupMap(G \cup {r})
<1> DEFINE m == GroupMap(G)
           e == Ids!Extend(m, r.gid, r.id)
<1>1. MapsGroups(m, G)
  BY GroupMapping
<1> HIDE DEF m
<1>2. /\ e = [g \in DOMAIN e |-> e[g]]
      /\ DOMAIN e = DOMAIN m \cup {r.gid}
      /\ e[r.gid] = r.id
      /\ \A g \in DOMAIN m : g # r.gid => e[g] = m[g]
  BY DEF Ids!Extend
<1> HIDE DEF e
<1>3. MapsGroups(e, G \cup {r})
  BY <1>1, <1>2 DEF MapsGroups
<1>4. e = GroupMap(G \cup {r})
  BY <1>2, <1>3, GroupMapIs
<1> QED
  BY <1>1, <1>4 DEF MapsGroups, m, e

\* The same for a watcher.
LEMMA NewWatcherMap ==
  ASSUME NEW W, NEW w, WatcherKeys(W), WatcherKeys(W \cup {w}),
         \A v \in W : KeyOf(v) # KeyOf(w)
  PROVE  /\ KeyOf(w) \notin DOMAIN WatcherMap(W)
         /\ Ids!Extend(WatcherMap(W), KeyOf(w), IdsOf(w)) = WatcherMap(W \cup {w})
<1> DEFINE m == WatcherMap(W)
           e == Ids!Extend(m, KeyOf(w), IdsOf(w))
<1>1. MapsWatchers(m, W)
  BY WatcherMapping
<1> HIDE DEF m
<1>2. /\ e = [p \in DOMAIN e |-> e[p]]
      /\ DOMAIN e = DOMAIN m \cup {KeyOf(w)}
      /\ e[KeyOf(w)] = IdsOf(w)
      /\ \A p \in DOMAIN m : p # KeyOf(w) => e[p] = m[p]
  BY DEF Ids!Extend
<1> HIDE DEF e
<1>3. MapsWatchers(e, W \cup {w})
  BY <1>1, <1>2 DEF MapsWatchers
<1>4. e = WatcherMap(W \cup {w})
  BY <1>2, <1>3, WatcherMapIs
<1> QED
  BY <1>1, <1>4 DEF MapsWatchers, m, e

\* Deleting the rows of a group restricts both mappings.
LEMMA LessGroupMap ==
  ASSUME NEW G, NEW g, GroupKeys(G)
  PROVE  [h \in DOMAIN GroupMap(G) \ {g} |-> GroupMap(G)[h]]
           = GroupMap({r \in G : r.gid # g})
<1> DEFINE m == GroupMap(G)
           H == {r \in G : r.gid # g}
           e == [h \in DOMAIN m \ {g} |-> m[h]]
<1>1. MapsGroups(m, G)
  BY GroupMapping
<1> HIDE DEF m
<1>2. /\ e = [h \in DOMAIN e |-> e[h]]
      /\ DOMAIN e = DOMAIN m \ {g}
      /\ \A h \in DOMAIN e : e[h] = m[h]
  OBVIOUS
<1> HIDE DEF e
<1>3. MapsGroups(e, H)
  BY <1>1, <1>2 DEF MapsGroups
<1>4. GroupKeys(H)
  BY DEF GroupKeys
<1>5. e = GroupMap(H)
  BY <1>2, <1>3, <1>4, GroupMapIs
<1> QED
  BY <1>5 DEF m, e

Without(f, g) == [p \in {p \in DOMAIN f : p[1] # g} |-> f[p]]

\* The same for the watchers of a deleted group.
LEMMA LessWatcherMap ==
  ASSUME NEW W, NEW g, WatcherKeys(W)
  PROVE  Without(WatcherMap(W), g) = WatcherMap({w \in W : w.local # g})
<1> DEFINE m == WatcherMap(W)
           X == {w \in W : w.local # g}
           e == Without(m, g)
<1>1. MapsWatchers(m, W)
  BY WatcherMapping
<1> HIDE DEF m
<1>2. /\ e = [p \in DOMAIN e |-> e[p]]
      /\ DOMAIN e = {p \in DOMAIN m : p[1] # g}
      /\ \A p \in DOMAIN e : e[p] = m[p]
  BY DEF Without
<1> HIDE DEF e
<1>3. \A w \in W : KeyOf(w)[1] = w.local
  BY DEF KeyOf
<1>4. MapsWatchers(e, X)
  BY <1>1, <1>2, <1>3 DEF MapsWatchers
<1>5. WatcherKeys(X)
  BY DEF WatcherKeys
<1>6. e = WatcherMap(X)
  BY <1>2, <1>4, <1>5, WatcherMapIs
<1> QED
  BY <1>6 DEF m, e

-----------------------------------------------------------------------------
\* The refinement mapping of Watchers, in terms of the two functions.
LEMMA Mapping ==
  /\ Ids!vars = <<GroupMap(groups), WatcherMap(watchers),
                  1 .. nextGroup - 1, 1 .. nextWatcher - 1>>
  /\ Ids!Init <=> /\ GroupMap(groups) = <<>> /\ WatcherMap(watchers) = <<>>
                  /\ 1 .. nextGroup - 1 = {} /\ 1 .. nextWatcher - 1 = {}
BY DEF Ids!vars, Ids!Init, GroupMap, WatcherMap, KeyOf, IdsOf

\* The invariant has the unique keys of watcher_groups and watchers.
LEMMA Keys ==
  ASSUME Inv
  PROVE  GroupKeys(groups) /\ WatcherKeys(watchers)
BY DEF Inv, GroupsInv, WatchersInv, GroupKeys, WatcherKeys, KeyOf

\* The same in the next state.
LEMMA KeysNext ==
  ASSUME Inv'
  PROVE  GroupKeys(groups') /\ WatcherKeys(watchers')
BY DEF Inv, GroupsInv, WatchersInv, GroupKeys, WatcherKeys, KeyOf

\* A step that rewrites groups leaves the mapping of groups alone.
LEMMA GroupsStay ==
  ASSUME Inv, Inv', SameGroups
  PROVE  GroupMap(groups') = GroupMap(groups) /\ nextGroup' = nextGroup
BY Keys, KeysNext, SameGroupMap DEF SameGroups

\* A step that rewrites watchers leaves the mapping of watchers alone.
LEMMA WatchersStay ==
  ASSUME Inv, Inv', SameWatchers
  PROVE  WatcherMap(watchers') = WatcherMap(watchers) /\ nextWatcher' = nextWatcher
<1>1. \A v, w : SameWatcher(v, w) => KeyOf(v) = KeyOf(w) /\ IdsOf(v) = IdsOf(w)
  BY DEF SameWatcher, KeyOf, IdsOf
<1> QED
  BY <1>1, Keys, KeysNext, SameWatcherMap DEF SameWatchers

\* AUTO_INCREMENT: the next id has not been used.
LEMMA NextId ==
  ASSUME NEW n \in Nat \ {0}
  PROVE  n \in Nat \ (1 .. n - 1) /\ 1 .. (n + 1) - 1 = (1 .. n - 1) \cup {n}
OBVIOUS

\* An insert into watcher_groups is a MapGroup of IdMap.
LEMMA GroupsGrow ==
  ASSUME Inv, Inv', NEW g \in Gids, AddsGroup(g)
  PROVE  /\ g \notin DOMAIN GroupMap(groups)
         /\ g \in DOMAIN GroupMap(groups')
         /\ GroupMap(groups')[g] = nextGroup
         /\ GroupMap(groups') = Ids!Extend(GroupMap(groups), g, nextGroup)
         /\ nextGroup \in Nat \ (1 .. nextGroup - 1)
         /\ 1 .. nextGroup' - 1 = (1 .. nextGroup - 1) \cup {nextGroup}
<1>1. PICK u \in Nat : groups' = groups \cup {NewGroup(g, u)}
  BY DEF AddsGroup
<1> DEFINE r == NewGroup(g, u)
<1>2. r.gid = g /\ r.id = nextGroup
  BY DEF NewGroup
<1> HIDE DEF r
<1>3. groups' = groups \cup {r} /\ \A s \in groups : s.gid # r.gid
  BY <1>1, <1>2 DEF r, AddsGroup, GroupsOf
<1>4. /\ r.gid \notin DOMAIN GroupMap(groups)
      /\ GroupMap(groups') = Ids!Extend(GroupMap(groups), r.gid, r.id)
  BY <1>3, Keys, KeysNext, NewGroupMap
<1>5. MapsGroups(GroupMap(groups'), groups') /\ r \in groups'
  BY <1>3, KeysNext, GroupMapping
<1>6. nextGroup \in Nat \ {0} /\ nextGroup' = nextGroup + 1
  BY DEF AddsGroup, Inv, GroupsInv
<1> QED
  BY <1>2, <1>4, <1>5, <1>6, NextId DEF MapsGroups

\* An insert into watchers is a MapWatcher of IdMap, under its group's id.
LEMMA WatchersGrow ==
  ASSUME Inv, Inv', NEW g \in Gids, NEW w \in Wids, AddsWatcher(g, w)
  PROVE  /\ g \in DOMAIN GroupMap(groups')
         /\ <<g, w>> \notin DOMAIN WatcherMap(watchers)
         /\ <<g, w>> \in DOMAIN WatcherMap(watchers')
         /\ WatcherMap(watchers')[<<g, w>>].id = nextWatcher
         /\ WatcherMap(watchers') = Ids!Extend(WatcherMap(watchers), <<g, w>>,
              [group |-> GroupMap(groups')[g], id |-> nextWatcher])
         /\ nextWatcher \in Nat \ (1 .. nextWatcher - 1)
         /\ 1 .. nextWatcher' - 1 = (1 .. nextWatcher - 1) \cup {nextWatcher}
<1>1. PICK d \in WatcherData, sid \in Nat, u \in Nat :
        /\ d.wid = w
        /\ watchers' = watchers \cup {NewWatcher(d, sid, g, u)}
        /\ \E r \in groups' : r.id = sid /\ r.gid = g
  BY DEF AddsWatcher
<1>2. g \in DOMAIN GroupMap(groups') /\ GroupMap(groups')[g] = sid
  <2>1. MapsGroups(GroupMap(groups'), groups')
    BY KeysNext, GroupMapping
  <2> QED
    BY <1>1, <2>1 DEF MapsGroups
<1> DEFINE n == NewWatcher(d, sid, g, u)
<1>3. KeyOf(n) = <<g, w>> /\ IdsOf(n) = [group |-> sid, id |-> nextWatcher]
  BY <1>1 DEF KeyOf, IdsOf, NewWatcher
<1>4. \A v \in watchers : KeyOf(v) # <<g, w>>
  BY DEF AddsWatcher, WatchersOf, KeyOf
<1> HIDE DEF n
<1>5. watchers' = watchers \cup {n}
  BY <1>1 DEF n
<1>6. /\ KeyOf(n) \notin DOMAIN WatcherMap(watchers)
      /\ Ids!Extend(WatcherMap(watchers), KeyOf(n), IdsOf(n)) = WatcherMap(watchers')
  BY <1>3, <1>4, <1>5, Keys, KeysNext, NewWatcherMap
<1>7. MapsWatchers(WatcherMap(watchers'), watchers') /\ n \in watchers'
  BY <1>5, KeysNext, WatcherMapping
<1>8. /\ KeyOf(n) \in DOMAIN WatcherMap(watchers')
      /\ WatcherMap(watchers')[KeyOf(n)] = IdsOf(n)
  BY <1>7 DEF MapsWatchers
<1>9. nextWatcher \in Nat \ {0} /\ nextWatcher' = nextWatcher + 1
  BY DEF AddsWatcher, Inv, WatchersInv
<1>10. /\ nextWatcher \in Nat \ (1 .. nextWatcher - 1)
       /\ 1 .. nextWatcher' - 1 = (1 .. nextWatcher - 1) \cup {nextWatcher}
  BY <1>9, NextId
<1>11. /\ <<g, w>> \in DOMAIN WatcherMap(watchers')
       /\ WatcherMap(watchers')[<<g, w>>].id = nextWatcher
  BY <1>3, <1>8
<1>12. /\ <<g, w>> \notin DOMAIN WatcherMap(watchers)
       /\ WatcherMap(watchers') = Ids!Extend(WatcherMap(watchers), <<g, w>>,
            [group |-> GroupMap(groups')[g], id |-> nextWatcher])
  BY <1>2, <1>3, <1>6
<1> QED
  BY <1>2, <1>10, <1>11, <1>12

\* delete_watcher_group is an Unmap of IdMap.
LEMMA GroupLeaves ==
  ASSUME Inv, NEW g \in Gids, Removes(g)
  PROVE  /\ g \in DOMAIN GroupMap(groups)
         /\ GroupMap(groups') =
              [h \in DOMAIN GroupMap(groups) \ {g} |-> GroupMap(groups)[h]]
         /\ WatcherMap(watchers') = Without(WatcherMap(watchers), g)
         /\ UNCHANGED <<nextGroup, nextWatcher>>
<1>1. MapsGroups(GroupMap(groups), groups)
  BY Keys, GroupMapping
<1>2. g \in DOMAIN GroupMap(groups)
  BY <1>1 DEF MapsGroups, Removes, GroupsOf
<1>3. [h \in DOMAIN GroupMap(groups) \ {g} |-> GroupMap(groups)[h]] =
        GroupMap({r \in groups : r.gid # g})
  BY Keys, LessGroupMap, Zenon
<1>4. Without(WatcherMap(watchers), g) = WatcherMap({w \in watchers : w.local # g})
  BY Keys, LessWatcherMap, Zenon
<1> QED
  BY <1>2, <1>3, <1>4 DEF Removes

\* Every step of a request maps, keeps or removes ids the way IdMap allows.
LEMMA IdsStep ==
  ASSUME Inv, Inv', TableStep
  PROVE  [Ids!Next]_(Ids!vars)
<1>1. CASE SameGroups /\ SameWatchers
  <2>1. UNCHANGED <<GroupMap(groups), WatcherMap(watchers),
                    1 .. nextGroup - 1, 1 .. nextWatcher - 1>>
    BY <1>1, GroupsStay, WatchersStay
  <2> QED
    BY <2>1 DEF Ids!vars, GroupMap, WatcherMap, KeyOf, IdsOf
<1>2. ASSUME NEW g \in Gids, AddsGroup(g)
      PROVE  Ids!MapGroup(g)
  <2> DEFINE m == GroupMap(groups)
             n == GroupMap(groups')
  <2>1. /\ g \notin DOMAIN m /\ g \in DOMAIN n
        /\ n[g] \in Nat \ (1 .. nextGroup - 1)
        /\ n = Ids!Extend(m, g, n[g])
        /\ 1 .. nextGroup' - 1 = (1 .. nextGroup - 1) \cup {n[g]}
    BY <1>2, GroupsGrow
  <2> QED
    BY <2>1 DEF Ids!MapGroup, GroupMap
<1>3. ASSUME NEW g \in Gids, NEW w \in Wids, AddsWatcher(g, w)
      PROVE  Ids!MapWatcher(g, w)
  <2> DEFINE m == WatcherMap(watchers)
             n == WatcherMap(watchers')
             i == n[<<g, w>>].id
  <2>1. /\ g \in DOMAIN GroupMap(groups')
        /\ <<g, w>> \notin DOMAIN m /\ <<g, w>> \in DOMAIN n
        /\ i \in Nat \ (1 .. nextWatcher - 1)
        /\ n = Ids!Extend(m, <<g, w>>, [group |-> GroupMap(groups')[g], id |-> i])
        /\ 1 .. nextWatcher' - 1 = (1 .. nextWatcher - 1) \cup {i}
    BY <1>3, WatchersGrow
  <2> QED
    BY <2>1 DEF Ids!MapWatcher, GroupMap, WatcherMap, KeyOf, IdsOf
<1>4. ASSUME NEW g \in Gids, Removes(g)
      PROVE  Ids!Unmap(g)
  BY <1>4, GroupLeaves DEF Ids!Unmap, Without, GroupMap, WatcherMap, KeyOf, IdsOf
<1>5. SameGroups => UNCHANGED <<GroupMap(groups), 1 .. nextGroup - 1>>
  BY GroupsStay
<1>6. SameWatchers => UNCHANGED <<WatcherMap(watchers), 1 .. nextWatcher - 1>>
  BY WatchersStay
<1>7. ASSUME NEW g \in Gids, AddsGroup(g), SameWatchers
      PROVE  Ids!Next
  BY <1>2, <1>6, <1>7 DEF Ids!Next, WatcherMap, KeyOf, IdsOf
<1>8. ASSUME NEW g \in Gids, NEW w \in Wids, SameGroups, AddsWatcher(g, w)
      PROVE  Ids!Next
  BY <1>3, <1>5, <1>8 DEF Ids!Next, GroupMap
<1>9. ASSUME NEW g \in Gids, NEW w \in Wids, AddsGroup(g), AddsWatcher(g, w)
      PROVE  Ids!Next
  BY <1>2, <1>3, <1>9 DEF Ids!Next
<1>10. ASSUME NEW g \in Gids, Removes(g)
       PROVE  Ids!Next
  BY <1>4, <1>10 DEF Ids!Next
<1> QED
  BY <1>1, <1>7, <1>8, <1>9, <1>10 DEF TableStep

\* Empty tables map nothing.
LEMMA IdsInit == Init => Ids!Init
<1> SUFFICES ASSUME Init PROVE Ids!Init
  OBVIOUS
<1>1. groups = {} /\ watchers = {} /\ 1 .. nextGroup - 1 = {} /\ 1 .. nextWatcher - 1 = {}
  BY DEF Init
<1>2. GroupMap(groups) = <<>> /\ WatcherMap(watchers) = <<>>
  BY <1>1 DEF GroupMap, WatcherMap
<1> QED
  BY <1>1, <1>2, Mapping

\* The watcher tables of the server implement the id mapping that the rows of
\* `files` rely on: ids are assigned once, stay while the client's id is
\* stored, and a watcher is mapped under the server id of its own group.
THEOREM WatchersImplementIdMap == Spec => ImplementsIdMap
<1>1. Inv /\ Inv' /\ [Next]_vars => [Ids!Next]_(Ids!vars)
  BY InvStep, IdsStep
<1> QED
  BY <1>1, InvAlways, IdsInit, PTL DEF Spec, ImplementsIdMap, Ids!Spec
=============================================================================
