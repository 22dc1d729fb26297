--------------------------- MODULE Subscriptions ---------------------------
(***************************************************************************)
(* The streams of watcher group and watcher preset updates: subscribing    *)
(* (service.rs), the monitor task that pings a group stream, and the       *)
(* broadcasts that follow an update of a group or of the presets           *)
(* (watcher_handler.rs, app_state.rs, notification_manager.rs).            *)
(*                                                                         *)
(* NotificationManager keeps one map of senders for each kind of update,   *)
(* keyed by account and device, under a mutex that broadcasts and pings    *)
(* hold across their sends.  The two maps share nothing, so a behavior is  *)
(* about the one or the other.  A sender lives in its map only: taking it  *)
(* out ends the stream.  A channel is bounded; a send waits while it is    *)
(* full and fails once the client has gone.  What an update says (the      *)
(* lists of presets, the group read for the notification) is data no       *)
(* property tells apart; the tables it is read from are module Watchers.   *)
(* The checks of the token and the device go either way (modules Accounts  *)
(* and Devices).                                                           *)
(***************************************************************************)
EXTENDS Naturals, Clients

CONSTANTS
  Streams,     \* bound: streams at once
  Subscribers, \* requests that subscribe, served at once
  Updaters,    \* requests that update presets or a group, served at once
  Capacity,    \* bound: messages a channel holds (1024)
  MaxFailures  \* failed pings before a monitor gives up (3)

Requests == Subscribers \cup Updaters

VARIABLES
  kind,     \* whose updates this behavior is about: groups or presets
  req,      \* what each request is doing
  subs,     \* the map of senders: the stream of each key
  streams,  \* the channel behind each stream
  mon,      \* the monitor task of each group stream
  lock      \* who holds the mutex of the map

vars == <<kind, req, subs, streams, mon, lock>>

Keys == Accounts \X Hashes

ASSUME StreamsAssumption == None \notin Streams

NoKey == <<None, None>>
Free == "free"

\* Tasks are told apart, and a channel and a monitor are given some room.
ASSUME TasksAssumption ==
  /\ Requests \cap Streams = {}
  /\ Free \notin Requests \cup Streams
  /\ Capacity \in Nat \ {0}
  /\ MaxFailures \in Nat \ {0}

NoStream == [open |-> FALSE, queued |-> 0]
NewStream == [open |-> TRUE, queued |-> 0]

NoMonitor == [pc |-> "off", key |-> NoKey, fails |-> 0, to |-> None]
NewMonitor(k) == [NoMonitor EXCEPT !.pc = "wait", !.key = k]

(***************************************************************************)
(* A request: its operation, the account and device it acts for, the       *)
(* streams it still has to send to and has sent to, and those another      *)
(* device had when the update was stored.                                  *)
(***************************************************************************)
Idle == [op |-> "idle", acct |-> None, dev |-> None,
         todo |-> {}, told |-> {}, owed |-> {}]

Begin(op, a, d) ==
  [Idle EXCEPT !.op = op, !.acct = a, !.dev = d]

Finish(q) == req' = [req EXCEPT ![q] = Idle]

KeyOf(r) == <<r.acct, r.dev>>

Registered == {subs[k] : k \in Keys} \ {None}

\* A stream that is not in the map and that no task watches any more.
Unused(i) == i \notin Registered /\ mon[i] = NoMonitor

Init ==
  /\ kind \in {"group", "preset"}
  /\ req = [q \in Requests |-> Idle]
  /\ subs = [k \in Keys |-> None]
  /\ streams = [i \in Streams |-> NoStream]
  /\ mon = [i \in Streams |-> NoMonitor]
  /\ lock = Free

-----------------------------------------------------------------------------
(***************************************************************************)
(* The map.  Taking a sender out closes its channel, and no request owes   *)
(* the stream anything any more.                                           *)
(***************************************************************************)
Closed(i) == [streams EXCEPT ![i] = NoStream]

Forget(i) == [q \in Requests |-> [req[q] EXCEPT !.owed = @ \ {i}]]

\* unregister_watcher_group_update_subscriber and its twin for presets.
Unregister(k) ==
  /\ lock = Free
  /\ subs' = [subs EXCEPT ![k] = None]
  /\ streams' = IF subs[k] = None THEN streams ELSE Closed(subs[k])

(***************************************************************************)
(* subscribe_to_watcher_group_updates and ..._preset_updates check the     *)
(* token and the device, take out the stream this device may have, and put *)
(* in a new one.  Between these the map is free for others.                *)
(***************************************************************************)
Subscribe(q, a, d) ==
  /\ req[q] = Idle
  /\ req' = [req EXCEPT ![q] = Begin("replace", a, d)]
  /\ UNCHANGED <<kind, subs, streams, mon, lock>>

SubscribeToGroupUpdates(q, a, d) == kind = "group" /\ Subscribe(q, a, d)
SubscribeToPresetUpdates(q, a, d) == kind = "preset" /\ Subscribe(q, a, d)

Replace(q) ==
  LET r == req[q]
      old == subs[KeyOf(r)] IN
  /\ r.op = "replace"
  /\ Unregister(KeyOf(r))
  /\ req' = [Forget(old) EXCEPT ![q].op = "register"]
  /\ UNCHANGED <<kind, mon, lock>>

\* The insert drops a sender that came in between; a group stream gets its
\* monitor with no await in between.
Register(q, i) ==
  LET r == req[q]
      old == subs[KeyOf(r)] IN
  /\ r.op = "register"
  /\ lock = Free
  /\ Unused(i)
  /\ subs' = [subs EXCEPT ![KeyOf(r)] = i]
  /\ streams' = [s \in Streams |->
                   CASE s = i   -> NewStream
                     [] s = old -> NoStream
                     [] OTHER   -> streams[s]]
  /\ mon' = IF kind = "group" THEN [mon EXCEPT ![i] = NewMonitor(KeyOf(r))] ELSE mon
  /\ req' = [Forget(old) EXCEPT ![q] = Idle]
  /\ UNCHANGED <<kind, lock>>

-----------------------------------------------------------------------------
(***************************************************************************)
(* The monitor of a group stream works by key, every heartbeat: it stops   *)
(* when the key has no sender, and pings the sender the key has otherwise. *)
(***************************************************************************)
MonitorCheck(i) ==
  LET k == mon[i].key IN
  /\ mon[i].pc = "wait"
  /\ lock = Free
  /\ mon' = [mon EXCEPT ![i].pc = IF subs[k] = None THEN "drop" ELSE "ping"]
  /\ UNCHANGED <<kind, req, subs, streams, lock>>

\* Mutant: a monitor that gives up leaves the sender where it is.
PingFailedLeaves(i) ==
  mon' = [mon EXCEPT ![i] =
            IF mon[i].fails + 1 >= MaxFailures THEN NoMonitor
            ELSE [@ EXCEPT !.pc = "wait", !.fails = @ + 1, !.to = None]]

\* Mutant: each failure resets the count.
PingFailedResets(i) ==
  mon' = [mon EXCEPT ![i].pc = "wait", ![i].fails = 0, ![i].to = None]

\* A failed ping is counted; after MaxFailures in a row the monitor gives up.
PingFailed(i) ==
  mon' = [mon EXCEPT ![i].fails = @ + 1, ![i].to = None,
                     ![i].pc = IF mon[i].fails + 1 >= MaxFailures THEN "drop" ELSE "wait"]

\* ping_watcher_group_subscriber: no sender is a failure too; otherwise the
\* mutex is held until the channel has room or the client is gone.
PingStart(i) ==
  LET s == subs[mon[i].key] IN
  /\ mon[i].pc = "ping"
  /\ lock = Free
  /\ IF s = None
     THEN PingFailed(i) /\ UNCHANGED lock
     ELSE /\ mon' = [mon EXCEPT ![i].pc = "send", ![i].to = s]
          /\ lock' = i
  /\ UNCHANGED <<kind, req, subs, streams>>

PingSend(i) ==
  LET s == mon[i].to IN
  /\ mon[i].pc = "send"
  /\ \/ /\ ~streams[s].open
        /\ PingFailed(i)
        /\ UNCHANGED streams
     \/ /\ streams[s].open
        /\ streams[s].queued < Capacity
        /\ streams' = [streams EXCEPT ![s].queued = @ + 1]
        /\ mon' = [mon EXCEPT ![i].pc = "wait", ![i].fails = 0, ![i].to = None]
  /\ lock' = Free
  /\ UNCHANGED <<kind, req, subs>>

\* However it stopped, the monitor takes out what its key has by now.
MonitorDrop(i) ==
  LET k == mon[i].key IN
  /\ mon[i].pc = "drop"
  /\ Unregister(k)
  /\ req' = Forget(subs[k])
  /\ mon' = [mon EXCEPT ![i] = NoMonitor]
  /\ UNCHANGED <<kind, lock>>

-----------------------------------------------------------------------------
(***************************************************************************)
(* An update of the presets or of a group.  The handler has checked token  *)
(* and device.  Presets are stored next; for a group that is done, and its *)
(* data is read for the notification.                                      *)
(***************************************************************************)
Update(q, a, d) ==
  /\ req[q] = Idle
  /\ req' = [req EXCEPT ![q] = Begin("store", a, d)]
  /\ UNCHANGED <<kind, subs, streams, mon, lock>>

\* Registering, updating and synchronizing presets are alike.
UpdatePresets(q, a, d) == kind = "preset" /\ Update(q, a, d)

\* Every handler of module Watchers that changed a group.
UpdateGroup(q, a, d) == kind = "group" /\ Update(q, a, d)

\* Streams of the other devices of the account, which are to be told.
Audience(r) ==
  {subs[<<r.acct, d>>] : d \in Hashes \ {r.dev}} \ {None}

\* register_watcher_preset_proto, or reading the group.
Store(q) ==
  /\ req[q].op = "store"
  /\ req' = [req EXCEPT ![q].op = "lock", ![q].owed = Audience(req[q])]
  /\ UNCHANGED <<kind, subs, streams, mon, lock>>

\* broadcast_watcher_group_update and its twin go through the map under its
\* mutex, and send to each stream of the account but the device's own.
BroadcastStart(q) ==
  /\ req[q].op = "lock"
  /\ lock = Free
  /\ lock' = q
  /\ req' = [req EXCEPT ![q].op = "send", ![q].todo = Audience(req[q])]
  /\ UNCHANGED <<kind, subs, streams, mon>>

\* Mutant: try_send, which gives a message up when the channel is full.
BroadcastSendTries(q, i) ==
  /\ req[q].op = "send"
  /\ i \in req[q].todo
  /\ IF streams[i].open /\ streams[i].queued < Capacity
     THEN /\ streams' = [streams EXCEPT ![i].queued = @ + 1]
          /\ req' = [req EXCEPT ![q].todo = @ \ {i}, ![q].told = @ \cup {i}]
     ELSE /\ req' = [req EXCEPT ![q].todo = @ \ {i}]
          /\ UNCHANGED streams
  /\ UNCHANGED <<kind, subs, mon, lock>>

BroadcastSend(q, i) ==
  /\ req[q].op = "send"
  /\ i \in req[q].todo
  /\ \/ /\ ~streams[i].open
        /\ req' = [req EXCEPT ![q].todo = @ \ {i}]
        /\ UNCHANGED streams
     \/ /\ streams[i].open
        /\ streams[i].queued < Capacity
        /\ streams' = [streams EXCEPT ![i].queued = @ + 1]
        /\ req' = [req EXCEPT ![q].todo = @ \ {i}, ![q].told = @ \cup {i}]
  /\ UNCHANGED <<kind, subs, mon, lock>>

\* The mutex is freed; what is published to the event bus is module
\* EventConsumer.
BroadcastEnd(q) ==
  /\ req[q].op = "send"
  /\ req[q].todo = {}
  /\ lock' = Free
  /\ req' = [req EXCEPT ![q].op = "answer"]
  /\ UNCHANGED <<kind, subs, streams, mon>>

Answer(q) ==
  /\ req[q].op = "answer"
  /\ Finish(q)
  /\ UNCHANGED <<kind, subs, streams, mon, lock>>

\* Mutant: a request that is given up keeps the mutex.
RequestFailsKeepsLock(q) ==
  /\ req[q].op \in {"replace", "register", "store", "lock", "send", "answer"}
  /\ Finish(q)
  /\ UNCHANGED <<kind, subs, streams, mon, lock>>

\* Storing or reading fails, or the client gives the request up, which also
\* frees a mutex the handler holds.
RequestFails(q) ==
  /\ req[q].op \in {"replace", "register", "store", "lock", "send", "answer"}
  /\ Finish(q)
  /\ lock' = IF lock = q THEN Free ELSE lock
  /\ UNCHANGED <<kind, subs, streams, mon>>

-----------------------------------------------------------------------------
\* The client takes a message from its stream.
Read(i) ==
  /\ streams[i].open
  /\ streams[i].queued > 0
  /\ streams' = [streams EXCEPT ![i].queued = @ - 1]
  /\ UNCHANGED <<kind, req, subs, mon, lock>>

\* The client goes; nobody in the server is told.
Leave(i) ==
  /\ streams[i].open
  /\ streams' = [streams EXCEPT ![i] = NoStream]
  /\ UNCHANGED <<kind, req, subs, mon, lock>>

Monitor(i) ==
  \/ MonitorCheck(i)
  \/ PingStart(i)
  \/ PingSend(i)
  \/ MonitorDrop(i)

Step(q) ==
  \/ Replace(q)
  \/ \E i \in Streams : Register(q, i)
  \/ Store(q)
  \/ BroadcastStart(q)
  \/ \E i \in Streams : BroadcastSend(q, i)
  \/ BroadcastEnd(q)
  \/ Answer(q)

Next ==
  \/ \E a \in Accounts, d \in Hashes :
       \/ \E q \in Subscribers :
            SubscribeToGroupUpdates(q, a, d) \/ SubscribeToPresetUpdates(q, a, d)
       \/ \E q \in Updaters : UpdatePresets(q, a, d) \/ UpdateGroup(q, a, d)
  \/ \E q \in Requests : Step(q) \/ RequestFails(q)
  \/ \E i \in Streams : Monitor(i) \/ Read(i) \/ Leave(i)

Spec == Init /\ [][Next]_vars

(***************************************************************************)
(* Tasks are scheduled fairly, tokio's mutex serves its waiters in the     *)
(* order they came, and a client reads its stream for as long as it stays. *)
(* Requests may come and go as they like.                                  *)
(***************************************************************************)
Fairness ==
  /\ \A q \in Requests : SF_vars(Step(q))
  /\ \A i \in Streams : SF_vars(Monitor(i)) /\ WF_vars(Read(i))

FairSpec == Spec /\ Fairness

-----------------------------------------------------------------------------
Request ==
  [op : {"idle", "replace", "register", "store", "lock", "send", "answer"},
   acct : Accounts \cup {None}, dev : Hashes \cup {None},
   todo : SUBSET Streams, owed : SUBSET Streams, told : SUBSET Streams]

(***************************************************************************)
(* The type invariant: the tables, maps, channels and tasks hold what they *)
(* should, no stream is in the map twice, and the mutex is held by the     *)
(* broadcast or ping that is sending and by nobody else.                   *)
(***************************************************************************)
TypeOK ==
  /\ kind \in {"group", "preset"}
  /\ req \in [Requests -> Request]
  /\ subs \in [Keys -> Streams \cup {None}]
  /\ streams \in [Streams -> [open : BOOLEAN, queued : 0..Capacity]]
  /\ mon \in [Streams -> [pc : {"off", "wait", "ping", "send", "drop"},
                          key : Keys \cup {NoKey}, fails : 0..MaxFailures,
                          to : Streams \cup {None}]]
  /\ \A k, l \in Keys : subs[k] # None /\ subs[k] = subs[l] => k = l
  /\ {q \in Requests : req[q].op = "send"} \cup {i \in Streams : mon[i].pc = "send"}
       = {lock} \ {Free}

(***************************************************************************)
(* When an update is answered, every stream that another device of the     *)
(* account had when the update was stored, and that has neither been taken *)
(* out nor left by its client since, has been given the update: not one is *)
(* missed while streams are replaced, channels are full and other updates  *)
(* are broadcast (broadcast_watcher_group_update and its twin).            *)
(***************************************************************************)
UpdateTold ==
  \A q \in Requests : req[q].op = "answer" =>
    \A i \in req[q].owed : streams[i].open => i \in req[q].told

(***************************************************************************)
(* A group stream that is in the map has its monitor running, or about to  *)
(* take it out: although monitors work by key and those of earlier streams *)
(* of the device act on the later ones, none is left that nobody would     *)
(* collect (subscribe_to_watcher_group_updates).                           *)
(***************************************************************************)
RegisteredMonitored ==
  kind = "group" => \A k \in Keys : subs[k] # None =>
    mon[subs[k]].pc # "off" /\ mon[subs[k]].key = k

(***************************************************************************)
(* A group stream whose client has gone is taken out of the map: its pings *)
(* fail until the monitor gives up, or the device subscribes again first.  *)
(* So the mutex, too, is freed by whoever waits for a full channel (the    *)
(* monitor task of subscribe_to_watcher_group_updates).                    *)
(***************************************************************************)
LeftIsUnregistered ==
  \A i \in Streams :
    (kind = "group" /\ i \in Registered /\ ~streams[i].open) ~> (i \notin Registered)
=============================================================================
