---------------------------- MODULE FileUpdates ----------------------------
(***************************************************************************)
(* How the devices of one account learn of uploaded files: the stream of   *)
(* SubscribeToFileUpdates with its initial sync (server/service.rs) and    *)
(* the broadcast of an upload (server/notification_manager.rs).            *)
(*                                                                         *)
(* A subscription owns a bounded channel.  Its sender is registered under  *)
(* the device; its receiver becomes the response stream, which the client  *)
(* can read only once the handler has returned, after the initial sync.    *)
(* A broadcast holds the lock on the subscriber map, and the alias map     *)
(* under it, while it waits for room in the channels.                      *)
(*                                                                         *)
(* Every upload is of a path of its own, in one watcher group.  Files are  *)
(* sent in any order, and giving up a batch of 50 drops any of the rest.   *)
(***************************************************************************)
EXTENDS Naturals, Sequences, Functions

CONSTANTS
  Devices,     \* device_hash values of the account
  Capacity,    \* size of a channel (1024 in the code)
  Sinces,      \* since_ts values that clients send
  Filtered,    \* whether list_files applies upload_time_from: in memory.rs it
               \* does, in mysql_file.rs it does not
  MaxUploads,  \* bound: uploads
  MaxSubs,     \* bound: subscriptions
  MaxTimers,   \* bound: subscriptions that get seven days old
  MaxTime      \* bound: clock

ASSUME UpdatesAssumption ==
  /\ Capacity \in Nat \ {0}
  /\ Sinces \subseteq Nat
  /\ Filtered \in BOOLEAN
  /\ MaxUploads \in Nat
  /\ MaxSubs \in Nat
  /\ MaxTimers \in Nat
  /\ MaxTime \in Nat

VARIABLES
  clock,        \* Utc::now() in seconds
  uploads,      \* the uploads so far, oldest first
  lastSync,     \* devices.last_sync; 0 for a device without a row
  subs,         \* the subscriptions so far, oldest first
  subscribers,  \* file_update_subscribers: the subscription of a device, or 0
  lock,         \* the upload whose broadcast holds file_update_subscribers, or 0
  targets,      \* the devices that broadcast still has to send to, in the
                \* order of the iteration over the map
  timers,       \* how many seven-day timers have fired
  received      \* the uploads each device was told of

vars == <<clock, uploads, lastSync, subs, subscribers, lock, targets, timers, received>>

\* What a handler of the device has read or set up in the steps so far.
Upload == [dev : Devices, upd : Nat,
           phase : {"new", "stored", "done", "failed"}]
Sub == [dev : Devices, since : Nat,
        phase : {"new", "list", "sync", "push", "stream", "end"},
        stored : Nat,             \* stored_last_sync
        todo : SUBSET Nat,        \* files that are still to be sent
        file : Nat, target : Nat, \* a send that is waiting for room
        max : Nat,                \* max_delivered_ts
        listed : BOOLEAN,         \* list_files succeeded
        chan : Seq(Nat), open : BOOLEAN]

Uploads == DOMAIN uploads
Subs == DOMAIN subs
Files == {u \in Uploads : uploads[u].phase \in {"stored", "done", "failed"}}

Maximum(a, b) == IF a >= b THEN a ELSE b

\* Upload u is put into the channel of subscription s.
Sent(s, u) == [subs EXCEPT ![s].chan = Append(@, u)]

\* The orders in which an iteration over the map may visit the devices D, each
\* of which has a subscription of its own.
Orders(D) == UNION {Bijection(1 .. n, D) : n \in 0 .. Len(subs)}

-----------------------------------------------------------------------------
Init ==
  /\ clock = 1
  /\ uploads = <<>>
  /\ lastSync = [d \in Devices |-> 0]
  /\ subs = <<>>
  /\ subscribers = [d \in Devices |-> 0]
  /\ lock = 0
  /\ targets = <<>>
  /\ timers = 0
  /\ received = [d \in Devices |-> {}]

Tick ==
  /\ clock < MaxTime
  /\ clock' = clock + 1
  /\ UNCHANGED <<uploads, lastSync, subs, subscribers, lock, targets, timers, received>>

\* Device::new sets last_sync to now, and register_device writes it over the
\* old value of a device that registers again.
RegisterDevice(d) ==
  /\ lastSync[d] # clock
  /\ lastSync' = [lastSync EXCEPT ![d] = clock]
  /\ UNCHANGED <<clock, uploads, subs, subscribers, lock, targets, timers, received>>

-----------------------------------------------------------------------------
(***************************************************************************)
(* Uploads.                                                                *)
(***************************************************************************)
\* The handler builds the FileInfo, updated_time included.
UploadStart(d) ==
  /\ Len(uploads) < MaxUploads
  /\ uploads' = Append(uploads, [dev |-> d, upd |-> clock, phase |-> "new"])
  /\ UNCHANGED <<clock, lastSync, subs, subscribers, lock, targets, timers, received>>

\* store_file_info commits; if it fails the upload stays where it is.
UploadStore(u) ==
  /\ uploads[u].phase = "new"
  /\ uploads' = [uploads EXCEPT ![u].phase = "stored"]
  /\ UNCHANGED <<clock, lastSync, subs, subscribers, lock, targets, timers, received>>

\* The data cannot be stored, or the uploading client goes away and the
\* server drops the handler, its lock included.
UploadFail(u) ==
  /\ uploads[u].phase = "stored"
  /\ uploads' = [uploads EXCEPT ![u].phase = "failed"]
  /\ lock' = IF lock = u THEN 0 ELSE lock
  /\ targets' = IF lock = u THEN <<>> ELSE targets
  /\ UNCHANGED <<clock, lastSync, subs, subscribers, timers, received>>

\* broadcast_file_update, once the data is stored, locks the subscribers.
Broadcast(u) ==
  /\ uploads[u].phase = "stored"
  /\ lock = 0
  /\ lock' = u
  /\ targets' \in Orders({d \in Devices : subscribers[d] # 0 /\ d # uploads[u].dev})
  /\ UNCHANGED <<clock, uploads, lastSync, subs, subscribers, timers, received>>

\* Mutant: an unbounded channel.
BroadcastSendUnbounded ==
  /\ targets # <<>>
  /\ LET s == subscribers[Head(targets)]
     IN  subs' = IF subs[s].open
                   THEN [subs EXCEPT ![s].chan = Append(@, lock)]
                   ELSE subs
  /\ targets' = Tail(targets)
  /\ UNCHANGED <<clock, uploads, lastSync, subscribers, lock, timers, received>>

\* Mutant: try_send, which drops the notification when there is no room.
BroadcastTrySend ==
  /\ targets # <<>>
  /\ LET s == subscribers[Head(targets)]
     IN  subs' = IF subs[s].open /\ Len(subs[s].chan) < Capacity
                   THEN [subs EXCEPT ![s].chan = Append(@, lock)]
                   ELSE subs
  /\ targets' = Tail(targets)
  /\ UNCHANGED <<clock, uploads, lastSync, subscribers, lock, timers, received>>

\* One device after the other: it waits for room in the channel before it goes
\* on to the next; a closed channel is an error it logs.
BroadcastSend ==
  /\ targets # <<>>
  /\ LET s == subscribers[Head(targets)]
     IN  \/ /\ subs[s].open
            /\ Len(subs[s].chan) < Capacity
            /\ subs' = Sent(s, lock)
         \/ /\ ~subs[s].open
            /\ UNCHANGED subs
  /\ targets' = Tail(targets)
  /\ UNCHANGED <<clock, uploads, lastSync, subscribers, lock, timers, received>>

BroadcastEnd ==
  /\ lock # 0
  /\ targets = <<>>
  /\ uploads' = [uploads EXCEPT ![lock].phase = "done"]
  /\ lock' = 0
  /\ UNCHANGED <<clock, lastSync, subs, subscribers, targets, timers, received>>

-----------------------------------------------------------------------------
(***************************************************************************)
(* Subscriptions.                                                          *)
(***************************************************************************)
\* The handler creates the channel and registers its sender.
Subscribe(d, since) ==
  /\ Len(subs) < MaxSubs
  /\ lock = 0
  /\ subs' = Append(subs,
       [dev |-> d, since |-> since, phase |-> "new", stored |-> 0, todo |-> {},
        file |-> 0, target |-> 0, max |-> 0, listed |-> FALSE,
        chan |-> <<>>, open |-> TRUE])
  /\ subscribers' = [subscribers EXCEPT ![d] = Len(subs) + 1]
  /\ UNCHANGED <<clock, uploads, lastSync, lock, targets, timers, received>>

\* The handler returns the stream, and its local variables are gone.
Returned(s) ==
  [subs[s] EXCEPT !.phase = "stream", !.stored = 0, !.todo = {}, !.file = 0,
                  !.target = 0, !.max = 0]

\* send_initial_file_sync reads last_sync, or takes 0 if it cannot, ...
SyncStart(s) ==
  /\ subs[s].phase = "new"
  /\ \E stored \in {lastSync[subs[s].dev], 0} :
         subs' = [subs EXCEPT ![s].phase = "list", ![s].stored = stored,
                              ![s].max = Maximum(subs[s].since, stored)]
  /\ UNCHANGED <<clock, uploads, lastSync, subscribers, lock, targets, timers, received>>

\* Mutant: the watermark is applied whatever the storage.
ListedSince(s) ==
  {u \in Files : uploads[u].dev # subs[s].dev /\ uploads[u].upd >= subs[s].max}

\* The files list_files returns, those of the device itself left out.
Listed(s) ==
  {u \in Files : /\ uploads[u].dev # subs[s].dev
                 /\ Filtered => uploads[u].upd >= subs[s].max}

\* ... and lists the files;
SyncList(s) ==
  /\ subs[s].phase = "list"
  /\ subs' = [subs EXCEPT ![s].phase = "sync", ![s].todo = Listed(s),
                          ![s].listed = TRUE]
  /\ UNCHANGED <<clock, uploads, lastSync, subscribers, lock, targets, timers, received>>

\* if the groups cannot be read it gives up, if the files of the group cannot
\* be listed it goes on without them.
SyncListFails(s) ==
  /\ subs[s].phase = "list"
  /\ \/ subs' = [subs EXCEPT ![s] = Returned(s)]
     \/ subs' = [subs EXCEPT ![s].phase = "sync"]
  /\ UNCHANGED <<clock, uploads, lastSync, subscribers, lock, targets, timers, received>>

\* For each file it looks up the sender of the device; without one it gives up
\* the rest of the batch.
SyncLookup(s) ==
  /\ subs[s].phase = "sync"
  /\ lock = 0
  /\ \E u \in subs[s].todo :
       LET t == subscribers[subs[s].dev]
       IN  IF t # 0
             THEN subs' = [subs EXCEPT ![s].phase = "push", ![s].file = u,
                                       ![s].target = t, ![s].todo = @ \ {u}]
             ELSE \E rest \in SUBSET (subs[s].todo \ {u}) :
                    subs' = [subs EXCEPT ![s].todo = rest]
  /\ UNCHANGED <<clock, uploads, lastSync, subscribers, lock, targets, timers, received>>

\* The send waits for room.
SyncPush(s) ==
  LET t == subs[s].target
      u == subs[s].file
  IN  /\ subs[s].phase = "push"
      /\ subs[t].open
      /\ Len(subs[t].chan) < Capacity
      /\ subs' = [Sent(t, u) EXCEPT ![s] =
           [@ EXCEPT !.phase = "sync", !.file = 0, !.target = 0,
                     !.max = Maximum(subs[s].max, uploads[u].upd)]]
      /\ UNCHANGED <<clock, uploads, lastSync, subscribers, lock, targets, timers,
                     received>>

\* The receiver is gone: the rest of the batch is given up.
SyncPushFails(s) ==
  /\ subs[s].phase = "push"
  /\ ~subs[subs[s].target].open
  /\ \E rest \in SUBSET subs[s].todo :
       subs' = [subs EXCEPT ![s].phase = "sync", ![s].file = 0, ![s].target = 0,
                               ![s].todo = rest]
  /\ UNCHANGED <<clock, uploads, lastSync, subscribers, lock, targets, timers, received>>

\* Mutant: the stream is returned only if a file was newer.
SyncEndIfNewer(s) ==
  /\ subs[s].phase = "sync"
  /\ subs[s].todo = {}
  /\ subs[s].max > subs[s].stored
  /\ subs' = [subs EXCEPT ![s] = Returned(s)]
  /\ lastSync' = IF lastSync[subs[s].dev] # 0
                   THEN [lastSync EXCEPT ![subs[s].dev] = clock]
                   ELSE lastSync
  /\ UNCHANGED <<clock, uploads, subscribers, lock, targets, timers, received>>

\* At the end it moves last_sync of a registered device to now if a file was
\* newer and the storage lets it, and the handler returns the stream.
SyncEnd(s) ==
  /\ subs[s].phase = "sync"
  /\ subs[s].todo = {}
  /\ subs' = [subs EXCEPT ![s] = Returned(s)]
  /\ LET d == subs[s].dev
     IN  \/ /\ subs[s].max > subs[s].stored
            /\ lastSync[d] # 0
            /\ lastSync' = [lastSync EXCEPT ![d] = clock]
         \/ UNCHANGED lastSync
  /\ UNCHANGED <<clock, uploads, subscribers, lock, targets, timers, received>>

\* The client reads its stream.
Receive(s) ==
  /\ subs[s].phase = "stream"
  /\ subs[s].open
  /\ subs[s].chan # <<>>
  /\ subs' = [subs EXCEPT ![s].chan = Tail(@)]
  /\ received' = [received EXCEPT ![subs[s].dev] = @ \cup {Head(subs[s].chan)}]
  /\ UNCHANGED <<clock, uploads, lastSync, subscribers, lock, targets, timers>>

\* The client goes away: the receiver is dropped, with the handler if it has
\* not returned.  The sender stays registered.
Disconnect(s) ==
  /\ subs[s].open
  /\ subs' = [subs EXCEPT ![s] =
       [Returned(s) EXCEPT !.phase = "end", !.open = FALSE, !.chan = <<>>]]
  /\ UNCHANGED <<clock, uploads, lastSync, subscribers, lock, targets, timers, received>>

\* The last sender is gone, no longer registered and in no handler's hands:
\* once the channel is empty the stream ends.
StreamEnd(s) ==
  /\ subs[s].phase = "stream"
  /\ subs[s].open
  /\ subs[s].chan = <<>>
  /\ subscribers[subs[s].dev] # s
  /\ \A t \in Subs : subs[t].target # s
  /\ subs' = [subs EXCEPT ![s].phase = "end", ![s].open = FALSE]
  /\ UNCHANGED <<clock, uploads, lastSync, subscribers, lock, targets, timers, received>>

\* Seven days after a subscription, whatever is registered for its device is
\* removed.  Timers fire in the order of the subscriptions.
Timeout ==
  /\ timers < MaxTimers
  /\ timers < Len(subs)
  /\ lock = 0
  /\ timers' = timers + 1
  /\ subscribers' = [subscribers EXCEPT ![subs[timers + 1].dev] = 0]
  /\ UNCHANGED <<clock, uploads, lastSync, subs, lock, targets, received>>

-----------------------------------------------------------------------------
SyncStep(s) ==
  \/ SyncStart(s)
  \/ SyncList(s)
  \/ SyncLookup(s)
  \/ SyncPush(s)
  \/ SyncPushFails(s)
  \/ SyncEnd(s)

Next ==
  \/ Tick
  \/ \E d \in Devices :
       \/ RegisterDevice(d)
       \/ UploadStart(d)
       \/ \E since \in Sinces : Subscribe(d, since)
  \/ \E u \in Uploads : UploadStore(u) \/ Broadcast(u) \/ UploadFail(u)
  \/ BroadcastSend
  \/ BroadcastEnd
  \/ \E s \in Subs :
       \/ SyncStep(s)
       \/ SyncListFails(s)
       \/ Receive(s)
       \/ StreamEnd(s)
       \/ Disconnect(s)
  \/ Timeout

(***************************************************************************)
(* The runtime polls every task that can run, and locks are granted in     *)
(* turn (tokio's Mutex is fair); a client reads its open stream.  Nothing  *)
(* forces devices to come or go, storage to fail, or a timer to fire.      *)
(***************************************************************************)
Fairness ==
  /\ WF_vars(BroadcastSend)
  /\ WF_vars(BroadcastEnd)
  /\ \A u \in 1 .. MaxUploads :
       SF_vars(u \in Uploads /\ Broadcast(u))
  /\ \A s \in 1 .. MaxSubs :
       /\ SF_vars(s \in Subs /\ SyncStep(s))
       /\ WF_vars(s \in Subs /\ Receive(s))

Spec == Init /\ [][Next]_vars
FairSpec == Spec /\ Fairness

-----------------------------------------------------------------------------
\* Every variable keeps its type.
TypeOK ==
  /\ clock \in Nat
  /\ uploads \in Seq(Upload)
  /\ lastSync \in [Devices -> Nat]
  /\ subs \in Seq(Sub)
  /\ \A s \in Subs :
       /\ subs[s].todo \cup {subs[s].file} \subseteq {0} \cup Uploads
       /\ subs[s].target \in {0} \cup Subs
       /\ Len(subs[s].chan) <= Capacity
  /\ subscribers \in [Devices -> {0} \cup Subs]
  /\ lock \in {0} \cup Uploads
  /\ targets \in Seq(Devices)
  /\ timers \in 0 .. Len(subs)
  /\ received \in [Devices -> SUBSET Uploads]

\* What a device was told of or will read from its stream.
Told(s) == received[subs[s].dev] \cup {subs[s].chan[i] : i \in DOMAIN subs[s].chan}

(***************************************************************************)
(* There is no gap between the initial sync and the broadcasts: a device   *)
(* whose stream is open and registered, and whose files could be listed,   *)
(* was told of every upload of another device whose broadcast is over,     *)
(* whenever the upload was stored relative to the subscription and the     *)
(* listing.                                                                *)
(***************************************************************************)
NoGap ==
  \A s \in Subs :
    (/\ subs[s].phase = "stream"
     /\ subs[s].listed
     /\ subscribers[subs[s].dev] = s)
    => \A u \in Uploads :
         (uploads[u].phase = "done" /\ uploads[u].dev # subs[s].dev)
           => u \in Told(s)

\* Subscription s is connected, and what is broadcast goes to it.
Online(s) == s \in Subs /\ subs[s].open /\ subscribers[subs[s].dev] = s

\* Upload u of another device is stored and its broadcast is due.
Due(s, u) ==
  Online(s) /\ u \in Uploads /\ uploads[u].phase = "stored" /\ uploads[u].dev # subs[s].dev

Settled(s, u) ==
  Online(s) /\ u \in Uploads =>
    uploads[u].phase = "failed" \/ u \in received[subs[s].dev]

(***************************************************************************)
(* A device that stays connected and registered is told of every upload    *)
(* that is stored and does not fail, if the channels have room for what    *)
(* waits in them before the stream is read.                                *)
(***************************************************************************)
OnlineDevicesTold ==
  \A s \in 1 .. MaxSubs, u \in 1 .. MaxUploads : Due(s, u) ~> Settled(s, u)

(***************************************************************************)
(* The proto file on since_ts, "0 for full sync": when the initial sync    *)
(* lists the files, all those of other devices are among what it sends.    *)
(***************************************************************************)
FullSync ==
  [][\A s \in Subs :
       SyncList(s) /\ subs[s].since = 0 =>
         \A u \in Files : uploads[u].dev # subs[s].dev => u \in subs'[s].todo]_vars
=============================================================================
