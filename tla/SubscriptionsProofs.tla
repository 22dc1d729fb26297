------------------------ MODULE SubscriptionsProofs ------------------------
(***************************************************************************)
(* Proofs about Subscriptions, for any number of accounts, devices,        *)
(* streams and requests, and channels of any capacity.                     *)
(*                                                                         *)
(* No group stream stays in the map of NotificationManager without the     *)
(* monitor that would collect it.  Monitors take senders out by key,       *)
(* whatever stream has the key by then; that is safe because the monitor   *)
(* of a registered stream has the key the stream is registered under       *)
(* (MapInv): a monitor that ends takes out its own stream too, if that is  *)
(* still there.                                                            *)
(*                                                                         *)
(* Who sends holds the mutex, and nobody else (LockInv, in StreamInv).     *)
(*                                                                         *)
(* No update is answered before everybody was told.  A stream that is owed *)
(* an update is in the map until it is taken out, so the broadcast finds   *)
(* it there, and then it is among those to send to or sent to (OwesInv).   *)
(*                                                                         *)
(* Then come the proofs about Devices, of the same accounts and devices.   *)
(***************************************************************************)
EXTENDS Subscriptions, Devices, TLAPS

MonitorRecord ==
  [pc : {"off", "wait", "ping", "send", "drop"}, key : Keys \cup {NoKey},
   fails : Nat, to : Streams \cup {None}]

\* What the requests and the monitors are about: keys of the map.
Acting(r) == r.op # "idle" => KeyOf(r) \in Keys
Watching(m) == m.pc # "off" => m.key \in Keys

MapInv ==
  /\ req \in [Requests -> Request]
  /\ \A q \in Requests : Acting(req[q])
  /\ subs \in [Keys -> Streams \cup {None}]
  /\ mon \in [Streams -> MonitorRecord]
  /\ \A i \in Streams : Watching(mon[i])
  /\ RegisteredMonitored

-----------------------------------------------------------------------------
\* Taking a stream off the lists of the broadcasts changes no request otherwise.
LEMMA ForgetKeepsRequests ==
  ASSUME req \in [Requests -> Request], NEW i
  PROVE  /\ Forget(i) \in [Requests -> Request]
         /\ \A q \in Requests : /\ Forget(i)[q].op = req[q].op
                                /\ Forget(i)[q].acct = req[q].acct
                                /\ Forget(i)[q].dev = req[q].dev
BY DEF Forget, Request

\* A step that leaves the map and the monitors alone keeps MapInv.
LEMMA RequestStep ==
  ASSUME MapInv, UNCHANGED <<kind, subs, mon>>,
         req' \in [Requests -> Request],
         \A q \in Requests : Acting(req[q])'
  PROVE  MapInv'
BY DEF MapInv, Watching, RegisteredMonitored

\* The broadcast of a request goes to streams.
LEMMA AudienceStreams ==
  ASSUME MapInv, NEW q \in Requests, req[q].op # "idle"
  PROVE  Audience(req[q]) \in SUBSET Streams
<1>1. \A d \in Hashes : <<req[q].acct, d>> \in Keys
  BY DEF MapInv, Acting, KeyOf, Keys
<1>2. \A d \in Hashes : subs[<<req[q].acct, d>>] \in Streams \cup {None}
  BY <1>1 DEF MapInv
<1> QED
  BY <1>2 DEF Audience

\* What the handlers begin and leave are requests.
LEMMA RequestTypes ==
  /\ Idle \in Request
  /\ \A a \in Accounts, d \in Hashes, op \in {"replace", "store"} :
       Begin(op, a, d) \in Request
BY DEF Idle, Begin, Request

\* The monitor of stream i goes on, and its key is what it was.
LEMMA MonitorStep ==
  ASSUME MapInv, UNCHANGED <<kind, subs, req>>,
         NEW i \in Streams, NEW m \in MonitorRecord,
         mon[i].pc # "off", m.pc # "off", m.key = mon[i].key,
         mon' = [mon EXCEPT ![i] = m]
  PROVE  MapInv'
<1>1. \A j \in Streams : /\ mon'[j].key = mon[j].key
                         /\ mon[j].pc # "off" => mon'[j].pc # "off"
                         /\ mon'[j].pc # "off" => mon[j].pc # "off"
  BY DEF MapInv
<1>2. mon' \in [Streams -> MonitorRecord]
  BY DEF MapInv
<1>3. \A j \in Streams : Watching(mon[j])'
  BY <1>1 DEF MapInv, Watching
<1>4. RegisteredMonitored'
  BY <1>1 DEF MapInv, RegisteredMonitored
<1> QED
  BY <1>2, <1>3, <1>4 DEF MapInv, Acting, KeyOf

\* Every step of the handlers, the monitors and the clients keeps MapInv.
LEMMA MapStep == MapInv /\ [Next]_vars => MapInv'
<1> SUFFICES ASSUME MapInv, [Next]_vars PROVE MapInv'
  OBVIOUS
<1>1. ASSUME NEW q \in Requests, NEW a \in Accounts, NEW d \in Hashes, Subscribe(q, a, d)
      PROVE  MapInv'
  <2>1. Begin("replace", a, d) \in Request /\ Acting(Begin("replace", a, d))
    BY RequestTypes DEF Acting, Begin, Idle, KeyOf, Keys
  <2> QED
    BY <1>1, <2>1, RequestStep DEF Subscribe, MapInv, Acting, KeyOf
<1>2. ASSUME NEW q \in Requests, NEW a \in Accounts, NEW d \in Hashes, Update(q, a, d)
      PROVE  MapInv'
  <2>1. Begin("store", a, d) \in Request /\ Acting(Begin("store", a, d))
    BY RequestTypes DEF Acting, Begin, Idle, KeyOf, Keys
  <2> QED
    BY <1>2, <2>1, RequestStep DEF Update, MapInv, Acting, KeyOf
<1>3. ASSUME NEW q \in Requests, Replace(q) PROVE MapInv'
  <2> DEFINE k == KeyOf(req[q])
             F == Forget(subs[k])
  <2>1. k \in Keys /\ subs' = [subs EXCEPT ![k] = None] /\ UNCHANGED <<kind, mon>>
    BY <1>3 DEF Replace, Unregister, MapInv, Acting
  <2>2. req' = [F EXCEPT ![q].op = "register"] /\ F \in [Requests -> Request]
    BY <1>3, ForgetKeepsRequests DEF Replace, MapInv
  <2>3. req' \in [Requests -> Request]
    BY <2>2 DEF Request
  <2>4. \A p \in Requests : req'[p].acct = req[p].acct /\ req'[p].dev = req[p].dev
                            /\ (p # q => req'[p].op = req[p].op)
    BY <2>2, ForgetKeepsRequests DEF MapInv, Request
  <2>5. \A p \in Requests : Acting(req[p])'
    BY <1>3, <2>4 DEF Replace, MapInv, Acting, KeyOf
  <2> QED
    BY <2>1, <2>3, <2>5 DEF MapInv, Watching, RegisteredMonitored
<1>4. ASSUME NEW q \in Requests, NEW i \in Streams, Register(q, i) PROVE MapInv'
  <2> DEFINE k == KeyOf(req[q])
             F == Forget(subs[k])
  <2>1. k \in Keys /\ subs' = [subs EXCEPT ![k] = i] /\ Unused(i) /\ UNCHANGED kind
    BY <1>4 DEF Register, MapInv, Acting
  <2>2. req' = [F EXCEPT ![q] = Idle] /\ F \in [Requests -> Request]
    BY <1>4, ForgetKeepsRequests DEF Register, MapInv
  <2>3. req' \in [Requests -> Request]
    BY <2>2, RequestTypes
  <2>4. \A p \in Requests \ {q} : /\ req'[p].acct = req[p].acct
                                  /\ req'[p].dev = req[p].dev
                                  /\ req'[p].op = req[p].op
    BY <2>2, ForgetKeepsRequests DEF MapInv
  <2>5. req'[q].op = "idle"
    BY <2>2 DEF Idle
  <2>6. \A p \in Requests : Acting(req[p])'
    BY <2>4, <2>5 DEF MapInv, Acting, KeyOf
  <2>7. /\ NewMonitor(k) \in MonitorRecord /\ NewMonitor(k).pc = "wait"
        /\ NewMonitor(k).key = k
    BY <2>1 DEF NewMonitor, NoMonitor, MonitorRecord
  <2> HIDE DEF k
  <2>8. mon' = IF kind = "group" THEN [mon EXCEPT ![i] = NewMonitor(k)] ELSE mon
    BY <1>4 DEF Register, k
  <2>9. mon' \in [Streams -> MonitorRecord] /\ \A j \in Streams : Watching(mon[j])'
    BY <2>1, <2>7, <2>8 DEF MapInv, Watching
  <2>10. RegisteredMonitored'
    <3> SUFFICES ASSUME kind = "group", NEW l \in Keys, subs'[l] # None
                 PROVE  mon'[subs'[l]].pc # "off" /\ mon'[subs'[l]].key = l
      BY <2>1 DEF RegisteredMonitored
    <3>1. CASE l = k
      BY <2>1, <2>7, <2>8, <3>1 DEF MapInv
    <3>2. CASE l # k
      <4>1. subs'[l] = subs[l] /\ subs[l] \in Streams
        BY <2>1, <3>2 DEF MapInv
      <4>2. subs[l] # i
        BY <2>1, <4>1, StreamsAssumption DEF Unused, Registered
      <4> QED
        BY <2>8, <4>1, <4>2 DEF MapInv, RegisteredMonitored
    <3> QED
      BY <3>1, <3>2
  <2> QED
    BY <2>1, <2>3, <2>6, <2>9, <2>10 DEF MapInv
<1>5. ASSUME NEW q \in Requests, Store(q) PROVE MapInv'
  <2> DEFINE r == [req[q] EXCEPT !.op = "lock", !.owed = Audience(req[q])]
  <2>1. req[q] \in Request /\ req[q].op # "idle" /\ Audience(req[q]) \in SUBSET Streams
    BY <1>5, AudienceStreams DEF Store, MapInv
  <2>2. r \in Request /\ r.acct = req[q].acct /\ r.dev = req[q].dev
    BY <2>1 DEF Request
  <2>3. req' = [req EXCEPT ![q] = r]
    BY <1>5 DEF Store
  <2> HIDE DEF r
  <2>4. req' \in [Requests -> Request] /\ \A p \in Requests : Acting(req[p])'
    BY <2>1, <2>2, <2>3 DEF MapInv, Acting, KeyOf
  <2> QED
    BY <1>5, <2>4, RequestStep DEF Store
<1>6. ASSUME NEW q \in Requests, BroadcastStart(q) PROVE MapInv'
  <2> DEFINE r == [req[q] EXCEPT !.op = "send", !.todo = Audience(req[q])]
  <2>1. req[q] \in Request /\ req[q].op # "idle" /\ Audience(req[q]) \in SUBSET Streams
    BY <1>6, AudienceStreams DEF BroadcastStart, MapInv
  <2>2. r \in Request /\ r.acct = req[q].acct /\ r.dev = req[q].dev
    BY <2>1 DEF Request
  <2>3. req' = [req EXCEPT ![q] = r]
    BY <1>6 DEF BroadcastStart
  <2> HIDE DEF r
  <2>4. req' \in [Requests -> Request] /\ \A p \in Requests : Acting(req[p])'
    BY <2>1, <2>2, <2>3 DEF MapInv, Acting, KeyOf
  <2> QED
    BY <1>6, <2>4, RequestStep DEF BroadcastStart
<1>7. ASSUME NEW q \in Requests, NEW i \in Streams, BroadcastSend(q, i) PROVE MapInv'
  <2>1. req[q] \in Request
    BY DEF MapInv
  <2>2. PICK T \in SUBSET Streams, O \in SUBSET Streams :
          req' = [req EXCEPT ![q] = [req[q] EXCEPT !.todo = T, !.told = O]]
    <3>1. CASE req' = [req EXCEPT ![q].todo = req[q].todo \ {i}]
      <4>1. /\ req[q].todo \ {i} \in SUBSET Streams /\ req[q].told \in SUBSET Streams
            /\ [req[q] EXCEPT !.todo = req[q].todo \ {i}] =
                 [req[q] EXCEPT !.todo = req[q].todo \ {i}, !.told = req[q].told]
        BY <2>1 DEF Request
      <4> QED
        BY <3>1, <4>1
    <3>2. CASE req' = [req EXCEPT ![q].todo = req[q].todo \ {i},
                                  ![q].told = req[q].told \cup {i}]
      BY <2>1, <3>2 DEF MapInv, Request
    <3> QED
      BY <1>7, <3>1, <3>2 DEF BroadcastSend
  <2> DEFINE r == [req[q] EXCEPT !.todo = T, !.told = O]
  <2>3. r \in Request /\ r.op = req[q].op /\ r.acct = req[q].acct /\ r.dev = req[q].dev
    BY <2>1 DEF Request
  <2>4. req' = [req EXCEPT ![q] = r]
    BY <2>2
  <2> HIDE DEF r
  <2>5. req' \in [Requests -> Request] /\ \A p \in Requests : Acting(req[p])'
    BY <2>1, <2>3, <2>4 DEF MapInv, Acting, KeyOf
  <2> QED
    BY <1>7, <2>5, RequestStep DEF BroadcastSend
<1>8. ASSUME NEW q \in Requests, BroadcastEnd(q) PROVE MapInv'
  <2>1. req' \in [Requests -> Request]
    BY <1>8, RequestTypes DEF BroadcastEnd, MapInv, Request
  <2>2. \A p \in Requests : Acting(req[p])'
    BY <1>8 DEF BroadcastEnd, MapInv, Request, Acting, KeyOf, Idle
  <2> QED
    BY <1>8, <2>1, <2>2, RequestStep DEF BroadcastEnd
<1>9. ASSUME NEW q \in Requests, Answer(q) PROVE MapInv'
  <2>1. req' \in [Requests -> Request]
    BY <1>9, RequestTypes DEF Answer, MapInv, Request, Finish
  <2>2. \A p \in Requests : Acting(req[p])'
    BY <1>9 DEF Answer, MapInv, Request, Acting, KeyOf, Idle, Finish
  <2> QED
    BY <1>9, <2>1, <2>2, RequestStep DEF Answer
<1>10. ASSUME NEW q \in Requests, RequestFails(q) PROVE MapInv'
  <2>1. req' \in [Requests -> Request]
    BY <1>10, RequestTypes DEF RequestFails, MapInv, Request, Finish
  <2>2. \A p \in Requests : Acting(req[p])'
    BY <1>10 DEF RequestFails, MapInv, Request, Acting, KeyOf, Idle, Finish
  <2> QED
    BY <1>10, <2>1, <2>2, RequestStep DEF RequestFails
<1>11. ASSUME NEW i \in Streams, MonitorCheck(i) PROVE MapInv'
  <2> DEFINE m == mon'[i]
  <2>1. mon[i].pc # "off" /\ UNCHANGED <<kind, subs, req>>
    BY <1>11 DEF MonitorCheck
  <2>2. m \in MonitorRecord /\ m.pc # "off" /\ m.key = mon[i].key
    BY <1>11 DEF MonitorCheck, PingFailed, MapInv, Watching, MonitorRecord
  <2>3. mon' = [mon EXCEPT ![i] = m]
    BY <1>11 DEF MonitorCheck, PingFailed, MapInv
  <2> HIDE DEF m
  <2> QED
    BY <2>1, <2>2, <2>3, MonitorStep
<1>12. ASSUME NEW i \in Streams, PingStart(i) PROVE MapInv'
  <2> DEFINE m == mon'[i]
  <2>1. mon[i].pc # "off" /\ UNCHANGED <<kind, subs, req>>
    BY <1>12 DEF PingStart
  <2>2. m \in MonitorRecord /\ m.pc # "off" /\ m.key = mon[i].key
    BY <1>12 DEF PingStart, PingFailed, MapInv, Watching, MonitorRecord
  <2>3. mon' = [mon EXCEPT ![i] = m]
    BY <1>12 DEF PingStart, PingFailed, MapInv
  <2> HIDE DEF m
  <2> QED
    BY <2>1, <2>2, <2>3, MonitorStep
<1>13. ASSUME NEW i \in Streams, PingSend(i) PROVE MapInv'
  <2> DEFINE m == mon'[i]
  <2>1. mon[i].pc # "off" /\ UNCHANGED <<kind, subs, req>>
    BY <1>13 DEF PingSend
  <2>2. m \in MonitorRecord /\ m.pc # "off" /\ m.key = mon[i].key
    BY <1>13 DEF PingSend, PingFailed, MapInv, Watching, MonitorRecord
  <2>3. mon' = [mon EXCEPT ![i] = m]
    BY <1>13 DEF PingSend, PingFailed, MapInv
  <2> HIDE DEF m
  <2> QED
    BY <2>1, <2>2, <2>3, MonitorStep
<1>14. ASSUME NEW i \in Streams, MonitorDrop(i) PROVE MapInv'
  <2> DEFINE k == mon[i].key
  <2>1. k \in Keys /\ subs' = [subs EXCEPT ![k] = None] /\ UNCHANGED kind
    BY <1>14 DEF MonitorDrop, Unregister, MapInv, Watching
  <2>2. mon' = [mon EXCEPT ![i] = NoMonitor] /\ req' = Forget(subs[k])
    BY <1>14 DEF MonitorDrop
  <2>3. NoMonitor \in MonitorRecord /\ NoMonitor.pc = "off"
    BY DEF NoMonitor, MonitorRecord
  <2>4. mon' \in [Streams -> MonitorRecord] /\ \A j \in Streams : Watching(mon[j])'
    BY <2>2, <2>3 DEF MapInv, Watching
  <2>5. req' \in [Requests -> Request] /\ \A p \in Requests : Acting(req[p])'
    BY <2>2, ForgetKeepsRequests DEF MapInv, Acting, KeyOf
  <2>6. RegisteredMonitored'
    <3> SUFFICES ASSUME kind = "group", NEW l \in Keys, subs'[l] # None
                 PROVE  mon'[subs'[l]].pc # "off" /\ mon'[subs'[l]].key = l
      BY <2>1 DEF RegisteredMonitored
    <3>1. l # k /\ subs'[l] = subs[l] /\ subs[l] \in Streams
      BY <2>1 DEF MapInv
    <3>2. mon[subs[l]].pc # "off" /\ mon[subs[l]].key = l
      BY <3>1 DEF MapInv, RegisteredMonitored
    <3> QED
      BY <2>2, <3>1, <3>2 DEF MapInv
  <2> QED
    BY <2>1, <2>4, <2>5, <2>6 DEF MapInv
<1>15. ASSUME NEW i \in Streams, Read(i) \/ Leave(i) PROVE MapInv'
  BY <1>15, RequestStep DEF Read, Leave, MapInv, Acting, KeyOf
<1>16. CASE UNCHANGED vars
  BY <1>16, RequestStep DEF vars, MapInv, Acting, KeyOf
<1> QED
  BY <1>1, <1>2, <1>3, <1>4, <1>5, <1>6, <1>7, <1>8, <1>9,
     <1>10, <1>11, <1>12, <1>13, <1>14, <1>15, <1>16
     DEF Next, Step, Monitor, Requests, SubscribeToGroupUpdates, SubscribeToPresetUpdates,
         UpdatePresets, UpdateGroup

\* In the beginning nothing is registered and nobody acts.
LEMMA MapInit == Init => MapInv
<1> SUFFICES ASSUME Init PROVE MapInv
  OBVIOUS
<1>1. NoMonitor \in MonitorRecord /\ NoMonitor.pc = "off"
  BY DEF NoMonitor, MonitorRecord
<1>2. \A q \in Requests : Acting(req[q])
  BY DEF Init, Acting, Idle
<1>3. \A i \in Streams : Watching(mon[i])
  BY <1>1 DEF Init, Watching
<1>4. RegisteredMonitored
  BY DEF Init, RegisteredMonitored
<1> QED
  BY <1>1, <1>2, <1>3, <1>4, RequestTypes DEF Init, MapInv

(***************************************************************************)
(* A group stream that is in the map of NotificationManager has a monitor  *)
(* of its own key running, however subscriptions, monitors and clients     *)
(* interleave.                                                             *)
(***************************************************************************)
THEOREM GroupStreamsMonitored == Spec => []RegisteredMonitored
<1>1. MapInv => RegisteredMonitored
  BY DEF MapInv
<1> QED
  BY <1>1, MapInit, MapStep, PTL DEF Spec
-----------------------------------------------------------------------------
(***************************************************************************)
(* The channels: a send waits for room, a read for a message.              *)
(***************************************************************************)
Channel == [open : BOOLEAN, queued : 0..Capacity]

Channels == streams \in [Streams -> Channel]

\* The channels that are put in place of others.
LEMMA NewChannels == NoStream \in Channel /\ NewStream \in Channel
BY TasksAssumption DEF NoStream, NewStream, Channel

\* A step that changes one channel leaves channels.
LEMMA OneChannel ==
  ASSUME Channels, NEW i, NEW c \in Channel, streams' = [streams EXCEPT ![i] = c]
  PROVE  Channels'
BY DEF Channels

\* Taking a sender out closes a channel, or there is none.
LEMMA UnregisterChannels ==
  ASSUME Channels, NEW k, Unregister(k)
  PROVE  Channels'
BY NewChannels, OneChannel DEF Unregister, Closed, Channels

\* A message that is queued when there is room, or taken when there is one.
LEMMA MessageChannels ==
  ASSUME Channels, NEW i \in Streams, NEW n \in 0..Capacity,
         streams' = [streams EXCEPT ![i].queued = n]
  PROVE  Channels'
<1>1. [streams[i] EXCEPT !.queued = n] \in Channel
  BY DEF Channels, Channel
<1>2. streams' = [streams EXCEPT ![i] = [streams[i] EXCEPT !.queued = n]]
  OBVIOUS
<1> QED
  BY <1>1, <1>2, OneChannel

(***************************************************************************)
(* The monitors: how often a ping failed, and where the next one goes.     *)
(***************************************************************************)
PingOK(m) ==
  /\ m.fails \in 0..MaxFailures
  /\ m.pc \in {"wait", "ping", "send"} => m.fails < MaxFailures
  /\ m.pc = "send" => m.to \in Streams

Pings == \A i \in Streams : PingOK(mon[i])

\* The monitor of one stream goes on.
LEMMA OnePing ==
  ASSUME mon \in [Streams -> MonitorRecord], Pings,
         NEW i \in Streams, NEW m, PingOK(m), mon' = [mon EXCEPT ![i] = m]
  PROVE  Pings'
BY DEF Pings, PingOK

\* A failed ping that is not the last one allowed leaves room for another.
LEMMA FailedPing ==
  ASSUME mon \in [Streams -> MonitorRecord], Pings,
         NEW i \in Streams, mon[i].pc \in {"ping", "send"}, PingFailed(i)
  PROVE  Pings'
<1> DEFINE n == mon[i].fails + 1
           m == [mon[i] EXCEPT !.fails = n, !.to = None,
                               !.pc = IF n >= MaxFailures THEN "drop" ELSE "wait"]
<1>1. mon[i] \in MonitorRecord /\ mon[i].fails \in Nat /\ mon[i].fails < MaxFailures
  BY TasksAssumption DEF Pings, PingOK
<1>2. m.fails = n /\ m.pc = IF n >= MaxFailures THEN "drop" ELSE "wait"
  BY <1>1 DEF MonitorRecord
<1>3. PingOK(m)
  BY <1>1, <1>2, TasksAssumption DEF PingOK
<1>4. mon' = [mon EXCEPT ![i] = m]
  BY DEF PingFailed
<1> HIDE DEF m
<1> QED
  BY <1>3, <1>4, OnePing

(***************************************************************************)
(* The mutex: held by the broadcast or the ping that is sending.           *)
(***************************************************************************)
LockInv ==
  /\ lock \in Requests \cup Streams \cup {Free}
  /\ \A q \in Requests : req[q].op = "send" <=> lock = q
  /\ \A i \in Streams : mon[i].pc = "send" <=> lock = i

\* Whoever is sending goes on sending, and nobody else begins.
SameSenders ==
  /\ lock' = lock
  /\ \A q \in Requests : req'[q].op = "send" <=> req[q].op = "send"
  /\ \A i \in Streams : mon'[i].pc = "send" <=> mon[i].pc = "send"

\* Then the mutex is where it should be.
LEMMA SameLock ==
  ASSUME LockInv, SameSenders
  PROVE  LockInv'
BY DEF LockInv, SameSenders

\* No stream is in the map twice.
Unique == \A k, l \in Keys : subs[k] # None /\ subs[k] = subs[l] => k = l

StreamInv ==
  /\ kind \in {"group", "preset"}
  /\ MapInv /\ Channels /\ Pings /\ LockInv /\ Unique

\* What StreamInv has to do with the type invariant of the module.
LEMMA StreamTypes ==
  ASSUME StreamInv
  PROVE  TypeOK
<1> DEFINE R == {q \in Requests : req[q].op = "send"}
           M == {i \in Streams : mon[i].pc = "send"}
<1>1. R \cup M = {lock} \ {Free}
  BY TasksAssumption DEF StreamInv, LockInv
<1>2. mon \in [Streams -> [pc : {"off", "wait", "ping", "send", "drop"},
                           key : Keys \cup {NoKey}, fails : 0..MaxFailures,
                           to : Streams \cup {None}]]
  <2>1. \A i \in Streams :
          /\ mon[i] \in MonitorRecord
          /\ mon[i].fails \in 0..MaxFailures
    BY DEF StreamInv, MapInv, Pings, PingOK
  <2>2. mon = [i \in Streams |-> mon[i]]
    BY DEF StreamInv, MapInv
  <2> QED
    BY <2>1, <2>2 DEF MonitorRecord
<1> QED
  BY <1>1, <1>2 DEF TypeOK, StreamInv, MapInv, Channels, Channel, Unique

\* What keeps LockInv and Pings: a step in which no monitor changes.
LEMMA QuietMonitors ==
  ASSUME Pings, UNCHANGED mon
  PROVE  Pings'
BY DEF Pings, PingOK

\* Taking a stream out, or putting an unused one in, keeps the map unique.
LEMMA UniqueMap ==
  ASSUME Unique, subs \in [Keys -> Streams \cup {None}], NEW k \in Keys,
         NEW i, i = None \/ i \notin Registered,
         subs' = [subs EXCEPT ![k] = i]
  PROVE  Unique'
BY DEF Unique, Registered

\* Every step of the subscribers, the updates, the monitors and the clients
\* keeps the channels what they should be.
LEMMA ChannelsStep ==
  ASSUME MapInv, Pings, Channels, [Next]_vars
  PROVE  Channels'
<1> USE DEF Subscribe, Update, Store, BroadcastStart, BroadcastEnd, Answer,
            RequestFails, MonitorCheck, PingStart
<1>1. ASSUME NEW q \in Requests, Replace(q) PROVE Channels'
  BY <1>1, UnregisterChannels DEF Replace
<1>2. ASSUME NEW q \in Requests, NEW i \in Streams, Register(q, i) PROVE Channels'
  BY <1>2, NewChannels DEF Register, Channels
<1>3. ASSUME NEW q \in Requests, NEW i \in Streams, BroadcastSend(q, i) PROVE Channels'
  <2>1. CASE UNCHANGED streams
    BY <2>1 DEF Channels
  <2>2. CASE /\ streams[i].queued < Capacity
             /\ streams' = [streams EXCEPT ![i].queued = @ + 1]
    <3>1. streams[i].queued + 1 \in 0..Capacity
      BY <2>2, TasksAssumption DEF Channels, Channel
    <3> QED
      BY <2>2, <3>1, MessageChannels
  <2> QED
    BY <1>3, <2>1, <2>2 DEF BroadcastSend
<1>4. ASSUME NEW i \in Streams, PingSend(i) PROVE Channels'
  <2> DEFINE s == mon[i].to
  <2>1. s \in Streams
    BY <1>4 DEF PingSend, Pings, PingOK
  <2>2. CASE UNCHANGED streams
    BY <2>2 DEF Channels
  <2>3. CASE /\ streams[s].queued < Capacity
             /\ streams' = [streams EXCEPT ![s].queued = @ + 1]
    <3>1. streams[s].queued + 1 \in 0..Capacity
      BY <2>1, <2>3, TasksAssumption DEF Channels, Channel
    <3> QED
      BY <2>1, <2>3, <3>1, MessageChannels
  <2> QED
    BY <1>4, <2>2, <2>3 DEF PingSend
<1>5. ASSUME NEW i \in Streams, MonitorDrop(i) PROVE Channels'
  BY <1>5, UnregisterChannels DEF MonitorDrop
<1>6. ASSUME NEW i \in Streams, Read(i) PROVE Channels'
  <2>1. streams[i].queued - 1 \in 0..Capacity
    BY <1>6, TasksAssumption DEF Read, Channels, Channel
  <2> QED
    BY <1>6, <2>1, MessageChannels DEF Read
<1>7. ASSUME NEW i \in Streams, Leave(i) PROVE Channels'
  BY <1>7, NewChannels, OneChannel DEF Leave
<1>8. CASE UNCHANGED streams
  BY <1>8 DEF Channels
<1> QED
  BY <1>1, <1>2, <1>3, <1>4, <1>5, <1>6, <1>7, <1>8
     DEF Next, Step, Monitor, SubscribeToGroupUpdates, SubscribeToPresetUpdates,
         UpdatePresets, UpdateGroup, vars

\* The same of the monitors.
LEMMA PingsStep ==
  ASSUME MapInv, Pings, [Next]_vars
  PROVE  Pings'
<1> USE DEF Subscribe, Update, Store, BroadcastStart, BroadcastSend, BroadcastEnd,
            Answer, RequestFails, Replace, Read, Leave
<1>0. mon \in [Streams -> MonitorRecord]
  BY DEF MapInv
<1>1. ASSUME NEW q \in Requests, NEW i \in Streams, Register(q, i) PROVE Pings'
  <2> DEFINE m == NewMonitor(KeyOf(req[q]))
  <2>1. m.fails = 0 /\ m.pc = "wait" /\ PingOK(m)
    BY TasksAssumption DEF NewMonitor, NoMonitor, PingOK
  <2>2. mon' = mon \/ mon' = [mon EXCEPT ![i] = m]
    BY <1>1 DEF Register
  <2> HIDE DEF m
  <2> QED
    BY <1>0, <2>1, <2>2, OnePing, QuietMonitors
<1>2. ASSUME NEW i \in Streams, MonitorCheck(i) PROVE Pings'
  <2> DEFINE m == [mon[i] EXCEPT !.pc = IF subs[mon[i].key] = None THEN "drop"
                                        ELSE "ping"]
  <2>1. m.fails = mon[i].fails /\ m.pc \in {"drop", "ping"}
    BY <1>0 DEF MonitorRecord
  <2>2. PingOK(m)
    BY <1>2, <2>1 DEF MonitorCheck, Pings, PingOK
  <2>3. mon' = [mon EXCEPT ![i] = m]
    BY <1>2 DEF MonitorCheck
  <2> HIDE DEF m
  <2> QED
    BY <1>0, <2>2, <2>3, OnePing
<1>3. ASSUME NEW i \in Streams, PingStart(i) PROVE Pings'
  <2> DEFINE s == subs[mon[i].key]
             m == [mon[i] EXCEPT !.pc = "send", !.to = s]
  <2>1. CASE PingFailed(i)
    BY <1>0, <1>3, <2>1, FailedPing DEF PingStart
  <2>2. CASE s # None /\ mon' = [mon EXCEPT ![i] = m]
    <3>1. s \in Streams
      BY <1>3, <2>2 DEF PingStart, MapInv, Watching
    <3>2. m.fails = mon[i].fails /\ m.pc = "send" /\ m.to = s
      BY <1>0 DEF MonitorRecord
    <3>3. PingOK(m)
      BY <1>3, <3>1, <3>2 DEF PingStart, Pings, PingOK
    <3> HIDE DEF m
    <3> QED
      BY <1>0, <2>2, <3>3, OnePing
  <2> QED
    BY <1>3, <2>1, <2>2 DEF PingStart
<1>4. ASSUME NEW i \in Streams, PingSend(i) PROVE Pings'
  <2> DEFINE m == [mon[i] EXCEPT !.pc = "wait", !.fails = 0, !.to = None]
  <2>1. CASE PingFailed(i)
    BY <1>0, <1>4, <2>1, FailedPing DEF PingSend
  <2>2. CASE mon' = [mon EXCEPT ![i] = m]
    <3>1. m.fails = 0 /\ m.pc = "wait"
      BY <1>0 DEF MonitorRecord
    <3>2. PingOK(m)
      BY <3>1, TasksAssumption DEF PingOK
    <3> HIDE DEF m
    <3> QED
      BY <1>0, <2>2, <3>2, OnePing
  <2> QED
    BY <1>4, <2>1, <2>2 DEF PingSend
<1>5. ASSUME NEW i \in Streams, MonitorDrop(i) PROVE Pings'
  <2>1. PingOK(NoMonitor)
    BY TasksAssumption DEF NoMonitor, PingOK
  <2> QED
    BY <1>0, <1>5, <2>1, OnePing DEF MonitorDrop
<1>6. CASE UNCHANGED mon
  BY <1>6, QuietMonitors
<1> QED
  BY <1>1, <1>2, <1>3, <1>4, <1>5, <1>6
     DEF Next, Step, Monitor, SubscribeToGroupUpdates, SubscribeToPresetUpdates,
         UpdatePresets, UpdateGroup, vars

\* The same of the uniqueness of streams in the map.
LEMMA UniqueStep ==
  ASSUME MapInv, Unique, [Next]_vars
  PROVE  Unique'
<1> USE DEF Subscribe, Update, Store, BroadcastStart, BroadcastSend, BroadcastEnd,
            Answer, RequestFails, MonitorCheck, PingStart, PingSend, Read, Leave
<1>1. ASSUME NEW q \in Requests, Replace(q) PROVE Unique'
  BY <1>1, UniqueMap DEF Replace, Unregister, MapInv, Acting
<1>2. ASSUME NEW q \in Requests, NEW i \in Streams, Register(q, i) PROVE Unique'
  BY <1>2, UniqueMap DEF Register, Unused, MapInv, Acting
<1>3. ASSUME NEW i \in Streams, MonitorDrop(i) PROVE Unique'
  BY <1>3, UniqueMap DEF MonitorDrop, Unregister, MapInv, Watching
<1>4. CASE UNCHANGED subs
  BY <1>4 DEF Unique
<1> QED
  BY <1>1, <1>2, <1>3, <1>4
     DEF Next, Step, Monitor, SubscribeToGroupUpdates, SubscribeToPresetUpdates,
         UpdatePresets, UpdateGroup, vars

\* A request that goes on without beginning or ending to send leaves the
\* mutex where it is.
LEMMA RequestQuiet ==
  ASSUME MapInv, LockInv, UNCHANGED <<mon, lock>>, NEW q \in Requests,
         \A p \in Requests \ {q} : req'[p].op = req[p].op,
         req'[q].op = "send" <=> req[q].op = "send"
  PROVE  LockInv'
BY SameLock DEF SameSenders

\* The same of the mutex.
LEMMA LockStep ==
  ASSUME MapInv, LockInv, [Next]_vars
  PROVE  LockInv'
<1>0. /\ req \in [Requests -> Request] /\ mon \in [Streams -> MonitorRecord]
      /\ Idle.op = "idle"
  BY DEF MapInv, Idle
<1>1. ASSUME NEW q \in Requests, NEW a \in Accounts, NEW d \in Hashes,
             Subscribe(q, a, d) \/ Update(q, a, d)
      PROVE  LockInv'
  <2>1. Begin("replace", a, d).op = "replace" /\ Begin("store", a, d).op = "store"
    BY DEF Begin, Idle
  <2> QED
    BY <1>0, <1>1, <2>1, RequestQuiet DEF Subscribe, Update
<1>2. ASSUME NEW q \in Requests, Replace(q) PROVE LockInv'
  <2> DEFINE F == Forget(subs[KeyOf(req[q])])
  <2>1. /\ F \in [Requests -> Request]
        /\ \A p \in Requests : F[p].op = req[p].op
    BY <1>0, ForgetKeepsRequests
  <2>2. req' = [F EXCEPT ![q].op = "register"]
    BY <1>2 DEF Replace
  <2> HIDE DEF F
  <2>3. /\ \A p \in Requests \ {q} : req'[p].op = req[p].op
        /\ req'[q].op = "register"
    BY <2>1, <2>2 DEF Request
  <2> QED
    BY <1>2, <2>3, RequestQuiet DEF Replace
<1>3. ASSUME NEW q \in Requests, NEW i \in Streams, Register(q, i) PROVE LockInv'
  <2> DEFINE F == Forget(subs[KeyOf(req[q])])
             m == NewMonitor(KeyOf(req[q]))
  <2>1. /\ F \in [Requests -> Request]
        /\ \A p \in Requests : F[p].op = req[p].op
    BY <1>0, ForgetKeepsRequests
  <2>2. req' = [F EXCEPT ![q] = Idle]
    BY <1>3 DEF Register
  <2>3. m.pc = "wait" /\ NoMonitor.pc = "off"
    BY DEF NewMonitor, NoMonitor
  <2>4. mon[i].pc = "off" /\ (mon' = mon \/ mon' = [mon EXCEPT ![i] = m])
    BY <1>3, <2>3 DEF Register, Unused
  <2> HIDE DEF F, m
  <2>5. \A p \in Requests : req'[p].op = "send" <=> req[p].op = "send"
    BY <1>0, <1>3, <2>1, <2>2 DEF Register
  <2>6. \A j \in Streams : mon'[j].pc = "send" <=> mon[j].pc = "send"
    BY <1>0, <2>3, <2>4
  <2> QED
    BY <1>3, <2>5, <2>6, SameLock DEF Register, SameSenders
<1>4. ASSUME NEW q \in Requests, Store(q) PROVE LockInv'
  BY <1>0, <1>4, RequestQuiet DEF Store, Request
<1>5. ASSUME NEW q \in Requests, BroadcastStart(q) PROVE LockInv'
  <2>1. /\ req'[q].op = "send" /\ \A p \in Requests \ {q} : req'[p].op = req[p].op
        /\ lock = Free /\ lock' = q /\ UNCHANGED mon
    BY <1>0, <1>5 DEF BroadcastStart, Request
  <2> QED
    BY <2>1, TasksAssumption DEF LockInv
<1>6. ASSUME NEW q \in Requests, NEW i \in Streams, BroadcastSend(q, i) PROVE LockInv'
  BY <1>0, <1>6, RequestQuiet DEF BroadcastSend, Request
<1>7. ASSUME NEW q \in Requests, BroadcastEnd(q) PROVE LockInv'
  <2>1. /\ req[q].op = "send" /\ req'[q].op = "answer"
        /\ \A p \in Requests \ {q} : req'[p].op = req[p].op
        /\ lock' = Free /\ UNCHANGED mon
    BY <1>0, <1>7 DEF BroadcastEnd, Request
  <2> QED
    BY <2>1, TasksAssumption DEF LockInv
<1>8. ASSUME NEW q \in Requests, Answer(q) PROVE LockInv'
  BY <1>0, <1>8, RequestQuiet DEF Answer, Finish
<1>9. ASSUME NEW q \in Requests, RequestFails(q) PROVE LockInv'
  <2>1. /\ req'[q].op = "idle"
        /\ \A p \in Requests \ {q} : req'[p].op = req[p].op
        /\ lock' = (IF lock = q THEN Free ELSE lock) /\ UNCHANGED mon
    BY <1>0, <1>9 DEF RequestFails, Finish
  <2> QED
    BY <2>1, TasksAssumption DEF LockInv
<1>10. ASSUME NEW i \in Streams, MonitorCheck(i) PROVE LockInv'
  <2>1. /\ mon[i].pc = "wait" /\ mon'[i].pc \in {"drop", "ping"}
        /\ \A j \in Streams \ {i} : mon'[j] = mon[j]
    BY <1>0, <1>10 DEF MonitorCheck, MonitorRecord
  <2> QED
    BY <1>10, <2>1, SameLock DEF MonitorCheck, SameSenders
<1>11. ASSUME NEW i \in Streams, PingStart(i) PROVE LockInv'
  <2>1. /\ mon[i].pc = "ping" /\ lock = Free /\ UNCHANGED req
        /\ \A j \in Streams \ {i} : mon'[j] = mon[j]
        /\ \/ mon'[i].pc \in {"drop", "wait"} /\ UNCHANGED lock
           \/ mon'[i].pc = "send" /\ lock' = i
    BY <1>0, <1>11 DEF PingStart, PingFailed, MonitorRecord
  <2> QED
    BY <2>1, TasksAssumption DEF LockInv
<1>12. ASSUME NEW i \in Streams, PingSend(i) PROVE LockInv'
  <2>1. /\ mon[i].pc = "send" /\ lock' = Free /\ UNCHANGED req
        /\ \A j \in Streams \ {i} : mon'[j] = mon[j]
        /\ mon'[i].pc \in {"drop", "wait"}
    BY <1>0, <1>12 DEF PingSend, PingFailed, MonitorRecord
  <2> QED
    BY <2>1, TasksAssumption DEF LockInv
<1>13. ASSUME NEW i \in Streams, MonitorDrop(i) PROVE LockInv'
  <2>1. \A p \in Requests : req'[p].op = req[p].op
    BY <1>0, <1>13, ForgetKeepsRequests DEF MonitorDrop
  <2>2. /\ mon[i].pc = "drop" /\ mon'[i].pc = "off"
        /\ \A j \in Streams \ {i} : mon'[j] = mon[j]
    BY <1>0, <1>13 DEF MonitorDrop, NoMonitor
  <2> QED
    BY <1>13, <2>1, <2>2, SameLock DEF MonitorDrop, SameSenders
<1>14. CASE UNCHANGED <<req, mon, lock>>
  BY <1>14 DEF LockInv
<1> QED
  BY <1>1, <1>2, <1>3, <1>4, <1>5, <1>6, <1>7, <1>8, <1>9, <1>10, <1>11, <1>12,
     <1>13, <1>14
     DEF Next, Step, Monitor, Requests, SubscribeToGroupUpdates,
         SubscribeToPresetUpdates, UpdatePresets, UpdateGroup, Read, Leave, vars

\* All of it together, in every state.
LEMMA StreamAlways == Spec => []StreamInv
<1>1. Init => StreamInv
  <2> SUFFICES ASSUME Init PROVE StreamInv
    OBVIOUS
  <2>1. MapInv
    BY MapInit
  <2>2. Channels
    BY NewChannels DEF Init, Channels
  <2>3. Pings
    BY TasksAssumption DEF Init, Pings, PingOK, NoMonitor
  <2>4. LockInv
    BY TasksAssumption DEF Init, LockInv, NoMonitor, Idle
  <2>5. Unique
    BY DEF Init, Unique
  <2> QED
    BY <2>1, <2>2, <2>3, <2>4, <2>5 DEF Init, StreamInv
<1>2. StreamInv /\ [Next]_vars => StreamInv'
  <2> SUFFICES ASSUME StreamInv, [Next]_vars PROVE StreamInv'
    OBVIOUS
  <2>1. UNCHANGED kind
    BY DEF Next, Step, Monitor, SubscribeToGroupUpdates, SubscribeToPresetUpdates,
           UpdatePresets, UpdateGroup, Read, Leave, vars, Subscribe, Update, Replace,
           Register, Store, BroadcastStart, BroadcastSend, BroadcastEnd, Answer,
           RequestFails, MonitorCheck, PingStart, PingSend, MonitorDrop
  <2> QED
    BY <2>1, MapStep, ChannelsStep, PingsStep, LockStep, UniqueStep DEF StreamInv
<1> QED
  BY <1>1, <1>2, PTL DEF Spec

(***************************************************************************)
(* The maps, channels and tasks hold what they should; no stream is in the *)
(* map of NotificationManager twice; no more messages are queued than a    *)
(* channel holds, and no more failures counted than a monitor allows; and  *)
(* the mutex of the map is held by the broadcast or the ping that is       *)
(* sending, and by nobody else.                                            *)
(***************************************************************************)
THEOREM TypeCorrect == Spec => []TypeOK
BY StreamAlways, StreamTypes, PTL

-----------------------------------------------------------------------------
(***************************************************************************)
(* Whom a broadcast owes the update.  The map may change between storing   *)
(* an update and broadcasting it, and the channels while it is broadcast;  *)
(* the streams that are owed the update stay in the map, among those the   *)
(* broadcast is going to send to, is sending to or has sent to.            *)
(***************************************************************************)
Owes(q) ==
  LET r == req[q] IN
  /\ r.owed \subseteq Registered
  /\ r.op = "lock" => r.owed \subseteq Audience(r)
  /\ r.op = "send" => \A i \in r.owed : streams[i].open => i \in r.todo \cup r.told
  /\ r.op = "answer" => \A i \in r.owed : streams[i].open => i \in r.told

OwesInv == \A q \in Requests : Owes(q)

\* The map may lose and gain streams, as long as none is lost that is owed
\* the update.
OwedStay(p) ==
  \A k \in Keys : subs'[k] # subs[k] => subs[k] \notin req'[p].owed

\* Channels are opened for streams that are owed nothing.
OwedOpen(p) ==
  \A i \in req[p].owed : streams'[i].open => streams[i].open

\* What a request that does not act itself has to do with the steps of others.
Watched(p) ==
  /\ req'[p].op = req[p].op /\ req'[p].acct = req[p].acct /\ req'[p].dev = req[p].dev
  /\ req'[p].todo = req[p].todo /\ req'[p].told = req[p].told

\* The streams that are owed the update stay registered.
LEMMA OwedRegistered ==
  ASSUME MapInv, NEW p \in Requests, Owes(p),
         req'[p].owed \subseteq req[p].owed, OwedStay(p)
  PROVE  req'[p].owed \subseteq Registered'
BY DEF OwedStay, Owes, Registered

\* A request that is not acting goes on owing what it should.
LEMMA OwesKept ==
  ASSUME MapInv, NEW p \in Requests, Owes(p),
         req'[p].owed \subseteq req[p].owed, OwedStay(p), OwedOpen(p), Watched(p)
  PROVE  Owes(p)'
<1>1. (req[p].owed \subseteq Registered)'
  BY OwedRegistered
<1>2. ASSUME req[p].op = "lock" PROVE req'[p].owed \subseteq Audience(req[p])'
  <2>1. \A d \in Hashes : <<req[p].acct, d>> \in Keys
    BY <1>2 DEF MapInv, Acting, KeyOf, Keys
  <2>2. req'[p].owed \subseteq Audience(req[p])
    BY <1>2 DEF Owes
  <2> QED
    BY <2>1, <2>2 DEF OwedStay, Watched, Audience
<1>3. ASSUME req[p].op = "send", NEW i \in req'[p].owed, streams'[i].open
      PROVE  i \in req'[p].todo \cup req'[p].told
  BY <1>3 DEF Owes, OwedOpen, Watched
<1>4. ASSUME req[p].op = "answer", NEW i \in req'[p].owed, streams'[i].open
      PROVE  i \in req'[p].told
  BY <1>4 DEF Owes, OwedOpen, Watched
<1> QED
  BY <1>1, <1>2, <1>3, <1>4 DEF Owes, Watched

\* A step of q that leaves the map and opens no channel.
LEMMA OthersOwe ==
  ASSUME MapInv, OwesInv, NEW q \in Requests, UNCHANGED subs,
         \A p \in Requests \ {q} : req'[p] = req[p],
         \A i \in Streams : streams'[i].open => streams[i].open,
         Owes(q)'
  PROVE  OwesInv'
<1>1. ASSUME NEW p \in Requests \ {q} PROVE Owes(p)'
  <2>1. req[p].owed \subseteq Streams
    BY DEF MapInv, Request
  <2> QED
    BY <2>1, OwesKept DEF OwesInv, OwedStay, OwedOpen, Watched
<1> QED
  BY <1>1 DEF OwesInv

\* A request that owes nothing.
LEMMA OwesNothing ==
  ASSUME NEW q \in Requests, req'[q].owed = {}
  PROVE  Owes(q)'
BY DEF Owes

\* The streams a broadcast goes to are in the map.
LEMMA AudienceRegistered ==
  ASSUME MapInv, NEW q \in Requests, req[q].op # "idle"
  PROVE  Audience(req[q]) \subseteq Registered
<1>1. \A d \in Hashes : <<req[q].acct, d>> \in Keys
  BY DEF MapInv, Acting, KeyOf, Keys
<1> QED
  BY <1>1 DEF Audience, Registered

\* What Forget does to the streams that are owed the update.
LEMMA ForgetOwed ==
  ASSUME req \in [Requests -> Request], NEW i, NEW p \in Requests
  PROVE  /\ Forget(i)[p].owed = req[p].owed \ {i}
         /\ Forget(i)[p].todo = req[p].todo
         /\ Forget(i)[p].told = req[p].told
BY DEF Forget, Request

\* A sender is taken out, and a stream that was not in the map may be put in:
\* the requests that do not act go on owing what they should.
LEMMA MapChanges ==
  ASSUME MapInv, OwesInv, NEW k \in Keys, NEW v,
         subs' = [subs EXCEPT ![k] = v],
         NEW p \in Requests, req'[p] = Forget(subs[k])[p],
         \A i \in Registered : streams'[i].open => streams[i].open
  PROVE  Owes(p)'
<1>1. req \in [Requests -> Request] /\ subs \in [Keys -> Streams \cup {None}]
  BY DEF MapInv
<1>2. req'[p].owed = req[p].owed \ {subs[k]} /\ Watched(p)
  BY <1>1, ForgetOwed, ForgetKeepsRequests DEF Watched
<1>3. OwedStay(p)
  BY <1>1, <1>2 DEF OwedStay
<1>4. OwedOpen(p)
  BY DEF OwesInv, Owes, OwedOpen
<1> QED
  BY <1>2, <1>3, <1>4, OwesKept DEF OwesInv

\* Every step of the subscribers, the updates, the monitors and the clients
\* keeps OwesInv.
LEMMA OwesStep ==
  ASSUME StreamInv, OwesInv, [Next]_vars
  PROVE  OwesInv'
<1>0. /\ MapInv /\ Channels /\ req \in [Requests -> Request]
      /\ subs \in [Keys -> Streams \cup {None}]
  BY DEF StreamInv, MapInv
<1>1. ASSUME NEW q \in Requests, NEW a \in Accounts, NEW d \in Hashes,
             Subscribe(q, a, d) \/ Update(q, a, d)
      PROVE  OwesInv'
  <2>1. Begin("replace", a, d).owed = {} /\ Begin("store", a, d).owed = {}
    BY DEF Begin, Idle
  <2>2. req'[q].owed = {}
    BY <1>0, <1>1, <2>1 DEF Subscribe, Update
  <2> QED
    BY <1>0, <1>1, <2>2, OwesNothing, OthersOwe DEF Subscribe, Update
<1>2. ASSUME NEW q \in Requests, Replace(q) PROVE OwesInv'
  <2> DEFINE k == KeyOf(req[q])
             F == Forget(subs[k])
  <2>1. /\ k \in Keys /\ subs' = [subs EXCEPT ![k] = None]
        /\ req' = [F EXCEPT ![q].op = "register"]
    BY <1>0, <1>2 DEF Replace, Unregister, MapInv, Acting
  <2>2. \A i \in Streams : streams'[i].open => streams[i].open
    BY <1>0, <1>2 DEF Replace, Unregister, Closed, NoStream, Channels
  <2>3. F \in [Requests -> Request] /\ Registered \subseteq Streams
    BY <1>0, ForgetKeepsRequests DEF Registered
  <2>4. F[q].owed = req[q].owed \ {subs[k]}
    BY <1>0, ForgetOwed
  <2> HIDE DEF k, F
  <2>5. ASSUME NEW p \in Requests \ {q} PROVE Owes(p)'
    BY <1>0, <2>1, <2>2, <2>3, MapChanges DEF F
  <2>6. req'[q].op = "register" /\ req'[q].owed = req[q].owed \ {subs[k]}
    BY <2>1, <2>3, <2>4 DEF Request
  <2>7. (req[q].owed \subseteq Registered)'
    BY <1>0, <2>1, <2>6, OwedRegistered DEF OwesInv, OwedStay
  <2>8. Owes(q)'
    BY <2>6, <2>7 DEF Owes
  <2> QED
    BY <2>5, <2>8 DEF OwesInv
<1>3. ASSUME NEW q \in Requests, NEW i \in Streams, Register(q, i) PROVE OwesInv'
  <2> DEFINE k == KeyOf(req[q])
             F == Forget(subs[k])
  <2>1. /\ k \in Keys /\ subs' = [subs EXCEPT ![k] = i]
        /\ req' = [F EXCEPT ![q] = Idle] /\ i \notin Registered
    BY <1>0, <1>3 DEF Register, Unused, MapInv, Acting
  <2>2. F \in [Requests -> Request] /\ Registered \subseteq Streams
    BY <1>0, ForgetKeepsRequests DEF Registered
  <2>3. \A s \in Registered : streams'[s].open => streams[s].open
    BY <1>3, <2>1, <2>2 DEF Register, NoStream
  <2> HIDE DEF k, F
  <2>4. ASSUME NEW p \in Requests \ {q} PROVE Owes(p)'
    BY <1>0, <2>1, <2>2, <2>3, MapChanges DEF F
  <2>5. req'[q].owed = {}
    BY <2>1, <2>2 DEF Idle
  <2> QED
    BY <2>4, <2>5, OwesNothing DEF OwesInv
<1>4. ASSUME NEW q \in Requests, Store(q) PROVE OwesInv'
  <2>1. /\ req'[q].op = "lock" /\ req'[q].owed = Audience(req[q])
        /\ req'[q].acct = req[q].acct /\ req'[q].dev = req[q].dev
    BY <1>0, <1>4 DEF Store, Request
  <2>2. UNCHANGED subs /\ Audience(req[q]) \subseteq Registered
    BY <1>0, <1>4, AudienceRegistered DEF Store
  <2>3. Owes(q)'
    BY <2>1, <2>2 DEF Owes, Audience, Registered
  <2> QED
    BY <1>0, <1>4, <2>3, OthersOwe DEF Store
<1>5. ASSUME NEW q \in Requests, BroadcastStart(q) PROVE OwesInv'
  <2>1. /\ req[q].op = "lock" /\ req'[q].op = "send" /\ req'[q].owed = req[q].owed
        /\ req'[q].todo = Audience(req[q]) /\ UNCHANGED <<subs, streams>>
    BY <1>0, <1>5 DEF BroadcastStart, Request
  <2>2. Owes(q)'
    BY <2>1 DEF Owes, OwesInv, Registered
  <2> QED
    BY <1>0, <1>5, <2>1, <2>2, OthersOwe DEF BroadcastStart
<1>6. ASSUME NEW q \in Requests, NEW i \in Streams, BroadcastSend(q, i) PROVE OwesInv'
  <2>1. /\ req[q].op = "send" /\ req'[q].op = "send" /\ req'[q].owed = req[q].owed
        /\ req'[q].todo = req[q].todo \ {i} /\ UNCHANGED subs
        /\ \/ req'[q].told = req[q].told /\ ~streams[i].open
           \/ req'[q].told = req[q].told \cup {i}
    BY <1>0, <1>6 DEF BroadcastSend, Request
  <2>2. \A s \in Streams : streams'[s].open = streams[s].open
    BY <1>0, <1>6 DEF BroadcastSend, Channels, Channel
  <2>3. req[q].owed \subseteq Streams
    BY <1>0 DEF Request
  <2>4. Owes(q)'
    BY <2>1, <2>2, <2>3 DEF Owes, OwesInv, Registered
  <2> QED
    BY <1>0, <1>6, <2>1, <2>2, <2>4, OthersOwe DEF BroadcastSend
<1>7. ASSUME NEW q \in Requests, BroadcastEnd(q) PROVE OwesInv'
  <2>1. /\ req[q].op = "send" /\ req'[q].op = "answer" /\ req'[q].owed = req[q].owed
        /\ req[q].todo = {} /\ req'[q].told = req[q].told
        /\ UNCHANGED <<subs, streams>>
    BY <1>0, <1>7 DEF BroadcastEnd, Request
  <2>2. Owes(q)'
    BY <2>1 DEF Owes, OwesInv, Registered
  <2> QED
    BY <1>0, <1>7, <2>1, <2>2, OthersOwe DEF BroadcastEnd
<1>8. ASSUME NEW q \in Requests, Answer(q) \/ RequestFails(q) PROVE OwesInv'
  <2>1. req'[q] = Idle
    BY <1>0, <1>8 DEF Answer, RequestFails, Finish
  <2>2. req'[q].owed = {}
    BY <2>1 DEF Idle
  <2> QED
    BY <1>0, <1>8, <2>2, OwesNothing, OthersOwe DEF Answer, RequestFails, Finish
<1>9. ASSUME UNCHANGED <<req, subs>>,
             \A i \in Streams : streams'[i].open => streams[i].open
      PROVE  OwesInv'
  <2>1. \A p \in Requests : req[p].owed \subseteq Streams
    BY <1>0 DEF Request
  <2> QED
    BY <1>0, <1>9, <2>1, OwesKept DEF OwesInv, OwedStay, OwedOpen, Watched
<1>10. ASSUME NEW i \in Streams, PingSend(i) PROVE OwesInv'
  <2>1. \A s \in Streams : streams'[s].open => streams[s].open
    BY <1>0, <1>10 DEF PingSend, Channels, Channel
  <2> QED
    BY <1>9, <1>10, <2>1 DEF PingSend
<1>11. ASSUME NEW i \in Streams, MonitorDrop(i) PROVE OwesInv'
  <2> DEFINE k == mon[i].key
  <2>1. k \in Keys /\ subs' = [subs EXCEPT ![k] = None] /\ req' = Forget(subs[k])
    BY <1>0, <1>11 DEF MonitorDrop, Unregister, MapInv, Watching
  <2>2. \A s \in Streams : streams'[s].open => streams[s].open
    BY <1>0, <1>11 DEF MonitorDrop, Unregister, Closed, NoStream, Channels
  <2>3. Registered \subseteq Streams
    BY <1>0 DEF Registered
  <2> HIDE DEF k
  <2> QED
    BY <1>0, <2>1, <2>2, <2>3, MapChanges DEF OwesInv
<1>12. ASSUME NEW i \in Streams, Read(i) \/ Leave(i) PROVE OwesInv'
  <2>1. \A s \in Streams : streams'[s].open => streams[s].open
    BY <1>0, <1>12 DEF Read, Leave, NoStream, Channels, Channel
  <2> QED
    BY <1>9, <1>12, <2>1 DEF Read, Leave
<1>13. CASE UNCHANGED <<req, subs, streams>>
  BY <1>9, <1>13
<1> QED
  BY <1>1, <1>2, <1>3, <1>4, <1>5, <1>6, <1>7, <1>8, <1>10, <1>11, <1>12, <1>13
     DEF Next, Step, Monitor, Requests, SubscribeToGroupUpdates,
         SubscribeToPresetUpdates, UpdatePresets, UpdateGroup, MonitorCheck,
         PingStart, vars

(***************************************************************************)
(* When an update of the presets or of a group is answered, every stream   *)
(* another device of the account had when the update was stored, and has   *)
(* kept since, was given it, whatever is subscribed, dropped and broadcast *)
(* in between.                                                             *)
(***************************************************************************)
THEOREM UpdatesAreTold == Spec => []UpdateTold
<1>1. Init => OwesInv
  BY DEF Init, OwesInv, Owes, Idle
<1>2. StreamInv /\ OwesInv /\ [Next]_vars => OwesInv'
  BY OwesStep
<1>3. OwesInv => UpdateTold
  BY DEF OwesInv, Owes, UpdateTold
<1> QED
  BY <1>1, <1>2, <1>3, StreamAlways, PTL DEF Spec
-----------------------------------------------------------------------------
(***************************************************************************)
(* Proofs about module Devices, the table that says which account may      *)
(* subscribe with which device, for any number of accounts, devices and    *)
(* requests.  As in Devices, no account hash is None.                      *)
(*                                                                         *)
(* A SELECT locks nothing, so AnsweredRegistered rests on what a request   *)
(* may still believe of the row it found: the row is there unless a delete *)
(* of the device has come in between, since no other statement takes a row *)
(* from its account.  FoundInv says so.                                    *)
(***************************************************************************)
\* A request in progress is of an account and a device, and three kinds of
\* request look the device up first.
Acts(r) ==
  /\ r.op # "idle" => r.acct \in Accounts /\ r.dev \in Hashes
  /\ r.op = "get" => r.why \in {"info", "login", "sync"}

\* Request r found a row, and is about to update it.
Found(r) == r.op = "update" \/ (r.op = "write" /\ r.found)

FoundInv ==
  /\ DevicesTypeOK
  /\ \A q \in Calls : Acts(call[q])
  /\ \A q \in Calls :
       Found(call[q]) /\ ~call[q].gone => HasRow(call[q].acct, call[q].dev)
  /\ AnsweredRegistered

-----------------------------------------------------------------------------
\* What a handler leaves when it returns is a request.
LEMMA IdleRequest == NoCall \in CallRecord
BY DEF NoCall, CallRecord

Marked(r) == [r EXCEPT !.gone = TRUE]

\* delete_device marks the requests for its device and changes nothing else of
\* them.
LEMMA MarkedRequest ==
  ASSUME NEW r \in CallRecord
  PROVE  /\ Marked(r) \in CallRecord
         /\ Marked(r).gone
         /\ Marked(r).op = r.op
         /\ Marked(r).why = r.why
         /\ Marked(r).acct = r.acct
         /\ Marked(r).dev = r.dev
         /\ Marked(r).found = r.found
BY DEF Marked, CallRecord

With(r, op, b) == [r EXCEPT !.op = op, !.active = b]

\* After get_device a request goes on with the is_active it has, or, for a
\* sync, with the one it read.
LEMMA NextRequest ==
  ASSUME NEW r \in CallRecord, NEW op \in {"select", "update"}
  PROVE  /\ [r EXCEPT !.op = op] = With(r, op, r.active)
         /\ r.active \in BOOLEAN
BY DEF With, CallRecord

(***************************************************************************)
(* The UPDATE of register_device and update_device changes the account of  *)
(* no row.                                                                 *)
(***************************************************************************)
LEMMA UpdateKeepsRows ==
  ASSUME DevicesTypeOK, NEW q \in Calls, Acts(call[q]), call[q].op # "idle",
         UpdateRow(call[q])
  PROVE  /\ devices' \in [Hashes -> Row \cup {NoRow}]
         /\ \A d \in Hashes : devices'[d].acct = devices[d].acct
BY DEF DevicesTypeOK, Acts, UpdateRow, HasRow, Row, NoRow, CallRecord

\* Request q goes on as r.
Becomes(q, r) == call' = [call EXCEPT ![q] = r]

(***************************************************************************)
(* A step of request q that writes no row keeps FoundInv if q, as it goes  *)
(* on, acts for somebody and found what it says it found.                  *)
(***************************************************************************)
LEMMA ReadStep ==
  ASSUME FoundInv, NEW q \in Calls, NEW r \in CallRecord,
         Becomes(q, r), UNCHANGED <<devices, owned>>,
         Acts(r), Found(r) /\ ~r.gone => HasRow(r.acct, r.dev)
  PROVE  FoundInv'
<1>1. DevicesTypeOK'
  BY DEF FoundInv, DevicesTypeOK, Becomes
<1>2. \A p \in Calls : Acts(call[p])'
  BY DEF FoundInv, DevicesTypeOK, Becomes, Acts
<1>3. \A p \in Calls :
        (Found(call[p]) /\ ~call[p].gone => HasRow(call[p].acct, call[p].dev))'
  BY DEF FoundInv, DevicesTypeOK, Becomes, Found, HasRow
<1> QED
  BY <1>1, <1>2, <1>3 DEF FoundInv, AnsweredRegistered, HasRow

(***************************************************************************)
(* A request that register_device, update_device_info, a login or a sync   *)
(* begins keeps FoundInv: it has found nothing yet.                        *)
(***************************************************************************)
LEMMA BeginStep ==
  ASSUME FoundInv, NEW q \in Calls, NEW r \in CallRecord,
         \/ r.op = "select"
         \/ r.op = "get" /\ r.why \in {"info", "login", "sync"},
         r.acct \in Accounts, r.dev \in Hashes,
         Becomes(q, r), UNCHANGED <<devices, owned>>
  PROVE  FoundInv'
<1>1. Acts(r) /\ ~Found(r)
  BY DEF Acts, Found
<1> QED
  BY <1>1, ReadStep

(***************************************************************************)
(* A write that is answered with success keeps FoundInv if it takes no row *)
(* from its account and leaves the row of the request in the table.        *)
(***************************************************************************)
LEMMA AnswerStep ==
  ASSUME FoundInv, NEW q \in Calls, call[q].op # "idle",
         devices' \in [Hashes -> Row \cup {NoRow}],
         \A a \in Accounts, d \in Hashes : HasRow(a, d) => HasRow(a, d)',
         \/ call[q].gone
         \/ call[q].why = "sync"
         \/ devices'[call[q].dev].acct = call[q].acct,
         AnswerSuccess(call[q]), EndCall(q)
  PROVE  FoundInv'
<1>1. call[q].acct \in Accounts /\ call[q].dev \in Hashes
  BY DEF FoundInv, Acts
<1>2. DevicesTypeOK'
  <2>1. owned' \subseteq Accounts \X Hashes
    <3>1. owned \subseteq Accounts \X Hashes
      BY DEF FoundInv, DevicesTypeOK
    <3>2. <<call[q].acct, call[q].dev>> \in Accounts \X Hashes
      BY <1>1
    <3>3. owned' \subseteq owned \cup {<<call[q].acct, call[q].dev>>}
      BY DEF AnswerSuccess
    <3> QED
      BY <3>1, <3>2, <3>3
  <2>2. call' \in [Calls -> CallRecord]
    BY IdleRequest DEF FoundInv, DevicesTypeOK, EndCall
  <2> QED
    BY <2>1, <2>2 DEF DevicesTypeOK
<1>3. \A p \in Calls : Acts(call[p])'
  BY DEF FoundInv, DevicesTypeOK, EndCall, Acts, NoCall
<1>4. ASSUME NEW p \in Calls, Found(call[p])', ~call[p].gone'
      PROVE  HasRow(call[p].acct, call[p].dev)'
  <2>1. p # q
    BY <1>4 DEF FoundInv, DevicesTypeOK, EndCall, Found, NoCall
  <2>2. call'[p] = call[p]
    BY <2>1 DEF FoundInv, DevicesTypeOK, EndCall
  <2>3. /\ HasRow(call[p].acct, call[p].dev)
        /\ call[p].acct \in Accounts /\ call[p].dev \in Hashes
    BY <1>4, <2>2 DEF FoundInv, Found, Acts
  <2>4. HasRow(call[p].acct, call[p].dev) => devices'[call[p].dev].acct = call[p].acct
    BY <2>3 DEF HasRow
  <2> QED
    BY <2>2, <2>3, <2>4 DEF HasRow
<1>5. ASSUME NEW ad \in owned' PROVE HasRow(ad[1], ad[2])'
  <2>1. CASE ad \in owned
    <3>1. ad[1] \in Accounts /\ ad[2] \in Hashes
      BY <2>1 DEF FoundInv, DevicesTypeOK
    <3> QED
      BY <2>1, <3>1 DEF FoundInv, AnsweredRegistered, HasRow
  <2>2. CASE ad \notin owned
    <3>1. ad = <<call[q].acct, call[q].dev>> /\ devices'[call[q].dev].acct = call[q].acct
      BY <1>5, <2>2 DEF AnswerSuccess
    <3> QED
      BY <3>1 DEF HasRow
  <2> QED
    BY <2>1, <2>2
<1> QED
  BY <1>2, <1>3, <1>4, <1>5 DEF FoundInv, AnsweredRegistered

(***************************************************************************)
(* Every statement of the handlers keeps FoundInv.                         *)
(***************************************************************************)
LEMMA FoundStep == FoundInv /\ [DevicesNext]_deviceVars => FoundInv'
<1> SUFFICES ASSUME FoundInv, [DevicesNext]_deviceVars PROVE FoundInv'
  OBVIOUS
<1>1. ASSUME NEW q \in Calls, NEW a \in Accounts, NEW d \in Hashes,
             NEW active \in BOOLEAN,
             RegisterDevice(q, a, d, active)
      PROVE  FoundInv'
  <2> DEFINE r == [Call("select", "register", a, d) EXCEPT !.active = active]
  <2>1. r \in CallRecord /\ r.op = "select" /\ r.why = "register" /\ r.acct = a /\ r.dev = d
    BY DEF Call, NoCall, CallRecord
  <2>2. Becomes(q, r) /\ UNCHANGED <<devices, owned>>
    BY <1>1 DEF RegisterDevice, Becomes
  <2> HIDE DEF r
  <2> QED
    BY <2>1, <2>2, BeginStep
<1>2. ASSUME NEW q \in Calls, NEW a \in Accounts, NEW d \in Hashes,
             NEW active \in BOOLEAN,
             UpdateDeviceInfo(q, a, d, active)
      PROVE  FoundInv'
  <2> DEFINE r == [Call("get", "info", a, d) EXCEPT !.active = active]
  <2>1. r \in CallRecord /\ r.op = "get" /\ r.why = "info" /\ r.acct = a /\ r.dev = d
    BY DEF Call, NoCall, CallRecord
  <2>2. Becomes(q, r) /\ UNCHANGED <<devices, owned>>
    BY <1>2 DEF UpdateDeviceInfo, Becomes
  <2> HIDE DEF r
  <2> QED
    BY <2>1, <2>2, BeginStep
<1>3. ASSUME NEW q \in Calls, NEW a \in Accounts, NEW d \in Hashes,
             AutoRegisterDevice(q, a, d)
      PROVE  FoundInv'
  <2> DEFINE r == [Call("get", "login", a, d) EXCEPT !.active = TRUE]
  <2>1. r \in CallRecord /\ r.op = "get" /\ r.why = "login" /\ r.acct = a /\ r.dev = d
    BY DEF Call, NoCall, CallRecord
  <2>2. Becomes(q, r) /\ UNCHANGED <<devices, owned>>
    BY <1>3 DEF AutoRegisterDevice, Becomes
  <2> HIDE DEF r
  <2> QED
    BY <2>1, <2>2, BeginStep
<1>4. ASSUME NEW q \in Calls, NEW a \in Accounts, NEW d \in Hashes,
             SyncDelivered(q, a, d)
      PROVE  FoundInv'
  <2> DEFINE r == Call("get", "sync", a, d)
  <2>1. r \in CallRecord /\ r.op = "get" /\ r.why = "sync" /\ r.acct = a /\ r.dev = d
    BY DEF Call, NoCall, CallRecord
  <2>2. Becomes(q, r) /\ UNCHANGED <<devices, owned>>
    BY <1>4 DEF SyncDelivered, Becomes
  <2> HIDE DEF r
  <2> QED
    BY <2>1, <2>2, BeginStep
<1>5. ASSUME NEW q \in Calls, GetDevice(q) PROVE FoundInv'
  <2>1. /\ call[q] \in CallRecord /\ call[q].op = "get" /\ UNCHANGED <<devices, owned>>
        /\ call[q].acct \in Accounts /\ call[q].dev \in Hashes
    BY <1>5 DEF GetDevice, FoundInv, DevicesTypeOK, Acts
  <2> DEFINE found == HasRow(call[q].acct, call[q].dev)
  <2>2. CASE Becomes(q, NoCall)
    <3>1. Acts(NoCall) /\ ~Found(NoCall)
      BY DEF Acts, Found, NoCall
    <3> QED
      BY <2>1, <2>2, <3>1, IdleRequest, ReadStep
  <2>3. ASSUME NEW op \in {"select", "update"}, NEW b \in BOOLEAN,
               op = "update" => found, Becomes(q, With(call[q], op, b))
        PROVE  FoundInv'
    <3> DEFINE r == With(call[q], op, b)
    <3>1. r \in CallRecord /\ r.op = op /\ r.acct = call[q].acct /\ r.dev = call[q].dev
      <4>1. call[q] \in CallRecord
        BY <2>1
      <4> QED
        BY <4>1 DEF With, CallRecord
    <3> HIDE DEF r
    <3>2. Acts(r) /\ (Found(r) => HasRow(r.acct, r.dev))
      BY <2>1, <2>3, <3>1 DEF Acts, Found
    <3> QED
      BY <2>1, <2>3, <3>1, <3>2, ReadStep DEF r
  <2>4. CASE call[q].why \in {"info", "login"}
    <3>1. PICK op \in {"select", "update"} :
            /\ op = "update" => found
            /\ call' = [call EXCEPT ![q].op = op]
      BY <1>5, <2>4 DEF GetDevice
    <3>2. Becomes(q, With(call[q], op, call[q].active)) /\ call[q].active \in BOOLEAN
      BY <2>1, <3>1, NextRequest DEF Becomes
    <3> QED
      BY <2>3, <3>1, <3>2
  <2>5. CASE call[q].why = "sync" /\ found
    <3>1. devices[call[q].dev].active \in BOOLEAN
      <4>1. devices[call[q].dev] \in Row \cup {NoRow}
        BY <2>1 DEF FoundInv, DevicesTypeOK
      <4>2. \A row \in Row : row.active \in BOOLEAN
        BY DEF Row
      <4>3. NoRow.active = FALSE
        BY DEF NoRow
      <4> QED
        BY <4>1, <4>2, <4>3, Zenon
    <3>2. Becomes(q, With(call[q], "update", devices[call[q].dev].active))
      BY <1>5, <2>5 DEF GetDevice, Becomes, With
    <3> QED
      BY <2>3, <2>5, <3>1, <3>2
  <2>6. CASE call[q].why = "sync" /\ ~found
    <3>1. Becomes(q, NoCall)
      BY <1>5, <2>6 DEF GetDevice, Becomes
    <3> QED
      BY <2>2, <3>1
  <2> QED
    BY <2>1, <2>4, <2>5, <2>6 DEF FoundInv, Acts
<1>6. ASSUME NEW q \in Calls, RegisterSelect(q) PROVE FoundInv'
  <2> DEFINE r == [call[q] EXCEPT !.op = "write",
                                 !.found = HasRow(call[q].acct, call[q].dev)]
  <2>1. call[q] \in CallRecord /\ call[q].acct \in Accounts /\ call[q].dev \in Hashes
    BY <1>6 DEF RegisterSelect, FoundInv, DevicesTypeOK, Acts
  <2>2. r \in CallRecord /\ r.acct = call[q].acct /\ r.dev = call[q].dev /\ r.op = "write"
    BY <2>1 DEF CallRecord, HasRow
  <2>3. Acts(r) /\ (Found(r) => HasRow(r.acct, r.dev))
    BY <2>1, <2>2 DEF Acts, Found, CallRecord
  <2>4. Becomes(q, r) /\ UNCHANGED <<devices, owned>>
    BY <1>6 DEF RegisterSelect, Becomes
  <2> HIDE DEF r
  <2> QED
    BY <2>2, <2>3, <2>4, ReadStep
<1>7. ASSUME NEW q \in Calls, RegisterInsert(q) PROVE FoundInv'
  <2>1. /\ call[q].op # "idle" /\ call[q] \in CallRecord
        /\ call[q].acct \in Accounts /\ call[q].dev \in Hashes
    BY <1>7 DEF RegisterInsert, FoundInv, DevicesTypeOK, Acts
  <2>2. NewRow(call[q]) \in Row /\ NewRow(call[q]).acct = call[q].acct
    BY <2>1 DEF NewRow, Row, CallRecord
  <2>3. devices' = [devices EXCEPT ![call[q].dev] = NewRow(call[q])]
    BY <1>7 DEF RegisterInsert
  <2>4. devices' \in [Hashes -> Row \cup {NoRow}]
    BY <2>2, <2>3 DEF FoundInv, DevicesTypeOK
  <2>5. devices'[call[q].dev].acct = call[q].acct
    BY <2>1, <2>2, <2>3 DEF FoundInv, DevicesTypeOK
  <2>6. \A a \in Accounts, d \in Hashes : HasRow(a, d) => HasRow(a, d)'
    <3>1. NoRow.acct \notin Accounts /\ devices[call[q].dev] = NoRow
      BY <1>7, AccountsAssumption DEF RegisterInsert, NoRow
    <3>2. \A d \in Hashes : d = call[q].dev \/ devices'[d] = devices[d]
      BY <2>1, <2>3 DEF FoundInv, DevicesTypeOK
    <3> QED
      BY <3>1, <3>2 DEF HasRow
  <2> QED
    BY <1>7, <2>1, <2>4, <2>5, <2>6, AnswerStep DEF RegisterInsert
<1>8. ASSUME NEW q \in Calls, RegisterUpdate(q) PROVE FoundInv'
  <2>1. call[q].op # "idle" /\ Found(call[q]) /\ Acts(call[q]) /\ DevicesTypeOK
    BY <1>8 DEF RegisterUpdate, Found, FoundInv
  <2>2. UpdateRow(call[q]) /\ AnswerSuccess(call[q]) /\ EndCall(q)
    BY <1>8 DEF RegisterUpdate
  <2>3. /\ devices' \in [Hashes -> Row \cup {NoRow}]
        /\ \A d \in Hashes : devices'[d].acct = devices[d].acct
    BY <2>1, <2>2, UpdateKeepsRows
  <2>4. \A a \in Accounts, d \in Hashes : HasRow(a, d) => HasRow(a, d)'
    BY <2>3 DEF HasRow
  <2>5. call[q].gone \/ devices'[call[q].dev].acct = call[q].acct
    BY <2>1, <2>3 DEF FoundInv, HasRow, Acts
  <2> QED
    BY <2>1, <2>2, <2>3, <2>4, <2>5, AnswerStep
<1>9. ASSUME NEW q \in Calls, UpdateDevice(q) PROVE FoundInv'
  <2>1. call[q].op # "idle" /\ Found(call[q]) /\ Acts(call[q]) /\ DevicesTypeOK
    BY <1>9 DEF UpdateDevice, Found, FoundInv
  <2>2. UpdateRow(call[q]) /\ AnswerSuccess(call[q]) /\ EndCall(q)
    BY <1>9 DEF UpdateDevice
  <2>3. /\ devices' \in [Hashes -> Row \cup {NoRow}]
        /\ \A d \in Hashes : devices'[d].acct = devices[d].acct
    BY <2>1, <2>2, UpdateKeepsRows
  <2>4. \A a \in Accounts, d \in Hashes : HasRow(a, d) => HasRow(a, d)'
    BY <2>3 DEF HasRow
  <2>5. call[q].gone \/ devices'[call[q].dev].acct = call[q].acct
    BY <2>1, <2>3 DEF FoundInv, HasRow, Acts
  <2> QED
    BY <2>1, <2>2, <2>3, <2>4, <2>5, AnswerStep
<1>10. ASSUME NEW q \in Calls, CallFails(q) PROVE FoundInv'
  <2>1. Becomes(q, NoCall) /\ UNCHANGED <<devices, owned>>
    BY <1>10 DEF CallFails, EndCall, Becomes
  <2>2. Acts(NoCall) /\ ~Found(NoCall)
    BY DEF Acts, Found, NoCall
  <2> QED
    BY <2>1, <2>2, IdleRequest, ReadStep
<1>11. ASSUME NEW a \in Accounts, NEW d \in Hashes, DeleteDevice(a, d) PROVE FoundInv'
  <2> DEFINE Hit(q) == call[q].acct = a /\ call[q].dev = d /\ call[q].op # "idle"
  <2>1. \A q \in Calls :
          call'[q] = IF Hit(q) THEN Marked(call[q]) ELSE call[q]
    BY <1>11 DEF DeleteDevice, Marked
  <2>2. \A b \in Accounts, e \in Hashes :
          devices[e].acct = b /\ ~(b = a /\ e = d) => devices'[e].acct = b
    BY <1>11 DEF DeleteDevice, DeleteRow, HasRow, FoundInv, DevicesTypeOK
  <2>3. DevicesTypeOK'
    <3>1. \A q \in Calls : call'[q] \in CallRecord
      BY <2>1, MarkedRequest DEF FoundInv, DevicesTypeOK
    <3>2. call' \in [Calls -> CallRecord]
      BY <1>11, <3>1 DEF DeleteDevice
    <3> QED
      BY <1>11, <3>2 DEF DeleteDevice, DeleteRow, FoundInv, DevicesTypeOK
  <2>4. \A q \in Calls :
          /\ Acts(call'[q])
          /\ Found(call'[q]) => Found(call[q])
          /\ call'[q].acct = call[q].acct /\ call'[q].dev = call[q].dev
          /\ ~call'[q].gone => ~Hit(q) /\ ~call[q].gone
    <3> SUFFICES ASSUME NEW q \in Calls
                 PROVE  /\ Acts(call'[q])
                        /\ Found(call'[q]) => Found(call[q])
                        /\ call'[q].acct = call[q].acct /\ call'[q].dev = call[q].dev
                        /\ ~call'[q].gone => ~Hit(q) /\ ~call[q].gone
      OBVIOUS
    <3>1. call[q] \in CallRecord /\ Acts(call[q])
      BY DEF FoundInv, DevicesTypeOK
    <3>2. CASE Hit(q)
      <4>1. call'[q] = Marked(call[q])
        BY <2>1, <3>2
      <4>2. /\ Marked(call[q]).gone /\ Marked(call[q]).op = call[q].op
            /\ Marked(call[q]).why = call[q].why
            /\ Marked(call[q]).acct = call[q].acct /\ Marked(call[q]).dev = call[q].dev
            /\ Marked(call[q]).found = call[q].found
        BY <3>1, MarkedRequest
      <4> QED
        BY <3>1, <4>1, <4>2 DEF Acts, Found
    <3>3. CASE ~Hit(q)
      BY <2>1, <3>1, <3>3
    <3> QED
      BY <3>2, <3>3
  <2>5. ASSUME NEW q \in Calls, Found(call'[q]), ~call'[q].gone
        PROVE  HasRow(call[q].acct, call[q].dev)'
    <3>1. /\ ~Hit(q) /\ ~call[q].gone /\ Found(call[q])
          /\ call'[q].acct = call[q].acct /\ call'[q].dev = call[q].dev
      BY <2>4, <2>5
    <3>2. /\ HasRow(call[q].acct, call[q].dev) /\ call[q].op # "idle"
          /\ call[q].acct \in Accounts /\ call[q].dev \in Hashes
      BY <3>1 DEF FoundInv, Found, Acts
    <3> QED
      BY <2>2, <3>1, <3>2 DEF HasRow
  <2>6. ASSUME NEW ad \in owned' PROVE HasRow(ad[1], ad[2])'
    <3>1. ad \in owned /\ ad # <<a, d>>
      BY <1>11, <2>6 DEF DeleteDevice
    <3>2. ad[1] \in Accounts /\ ad[2] \in Hashes /\ ~(ad[1] = a /\ ad[2] = d)
      BY <3>1 DEF FoundInv, DevicesTypeOK
    <3> QED
      BY <2>2, <3>1, <3>2 DEF FoundInv, AnsweredRegistered, HasRow
  <2>7. (\A q \in Calls : Acts(call[q]))'
    BY <2>4
  <2>8. (\A q \in Calls :
           Found(call[q]) /\ ~call[q].gone =>
             HasRow(call[q].acct, call[q].dev))'
    BY <2>5 DEF Found
  <2>9. AnsweredRegistered'
    BY <2>6 DEF AnsweredRegistered
  <2> QED
    BY <2>3, <2>7, <2>8, <2>9 DEF FoundInv
<1>12. CASE UNCHANGED deviceVars
  BY <1>12 DEF deviceVars, FoundInv, DevicesTypeOK, Acts, Found, HasRow, AnsweredRegistered
<1> QED
  BY <1>1, <1>2, <1>3, <1>4, <1>5, <1>6, <1>7, <1>8, <1>9, <1>10, <1>11, <1>12
     DEF DevicesNext

\* FoundInv holds of an empty table, and so of every table reached.
LEMMA FoundAlways == DevicesSpec => []FoundInv
<1>1. DevicesInit => FoundInv
  <2> SUFFICES ASSUME DevicesInit PROVE FoundInv
    OBVIOUS
  <2>1. DevicesTypeOK
    BY IdleRequest DEF DevicesInit, DevicesTypeOK
  <2>2. \A q \in Calls : Acts(call[q]) /\ ~Found(call[q])
    BY DEF DevicesInit, Acts, Found, NoCall
  <2> QED
    BY <2>1, <2>2 DEF DevicesInit, FoundInv, AnsweredRegistered
<1> QED
  BY <1>1, FoundStep, PTL DEF DevicesSpec

(***************************************************************************)
(* The devices table, the history and the requests of device_handler.rs    *)
(* keep their types.                                                       *)
(***************************************************************************)
THEOREM DevicesTypeCorrect == DevicesSpec => []DevicesTypeOK
BY FoundAlways, PTL DEF FoundInv

(***************************************************************************)
(* A registration that register_device, update_device_info or a login      *)
(* answered with success is in the devices table under its account until   *)
(* that account deletes the device.                                        *)
(***************************************************************************)
THEOREM AnsweredAreRegistered == DevicesSpec => []AnsweredRegistered
BY FoundAlways, PTL DEF FoundInv

(***************************************************************************)
(* No statement of mysql_device.rs hands a device from one account to      *)
(* another.                                                                *)
(***************************************************************************)
THEOREM DevicesKeepAccounts == DevicesSpec => DeviceKeepsAccount
<1>1. ASSUME FoundInv, [DevicesNext]_deviceVars
      PROVE  [\A d \in Hashes :
                devices[d] # NoRow /\ devices'[d] # NoRow =>
                  devices'[d].acct = devices[d].acct]_devices
  <2>1. CASE UNCHANGED devices
    BY <2>1
  <2>2. ASSUME NEW q \in Calls, RegisterInsert(q),
               NEW d \in Hashes, devices[d] # NoRow
        PROVE  devices'[d].acct = devices[d].acct
    BY <2>2 DEF RegisterInsert, FoundInv, DevicesTypeOK
  <2>3. ASSUME NEW q \in Calls, RegisterUpdate(q) \/ UpdateDevice(q), NEW d \in Hashes
        PROVE  devices'[d].acct = devices[d].acct
    BY <1>1, <2>3, UpdateKeepsRows DEF RegisterUpdate, UpdateDevice, FoundInv
  <2>4. ASSUME NEW a \in Accounts, NEW e \in Hashes, DeleteDevice(a, e),
               NEW d \in Hashes, devices'[d] # NoRow
        PROVE  devices'[d].acct = devices[d].acct
    BY <1>1, <2>4 DEF DeleteDevice, DeleteRow, FoundInv, DevicesTypeOK
  <2> QED
    BY <1>1, <2>1, <2>2, <2>3, <2>4
       DEF DevicesNext, deviceVars, RegisterDevice, UpdateDeviceInfo, AutoRegisterDevice,
           SyncDelivered, GetDevice, RegisterSelect, CallFails
<1> QED
  BY <1>1, FoundAlways, PTL DEF DevicesSpec, DeviceKeepsAccount

=============================================================================
