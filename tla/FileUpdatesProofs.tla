------------------------- MODULE FileUpdatesProofs -------------------------
(***************************************************************************)
(* Proofs about FileUpdates, for any devices, channels of any capacity,    *)
(* and any number of uploads and subscriptions.                            *)
(*                                                                         *)
(* There is no gap between the initial sync and the broadcasts.  An upload *)
(* whose broadcast is over was sent to the subscription, if that was       *)
(* registered when the broadcast began: the map cannot change while the    *)
(* broadcast holds its lock (Reaching).  If it was registered later, the   *)
(* upload was stored before the files were listed, so it is among those    *)
(* the initial sync sends (Syncing).  The sync sends to whatever is        *)
(* registered for its device; as long as that is the subscription itself,  *)
(* it sends to itself (Pushing).                                           *)
(***************************************************************************)
EXTENDS FileUpdates, TLAPS

\* What subscription s holds are uploads and subscriptions that exist.
SubInv(s) ==
  LET r == subs[s] IN
  /\ r.todo \subseteq Uploads
  /\ r.file \in {0} \cup Uploads
  /\ r.target \in {0} \cup Subs
  /\ r.phase = "push" => r.file # 0 /\ r.target # 0
  /\ Len(r.chan) <= Capacity
  /\ \A i \in DOMAIN r.chan : r.chan[i] \in Uploads
  /\ r.phase # "end" => r.open
  /\ r.phase \in {"new", "list"} => ~r.listed

\* A broadcast has a lock, and senders to send to.
TargetsInv ==
  /\ targets \in Seq(Devices)
  /\ targets # <<>> => lock # 0
  /\ \A i \in DOMAIN targets : subscribers[targets[i]] # 0

MapInv ==
  /\ subscribers \in [Devices -> {0} \cup Subs]
  /\ \A d \in Devices : subscribers[d] # 0 => subs[subscribers[d]].dev = d

TypeInv ==
  /\ clock \in Nat
  /\ uploads \in Seq(Upload)
  /\ lastSync \in [Devices -> Nat]
  /\ subs \in Seq(Sub)
  /\ \A s \in Subs : SubInv(s)
  /\ MapInv
  /\ lock \in {0} \cup Uploads
  /\ TargetsInv
  /\ timers \in 0 .. Len(subs)
  /\ received \in [Devices -> SUBSET Uploads]

Registered(s) == subscribers[subs[s].dev] = s

\* An upload of another device whose broadcast is over.
Over(s, u) == uploads[u].phase = "done" /\ uploads[u].dev # subs[s].dev

\* The device was told of it, or the initial sync is going to; that is, if the
\* storage lists all files.
Syncing(s) ==
  (/\ ~Filtered /\ Registered(s) /\ subs[s].listed
   /\ subs[s].phase \in {"sync", "push", "stream"}) =>
    \A u \in Uploads : Over(s, u) =>
      \/ u \in Told(s)
      \/ subs[s].phase \in {"sync", "push"} /\ u \in subs[s].todo
      \/ subs[s].phase = "push" /\ u = subs[s].file

\* The broadcast that holds the lock has told the device, or is going to.
Reaching(s) ==
  lock # 0 /\ Registered(s) /\ subs[s].open /\ uploads[lock].dev # subs[s].dev =>
    lock \in Told(s) \/ \E i \in DOMAIN targets : targets[i] = subs[s].dev

\* The initial sync sends to its own stream.
Pushing(s) ==
  Registered(s) /\ subs[s].phase = "push" => subs[s].target = s

GapInv == \A s \in Subs : Syncing(s) /\ Reaching(s) /\ Pushing(s)
Inv == TypeInv /\ GapInv

USE UpdatesAssumption

-----------------------------------------------------------------------------
(***************************************************************************)
(* Sequences: the channels, the lists of uploads and of subscriptions.     *)
(***************************************************************************)
\* An empty channel or list.
LEMMA SeqEmpty ==
  ASSUME NEW S
  PROVE  <<>> \in Seq(S) /\ Len(<<>>) = 0
OBVIOUS

\* The indices of a sequence and its elements.
LEMMA SeqLen ==
  ASSUME NEW S, NEW c \in Seq(S)
  PROVE  /\ Len(c) \in Nat /\ DOMAIN c = 1 .. Len(c) /\ (c # <<>> => Len(c) # 0)
         /\ \A i \in DOMAIN c : c[i] \in S
OBVIOUS

\* A sequence with one more element.
LEMMA SeqAppend ==
  ASSUME NEW S, NEW c \in Seq(S), NEW e \in S
  PROVE  /\ Append(c, e) \in Seq(S) /\ Len(Append(c, e)) = Len(c) + 1
         /\ Append(c, e)[Len(c) + 1] = e
         /\ \A i \in 1 .. Len(c) : Append(c, e)[i] = c[i]
OBVIOUS

\* A sequence without its first element.
LEMMA SeqTail ==
  ASSUME NEW S, NEW c \in Seq(S), c # <<>>
  PROVE  /\ Head(c) \in S /\ Tail(c) \in Seq(S) /\ Len(Tail(c)) = Len(c) - 1
         /\ \A i \in 1 .. Len(Tail(c)) : Tail(c)[i] = c[i + 1]
OBVIOUS

\* A sequence of which one element is another.
LEMMA SeqExcept ==
  ASSUME NEW S, NEW c \in Seq(S), NEW i \in DOMAIN c, NEW e \in S
  PROVE  LET x == [c EXCEPT ![i] = e] IN
         /\ x \in Seq(S) /\ Len(x) = Len(c) /\ DOMAIN x = DOMAIN c /\ x[i] = e
         /\ \A j \in DOMAIN c \ {i} : x[j] = c[j]
OBVIOUS

\* What is in sequence c.
Elems(c) == {c[i] : i \in DOMAIN c}

\* Sending to a channel.
LEMMA AppendElems ==
  ASSUME NEW S, NEW c \in Seq(S), NEW e \in S
  PROVE  /\ Append(c, e) \in Seq(S) /\ Len(Append(c, e)) = Len(c) + 1
         /\ Elems(Append(c, e)) = Elems(c) \cup {e}
<1>1. /\ Append(c, e) \in Seq(S) /\ Len(Append(c, e)) = Len(c) + 1
      /\ \A i \in 1 .. Len(c) : Append(c, e)[i] = c[i]
      /\ Append(c, e)[Len(c) + 1] = e
  BY SeqAppend
<1>2. DOMAIN c = 1 .. Len(c) /\ DOMAIN Append(c, e) = 1 .. Len(c) + 1 /\ Len(c) \in Nat
  BY <1>1, SeqLen
<1> QED
  BY <1>1, <1>2 DEF Elems

\* Receiving from a channel.
LEMMA TailElems ==
  ASSUME NEW S, NEW c \in Seq(S), c # <<>>
  PROVE  /\ Tail(c) \in Seq(S) /\ Len(Tail(c)) < Len(c) /\ Head(c) \in S
         /\ Elems(c) = Elems(Tail(c)) \cup {Head(c)}
<1>1. /\ Head(c) \in S /\ Tail(c) \in Seq(S) /\ Len(Tail(c)) = Len(c) - 1
      /\ \A i \in 1 .. Len(Tail(c)) : Tail(c)[i] = c[i + 1]
  BY SeqTail
<1>2. DOMAIN c = 1 .. Len(c) /\ DOMAIN Tail(c) = 1 .. Len(c) - 1 /\ Len(c) \in Nat \ {0}
  BY <1>1, SeqLen, SeqEmpty
<1>3. Head(c) = c[1]
  BY <1>2
<1>4. \A i \in DOMAIN c : i = 1 \/ (i - 1 \in DOMAIN Tail(c) /\ c[i] = Tail(c)[i - 1])
  BY <1>1, <1>2
<1>5. \A i \in DOMAIN Tail(c) : i + 1 \in DOMAIN c /\ c[i + 1] = Tail(c)[i]
  BY <1>1, <1>2
<1>6. 1 \in DOMAIN c
  BY <1>2
<1>7. Elems(c) \subseteq Elems(Tail(c)) \cup {Head(c)}
  <2> SUFFICES ASSUME NEW i \in DOMAIN c, c[i] # Head(c)
               PROVE  c[i] \in Elems(Tail(c))
    BY DEF Elems
  <2>1. i - 1 \in DOMAIN Tail(c) /\ c[i] = Tail(c)[i - 1]
    BY <1>3, <1>4
  <2> QED
    BY <2>1 DEF Elems
<1>8. Elems(Tail(c)) \cup {Head(c)} \subseteq Elems(c)
  BY <1>3, <1>5, <1>6 DEF Elems
<1>9. Len(Tail(c)) < Len(c)
  BY <1>1, <1>2
<1> QED
  BY <1>1, <1>7, <1>8, <1>9

\* The orders in which a broadcast may go through the map: all of them have
\* every device.
LEMMA OrdersElems ==
  ASSUME subs \in Seq(Sub), NEW S \in SUBSET Devices, NEW o \in Orders(S)
  PROVE  o \in Seq(Devices) /\ Elems(o) = S
<1>1. PICK n \in 0 .. Len(subs) : o \in Bijection(1 .. n, S)
  BY DEF Orders
<1>2. n \in Nat
  BY SeqLen
<1>3. o \in [1 .. n -> S] /\ \A d \in S : \E i \in 1 .. n : o[i] = d
  BY <1>1 DEF Bijection, Surjection
<1>4. o \in Seq(Devices)
  BY <1>2, <1>3
<1> QED
  BY <1>3, <1>4 DEF Elems

\* One subscription, or one upload, becomes another.
LEMMA OneSub ==
  ASSUME subs \in Seq(Sub), NEW s \in Subs, NEW r \in Sub, subs' = [subs EXCEPT ![s] = r]
  PROVE  /\ subs' \in Seq(Sub) /\ Len(subs') = Len(subs) /\ Subs' = Subs
         /\ subs'[s] = r /\ \A x \in Subs \ {s} : subs'[x] = subs[x]
<1>1. DOMAIN subs = 1 .. Len(subs)
  BY SeqLen
<1> QED
  BY <1>1, SeqExcept DEF Subs

\* The same for an upload.
LEMMA OneUpload ==
  ASSUME uploads \in Seq(Upload), NEW u \in Uploads, NEW r \in Upload,
         uploads' = [uploads EXCEPT ![u] = r]
  PROVE  /\ uploads' \in Seq(Upload) /\ Uploads' = Uploads
         /\ uploads'[u] = r /\ \A x \in Uploads \ {u} : uploads'[x] = uploads[x]
<1>1. DOMAIN uploads = 1 .. Len(uploads)
  BY SeqLen
<1> QED
  BY <1>1, SeqExcept DEF Uploads

\* Uploads and subscriptions are numbered from 1, so that 0 is none of them.
LEMMA Numbers ==
  ASSUME TypeInv
  PROVE  /\ Uploads = 1 .. Len(uploads) /\ Len(uploads) \in Nat /\ 0 \notin Uploads
         /\ Subs = 1 .. Len(subs) /\ Len(subs) \in Nat /\ 0 \notin Subs
         /\ \A s \in Subs : subs[s] \in Sub
         /\ \A u \in Uploads : uploads[u] \in Upload
<1>1. uploads \in Seq(Upload) /\ subs \in Seq(Sub)
  BY DEF TypeInv
<1>2. Uploads = 1 .. Len(uploads) /\ Len(uploads) \in Nat
  BY <1>1, SeqLen DEF Uploads
<1>3. Subs = 1 .. Len(subs) /\ Len(subs) \in Nat
  BY <1>1, SeqLen DEF Subs
<1> QED
  BY <1>1, <1>2, <1>3, SeqLen

-----------------------------------------------------------------------------
(***************************************************************************)
(* What a step may leave of the invariant for one subscription.            *)
(***************************************************************************)
\* Nothing new is registered; no new upload is over; a broadcast goes on or
\* there is none.
Steady ==
  /\ Subs \subseteq Subs' /\ Uploads \subseteq Uploads'
  /\ \A x \in Subs : subs'[x].dev = subs[x].dev /\ (Registered(x)' => Registered(x))
  /\ \A u \in Uploads : uploads'[u].dev = uploads[u].dev
  /\ \A u \in Uploads' :
       uploads'[u].phase = "done" => u \in Uploads /\ uploads[u].phase = "done"
  /\ lock' # 0 => lock' = lock /\ targets' = targets
  /\ \A d \in Devices : received[d] \subseteq received'[d]

\* The handler of subscription x took no step.
Waits(x) ==
  /\ subs'[x].phase = subs[x].phase /\ subs'[x].listed = subs[x].listed
  /\ subs'[x].todo = subs[x].todo /\ subs'[x].file = subs[x].file
  /\ subs'[x].target = subs[x].target

Tells(x) == \A u : u \in Told(x) => u \in Told(x)'

\* The channel has what it had, or more.
LEMMA TellsKept ==
  ASSUME TypeInv, Steady, NEW x \in Subs,
         Elems(subs[x].chan) \subseteq Elems(subs'[x].chan)
  PROVE  Tells(x)
<1>1. subs[x].dev \in Devices /\ subs'[x].dev = subs[x].dev
  BY Numbers DEF Steady, Sub
<1>2. received[subs[x].dev] \subseteq received'[subs'[x].dev]
  BY <1>1 DEF Steady
<1> QED
  BY <1>2 DEF Tells, Told, Elems

\* The broadcast that holds the lock still reaches subscription x.
LEMMA ReachingKept ==
  ASSUME Inv, Steady, NEW x \in Subs, subs'[x].open => subs[x].open /\ Tells(x)
  PROVE  Reaching(x)'
<1> SUFFICES ASSUME lock' # 0, Registered(x)', subs'[x].open,
                    uploads'[lock'].dev # subs'[x].dev
             PROVE  \/ lock' \in Told(x)'
                    \/ \E i \in DOMAIN targets' : targets'[i] = subs'[x].dev
  BY DEF Reaching
<1>1. lock' = lock /\ targets' = targets /\ lock \in Uploads /\ lock # 0
  BY DEF Steady, Inv, TypeInv
<1>2. /\ subs'[x].dev = subs[x].dev /\ uploads'[lock].dev = uploads[lock].dev
      /\ Registered(x) /\ subs[x].open /\ Tells(x)
  BY <1>1 DEF Steady
<1>3. Reaching(x)
  BY DEF Inv, GapInv
<1> QED
  BY <1>1, <1>2, <1>3 DEF Reaching, Tells

\* A handler that took no step has as much to send as before.
LEMMA WaitingKept ==
  ASSUME Inv, Steady, NEW x \in Subs, Waits(x), Tells(x)
  PROVE  Syncing(x)' /\ Pushing(x)'
<1>1. Syncing(x) /\ Pushing(x)
  BY DEF Inv, GapInv
<1>2. subs'[x].dev = subs[x].dev /\ (Registered(x)' => Registered(x))
  BY DEF Steady
<1>3. \A u \in Uploads' : Over(x, u)' => u \in Uploads /\ Over(x, u)
  BY <1>2 DEF Steady, Over
<1>4. Syncing(x)'
  BY <1>1, <1>2, <1>3 DEF Syncing, Waits, Tells
<1>5. Pushing(x)'
  BY <1>1, <1>2 DEF Pushing, Waits
<1> QED
  BY <1>4, <1>5

\* A subscription that is not touched at all.
LEMMA UntouchedKept ==
  ASSUME Inv, Steady, NEW x \in Subs, subs'[x] = subs[x]
  PROVE  Syncing(x)' /\ Reaching(x)' /\ Pushing(x)'
<1>1. Tells(x) /\ Waits(x)
  BY TellsKept DEF Waits, Inv
<1> QED
  BY <1>1, ReachingKept, WaitingKept

\* What subscription x holds still exists.
LEMMA SubKept ==
  ASSUME Uploads \subseteq Uploads', Subs \subseteq Subs', NEW x \in Subs, SubInv(x),
         subs'[x] = subs[x]
  PROVE  SubInv(x)'
BY DEF SubInv

\* So a step that writes one subscription is right if it is right for that one.
LEMMA OneStep ==
  ASSUME Inv, NEW s \in Subs, NEW r \in Sub, subs' = [subs EXCEPT ![s] = r],
         r.dev = subs[s].dev, r.open => subs[s].open /\ Tells(s),
         UNCHANGED <<clock, uploads, subscribers, lock, targets, timers>>,
         lastSync' \in [Devices -> Nat], received' \in [Devices -> SUBSET Uploads],
         \A d \in Devices : received[d] \subseteq received'[d],
         SubInv(s)', Syncing(s)', Pushing(s)'
  PROVE  Inv'
<1>1. TypeInv /\ subs \in Seq(Sub)
  BY DEF Inv, TypeInv
<1>2. /\ subs' \in Seq(Sub) /\ Len(subs') = Len(subs) /\ Subs' = Subs
      /\ subs'[s] = r /\ \A x \in Subs \ {s} : subs'[x] = subs[x]
  BY <1>1, OneSub
<1>3. Uploads' = Uploads /\ \A x \in Subs : subs'[x].dev = subs[x].dev
  BY <1>2 DEF Uploads
<1>4. Steady
  BY <1>2, <1>3 DEF Steady, Registered
<1>5. \A x \in Subs \ {s} : SubInv(x)'
  BY <1>1, <1>2, <1>3, SubKept DEF TypeInv
<1>6. MapInv'
  <2>1. \A d \in Devices : subscribers[d] # 0 => subscribers[d] \in Subs
    BY <1>1 DEF TypeInv, MapInv
  <2> QED
    BY <1>1, <1>2, <1>3, <2>1 DEF TypeInv, MapInv
<1>7. TypeInv'
  BY <1>1, <1>2, <1>3, <1>5, <1>6 DEF TypeInv, TargetsInv
<1>8. \A x \in Subs \ {s} : Syncing(x)' /\ Reaching(x)' /\ Pushing(x)'
  BY <1>2, <1>4, UntouchedKept
<1>9. Reaching(s)'
  BY <1>2, <1>4, ReachingKept
<1> QED
  BY <1>2, <1>7, <1>8, <1>9 DEF Inv, GapInv

-----------------------------------------------------------------------------
(***************************************************************************)
(* The handler of a subscription.                                          *)
(***************************************************************************)

\* What is the same in most of its steps.
Handler == UNCHANGED <<clock, uploads, subscribers, lock, targets, timers, received>>

\* A step of the handler that does not touch the channel.
LEMMA HandlerStep ==
  ASSUME Inv, NEW s \in Subs, NEW r \in Sub, subs' = [subs EXCEPT ![s] = r], Handler,
         lastSync' \in [Devices -> Nat],
         r.dev = subs[s].dev, r.chan = subs[s].chan, r.open = subs[s].open,
         r.phase # "end" => r.open, r.phase \in {"new", "list"} => ~r.listed,
         r.todo \subseteq Uploads, r.file \in {0} \cup Uploads, r.target \in {0} \cup Subs,
         r.phase = "push" =>
           r.file # 0 /\ r.target # 0 /\ (Registered(s) => r.target = s),
         (/\ ~Filtered /\ Registered(s) /\ r.listed
          /\ r.phase \in {"sync", "push", "stream"}) =>
           \A u \in Uploads : Over(s, u) =>
             \/ u \in Told(s)
             \/ r.phase \in {"sync", "push"} /\ u \in r.todo
             \/ r.phase = "push" /\ u = r.file
  PROVE  Inv'
<1>1. /\ TypeInv /\ subs \in Seq(Sub) /\ SubInv(s)
      /\ received \in [Devices -> SUBSET Uploads]
  BY DEF Inv, TypeInv
<1>2. Subs' = Subs /\ subs'[s] = r /\ Uploads' = Uploads
  BY <1>1, OneSub DEF Handler, Uploads
<1>3. Told(s)' = Told(s) /\ Tells(s)
  BY <1>2 DEF Handler, Told, Tells
<1>4. SubInv(s)'
  BY <1>1, <1>2 DEF SubInv
<1>5. (Registered(s)' <=> Registered(s)) /\ \A u : Over(s, u)' <=> Over(s, u)
  BY <1>2 DEF Registered, Over, Handler
<1>6. Syncing(s)'
  BY <1>2, <1>3, <1>5 DEF Syncing
<1>7. Pushing(s)'
  BY <1>2, <1>5 DEF Pushing
<1> QED
  BY <1>1, <1>3, <1>4, <1>6, <1>7, OneStep DEF Handler

\* The record a handler leaves behind when it returns.
LEMMA ReturnedSub ==
  ASSUME TypeInv, NEW s \in Subs
  PROVE  LET r == Returned(s) IN
         /\ r \in Sub /\ r.dev = subs[s].dev /\ r.chan = subs[s].chan
         /\ r.open = subs[s].open /\ r.phase = "stream" /\ r.listed = subs[s].listed
         /\ r.todo = {} /\ r.file = 0 /\ r.target = 0
<1>1. subs[s] \in Sub
  BY Numbers
<1> QED
  BY <1>1 DEF Returned, Sub

\* Nothing is listed yet.
LEMMA SyncStartInv ==
  ASSUME Inv, NEW s \in Subs, SyncStart(s)
  PROVE  Inv'
<1>1. /\ TypeInv /\ SubInv(s) /\ subs[s] \in Sub /\ subs[s].phase = "new"
      /\ Handler /\ lastSync' = lastSync /\ lastSync \in [Devices -> Nat]
  BY Numbers DEF SyncStart, Inv, TypeInv, Handler
<1>2. PICK stored \in {lastSync[subs[s].dev], 0} :
        subs' = [subs EXCEPT ![s].phase = "list", ![s].stored = stored,
                             ![s].max = Maximum(subs[s].since, stored)]
  BY DEF SyncStart
<1>3. stored \in Nat /\ Maximum(subs[s].since, stored) \in Nat
  BY <1>1 DEF Sub, Maximum
<1> DEFINE r == [subs[s] EXCEPT !.phase = "list", !.stored = stored,
                                !.max = Maximum(subs[s].since, stored)]
<1>4. subs' = [subs EXCEPT ![s] = r]
  BY <1>2
<1>5. /\ r \in Sub /\ r.dev = subs[s].dev /\ r.chan = subs[s].chan /\ r.open = subs[s].open
      /\ r.phase = "list" /\ r.todo = subs[s].todo /\ r.file = subs[s].file
      /\ r.target = subs[s].target /\ r.listed = subs[s].listed
  BY <1>1, <1>3 DEF Sub
<1> HIDE DEF r
<1> QED
  BY <1>1, <1>4, <1>5, HandlerStep DEF SubInv

\* Every upload that is over is stored, so it is listed.
LEMMA SyncListInv ==
  ASSUME Inv, NEW s \in Subs, SyncList(s)
  PROVE  Inv'
<1> DEFINE r == [subs[s] EXCEPT !.phase = "sync", !.todo = Listed(s), !.listed = TRUE]
<1>1. /\ TypeInv /\ SubInv(s) /\ subs[s] \in Sub /\ subs[s].phase = "list"
      /\ Handler /\ lastSync' = lastSync /\ lastSync \in [Devices -> Nat]
  BY Numbers DEF SyncList, Inv, TypeInv, Handler
<1>2. Listed(s) \subseteq Uploads /\ Listed(s) \subseteq Nat
  BY <1>1, Numbers DEF Listed, Files
<1>3. ~Filtered => \A u \in Uploads : Over(s, u) => u \in Listed(s)
  BY DEF Over, Listed, Files
<1>4. /\ r \in Sub /\ r.dev = subs[s].dev /\ r.chan = subs[s].chan /\ r.open = subs[s].open
      /\ r.phase = "sync" /\ r.todo = Listed(s) /\ r.file = subs[s].file
      /\ r.target = subs[s].target
  BY <1>1, <1>2 DEF Sub
<1>5. subs' = [subs EXCEPT ![s] = r]
  BY DEF SyncList
<1> HIDE DEF r
<1> QED
  BY ZenonT(30), <1>1, <1>2, <1>3, <1>4, <1>5, HandlerStep DEF SubInv

\* Nothing was listed, so nothing is promised.
LEMMA SyncListFailsInv ==
  ASSUME Inv, NEW s \in Subs, SyncListFails(s)
  PROVE  Inv'
<1> DEFINE r == [subs[s] EXCEPT !.phase = "sync"]
<1>1. /\ TypeInv /\ SubInv(s) /\ subs[s] \in Sub /\ subs[s].phase = "list"
      /\ Handler /\ lastSync' = lastSync /\ lastSync \in [Devices -> Nat]
  BY Numbers DEF SyncListFails, Inv, TypeInv, Handler
<1>2. ~subs[s].listed
  BY <1>1 DEF SubInv
<1>3. CASE subs' = [subs EXCEPT ![s] = Returned(s)]
  BY <1>1, <1>2, <1>3, ReturnedSub, HandlerStep DEF SubInv
<1>4. CASE subs' = [subs EXCEPT ![s] = r]
  <2>1. /\ r \in Sub /\ r.dev = subs[s].dev /\ r.chan = subs[s].chan
        /\ r.open = subs[s].open /\ r.phase = "sync" /\ r.todo = subs[s].todo
        /\ r.file = subs[s].file /\ r.target = subs[s].target /\ r.listed = subs[s].listed
    BY <1>1 DEF Sub
  <2> HIDE DEF r
  <2> QED
    BY <1>1, <1>2, <1>4, <2>1, HandlerStep DEF SubInv
<1> QED
  BY <1>3, <1>4 DEF SyncListFails

\* The file is in the hands of the handler, for what is registered now.
LEMMA SyncLookupInv ==
  ASSUME Inv, NEW s \in Subs, SyncLookup(s)
  PROVE  Inv'
<1> DEFINE o == subs[s]
           t == subscribers[o.dev]
<1>1. /\ TypeInv /\ SubInv(s) /\ Syncing(s) /\ o \in Sub /\ o.phase = "sync"
      /\ Handler /\ lastSync' = lastSync /\ lastSync \in [Devices -> Nat]
      /\ o.todo \subseteq Uploads
  BY Numbers DEF SyncLookup, Inv, TypeInv, GapInv, Handler, SubInv
<1>2. t \in {0} \cup Subs
  BY <1>1 DEF TypeInv, MapInv, Sub
<1>3. PICK u \in o.todo :
        IF t # 0
          THEN subs' = [subs EXCEPT ![s].phase = "push", ![s].file = u,
                                    ![s].target = t, ![s].todo = @ \ {u}]
          ELSE \E rest \in SUBSET (o.todo \ {u}) : subs' = [subs EXCEPT ![s].todo = rest]
  BY DEF SyncLookup
<1>4. u \in Uploads /\ u \in Nat /\ u # 0
  BY <1>1, Numbers
<1>5. CASE t # 0
  <2> DEFINE r == [o EXCEPT !.phase = "push", !.file = u, !.target = t, !.todo = @ \ {u}]
  <2>0. t \in Nat
    BY <1>1, <1>2, Numbers
  <2>1. subs' = [subs EXCEPT ![s] = r]
    BY <1>3, <1>5
  <2>2. /\ r \in Sub /\ r.dev = o.dev /\ r.chan = o.chan /\ r.open = o.open
        /\ r.phase = "push" /\ r.todo = o.todo \ {u} /\ r.file = u /\ r.target = t
        /\ r.listed = o.listed
    BY <1>1, <1>4, <2>0 DEF Sub
  <2>3. Registered(s) => t = s
    BY DEF Registered
  <2> HIDE DEF r
  <2> QED
    BY <1>1, <1>2, <1>4, <1>5, <2>1, <2>2, <2>3, HandlerStep DEF SubInv, Syncing
<1>6. CASE t = 0
  <2> PICK rest \in SUBSET (o.todo \ {u}) : subs' = [subs EXCEPT ![s].todo = rest]
    BY <1>3, <1>6
  <2> DEFINE r == [o EXCEPT !.todo = rest]
  <2>1. subs' = [subs EXCEPT ![s] = r]
    OBVIOUS
  <2>2. /\ r \in Sub /\ r.dev = o.dev /\ r.chan = o.chan /\ r.open = o.open
        /\ r.phase = "sync" /\ r.todo \subseteq o.todo /\ r.file = o.file
        /\ r.target = o.target
    BY <1>1 DEF Sub
  <2>3. ~Registered(s)
    BY <1>1, <1>6, Numbers DEF Registered
  <2> HIDE DEF r
  <2> QED
    BY <1>1, <2>1, <2>2, <2>3, HandlerStep DEF SubInv
<1> QED
  BY <1>5, <1>6

\* It sent to a closed stream, so not to its own, which is then not registered.
LEMMA SyncPushFailsInv ==
  ASSUME Inv, NEW s \in Subs, SyncPushFails(s)
  PROVE  Inv'
<1> DEFINE o == subs[s]
<1>1. /\ TypeInv /\ SubInv(s) /\ Pushing(s) /\ o \in Sub /\ o.phase = "push"
      /\ Handler /\ lastSync' = lastSync /\ lastSync \in [Devices -> Nat]
      /\ ~subs[o.target].open
  BY Numbers DEF SyncPushFails, Inv, TypeInv, GapInv, Handler
<1>2. ~Registered(s)
  BY <1>1 DEF Pushing, SubInv
<1>3. PICK rest \in SUBSET o.todo :
        subs' = [subs EXCEPT ![s].phase = "sync", ![s].file = 0, ![s].target = 0,
                             ![s].todo = rest]
  BY DEF SyncPushFails
<1> DEFINE r == [o EXCEPT !.phase = "sync", !.file = 0, !.target = 0, !.todo = rest]
<1>4. subs' = [subs EXCEPT ![s] = r]
  BY <1>3
<1>5. /\ r \in Sub /\ r.dev = o.dev /\ r.chan = o.chan /\ r.open = o.open
      /\ r.phase = "sync" /\ r.todo \subseteq o.todo /\ r.file = 0 /\ r.target = 0
  BY <1>1 DEF Sub
<1> HIDE DEF r
<1> QED
  BY <1>1, <1>2, <1>4, <1>5, HandlerStep DEF SubInv

\* All that was listed was sent.
LEMMA SyncEndInv ==
  ASSUME Inv, NEW s \in Subs, SyncEnd(s)
  PROVE  Inv'
<1>1. /\ TypeInv /\ SubInv(s) /\ Syncing(s) /\ subs[s] \in Sub /\ subs[s].phase = "sync"
      /\ subs[s].todo = {} /\ Handler /\ subs' = [subs EXCEPT ![s] = Returned(s)]
  BY Numbers DEF SyncEnd, Inv, TypeInv, GapInv, Handler
<1>2. lastSync' \in [Devices -> Nat]
  BY DEF SyncEnd, Inv, TypeInv
<1> QED
  BY <1>1, <1>2, ReturnedSub, HandlerStep DEF SubInv, Syncing

\* The file goes to the stream that was registered when it was looked up, which
\* may be another than the handler's own.
LEMMA SyncPushInv ==
  ASSUME Inv, NEW s \in Subs, SyncPush(s)
  PROVE  Inv'
<1> DEFINE o == subs[s]
           t == o.target
           u == o.file
           a == [subs[t] EXCEPT !.chan = Append(subs[t].chan, u)]
           A == Sent(t, u)
           m == Maximum(o.max, uploads[u].upd)
           r == [A[s] EXCEPT !.phase = "sync", !.file = 0, !.target = 0, !.max = m]
<1>1. /\ TypeInv /\ subs \in Seq(Sub) /\ SubInv(s) /\ Syncing(s) /\ Pushing(s)
      /\ o \in Sub /\ o.phase = "push" /\ Handler /\ lastSync' = lastSync
  BY Numbers DEF SyncPush, Inv, TypeInv, GapInv, Handler
<1>2. /\ t \in Subs /\ u \in Uploads /\ subs[t] \in Sub /\ u \in Nat
      /\ uploads[u].upd \in Nat /\ SubInv(t) /\ subs[t].chan \in Seq(Nat)
  <2>1. t \in Subs /\ u \in Uploads
    BY <1>1 DEF SubInv
  <2> QED
    BY <1>1, <2>1, Numbers DEF TypeInv, Sub, Upload
<1>3. subs[t].open /\ Len(subs[t].chan) < Capacity
  BY DEF SyncPush
<1>4. /\ Append(subs[t].chan, u) \in Seq(Nat)
      /\ Len(Append(subs[t].chan, u)) = Len(subs[t].chan) + 1
      /\ Elems(Append(subs[t].chan, u)) = Elems(subs[t].chan) \cup {u}
  BY <1>2, AppendElems
<1>5. /\ a \in Sub /\ a.dev = subs[t].dev /\ a.phase = subs[t].phase
      /\ a.listed = subs[t].listed /\ a.todo = subs[t].todo /\ a.file = subs[t].file
      /\ a.target = subs[t].target /\ a.open = subs[t].open
      /\ a.chan = Append(subs[t].chan, u)
  BY <1>2, <1>4 DEF Sub
<1>6. subs' = [A EXCEPT ![s] = r]
  BY DEF SyncPush
<1> HIDE DEF a
<1>7. /\ A \in Seq(Sub) /\ Len(A) = Len(subs) /\ DOMAIN A = Subs /\ A[t] = a
      /\ \A x \in Subs \ {t} : A[x] = subs[x]
  <2>1. A = [subs EXCEPT ![t] = a]
    BY DEF Sent, a
  <2> QED
    BY <1>1, <1>2, <1>5, <2>1, SeqExcept, SeqLen DEF Subs
<1> HIDE DEF A
<1>8. A[s] \in Sub /\ m \in Nat
  BY <1>1, <1>2, <1>5, <1>7 DEF Sub, Maximum
<1> HIDE DEF m
<1>9. /\ r \in Sub /\ r.dev = A[s].dev /\ r.phase = "sync" /\ r.listed = A[s].listed
      /\ r.todo = A[s].todo /\ r.file = 0 /\ r.target = 0 /\ r.open = A[s].open
      /\ r.chan = A[s].chan
  BY <1>8 DEF Sub
<1> HIDE DEF r
<1>10. /\ subs' \in Seq(Sub) /\ Len(subs') = Len(subs) /\ Subs' = Subs
       /\ subs'[s] = r /\ \A x \in Subs \ {s} : subs'[x] = A[x]
  <2>1. DOMAIN A = 1 .. Len(A) /\ s \in 1 .. Len(A) /\ Len(A) \in Nat
    BY <1>7, SeqLen
  <2>2. /\ subs' \in Seq(Sub) /\ Len(subs') = Len(A)
        /\ \A x \in 1 .. Len(A) : subs'[x] = IF x = s THEN r ELSE A[x]
    BY <1>6, <1>7, <1>9, <2>1, SeqExcept
  <2>3. Subs' = 1 .. Len(A) /\ Subs = 1 .. Len(subs) /\ Len(subs) \in Nat
    BY <1>1, <2>2, SeqLen, Numbers DEF Subs
  <2> QED
    BY <1>7, <2>1, <2>2, <2>3
<1>11. \A x \in Subs : /\ subs'[x].dev = subs[x].dev /\ subs'[x].open = subs[x].open
                       /\ subs'[x].listed = subs[x].listed /\ subs'[x].todo = subs[x].todo
  <2>1. \A x \in Subs : /\ A[x].dev = subs[x].dev /\ A[x].open = subs[x].open
                        /\ A[x].listed = subs[x].listed /\ A[x].todo = subs[x].todo
    BY <1>5, <1>7
  <2> QED
    BY <1>9, <1>10, <2>1
<1>12. \A x \in Subs \ {s} : Waits(x)
  BY <1>5, <1>7, <1>10 DEF Waits
<1>13. /\ subs'[t].chan = Append(subs[t].chan, u)
       /\ \A x \in Subs \ {t} : subs'[x].chan = subs[x].chan
  BY ZenonT(30), <1>2, <1>5, <1>7, <1>9, <1>10
<1> HIDE DEF o, t, u
<1>14. Uploads' = Uploads /\ Steady
  BY <1>1, <1>10, <1>11 DEF Steady, Handler, Uploads, Registered
<1>15. \A x \in Subs : Tells(x)
  BY <1>1, <1>4, <1>13, <1>14, TellsKept
<1>16. \A x \in Subs : Reaching(x)'
  BY <1>11, <1>14, <1>15, ReachingKept
<1>17. \A x \in Subs \ {s} : Syncing(x)' /\ Pushing(x)'
  BY <1>12, <1>14, <1>15, WaitingKept
<1>18. Pushing(s)'
  BY <1>9, <1>10 DEF Pushing
<1>19. Syncing(s)'
  <2> SUFFICES ASSUME ~Filtered, Registered(s)', subs'[s].listed, NEW v \in Uploads,
                      Over(s, v)'
               PROVE  v \in Told(s)' \/ v \in subs'[s].todo
    BY <1>9, <1>10, <1>14 DEF Syncing
  <2>1. Registered(s) /\ subs[s].listed /\ Over(s, v) /\ t = s
    BY <1>1, <1>11 DEF Registered, Over, Handler, Pushing, o, t
  <2>2. v \in Told(s) \/ v \in subs[s].todo \/ v = u
    BY <1>1, <2>1 DEF Syncing, o, u
  <2>3. u \in Told(s)'
    BY <1>4, <1>13, <2>1 DEF Told, Elems
  <2> QED
    BY <1>11, <1>15, <2>2, <2>3 DEF Tells
<1>20. \A x \in Subs : SubInv(x)'
  <2>1. ASSUME NEW x \in Subs PROVE SubInv(x)
    BY <1>1 DEF TypeInv
  <2>2. \A x \in Subs : Len(subs'[x].chan) <= Capacity
    BY <1>2, <1>3, <1>4, <1>13, <2>1, SeqLen DEF SubInv
  <2>3. \A x \in Subs : Elems(subs'[x].chan) \subseteq Uploads
    <3>1. \A x \in Subs : Elems(subs[x].chan) \subseteq Uploads
      BY <2>1 DEF SubInv, Elems
    <3> QED
      BY <1>2, <1>4, <1>13, <3>1
  <2>4. \A x \in Subs : \A i \in DOMAIN subs'[x].chan : subs'[x].chan[i] \in Uploads
    BY <2>3 DEF Elems
  <2>5. ASSUME NEW x \in Subs \ {s} PROVE SubInv(x)'
    BY <1>10, <1>11, <1>12, <1>14, <2>1, <2>2, <2>4 DEF SubInv, Waits
  <2>6. SubInv(s)'
    BY <1>1, <1>9, <1>10, <1>11, <1>14, <2>2, <2>4 DEF SubInv, o
  <2> QED
    BY <2>5, <2>6
<1>21. MapInv'
  <2>1. \A d \in Devices : subscribers[d] # 0 => subscribers[d] \in Subs
    BY <1>1 DEF TypeInv, MapInv
  <2> QED
    BY <1>1, <1>10, <1>11, <2>1 DEF TypeInv, MapInv, Handler
<1>22. TypeInv'
  BY <1>1, <1>10, <1>14, <1>20, <1>21 DEF TypeInv, TargetsInv, Handler
<1> QED
  BY <1>10, <1>16, <1>17, <1>18, <1>19, <1>22 DEF Inv, GapInv

-----------------------------------------------------------------------------
(***************************************************************************)
(* The client of a stream.                                                 *)
(***************************************************************************)

\* What it reads moves from the channel to what the device was told of.
LEMMA ReceiveInv ==
  ASSUME Inv, NEW s \in Subs, Receive(s)
  PROVE  Inv'
<1> DEFINE c == subs[s].chan
           d == subs[s].dev
           r == [subs[s] EXCEPT !.chan = Tail(c)]
<1>1. /\ TypeInv /\ SubInv(s) /\ Syncing(s) /\ Pushing(s) /\ subs[s] \in Sub
      /\ subs \in Seq(Sub) /\ received \in [Devices -> SUBSET Uploads]
  BY Numbers DEF Inv, TypeInv, GapInv
<1>2. /\ subs[s].phase = "stream" /\ subs[s].open /\ c # <<>>
      /\ subs' = [subs EXCEPT ![s] = r]
      /\ received' = [received EXCEPT ![d] = @ \cup {Head(c)}]
      /\ UNCHANGED <<clock, uploads, lastSync, subscribers, lock, targets, timers>>
  BY DEF Receive
<1>3. c \in Seq(Nat) /\ d \in Devices
  BY <1>1 DEF Sub
<1>4. /\ Tail(c) \in Seq(Nat) /\ Len(Tail(c)) < Len(c)
      /\ Elems(c) = Elems(Tail(c)) \cup {Head(c)}
  BY <1>2, <1>3, TailElems
<1>5. /\ r \in Sub /\ r.dev = d /\ r.chan = Tail(c) /\ r.open = subs[s].open
      /\ r.phase = "stream" /\ r.listed = subs[s].listed /\ r.todo = subs[s].todo
      /\ r.file = subs[s].file /\ r.target = subs[s].target
  BY <1>1, <1>2, <1>4 DEF Sub
<1> HIDE DEF r
<1>6. Subs' = Subs /\ subs'[s] = r /\ Uploads' = Uploads
  BY <1>1, <1>2, <1>5, OneSub DEF Uploads
<1>7. Elems(c) \subseteq Uploads
  BY <1>1 DEF SubInv, Elems
<1>8. /\ received'[d] = received[d] \cup {Head(c)}
      /\ \A e \in Devices : received[e] \subseteq received'[e]
  BY <1>1, <1>2, <1>3
<1>9. received' \in [Devices -> SUBSET Uploads]
  BY <1>1, <1>2, <1>3, <1>4, <1>7
<1>10. Told(s)' = Told(s)
  <2>1. Told(s) = received[d] \cup Elems(c)
    BY DEF Told, Elems
  <2>2. Told(s)' = received'[d] \cup Elems(Tail(c))
    BY <1>5, <1>6 DEF Told, Elems
  <2> QED
    BY <1>4, <1>8, <2>1, <2>2
<1>11. SubInv(s)'
  <2>1. \A i \in DOMAIN r.chan : r.chan[i] \in Uploads
    BY <1>4, <1>5, <1>7 DEF Elems
  <2>2. Len(r.chan) <= Capacity
    BY <1>1, <1>3, <1>4, <1>5, SeqLen DEF SubInv
  <2>3. /\ r.todo \subseteq Uploads /\ r.file \in {0} \cup Uploads
        /\ r.target \in {0} \cup Subs /\ r.open /\ r.phase = "stream"
    BY <1>1, <1>2, <1>5 DEF SubInv
  <2> QED
    BY <1>6, <2>1, <2>2, <2>3 DEF SubInv
<1>12. Syncing(s)' /\ Pushing(s)'
  <2>1. (Registered(s)' <=> Registered(s)) /\ \A u : Over(s, u)' <=> Over(s, u)
    BY <1>2, <1>5, <1>6 DEF Registered, Over
  <2> QED
    BY <1>1, <1>2, <1>5, <1>6, <1>10, <2>1 DEF Syncing, Pushing
<1>13. Tells(s)
  BY <1>10 DEF Tells
<1>14. lastSync' \in [Devices -> Nat]
  BY <1>1, <1>2 DEF TypeInv
<1> QED
  BY <1>2, <1>5, <1>8, <1>9, <1>11, <1>12, <1>13, <1>14, OneStep

\* A subscription that has ended owes its device nothing.
LEMMA EndedInv ==
  ASSUME Inv, NEW s \in Subs, NEW r \in Sub, subs' = [subs EXCEPT ![s] = r],
         Handler, lastSync' = lastSync, r.dev = subs[s].dev,
         r.phase = "end", ~r.open, r.todo \subseteq Uploads, r.file \in {0} \cup Uploads,
         r.target \in {0} \cup Subs, r.chan = <<>>
  PROVE  Inv'
<1>1. /\ TypeInv /\ subs \in Seq(Sub) /\ lastSync \in [Devices -> Nat]
      /\ received \in [Devices -> SUBSET Uploads]
  BY DEF Inv, TypeInv
<1>2. Subs' = Subs /\ subs'[s] = r /\ Uploads' = Uploads
  BY <1>1, OneSub DEF Uploads, Handler
<1>3. SubInv(s)'
  BY <1>2 DEF SubInv
<1>4. Syncing(s)' /\ Pushing(s)'
  BY <1>2 DEF Syncing, Pushing
<1> QED
  BY <1>1, <1>3, <1>4, OneStep DEF Handler

\* The client goes away.
LEMMA DisconnectInv ==
  ASSUME Inv, NEW s \in Subs, Disconnect(s)
  PROVE  Inv'
<1> DEFINE o == Returned(s)
           r == [o EXCEPT !.phase = "end", !.open = FALSE, !.chan = <<>>]
<1>1. /\ subs' = [subs EXCEPT ![s] = r] /\ Handler /\ lastSync' = lastSync
  BY DEF Disconnect, Handler
<1>2. o \in Sub /\ o.dev = subs[s].dev /\ o.todo = {} /\ o.file = 0 /\ o.target = 0
  BY ReturnedSub DEF Inv
<1> HIDE DEF o
<1>3. /\ r \in Sub /\ r.dev = o.dev /\ r.phase = "end" /\ r.open = FALSE /\ r.chan = <<>>
      /\ r.todo = o.todo /\ r.file = o.file /\ r.target = o.target
  <2>1. <<>> \in Seq(Nat)
    BY SeqEmpty
  <2> QED
    BY <1>2, <2>1 DEF Sub
<1> HIDE DEF r
<1> QED
  BY <1>1, <1>2, <1>3, EndedInv

\* The last sender is gone.
LEMMA StreamEndInv ==
  ASSUME Inv, NEW s \in Subs, StreamEnd(s)
  PROVE  Inv'
<1> DEFINE r == [subs[s] EXCEPT !.phase = "end", !.open = FALSE]
<1>1. /\ TypeInv /\ SubInv(s) /\ subs[s] \in Sub /\ subs[s].chan = <<>>
      /\ subs' = [subs EXCEPT ![s] = r] /\ Handler /\ lastSync' = lastSync
  BY Numbers DEF StreamEnd, Handler, Inv, TypeInv
<1>2. /\ r \in Sub /\ r.dev = subs[s].dev /\ r.phase = "end" /\ r.open = FALSE
      /\ r.chan = subs[s].chan /\ r.todo = subs[s].todo /\ r.file = subs[s].file
      /\ r.target = subs[s].target
  BY <1>1 DEF Sub
<1> HIDE DEF r
<1> QED
  BY <1>1, <1>2, EndedInv DEF SubInv

-----------------------------------------------------------------------------
(***************************************************************************)
(* Steps that leave the subscriptions alone.                               *)
(***************************************************************************)

\* They are right if they are steady.
LEMMA QuietInv ==
  ASSUME Inv, Steady, UNCHANGED <<subs, received>>, clock' \in Nat,
         uploads' \in Seq(Upload), lastSync' \in [Devices -> Nat],
         MapInv', TargetsInv', lock' \in {0} \cup Uploads', timers' \in 0 .. Len(subs)
  PROVE  Inv'
<1>1. /\ TypeInv /\ subs \in Seq(Sub) /\ received \in [Devices -> SUBSET Uploads]
      /\ \A x \in Subs : SubInv(x)
  BY DEF Inv, TypeInv
<1>2. Subs' = Subs /\ Uploads \subseteq Uploads'
  BY DEF Subs, Steady
<1>3. \A x \in Subs : SubInv(x)'
  BY <1>1, <1>2, SubKept
<1>4. received' \in [Devices -> SUBSET Uploads']
  BY <1>1, <1>2
<1>5. TypeInv'
  BY <1>1, <1>2, <1>3, <1>4 DEF TypeInv
<1>6. \A x \in Subs : Syncing(x)' /\ Reaching(x)' /\ Pushing(x)'
  BY UntouchedKept
<1> QED
  BY <1>2, <1>5, <1>6 DEF Inv, GapInv

\* The map, if it is left alone too.
LEMMA MapKept ==
  ASSUME Inv, UNCHANGED <<subs, subscribers>>
  PROVE  MapInv' /\ Subs' = Subs /\ \A x \in Subs : Registered(x)' <=> Registered(x)
BY DEF Inv, TypeInv, MapInv, Subs, Registered

\* Time passes.
LEMMA TickInv ==
  ASSUME Inv, Tick
  PROVE  Inv'
<1>1. /\ UNCHANGED <<uploads, lastSync, subs, subscribers, lock, targets, timers, received>>
      /\ clock' = clock + 1
  BY DEF Tick
<1>2. Uploads' = Uploads /\ TypeInv
  BY <1>1 DEF Uploads, Inv
<1>3. Steady
  BY <1>1, <1>2, MapKept DEF Steady
<1>4. TargetsInv' /\ clock' \in Nat
  BY <1>1, <1>2 DEF TypeInv, TargetsInv
<1> QED
  BY <1>1, <1>2, <1>3, <1>4, MapKept, QuietInv DEF TypeInv

\* Only last_sync is written.
LEMMA RegisterDeviceInv ==
  ASSUME Inv, NEW d \in Devices, RegisterDevice(d)
  PROVE  Inv'
<1>1. /\ UNCHANGED <<clock, uploads, subs, subscribers, lock, targets, timers, received>>
      /\ lastSync' = [lastSync EXCEPT ![d] = clock]
  BY DEF RegisterDevice
<1>2. Uploads' = Uploads /\ TypeInv
  BY <1>1 DEF Uploads, Inv
<1>3. Steady
  BY <1>1, <1>2, MapKept DEF Steady
<1>4. TargetsInv' /\ lastSync' \in [Devices -> Nat]
  BY <1>1, <1>2 DEF TypeInv, TargetsInv
<1> QED
  BY <1>1, <1>2, <1>3, <1>4, MapKept, QuietInv DEF TypeInv

\* The new upload is not over.
LEMMA UploadStartInv ==
  ASSUME Inv, NEW d \in Devices, UploadStart(d)
  PROVE  Inv'
<1> DEFINE r == [dev |-> d, upd |-> clock, phase |-> "new"]
<1>1. /\ UNCHANGED <<clock, lastSync, subs, subscribers, lock, targets, timers, received>>
      /\ uploads' = Append(uploads, r)
  BY DEF UploadStart
<1>2. TypeInv /\ r \in Upload /\ r.phase = "new" /\ uploads \in Seq(Upload)
  BY DEF Inv, TypeInv, Upload
<1> HIDE DEF r
<1>3. /\ uploads' \in Seq(Upload) /\ Len(uploads') = Len(uploads) + 1
      /\ \A u \in 1 .. Len(uploads) : uploads'[u] = uploads[u]
      /\ uploads'[Len(uploads) + 1] = r
  BY <1>1, <1>2, SeqAppend
<1>4. /\ Uploads = 1 .. Len(uploads) /\ Uploads' = 1 .. Len(uploads) + 1
      /\ Len(uploads) \in Nat
  BY <1>2, <1>3, SeqLen DEF Uploads
<1>5. Uploads \subseteq Uploads' /\ Uploads' = Uploads \cup {Len(uploads) + 1}
  BY <1>4
<1>6. Steady
  BY <1>1, <1>2, <1>3, <1>4, <1>5, MapKept DEF Steady
<1>7. TargetsInv'
  BY <1>1, <1>2 DEF TypeInv, TargetsInv
<1> QED
  BY <1>1, <1>2, <1>3, <1>5, <1>6, <1>7, MapKept, QuietInv DEF TypeInv

\* An upload moves on without being broadcast.
LEMMA UploadMovesInv ==
  ASSUME Inv, NEW u \in Uploads, NEW p \in {"stored", "failed"},
         uploads[u].phase # "done", uploads' = [uploads EXCEPT ![u].phase = p],
         UNCHANGED <<clock, lastSync, subs, subscribers, timers, received>>,
         \/ UNCHANGED <<lock, targets>>
         \/ lock' = 0 /\ targets' = <<>>
  PROVE  Inv'
<1> DEFINE r == [uploads[u] EXCEPT !.phase = p]
<1>1. TypeInv /\ uploads[u] \in Upload /\ uploads \in Seq(Upload)
  BY Numbers DEF Inv, TypeInv
<1>2. r \in Upload /\ r.dev = uploads[u].dev /\ r.phase = p /\ r.upd = uploads[u].upd
  BY <1>1 DEF Upload
<1>3. uploads' = [uploads EXCEPT ![u] = r]
  OBVIOUS
<1> HIDE DEF r
<1>4. /\ uploads' \in Seq(Upload) /\ Uploads' = Uploads /\ uploads'[u] = r
      /\ \A x \in Uploads \ {u} : uploads'[x] = uploads[x]
  BY <1>1, <1>2, <1>3, OneUpload
<1>5. Steady
  BY <1>2, <1>4, MapKept DEF Steady
<1>6. TargetsInv'
  <2>1. TargetsInv
    BY <1>1 DEF TypeInv
  <2>2. CASE UNCHANGED <<lock, targets>>
    BY <2>1, <2>2 DEF TargetsInv
  <2>3. CASE lock' = 0 /\ targets' = <<>>
    BY <2>3 DEF TargetsInv
  <2> QED
    BY <2>2, <2>3
<1> QED
  BY <1>1, <1>4, <1>5, <1>6, MapKept, QuietInv DEF TypeInv

\* Nor is one that is stored.
LEMMA UploadStoreInv ==
  ASSUME Inv, NEW u \in Uploads, UploadStore(u)
  PROVE  Inv'
BY UploadMovesInv DEF UploadStore

\* A handler that is dropped drops its lock.
LEMMA UploadFailInv ==
  ASSUME Inv, NEW u \in Uploads, UploadFail(u)
  PROVE  Inv'
BY UploadMovesInv DEF UploadFail

\* A timer removes a sender, never while a broadcast is going on.
LEMMA TimeoutInv ==
  ASSUME Inv, Timeout
  PROVE  Inv'
<1> DEFINE d == subs[timers + 1].dev
<1>1. /\ UNCHANGED <<clock, uploads, lastSync, subs, lock, targets, received>>
      /\ timers < Len(subs) /\ timers' = timers + 1 /\ lock = 0
      /\ subscribers' = [subscribers EXCEPT ![d] = 0]
  BY DEF Timeout
<1>2. TypeInv /\ MapInv /\ TargetsInv /\ timers \in 0 .. Len(subs)
  BY DEF Inv, TypeInv
<1>3. /\ Subs' = Subs /\ Uploads' = Uploads /\ Subs = 1 .. Len(subs) /\ Len(subs) \in Nat
      /\ timers' \in 0 .. Len(subs)
  BY <1>1, <1>2, Numbers DEF Subs, Uploads
<1>4. \A x \in Subs : x # 0 /\ subs[x].dev \in Devices
  BY <1>2, Numbers DEF Sub
<1>5. \A e \in Devices : subscribers'[e] = IF e = d THEN 0 ELSE subscribers[e]
  BY <1>1, <1>2 DEF MapInv
<1>6. \A x \in Subs : Registered(x)' => Registered(x)
  BY <1>1, <1>4, <1>5 DEF Registered
<1>7. MapInv'
  BY <1>1, <1>2, <1>3, <1>5 DEF MapInv
<1>8. targets = <<>> /\ TargetsInv'
  BY <1>1, <1>2 DEF TargetsInv
<1>9. Steady
  BY <1>1, <1>3, <1>6 DEF Steady
<1> QED
  BY <1>1, <1>2, <1>3, <1>7, <1>8, <1>9, QuietInv DEF TypeInv

-----------------------------------------------------------------------------
(***************************************************************************)
(* Broadcasts.                                                             *)
(***************************************************************************)

\* When a broadcast begins, every sender that is registered is among those it
\* is going to use.
LEMMA BroadcastInv ==
  ASSUME Inv, NEW u \in Uploads, Broadcast(u)
  PROVE  Inv'
<1> DEFINE D == {d \in Devices : subscribers[d] # 0 /\ d # uploads[u].dev}
<1>1. /\ UNCHANGED <<clock, uploads, lastSync, subs, subscribers, timers, received>>
      /\ lock' = u /\ targets' \in Orders(D)
  BY DEF Broadcast
<1>2. TypeInv /\ subs \in Seq(Sub) /\ Subs' = Subs /\ Uploads' = Uploads
  BY <1>1 DEF Inv, TypeInv, Subs, Uploads
<1>3. targets' \in Seq(Devices) /\ Elems(targets') = D
  BY <1>1, <1>2, OrdersElems
<1>4. u # 0 /\ \A x \in Subs : subs[x].dev \in Devices /\ x # 0
  BY <1>2, Numbers DEF Sub
<1>5. TargetsInv'
  BY <1>1, <1>3, <1>4 DEF TargetsInv, Elems
<1>6. \A x \in Subs : SubInv(x)'
  BY <1>1, <1>2, SubKept DEF TypeInv
<1>7. TypeInv'
  BY <1>1, <1>2, <1>5, <1>6, MapKept DEF TypeInv
<1>8. ASSUME NEW x \in Subs PROVE Syncing(x)' /\ Pushing(x)'
  <2>1. Syncing(x) /\ Pushing(x)
    BY DEF Inv, GapInv
  <2>2. (Told(x)' = Told(x)) /\ (Registered(x)' <=> Registered(x))
    BY <1>1 DEF Told, Registered
  <2>3. \A v : Over(x, v)' <=> Over(x, v)
    BY <1>1 DEF Over
  <2> QED
    BY <1>1, <1>2, <2>1, <2>2, <2>3 DEF Syncing, Pushing
<1>9. ASSUME NEW x \in Subs PROVE Reaching(x)'
  <2> SUFFICES ASSUME Registered(x)', uploads[u].dev # subs[x].dev
               PROVE  \E i \in DOMAIN targets' : targets'[i] = subs[x].dev
    BY <1>1 DEF Reaching
  <2>1. subs[x].dev \in D
    BY <1>1, <1>4 DEF Registered
  <2> QED
    BY <1>3, <2>1 DEF Elems
<1> QED
  BY <1>2, <1>7, <1>8, <1>9 DEF Inv, GapInv

\* When it ends, it has reached every subscription that is registered and
\* open, since the map was locked all the time.
LEMMA BroadcastEndInv ==
  ASSUME Inv, BroadcastEnd
  PROVE  Inv'
<1> DEFINE r == [uploads[lock] EXCEPT !.phase = "done"]
<1>1. /\ UNCHANGED <<clock, lastSync, subs, subscribers, targets, timers, received>>
      /\ lock # 0 /\ targets = <<>> /\ lock' = 0 /\ uploads' = [uploads EXCEPT ![lock] = r]
  BY DEF BroadcastEnd
<1>2. TypeInv /\ Subs' = Subs /\ lock \in Uploads /\ uploads \in Seq(Upload)
  BY <1>1 DEF Inv, TypeInv, Subs
<1>3. uploads[lock] \in Upload
  BY <1>2, Numbers
<1>4. r \in Upload /\ r.dev = uploads[lock].dev
  BY <1>3 DEF Upload
<1> HIDE DEF r
<1>5. /\ uploads' \in Seq(Upload) /\ Uploads' = Uploads /\ uploads'[lock] = r
      /\ \A x \in Uploads \ {lock} : uploads'[x] = uploads[x]
  BY <1>1, <1>2, <1>4, OneUpload
<1>6. TargetsInv'
  BY <1>1, <1>2 DEF TypeInv, TargetsInv
<1>7. \A x \in Subs : SubInv(x)'
  BY <1>1, <1>2, <1>5, SubKept DEF TypeInv
<1>8. TypeInv'
  BY <1>1, <1>2, <1>5, <1>6, <1>7, MapKept DEF TypeInv
<1>9. \A x \in Subs : Reaching(x)'
  BY <1>1 DEF Reaching
<1>10. ASSUME NEW x \in Subs PROVE Syncing(x)' /\ Pushing(x)'
  <2>1. Syncing(x) /\ Pushing(x) /\ Reaching(x) /\ SubInv(x)
    BY <1>2 DEF Inv, GapInv, TypeInv
  <2>2. (Told(x)' = Told(x)) /\ (Registered(x)' <=> Registered(x))
    BY <1>1 DEF Told, Registered
  <2>3. \A v \in Uploads : Over(x, v)' => Over(x, v) \/ v = lock
    BY <1>1, <1>5 DEF Over
  <2>4. \A v \in Uploads : v = lock /\ Over(x, v)' => uploads[lock].dev # subs[x].dev
    BY <1>1, <1>4, <1>5 DEF Over
  <2>5. \A v \in Uploads :
          Registered(x) /\ subs[x].phase # "end" /\ v = lock /\ Over(x, v)' => v \in Told(x)
    BY <1>1, <2>1, <2>4 DEF Reaching, SubInv
  <2>6. Pushing(x)'
    BY <1>1, <2>1, <2>2 DEF Pushing
  <2>7. Syncing(x)'
    BY <1>1, <1>5, <2>1, <2>2, <2>3, <2>5 DEF Syncing
  <2> QED
    BY <2>6, <2>7
<1> QED
  BY <1>2, <1>8, <1>9, <1>10 DEF Inv, GapInv

\* The broadcast is through with its first device.
LEMMA TargetsStep ==
  ASSUME TypeInv, targets # <<>>, targets' = Tail(targets),
         UNCHANGED <<lock, subscribers>>
  PROVE  /\ TargetsInv' /\ Head(targets) \in Devices /\ subscribers[Head(targets)] \in Subs
         /\ Elems(targets) = Elems(targets') \cup {Head(targets)}
<1>1. TargetsInv /\ MapInv
  BY DEF TypeInv
<1>2. /\ targets' \in Seq(Devices) /\ Head(targets) \in Devices
      /\ Elems(targets) = Elems(targets') \cup {Head(targets)}
  BY <1>1, TailElems DEF TargetsInv
<1>3. \A d \in Elems(targets) : subscribers[d] # 0
  BY <1>1 DEF TargetsInv, Elems
<1>4. \A i \in DOMAIN targets' : targets'[i] \in Elems(targets')
  BY DEF Elems
<1>5. TargetsInv'
  BY <1>1, <1>2, <1>3, <1>4 DEF TargetsInv
<1> QED
  BY <1>1, <1>2, <1>3, <1>5 DEF MapInv

\* A subscription for another device.
LEMMA OtherReached ==
  ASSUME Inv, NEW x \in Subs, targets # <<>>, targets' = Tail(targets),
         UNCHANGED <<lock, subscribers, uploads>>, subs'[x] = subs[x],
         UNCHANGED received, subs[x].open => Head(targets) # subs[x].dev
  PROVE  Reaching(x)'
<1> SUFFICES ASSUME lock # 0, Registered(x)', subs[x].open,
                    uploads[lock].dev # subs[x].dev
             PROVE  \/ lock \in Told(x)'
                    \/ \E i \in DOMAIN targets' : targets'[i] = subs[x].dev
  BY DEF Reaching
<1>1. Reaching(x) /\ Registered(x) /\ TypeInv
  BY DEF Inv, GapInv, Registered
<1>2. CASE lock \in Told(x)
  BY <1>2 DEF Told
<1>3. CASE subs[x].dev \in Elems(targets)
  <2>1. subs[x].dev \in Elems(targets')
    BY <1>1, <1>3, TargetsStep
  <2> QED
    BY <2>1 DEF Elems
<1> QED
  BY <1>1, <1>2, <1>3 DEF Reaching, Elems

\* It waits for room in the channel of the device and puts the upload there.
LEMMA BroadcastSendInv ==
  ASSUME Inv, BroadcastSend
  PROVE  Inv'
<1> DEFINE h == Head(targets)
<1>1. /\ UNCHANGED <<clock, uploads, lastSync, subscribers, lock, timers, received>>
      /\ targets # <<>> /\ targets' = Tail(targets)
  BY DEF BroadcastSend
<1>2. TypeInv /\ MapInv /\ subs \in Seq(Sub) /\ lock \in Uploads /\ Uploads' = Uploads
  BY <1>1 DEF Inv, TypeInv, TargetsInv, Uploads
<1>3. TargetsInv' /\ h \in Devices /\ subscribers[h] \in Subs
  BY <1>1, <1>2, TargetsStep
<1> PICK s \in Subs : s = subscribers[h]
  BY <1>3
<1> DEFINE c == subs[s].chan
           r == [subs[s] EXCEPT !.chan = Append(c, lock)]
<1>4. /\ subs[s] \in Sub /\ subs[s].dev = h /\ SubInv(s) /\ lock \in Nat
      /\ c \in Seq(Nat)
  <2>1. subs[s] \in Sub /\ s # 0 /\ lock \in Nat
    BY <1>2, Numbers
  <2>2. subs[s].dev = h /\ SubInv(s)
    BY <1>2, <1>3, <2>1 DEF TypeInv, MapInv
  <2> QED
    BY <2>1, <2>2 DEF Sub
<1>5. \A x \in Subs \ {s} : Registered(x) => subs[x].dev # h
  BY DEF Registered
<1>6. CASE ~subs[s].open /\ UNCHANGED subs
  <2>1. Subs' = Subs /\ \A x \in Subs : SubInv(x)'
    BY <1>2, <1>6, SubKept DEF TypeInv, Subs
  <2>2. TypeInv'
    BY <1>1, <1>2, <1>3, <1>6, <2>1, MapKept DEF TypeInv
  <2>3. ASSUME NEW x \in Subs PROVE Syncing(x)' /\ Pushing(x)' /\ Reaching(x)'
    <3>1. Syncing(x) /\ Pushing(x)
      BY DEF Inv, GapInv
    <3>2. (Told(x)' = Told(x)) /\ (Registered(x)' <=> Registered(x))
      BY <1>1, <1>6 DEF Told, Registered
    <3>3. \A v : Over(x, v)' <=> Over(x, v)
      BY <1>1, <1>6 DEF Over
    <3>4. Syncing(x)' /\ Pushing(x)'
      BY <1>2, <1>6, <3>1, <3>2, <3>3 DEF Syncing, Pushing
    <3>5. Registered(x) /\ subs[x].open => h # subs[x].dev
      BY <1>5, <1>6
    <3>6. Reaching(x)'
      <4>1. CASE Registered(x)
        BY <1>1, <1>6, <3>5, <4>1, OtherReached
      <4>2. CASE ~Registered(x)
        BY <3>2, <4>2 DEF Reaching
      <4> QED
        BY <4>1, <4>2
    <3> QED
      BY <3>4, <3>6
  <2> QED
    BY <2>1, <2>2, <2>3 DEF Inv, GapInv
<1>7. CASE subs[s].open /\ Len(c) < Capacity /\ subs' = Sent(s, lock)
  <2>1. /\ Append(c, lock) \in Seq(Nat) /\ Len(Append(c, lock)) = Len(c) + 1
        /\ Elems(Append(c, lock)) = Elems(c) \cup {lock}
    BY <1>4, AppendElems
  <2>2. subs' = [subs EXCEPT ![s] = r]
    BY <1>7 DEF Sent
  <2>3. /\ r \in Sub /\ r.dev = h /\ r.chan = Append(c, lock) /\ r.open = subs[s].open
        /\ r.phase = subs[s].phase /\ r.listed = subs[s].listed /\ r.todo = subs[s].todo
        /\ r.file = subs[s].file /\ r.target = subs[s].target
    BY <1>4, <2>1 DEF Sub
  <2> HIDE DEF r
  <2>4. /\ subs' \in Seq(Sub) /\ Len(subs') = Len(subs) /\ Subs' = Subs
        /\ subs'[s] = r /\ \A x \in Subs \ {s} : subs'[x] = subs[x]
    BY <1>2, <1>3, <2>2, <2>3, OneSub
  <2>5. \A x \in Subs : subs'[x].dev = subs[x].dev /\ Waits(x)
    BY <1>4, <2>3, <2>4 DEF Waits
  <2>6. \A x \in Subs : Registered(x)' <=> Registered(x)
    BY <1>1, <2>5 DEF Registered
  <2>7. /\ \A x \in Subs : \A v : v \in Told(x) => v \in Told(x)'
        /\ \A v : v = lock => v \in Told(s)'
    <3>1. \A x \in Subs : Elems(subs[x].chan) \subseteq Elems(subs'[x].chan)
      BY <2>1, <2>3, <2>4
    <3>2. lock \in Elems(subs'[s].chan)
      BY <2>1, <2>3, <2>4
    <3> QED
      BY <1>1, <2>5, <3>1, <3>2 DEF Told, Elems
  <2>8. SubInv(s)'
    <3>1. Len(r.chan) <= Capacity
      <4>1. Len(c) \in Nat
        BY <1>4, SeqLen
      <4>2. Len(Append(c, lock)) <= Capacity
        BY <1>7, <2>1, <4>1
      <4> QED
        BY <2>3, <4>2
    <3>2. Elems(r.chan) \subseteq Uploads
      <4>1. Elems(c) \subseteq Uploads
        BY <1>4 DEF SubInv, Elems
      <4> QED
        BY <1>2, <2>1, <2>3, <4>1
    <3>3. \A i \in DOMAIN r.chan : r.chan[i] \in Uploads
      BY <3>2 DEF Elems
    <3> QED
      BY <1>2, <1>4, <2>3, <2>4, <3>1, <3>3 DEF SubInv
  <2>9. \A x \in Subs \ {s} : SubInv(x)'
    BY <1>2, <2>4, SubKept DEF TypeInv
  <2>10. MapInv'
    <3>1. \A d \in Devices : subscribers[d] # 0 => subscribers[d] \in Subs
      BY <1>2 DEF MapInv
    <3> QED
      BY <1>1, <1>2, <2>4, <2>5, <3>1 DEF MapInv
  <2>11. TypeInv'
    BY <1>1, <1>2, <1>3, <2>4, <2>8, <2>9, <2>10 DEF TypeInv
  <2>12. ASSUME NEW x \in Subs PROVE Syncing(x)' /\ Pushing(x)'
    <3>1. Syncing(x) /\ Pushing(x)
      BY DEF Inv, GapInv
    <3>2. \A v : Over(x, v)' <=> Over(x, v)
      BY <1>1, <2>5 DEF Over
    <3> QED
      BY <1>2, <2>5, <2>6, <2>7, <3>1, <3>2 DEF Syncing, Pushing, Waits
  <2>13. Reaching(s)'
    BY <1>1, <2>7 DEF Reaching
  <2>14. ASSUME NEW x \in Subs \ {s} PROVE Reaching(x)'
    <3>1. CASE Registered(x)
      BY <1>1, <1>5, <2>4, <3>1, OtherReached
    <3>2. CASE ~Registered(x)
      BY <2>6, <3>2 DEF Reaching
    <3> QED
      BY <3>1, <3>2
  <2> QED
    BY <2>4, <2>11, <2>12, <2>13, <2>14 DEF Inv, GapInv
<1> QED
  BY <1>6, <1>7 DEF BroadcastSend

-----------------------------------------------------------------------------
\* A new subscription takes the place of the old one of its device, which is
\* no longer registered; no broadcast is going on, and nothing was listed yet.
LEMMA SubscribeInv ==
  ASSUME Inv, NEW d \in Devices, NEW since \in Sinces, Subscribe(d, since)
  PROVE  Inv'
<1> DEFINE r == [dev |-> d, since |-> since, phase |-> "new", stored |-> 0, todo |-> {},
                 file |-> 0, target |-> 0, max |-> 0, listed |-> FALSE,
                 chan |-> <<>>, open |-> TRUE]
<1> PICK n : n = Len(subs) + 1
  OBVIOUS
<1>1. /\ UNCHANGED <<clock, uploads, lastSync, lock, targets, timers, received>>
      /\ lock = 0 /\ subs' = Append(subs, r) /\ subscribers' = [subscribers EXCEPT ![d] = n]
  BY DEF Subscribe
<1>2. TypeInv /\ MapInv /\ TargetsInv /\ subs \in Seq(Sub) /\ Uploads' = Uploads
  BY <1>1 DEF Inv, TypeInv, Uploads
<1>3. r \in Sub
  <2>1. <<>> \in Seq(Nat) /\ since \in Nat
    BY SeqEmpty
  <2> QED
    BY <2>1 DEF Sub
<1>4. /\ r.dev = d /\ r.phase = "new" /\ r.todo = {} /\ r.file = 0 /\ r.target = 0
      /\ r.listed = FALSE /\ r.chan = <<>> /\ r.open = TRUE
  OBVIOUS
<1> HIDE DEF r
<1>5. /\ subs' \in Seq(Sub) /\ Len(subs') = n /\ subs'[n] = r
      /\ \A x \in 1 .. Len(subs) : subs'[x] = subs[x]
  BY <1>1, <1>2, <1>3, SeqAppend
<1>6. /\ Subs = 1 .. Len(subs) /\ Subs' = 1 .. n /\ Len(subs) \in Nat
  BY <1>2, <1>5, SeqLen DEF Subs
<1>7. n \notin Subs /\ n # 0 /\ Subs' = Subs \cup {n} /\ Subs \subseteq Subs'
  BY <1>6
<1>8. \A x \in Subs : subs'[x] = subs[x] /\ subs[x].dev \in Devices
  BY <1>2, <1>5, <1>6, Numbers DEF Sub
<1>9. \A e \in Devices : subscribers'[e] = IF e = d THEN n ELSE subscribers[e]
  BY <1>1, <1>2 DEF MapInv
<1>10. MapInv'
  <2>1. subscribers' \in [Devices -> {0} \cup Subs']
    BY <1>1, <1>2, <1>7 DEF MapInv
  <2>2. ASSUME NEW e \in Devices, subscribers'[e] # 0
        PROVE  subs'[subscribers'[e]].dev = e
    <3>1. CASE e = d
      BY <1>4, <1>5, <1>9, <3>1
    <3>2. CASE e # d
      <4>1. subscribers'[e] = subscribers[e] /\ subscribers[e] \in Subs
        BY <1>2, <1>9, <2>2, <3>2 DEF MapInv
      <4>2. subs[subscribers[e]].dev = e
        BY <1>2, <2>2, <4>1 DEF MapInv
      <4> QED
        BY <1>8, <4>1, <4>2
    <3> QED
      BY <3>1, <3>2
  <2> QED
    BY <2>1, <2>2 DEF MapInv
<1>11. targets = <<>> /\ TargetsInv'
  BY <1>1, <1>2 DEF TargetsInv
<1>12. \A x \in Subs' : SubInv(x)'
  <2>1. \A x \in Subs : SubInv(x)'
    BY <1>2, <1>7, <1>8, SubKept DEF TypeInv
  <2>2. SubInv(n)'
    BY <1>4, <1>5 DEF SubInv
  <2> QED
    BY <1>7, <2>1, <2>2
<1>13. timers' \in 0 .. Len(subs')
  <2>1. timers \in 0 .. Len(subs)
    BY <1>2 DEF TypeInv
  <2> QED
    BY <1>1, <1>5, <1>6, <2>1
<1>14. TypeInv'
  BY <1>1, <1>2, <1>5, <1>10, <1>11, <1>12, <1>13 DEF TypeInv
<1>15. Steady
  <2>1. \A x \in Subs : Registered(x)' => Registered(x)
    BY <1>7, <1>8, <1>9 DEF Registered
  <2> QED
    BY <1>1, <1>2, <1>7, <1>8, <2>1 DEF Steady
<1>16. \A x \in Subs : Syncing(x)' /\ Reaching(x)' /\ Pushing(x)'
  BY <1>8, <1>15, UntouchedKept
<1>17. Syncing(n)' /\ Reaching(n)' /\ Pushing(n)'
  BY <1>1, <1>4, <1>5 DEF Syncing, Reaching, Pushing
<1> QED
  BY <1>7, <1>14, <1>16, <1>17 DEF Inv, GapInv

-----------------------------------------------------------------------------
\* No device is subscribed.
LEMMA InvInit ==
  ASSUME Init
  PROVE  Inv
<1>1. Subs = {} /\ Uploads = {} /\ Len(subs) = 0
  BY SeqEmpty DEF Init, Subs, Uploads
<1>2. TargetsInv /\ MapInv
  BY SeqEmpty DEF Init, TargetsInv, MapInv
<1>3. TypeInv
  BY <1>1, <1>2, SeqEmpty DEF Init, TypeInv
<1> QED
  BY <1>1, <1>3 DEF Inv, GapInv

\* Every step keeps the invariant.
LEMMA InvNext ==
  ASSUME Inv, [Next]_vars
  PROVE  Inv'
<1>1. CASE Tick
  BY <1>1, TickInv
<1>2. ASSUME NEW d \in Devices, RegisterDevice(d) PROVE Inv'
  BY <1>2, RegisterDeviceInv
<1>3. ASSUME NEW d \in Devices, UploadStart(d) PROVE Inv'
  BY <1>3, UploadStartInv
<1>4. ASSUME NEW d \in Devices, NEW since \in Sinces, Subscribe(d, since) PROVE Inv'
  BY <1>4, SubscribeInv
<1>5. ASSUME NEW u \in Uploads, UploadStore(u) \/ Broadcast(u) \/ UploadFail(u)
      PROVE  Inv'
  BY <1>5, UploadStoreInv, BroadcastInv, UploadFailInv
<1>6. CASE BroadcastSend
  BY <1>6, BroadcastSendInv
<1>7. CASE BroadcastEnd
  BY <1>7, BroadcastEndInv
<1>8. ASSUME NEW s \in Subs, SyncStep(s) PROVE Inv'
  BY <1>8, SyncStartInv, SyncListInv, SyncLookupInv, SyncPushInv, SyncPushFailsInv,
     SyncEndInv DEF SyncStep
<1>9. ASSUME NEW s \in Subs, SyncListFails(s) \/ Receive(s) \/ StreamEnd(s) \/ Disconnect(s)
      PROVE  Inv'
  BY <1>9, SyncListFailsInv, ReceiveInv, StreamEndInv, DisconnectInv
<1>10. CASE Timeout
  BY <1>10, TimeoutInv
<1>11. CASE UNCHANGED vars
  <2>1. /\ UNCHANGED <<clock, uploads, lastSync, subs, subscribers, lock, targets>>
        /\ UNCHANGED <<timers, received>>
    BY <1>11 DEF vars
  <2>2. Uploads' = Uploads /\ TypeInv
    BY <2>1 DEF Uploads, Inv
  <2>3. Steady
    BY <2>1, <2>2, MapKept DEF Steady
  <2>4. TargetsInv'
    BY <2>1, <2>2 DEF TypeInv, TargetsInv
  <2> QED
    BY <2>1, <2>2, <2>3, <2>4, MapKept, QuietInv DEF TypeInv
<1> QED
  BY <1>1, <1>2, <1>3, <1>4, <1>5, <1>6, <1>7, <1>8, <1>9, <1>10, <1>11 DEF Next

\* Inv is an invariant.
LEMMA InvAlways == Spec => []Inv
BY InvInit, InvNext, PTL DEF Spec

-----------------------------------------------------------------------------
(***************************************************************************)
(* Every variable keeps its type: what the channels and the handlers hold  *)
(* are uploads that exist, the map has only subscriptions that exist, and  *)
(* no channel has more than its capacity, whatever the broadcasts and the  *)
(* initial syncs that wait for the same channel.                           *)
(***************************************************************************)
THEOREM TypeCorrect == Spec => []TypeOK
<1>1. Inv => TypeOK
  <2> SUFFICES ASSUME Inv PROVE TypeOK
    OBVIOUS
  <2>1. TypeInv
    BY DEF Inv
  <2>2. ASSUME NEW s \in Subs
        PROVE  /\ subs[s].todo \cup {subs[s].file} \subseteq {0} \cup Uploads
               /\ subs[s].target \in {0} \cup Subs
               /\ Len(subs[s].chan) <= Capacity
    BY <2>1 DEF TypeInv, SubInv
  <2> QED
    BY <2>1, <2>2 DEF TypeInv, MapInv, TargetsInv, TypeOK
<1> QED
  BY <1>1, InvAlways, PTL

(***************************************************************************)
(* There is no gap between the initial sync and the broadcasts, if the     *)
(* storage lists all files of the group, as mysql_file.rs does: a device   *)
(* whose stream is open and registered, and whose files could be listed,   *)
(* was told of every upload of another device whose broadcast is over, or  *)
(* finds it in its channel.                                                *)
(***************************************************************************)
THEOREM NothingIsMissed ==
  ASSUME ~Filtered
  PROVE  Spec => []NoGap
<1>1. Inv => NoGap
  BY DEF Inv, GapInv, Syncing, Registered, Over, NoGap
<1> QED
  BY <1>1, InvAlways, PTL

(***************************************************************************)
(* A listing of the initial sync for since_ts = 0 takes every stored file  *)
(* of another device, if the storage lists all files of the group.         *)
(***************************************************************************)
THEOREM SyncIsFull ==
  ASSUME ~Filtered
  PROVE  Spec => FullSync
<1> DEFINE A == \A s \in Subs :
                  SyncList(s) /\ subs[s].since = 0 =>
                    \A u \in Files : uploads[u].dev # subs[s].dev => u \in subs'[s].todo
<1>1. ASSUME Inv PROVE A
  <2> SUFFICES ASSUME NEW s \in Subs, SyncList(s), NEW u \in Files,
                      uploads[u].dev # subs[s].dev
               PROVE  u \in subs'[s].todo
    OBVIOUS
  <2> DEFINE r == [subs[s] EXCEPT !.phase = "sync", !.todo = Listed(s), !.listed = TRUE]
  <2>1. subs[s] \in Sub /\ subs \in Seq(Sub)
    BY <1>1, Numbers DEF Inv, TypeInv
  <2>2. subs' = [subs EXCEPT ![s] = r]
    BY DEF SyncList
  <2>3. r.todo = Listed(s)
    BY <2>1 DEF Sub
  <2> HIDE DEF r
  <2>4. subs'[s] = r
    BY <2>1, <2>2 DEF Subs
  <2> QED
    BY <2>3, <2>4 DEF Listed
<1>2. Inv => [A]_vars
  BY <1>1
<1> QED
  BY <1>2, InvAlways, PTL DEF FullSync, Spec
=============================================================================
