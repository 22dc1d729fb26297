--------------------------- MODULE EventConsumer ---------------------------
(***************************************************************************)
(* The event consumer (bin/rabbit_consumer.rs).  Workers compete for the   *)
(* deliveries of one main queue.  A worker skips ids that it has seen,     *)
(* parses the body, and publishes a body that does not parse to the        *)
(* exchange again or to the dead-letter exchange.                          *)
(*                                                                         *)
(* Main and retry queue are bound to the exchange with the same key, so a  *)
(* published message reaches both; the broker moves the retry copy to the  *)
(* exchange after x-message-ttl, which routes it to the main queue (the    *)
(* copy for the retry queue itself closes a dead-letter cycle and the      *)
(* broker drops it).  A delivery that is not acknowledged when its worker  *)
(* stops goes back to the main queue.                                      *)
(***************************************************************************)
EXTENDS Naturals, FiniteSets

CONSTANTS
  Events,      \* payloads the server's handlers publish
  WellFormed,  \* those that parse as JSON
  Ids,         \* results of payload_id
  IdOf,        \* payload_id: the "id" of a payload, or its length
  Workers,     \* consumer processes
  MaxRetries,  \* MAX_RETRIES
  Store,       \* where ids are kept: see Stores
  MaxCrashes,  \* bound: restarts of the consumer
  MaxErrors,   \* bound: failed calls to Redis
  MaxForgets   \* bound: expiries of an id in Redis

(***************************************************************************)
(* mark_seen_id_async keeps ids in a set of the process ("memory", built   *)
(* without redis-cache), in Redis ("redis"), or, built with redis-cache    *)
(* but run without REDIS_HOST, nowhere ("none").  A set of the process     *)
(* serves one worker only.                                                 *)
(***************************************************************************)
Stores == {"memory", "redis", "none"}

ASSUME ConsumerAssumption ==
  /\ WellFormed \subseteq Events
  /\ IdOf \in [Events -> Ids]
  /\ IsFiniteSet(Workers)
  /\ MaxRetries \in Nat
  /\ Store \in Stores
  /\ Store = "memory" => \A v, w \in Workers : v = w
  /\ MaxCrashes \in Nat
  /\ MaxErrors \in Nat
  /\ MaxForgets \in Nat

VARIABLES
  published,  \* events handed to EventBus::publish
  main,       \* how often each copy is in the main queue
  retry,      \* how often each copy is in the retry queue
  dlq,        \* events in the dead-letter queue
  seen,       \* SEEN_IDS, or the keys in Redis
  cur,        \* the delivery each worker holds
  handled,    \* how often an event was parsed successfully
  forgotten,  \* how often an id left seen (history)
  crashes,
  errors

vars ==
  <<published, main, retry, dlq, seen, cur, handled, forgotten, crashes, errors>>

\* A message: its event and its x-retry-count header.
Copy == Events \X (0 .. MaxRetries)

None == [phase |-> "none"]
Held == {None} \cup [phase : {"mark", "handle", "ack"}, copy : Copy]

EventOf(w) == cur[w].copy[1]
Attempts(w) == cur[w].copy[2]
Enter(w, phase) == cur' = [cur EXCEPT ![w].phase = phase]

\* One more copy of c in queue q.
Put(q, c) == [q EXCEPT ![c] = @ + 1]
Drop(q, c) == [q EXCEPT ![c] = @ - 1]

-----------------------------------------------------------------------------
Init ==
  /\ published = {}
  /\ main = [c \in Copy |-> 0]
  /\ retry = [c \in Copy |-> 0]
  /\ dlq = {}
  /\ seen = {}
  /\ cur = [w \in Workers |-> None]
  /\ handled = [e \in Events |-> 0]
  /\ forgotten = [i \in Ids |-> 0]
  /\ crashes = 0
  /\ errors = 0

\* The topic exchange routes to every queue bound with a matching key.
ToExchange(c) ==
  /\ main' = Put(main, c)
  /\ retry' = Put(retry, c)

\* A handler of the server publishes an event.
Publish(e) ==
  /\ e \notin published
  /\ published' = published \cup {e}
  /\ ToExchange(<<e, 0>>)
  /\ UNCHANGED <<dlq, seen, cur, handled, forgotten, crashes, errors>>

\* x-message-ttl of a copy in a retry queue runs out.
Expire(c) ==
  /\ retry[c] > 0
  /\ retry' = Drop(retry, c)
  /\ main' = Put(main, c)
  /\ UNCHANGED <<published, dlq, seen, cur, handled, forgotten, crashes, errors>>

Deliver(w) ==
  /\ cur[w] = None
  /\ \E c \in Copy :
       /\ main[c] > 0
       /\ main' = Drop(main, c)
       /\ cur' = [cur EXCEPT ![w] = [phase |-> "mark", copy |-> c]]
  /\ UNCHANGED <<published, retry, dlq, seen, handled, forgotten, crashes, errors>>

\* Mutant: the body is remembered instead of its id.
MarkNewBody(w) ==
  /\ cur[w].phase = "mark"
  /\ Store # "none"
  /\ IdOf[EventOf(w)] \notin seen
  /\ seen' = seen \cup {EventOf(w)}
  /\ Enter(w, "handle")
  /\ UNCHANGED <<published, main, retry, dlq, handled, forgotten, crashes, errors>>

\* Mutant: SET without NX.
MarkNewAlways(w) ==
  /\ cur[w].phase = "mark"
  /\ Store # "none"
  /\ seen' = seen \cup {IdOf[EventOf(w)]}
  /\ Enter(w, "handle")
  /\ UNCHANGED <<published, main, retry, dlq, handled, forgotten, crashes, errors>>

\* Mutant: the reply is read the wrong way round.
MarkNewSkips(w) ==
  /\ cur[w].phase = "mark"
  /\ Store # "none"
  /\ IdOf[EventOf(w)] \notin seen
  /\ seen' = seen \cup {IdOf[EventOf(w)]}
  /\ Enter(w, "ack")
  /\ UNCHANGED <<published, main, retry, dlq, handled, forgotten, crashes, errors>>

\* mark_seen_id_async inserts the id and reports that it is new.
MarkNew(w) ==
  /\ cur[w].phase = "mark"
  /\ Store # "none"
  /\ IdOf[EventOf(w)] \notin seen
  /\ seen' = seen \cup {IdOf[EventOf(w)]}
  /\ Enter(w, "handle")
  /\ UNCHANGED <<published, main, retry, dlq, handled, forgotten, crashes, errors>>

\* The id was there, or there is no store: the delivery is acknowledged and skipped.
SkipDuplicate(w) ==
  /\ cur[w].phase = "mark"
  /\ Store = "none" \/ IdOf[EventOf(w)] \in seen
  /\ Enter(w, "ack")
  /\ UNCHANGED <<published, main, retry, dlq, seen, handled, forgotten, crashes, errors>>

\* SET NX EX fails, before or after it took effect: "not new".
MarkError(w) ==
  /\ Store = "redis"
  /\ errors < MaxErrors
  /\ cur[w].phase = "mark"
  /\ seen' \in {seen, seen \cup {IdOf[EventOf(w)]}}
  /\ Enter(w, "ack")
  /\ errors' = errors + 1
  /\ UNCHANGED <<published, main, retry, dlq, handled, forgotten, crashes>>

Handle(w) ==
  /\ cur[w].phase = "handle"
  /\ EventOf(w) \in WellFormed
  /\ handled' = [handled EXCEPT ![EventOf(w)] = @ + 1]
  /\ Enter(w, "ack")
  /\ UNCHANGED <<published, main, retry, dlq, seen, forgotten, crashes, errors>>

\* The body does not parse: publish it again with x-retry-count + 1.
Retry(w) ==
  /\ cur[w].phase = "handle"
  /\ EventOf(w) \notin WellFormed
  /\ Attempts(w) + 1 < MaxRetries
  /\ ToExchange(<<EventOf(w), Attempts(w) + 1>>)
  /\ Enter(w, "ack")
  /\ UNCHANGED <<published, dlq, seen, handled, forgotten, crashes, errors>>

\* The last attempt: publish it to the dead-letter exchange.
DeadLetter(w) ==
  /\ cur[w].phase = "handle"
  /\ EventOf(w) \notin WellFormed
  /\ Attempts(w) + 1 >= MaxRetries
  /\ dlq' = dlq \cup {EventOf(w)}
  /\ Enter(w, "ack")
  /\ UNCHANGED <<published, main, retry, seen, handled, forgotten, crashes, errors>>

Ack(w) ==
  /\ cur[w].phase = "ack"
  /\ cur' = [cur EXCEPT ![w] = None]
  /\ UNCHANGED <<published, main, retry, dlq, seen, handled, forgotten, crashes, errors>>

\* Mutant: the set of the process outlives it.
RestartKeepsIds(w) ==
  /\ crashes < MaxCrashes
  /\ crashes' = crashes + 1
  /\ main' = IF cur[w] = None THEN main ELSE Put(main, cur[w].copy)
  /\ cur' = [cur EXCEPT ![w] = None]
  /\ UNCHANGED <<published, retry, dlq, seen, handled, forgotten, errors>>

\* A worker stops at any point and is started again.
Restart(w) ==
  /\ crashes < MaxCrashes
  /\ crashes' = crashes + 1
  /\ main' = IF cur[w] = None THEN main ELSE Put(main, cur[w].copy)
  /\ cur' = [cur EXCEPT ![w] = None]
  /\ IF Store = "memory"
       THEN /\ seen' = {}
            /\ forgotten' = [i \in Ids |->
                 IF i \in seen THEN forgotten[i] + 1 ELSE forgotten[i]]
       ELSE UNCHANGED <<seen, forgotten>>
  /\ UNCHANGED <<published, retry, dlq, handled, errors>>

\* IDEMPOTENCY_TTL_SECS of an id in Redis runs out.
Forget(i) ==
  /\ Store = "redis"
  /\ i \in seen
  /\ forgotten[i] < MaxForgets
  /\ seen' = seen \ {i}
  /\ forgotten' = [forgotten EXCEPT ![i] = @ + 1]
  /\ UNCHANGED <<published, main, retry, dlq, cur, handled, crashes, errors>>

Step(w) ==
  \/ Deliver(w)
  \/ MarkNew(w)
  \/ SkipDuplicate(w)
  \/ MarkError(w)
  \/ Handle(w)
  \/ Retry(w)
  \/ DeadLetter(w)
  \/ Ack(w)

Next ==
  \/ \E e \in Events : Publish(e)
  \/ \E c \in Copy : Expire(c)
  \/ \E w \in Workers : Step(w)
  \/ \E w \in Workers : Restart(w)
  \/ \E i \in Ids : Forget(i)

(***************************************************************************)
(* The broker lets messages expire and a worker polls its stream; the      *)
(* server need not publish and no worker need stop.                        *)
(***************************************************************************)
Fairness ==
  /\ \A c \in Copy : WF_vars(Expire(c))
  /\ \A w \in Workers : WF_vars(Step(w))

Spec == Init /\ [][Next]_vars
FairSpec == Spec /\ Fairness

-----------------------------------------------------------------------------
\* Every variable keeps its type.
TypeOK ==
  /\ published \subseteq Events
  /\ main \in [Copy -> Nat]
  /\ retry \in [Copy -> Nat]
  /\ dlq \subseteq Events
  /\ seen \subseteq Ids
  /\ cur \in [Workers -> Held]
  /\ handled \in [Events -> Nat]
  /\ forgotten \in [Ids -> Nat]
  /\ crashes \in Nat
  /\ errors \in Nat

(***************************************************************************)
(* Idempotency: every event reaches its worker at least twice and may be   *)
(* redelivered after a restart at any point, but it is handled a second    *)
(* time only after its id was forgotten.                                   *)
(***************************************************************************)
HandledOnce == \A e \in Events : handled[e] <= forgotten[IdOf[e]] + 1

\* No other event has the id of e.
UniqueId(e) == \A f \in Events : IdOf[f] = IdOf[e] => f = e

(***************************************************************************)
(* A well-formed event with an id of its own is handled in the end.  With  *)
(* the ids in the process this survives restarts; with the ids in Redis it *)
(* is promised only when no worker stopped and no call to Redis failed.    *)
(***************************************************************************)
EventuallyHandled ==
  \A e \in WellFormed :
    UniqueId(e) /\ e \in published
      ~> handled[e] > 0 \/ (Store = "redis" /\ crashes + errors > 0)
=============================================================================
