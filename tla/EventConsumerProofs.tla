------------------------ MODULE EventConsumerProofs ------------------------
(***************************************************************************)
(* Type correctness and idempotency of the event consumer, for every set   *)
(* of events, number of workers and kind of store.                         *)
(***************************************************************************)
EXTENDS EventConsumer, FiniteSetTheorems, TLAPS

\* The workers between mark_seen_id_async and the end of the handler on e.
Handlers(e) ==
  {w \in Workers : cur[w].phase = "handle" /\ cur[w].copy[1] = e}

\* What the id in the store accounts for.
Marked(e) == IF IdOf[e] \in seen THEN 1 ELSE 0

(***************************************************************************)
(* HandledOnce is not inductive: it must also count the workers that are   *)
(* about to handle an event, and an id that is not in the store must have  *)
(* been forgotten as often as its event was handled.                       *)
(***************************************************************************)
OnceInv ==
  \A e \in Events :
    handled[e] + Cardinality(Handlers(e)) <= forgotten[IdOf[e]] + Marked(e)

Inv == TypeOK /\ OnceInv

-----------------------------------------------------------------------------
\* A copy that a worker holds, and the event in it, have their types.
LEMMA HeldCopy ==
  ASSUME TypeOK, NEW w \in Workers, cur[w] # None
  PROVE  /\ cur[w] = [phase |-> cur[w].phase, copy |-> cur[w].copy]
         /\ cur[w].phase \in {"mark", "handle", "ack"}
         /\ cur[w].copy \in Copy
         /\ EventOf(w) \in Events
         /\ IdOf[EventOf(w)] \in Ids
BY ConsumerAssumption DEF TypeOK, Held, None, Copy, EventOf

\* A worker in one of the phases of the loop body holds a delivery.
LEMMA PhaseHolds ==
  ASSUME TypeOK, NEW w \in Workers, cur[w].phase # "none"
  PROVE  cur[w] # None
BY DEF None

\* Enter changes the phase of one worker and nothing else of its delivery.
LEMMA EnterStep ==
  ASSUME TypeOK, NEW w \in Workers, cur[w] # None,
         NEW p \in {"mark", "handle", "ack"}, Enter(w, p)
  PROVE  /\ cur' \in [Workers -> Held]
         /\ cur'[w].phase = p
         /\ cur'[w].copy = cur[w].copy
         /\ \A v \in Workers \ {w} : cur'[v] = cur[v]
<1>1. cur[w] \in [phase : {"mark", "handle", "ack"}, copy : Copy]
  BY DEF TypeOK, Held
<1>2. [cur[w] EXCEPT !.phase = p] \in Held
  BY <1>1 DEF Held
<1>3. cur' = [cur EXCEPT ![w] = [cur[w] EXCEPT !.phase = p]]
  BY DEF Enter
<1>4. QED
  BY <1>1, <1>2, <1>3 DEF TypeOK

\* Queues stay bags of copies.
LEMMA QueueType ==
  ASSUME NEW q \in [Copy -> Nat], NEW c \in Copy
  PROVE  /\ Put(q, c) \in [Copy -> Nat]
         /\ q[c] > 0 => Drop(q, c) \in [Copy -> Nat]
BY DEF Put, Drop

\* The message that starts an event, and a retried one, are copies.
LEMMA CopyType ==
  ASSUME NEW e \in Events, NEW n \in Nat, n <= MaxRetries
  PROVE  <<e, n>> \in Copy
BY ConsumerAssumption DEF Copy

-----------------------------------------------------------------------------
\* Every step of the consumer, the broker and the server preserves the types.
LEMMA TypeStep ==
  ASSUME TypeOK, Next
  PROVE  TypeOK'
<1> USE ConsumerAssumption
<1>1. CASE \E e \in Events : Publish(e)
  <2>1. PICK e \in Events : Publish(e)
    BY <1>1
  <2>2. <<e, 0>> \in Copy
    BY CopyType
  <2>3. main' \in [Copy -> Nat] /\ retry' \in [Copy -> Nat]
    BY <2>1, <2>2, QueueType DEF Publish, ToExchange, TypeOK
  <2>4. QED
    BY <2>1, <2>3 DEF Publish, TypeOK
<1>2. CASE \E c \in Copy : Expire(c)
  <2>1. PICK c \in Copy : Expire(c)
    BY <1>2
  <2>2. main' \in [Copy -> Nat] /\ retry' \in [Copy -> Nat]
    BY <2>1, QueueType DEF Expire, TypeOK
  <2>3. QED
    BY <2>1, <2>2 DEF Expire, TypeOK
<1>3. ASSUME NEW w \in Workers, Step(w)
      PROVE  TypeOK'
  <2>1. CASE Deliver(w)
    <3>1. PICK c \in Copy :
            /\ main[c] > 0
            /\ main' = Drop(main, c)
            /\ cur' = [cur EXCEPT ![w] = [phase |-> "mark", copy |-> c]]
      BY <2>1 DEF Deliver
    <3>2. main' \in [Copy -> Nat]
      BY <3>1, QueueType DEF TypeOK
    <3>3. [phase |-> "mark", copy |-> c] \in Held
      BY DEF Held
    <3>4. cur' \in [Workers -> Held]
      BY <3>1, <3>3 DEF TypeOK
    <3>5. QED
      BY <2>1, <3>2, <3>4 DEF Deliver, TypeOK
  <2>2. CASE MarkNew(w)
    <3>1. cur[w] # None
      BY <2>2, PhaseHolds DEF MarkNew
    <3>2. cur' \in [Workers -> Held]
      BY <2>2, <3>1, EnterStep DEF MarkNew
    <3>3. seen' \subseteq Ids
      BY <2>2, <3>1, HeldCopy DEF MarkNew, TypeOK
    <3>4. QED
      BY <2>2, <3>2, <3>3 DEF MarkNew, TypeOK
  <2>3. CASE SkipDuplicate(w)
    <3>1. cur[w] # None
      BY <2>3, PhaseHolds DEF SkipDuplicate
    <3>2. cur' \in [Workers -> Held]
      BY <2>3, <3>1, EnterStep DEF SkipDuplicate
    <3>3. QED
      BY <2>3, <3>2 DEF SkipDuplicate, TypeOK
  <2>4. CASE MarkError(w)
    <3>1. cur[w] # None
      BY <2>4, PhaseHolds DEF MarkError
    <3>2. cur' \in [Workers -> Held]
      BY <2>4, <3>1, EnterStep DEF MarkError
    <3>3. seen' \subseteq Ids
      BY <2>4, <3>1, HeldCopy DEF MarkError, TypeOK
    <3>4. QED
      BY <2>4, <3>2, <3>3 DEF MarkError, TypeOK
  <2>5. CASE Handle(w)
    <3>1. cur[w] # None
      BY <2>5, PhaseHolds DEF Handle
    <3>2. cur' \in [Workers -> Held]
      BY <2>5, <3>1, EnterStep DEF Handle
    <3>3. handled' \in [Events -> Nat]
      BY <2>5, <3>1, HeldCopy DEF Handle, TypeOK
    <3>4. QED
      BY <2>5, <3>2, <3>3 DEF Handle, TypeOK
  <2>6. CASE Retry(w)
    <3>1. cur[w] # None
      BY <2>6, PhaseHolds DEF Retry
    <3>2. cur' \in [Workers -> Held]
      BY <2>6, <3>1, EnterStep DEF Retry
    <3>a. cur[w].copy \in Copy
      BY <3>1, HeldCopy
    <3>3. Attempts(w) \in Nat /\ EventOf(w) \in Events
      BY <3>a DEF Attempts, EventOf, Copy
    <3>4. <<EventOf(w), Attempts(w) + 1>> \in Copy
      BY <2>6, <3>3, CopyType DEF Retry
    <3>5. main' \in [Copy -> Nat] /\ retry' \in [Copy -> Nat]
      BY <2>6, <3>4, QueueType DEF Retry, ToExchange, TypeOK
    <3>6. QED
      BY <2>6, <3>2, <3>5 DEF Retry, TypeOK
  <2>7. CASE DeadLetter(w)
    <3>1. cur[w] # None
      BY <2>7, PhaseHolds DEF DeadLetter
    <3>2. cur' \in [Workers -> Held]
      BY <2>7, <3>1, EnterStep DEF DeadLetter
    <3>3. dlq' \subseteq Events
      BY <2>7, <3>1, HeldCopy DEF DeadLetter, TypeOK
    <3>4. QED
      BY <2>7, <3>2, <3>3 DEF DeadLetter, TypeOK
  <2>8. CASE Ack(w)
    BY <2>8 DEF Ack, TypeOK, Held
  <2>9. QED
    BY <1>3, <2>1, <2>2, <2>3, <2>4, <2>5, <2>6, <2>7, <2>8 DEF Step
<1>4. ASSUME NEW w \in Workers, Restart(w)
      PROVE  TypeOK'
  <2>1. main' \in [Copy -> Nat]
    BY <1>4, HeldCopy, QueueType DEF Restart, TypeOK
  <2>2. cur' \in [Workers -> Held]
    BY <1>4 DEF Restart, TypeOK, Held
  <2>3. seen' \subseteq Ids /\ forgotten' \in [Ids -> Nat]
    BY <1>4 DEF Restart, TypeOK
  <2>4. QED
    BY <1>4, <2>1, <2>2, <2>3 DEF Restart, TypeOK
<1>5. CASE \E i \in Ids : Forget(i)
  BY <1>5 DEF Forget, TypeOK
<1>6. QED
  BY <1>1, <1>2, <1>3, <1>4, <1>5 DEF Next

(***************************************************************************)
(* Every variable of the consumer keeps its type in every behaviour.       *)
(***************************************************************************)
THEOREM TypeCorrect == Spec => []TypeOK
<1>1. Init => TypeOK
  BY ConsumerAssumption DEF Init, TypeOK, Held
<1>2. TypeOK /\ [Next]_vars => TypeOK'
  <2> SUFFICES ASSUME TypeOK, [Next]_vars PROVE TypeOK'
    OBVIOUS
  <2>1. CASE Next
    BY <2>1, TypeStep
  <2>2. CASE UNCHANGED vars
    BY <2>2 DEF vars, TypeOK
  <2>3. QED
    BY <2>1, <2>2
<1>3. QED
  BY <1>1, <1>2, PTL DEF Spec

-----------------------------------------------------------------------------
\* The workers on an event are finitely many.
LEMMA HandlersFinite ==
  ASSUME NEW e
  PROVE  IsFiniteSet(Handlers(e)) /\ Cardinality(Handlers(e)) \in Nat
BY ConsumerAssumption, FS_Subset, FS_CardinalityType DEF Handlers

\* One more worker makes a set of workers at most one larger.
LEMMA OneMore ==
  ASSUME NEW S, NEW x, IsFiniteSet(S)
  PROVE  Cardinality(S \cup {x}) \in Nat /\ Cardinality(S \cup {x}) <= Cardinality(S) + 1
<1>1. IsFiniteSet(S \cup {x})
      /\ Cardinality(S \cup {x}) = IF x \in S THEN Cardinality(S) ELSE Cardinality(S) + 1
  BY FS_AddElement
<1>2. Cardinality(S) \in Nat
  BY FS_CardinalityType
<1>3. QED
  BY <1>1, <1>2

\* A step that puts no worker into the handler can only take some out of it.
LEMMA FewerHandlers ==
  ASSUME NEW e, Handlers(e)' \subseteq Handlers(e)
  PROVE  /\ Cardinality(Handlers(e)') \in Nat
         /\ Cardinality(Handlers(e)') <= Cardinality(Handlers(e))
BY HandlersFinite, FS_Subset, FS_CardinalityType

\* The id of an event in the store counts for one.
LEMMA MarkedType ==
  ASSUME NEW e
  PROVE  Marked(e) \in {0, 1} /\ Marked(e)' \in {0, 1}
BY DEF Marked

(***************************************************************************)
(* OnceInv survives a step that handles nothing, starts no handler and     *)
(* does not take away from what the store and its history account for.     *)
(***************************************************************************)
LEMMA QuietStep ==
  ASSUME TypeOK, TypeOK', OnceInv, handled' = handled,
         \A e \in Events : Handlers(e)' \subseteq Handlers(e),
         \A e \in Events :
           forgotten[IdOf[e]] + Marked(e) <= forgotten'[IdOf[e]] + Marked(e)'
  PROVE  OnceInv'
<1> SUFFICES ASSUME NEW e \in Events
             PROVE  handled'[e] + Cardinality(Handlers(e)')
                      <= forgotten'[IdOf[e]] + Marked(e)'
  BY DEF OnceInv
<1>1. handled[e] \in Nat /\ forgotten[IdOf[e]] \in Nat /\ forgotten'[IdOf[e]] \in Nat
  BY ConsumerAssumption DEF TypeOK
<1>2. handled[e] + Cardinality(Handlers(e)) <= forgotten[IdOf[e]] + Marked(e)
  BY DEF OnceInv
<1>3. Cardinality(Handlers(e)') <= Cardinality(Handlers(e)) /\ Cardinality(Handlers(e)') \in Nat
  BY FewerHandlers
<1>4. QED
  BY <1>1, <1>2, <1>3, HandlersFinite, MarkedType

\* The store only gains ids, or keeps them, and nothing is forgotten.
LEMMA StoreGrows ==
  ASSUME TypeOK, seen \subseteq seen', forgotten' = forgotten, NEW e \in Events
  PROVE  forgotten[IdOf[e]] + Marked(e) <= forgotten'[IdOf[e]] + Marked(e)'
BY ConsumerAssumption DEF TypeOK, Marked

\* An id that leaves the store is counted as forgotten.
LEMMA StoreForgets ==
  ASSUME TypeOK, seen' \subseteq seen,
         \A i \in Ids : forgotten'[i] =
           IF i \in seen \ seen' THEN forgotten[i] + 1 ELSE forgotten[i],
         NEW e \in Events
  PROVE  forgotten[IdOf[e]] + Marked(e) <= forgotten'[IdOf[e]] + Marked(e)'
BY ConsumerAssumption DEF TypeOK, Marked

\* A worker that leaves the handler, or was not in it, adds no handler.
LEMMA LeaveHandler ==
  ASSUME NEW w \in Workers, NEW e,
         cur'[w].phase # "handle", \A v \in Workers \ {w} : cur'[v] = cur[v]
  PROVE  Handlers(e)' \subseteq Handlers(e) \ {w}
BY DEF Handlers

-----------------------------------------------------------------------------
(***************************************************************************)
(* mark_seen_id_async inserts an id before the handler starts: the new     *)
(* handler is accounted for by the id.                                     *)
(***************************************************************************)
LEMMA MarkNewOnce ==
  ASSUME TypeOK, TypeOK', OnceInv, NEW w \in Workers, MarkNew(w)
  PROVE  OnceInv'
<1> DEFINE f == EventOf(w)
<1>1. cur[w] # None
  BY PhaseHolds DEF MarkNew
<1>2. f \in Events
  BY <1>1, HeldCopy
<1>3. /\ cur'[w].phase = "handle"
      /\ cur'[w].copy = cur[w].copy
      /\ \A v \in Workers \ {w} : cur'[v] = cur[v]
  BY <1>1, EnterStep DEF MarkNew
<1>4. handled' = handled /\ forgotten' = forgotten /\ seen \subseteq seen'
  BY DEF MarkNew
<1> SUFFICES ASSUME NEW e \in Events
             PROVE  handled'[e] + Cardinality(Handlers(e)')
                      <= forgotten'[IdOf[e]] + Marked(e)'
  BY DEF OnceInv
<1>5. handled[e] \in Nat /\ forgotten[IdOf[e]] \in Nat
  BY ConsumerAssumption DEF TypeOK
<1>6. handled[e] + Cardinality(Handlers(e)) <= forgotten[IdOf[e]] + Marked(e)
  BY DEF OnceInv
<1>7. CASE e = f
  <2>1. Handlers(e)' = Handlers(e) \cup {w}
    BY <1>3, <1>7 DEF Handlers, EventOf
  <2>2. Cardinality(Handlers(e)') <= Cardinality(Handlers(e)) + 1
        /\ Cardinality(Handlers(e)') \in Nat
    BY <2>1, HandlersFinite, OneMore
  <2>3. Marked(e) = 0 /\ Marked(e)' = 1
    BY <1>7 DEF MarkNew, Marked
  <2>4. QED
    BY <1>4, <1>5, <1>6, <2>2, <2>3, HandlersFinite
<1>8. CASE e # f
  <2>1. Handlers(e)' \subseteq Handlers(e)
    BY <1>3, <1>8 DEF Handlers, EventOf
  <2>2. Cardinality(Handlers(e)') <= Cardinality(Handlers(e))
        /\ Cardinality(Handlers(e)') \in Nat
    BY <2>1, FewerHandlers
  <2>3. Marked(e) <= Marked(e)'
    BY <1>4 DEF Marked
  <2>4. QED
    BY <1>4, <1>5, <1>6, <2>2, <2>3, HandlersFinite, MarkedType
<1>9. QED
  BY <1>7, <1>8

\* Handling an event takes one worker out of the handler.
LEMMA HandleOnce ==
  ASSUME TypeOK, TypeOK', OnceInv, NEW w \in Workers, Handle(w)
  PROVE  OnceInv'
<1> DEFINE f == EventOf(w)
<1>1. cur[w] # None
  BY PhaseHolds DEF Handle
<1>2. f \in Events
  BY <1>1, HeldCopy
<1>3. cur'[w].phase = "ack" /\ \A v \in Workers \ {w} : cur'[v] = cur[v]
  BY <1>1, EnterStep DEF Handle
<1>4. /\ handled' = [handled EXCEPT ![f] = @ + 1]
      /\ forgotten' = forgotten
      /\ seen' = seen
  BY DEF Handle
<1> SUFFICES ASSUME NEW e \in Events
             PROVE  handled'[e] + Cardinality(Handlers(e)')
                      <= forgotten'[IdOf[e]] + Marked(e)'
  BY DEF OnceInv
<1>5. handled[e] \in Nat /\ forgotten[IdOf[e]] \in Nat
  BY ConsumerAssumption DEF TypeOK
<1>6. handled[e] + Cardinality(Handlers(e)) <= forgotten[IdOf[e]] + Marked(e)
  BY DEF OnceInv
<1>7. Marked(e)' = Marked(e)
  BY <1>4 DEF Marked
<1>8. CASE e = f
  <2>1. w \in Handlers(e) /\ Handlers(e)' = Handlers(e) \ {w}
    BY <1>3, <1>8 DEF Handle, Handlers, EventOf
  <2>2. Cardinality(Handlers(e)') = Cardinality(Handlers(e)) - 1
    BY <2>1, HandlersFinite, FS_RemoveElement
  <2>3. handled'[e] = handled[e] + 1
    BY <1>4, <1>8 DEF TypeOK
  <2>4. QED
    BY <1>4, <1>5, <1>6, <1>7, <2>2, <2>3, HandlersFinite, MarkedType
<1>9. CASE e # f
  <2>1. Handlers(e)' \subseteq Handlers(e)
    BY <1>3, LeaveHandler
  <2>2. Cardinality(Handlers(e)') <= Cardinality(Handlers(e))
        /\ Cardinality(Handlers(e)') \in Nat
    BY <2>1, FewerHandlers
  <2>3. handled'[e] = handled[e]
    BY <1>4, <1>9 DEF TypeOK
  <2>4. QED
    BY <1>4, <1>5, <1>6, <1>7, <2>2, <2>3, HandlersFinite, MarkedType
<1>10. QED
  BY <1>8, <1>9

\* No step of the consumer, the broker or the server breaks OnceInv.
LEMMA OnceStep ==
  ASSUME TypeOK, TypeOK', OnceInv, Next
  PROVE  OnceInv'
<1>1. ASSUME cur' = cur, handled' = handled, forgotten' = forgotten, seen' = seen
      PROVE  OnceInv'
  <2>1. \A e \in Events : Handlers(e)' \subseteq Handlers(e)
    BY <1>1 DEF Handlers
  <2>2. QED
    BY <1>1, <2>1, StoreGrows, QuietStep
<1>2. CASE \E e \in Events : Publish(e)
  BY <1>1, <1>2 DEF Publish
<1>3. CASE \E c \in Copy : Expire(c)
  BY <1>1, <1>3 DEF Expire
<1>4. ASSUME NEW w \in Workers, cur'[w].phase # "handle",
             \A v \in Workers \ {w} : cur'[v] = cur[v],
             handled' = handled, forgotten' = forgotten, seen \subseteq seen'
      PROVE  OnceInv'
  <2>1. \A e \in Events : Handlers(e)' \subseteq Handlers(e)
    BY <1>4, LeaveHandler
  <2>2. QED
    BY <1>4, <2>1, StoreGrows, QuietStep
<1>5. ASSUME NEW w \in Workers, Step(w)
      PROVE  OnceInv'
  <2>1. CASE Deliver(w)
    <3>1. PICK c \in Copy : cur' = [cur EXCEPT ![w] = [phase |-> "mark", copy |-> c]]
      BY <2>1 DEF Deliver
    <3>2. cur'[w].phase = "mark" /\ \A v \in Workers \ {w} : cur'[v] = cur[v]
      BY <3>1 DEF TypeOK
    <3>3. QED
      BY <1>4, <2>1, <3>2 DEF Deliver
  <2>2. CASE MarkNew(w)
    BY <2>2, MarkNewOnce
  <2>3. ASSUME cur[w].phase # "none", Enter(w, "ack"),
               handled' = handled, forgotten' = forgotten, seen \subseteq seen'
        PROVE  OnceInv'
    <3>1. cur[w] # None
      BY <2>3, PhaseHolds
    <3>2. cur'[w].phase = "ack" /\ \A v \in Workers \ {w} : cur'[v] = cur[v]
      BY <2>3, <3>1, EnterStep
    <3>3. QED
      BY <1>4, <2>3, <3>2
  <2>4. CASE SkipDuplicate(w)
    BY <2>3, <2>4 DEF SkipDuplicate
  <2>5. CASE MarkError(w)
    BY <2>3, <2>5 DEF MarkError
  <2>6. CASE Handle(w)
    BY <2>6, HandleOnce
  <2>7. CASE Retry(w)
    BY <2>3, <2>7 DEF Retry
  <2>8. CASE DeadLetter(w)
    BY <2>3, <2>8 DEF DeadLetter
  <2>9. CASE Ack(w)
    <3>1. cur'[w].phase = "none" /\ \A v \in Workers \ {w} : cur'[v] = cur[v]
      BY <2>9 DEF Ack, TypeOK, None
    <3>2. QED
      BY <1>4, <2>9, <3>1 DEF Ack
  <2>10. QED
    BY <1>5, <2>1, <2>2, <2>4, <2>5, <2>6, <2>7, <2>8, <2>9 DEF Step
<1>6. ASSUME NEW w \in Workers, Restart(w)
      PROVE  OnceInv'
  <2>1. cur'[w].phase = "none" /\ \A v \in Workers \ {w} : cur'[v] = cur[v]
    BY <1>6 DEF Restart, TypeOK, None
  <2>2. \A e \in Events : Handlers(e)' \subseteq Handlers(e)
    BY <2>1, LeaveHandler
  <2>3. handled' = handled
    BY <1>6 DEF Restart
  <2>4. CASE Store = "memory"
    <3>1. /\ seen' = {}
          /\ \A i \in Ids : forgotten'[i] =
               IF i \in seen \ seen' THEN forgotten[i] + 1 ELSE forgotten[i]
      BY <1>6, <2>4 DEF Restart
    <3>2. QED
      BY <2>2, <2>3, <3>1, StoreForgets, QuietStep
  <2>5. CASE Store # "memory"
    BY <1>6, <2>2, <2>3, <2>5, StoreGrows, QuietStep DEF Restart
  <2>6. QED
    BY <2>4, <2>5
<1>7. ASSUME NEW i \in Ids, Forget(i)
      PROVE  OnceInv'
  <2>1. \A e \in Events : Handlers(e)' \subseteq Handlers(e)
    BY <1>7 DEF Forget, Handlers
  <2>2. /\ seen' \subseteq seen
        /\ \A j \in Ids : forgotten'[j] =
             IF j \in seen \ seen' THEN forgotten[j] + 1 ELSE forgotten[j]
    BY <1>7 DEF Forget, TypeOK
  <2>3. QED
    BY <1>7, <2>1, <2>2, StoreForgets, QuietStep DEF Forget
<1>8. QED
  BY <1>2, <1>3, <1>5, <1>6, <1>7 DEF Next

(***************************************************************************)
(* The idempotency promised for the consumer: an event is handled again    *)
(* only after its id was forgotten, whatever the broker redelivers and     *)
(* wherever a worker stops.                                                *)
(***************************************************************************)
THEOREM EventsHandledOnce == Spec => []HandledOnce
<1>1. Init => Inv
  <2> SUFFICES ASSUME Init PROVE Inv
    OBVIOUS
  <2>1. TypeOK
    BY ConsumerAssumption DEF Init, TypeOK, Held
  <2>2. \A e \in Events : Handlers(e) = {}
    BY DEF Init, Handlers, None
  <2>3. \A e \in Events : Cardinality(Handlers(e)) = 0
    BY <2>2, FS_EmptySet
  <2>4. \A e \in Events : handled[e] = 0 /\ forgotten[IdOf[e]] = 0 /\ Marked(e) = 0
    BY ConsumerAssumption DEF Init, Marked
  <2>5. OnceInv
    BY <2>3, <2>4 DEF OnceInv
  <2>6. QED
    BY <2>1, <2>5 DEF Inv
<1>2. Inv /\ [Next]_vars => Inv'
  <2> SUFFICES ASSUME Inv, [Next]_vars PROVE Inv'
    OBVIOUS
  <2>1. CASE Next
    BY <2>1, TypeStep, OnceStep DEF Inv
  <2>2. CASE UNCHANGED vars
    BY <2>2 DEF vars, Inv, TypeOK, OnceInv, Handlers, Marked
  <2>3. QED
    BY <2>1, <2>2
<1>3. Inv => HandledOnce
  <2> SUFFICES ASSUME Inv, NEW e \in Events
               PROVE  handled[e] <= forgotten[IdOf[e]] + 1
    BY DEF HandledOnce
  <2>1. handled[e] \in Nat /\ forgotten[IdOf[e]] \in Nat
    BY ConsumerAssumption DEF Inv, TypeOK
  <2>2. handled[e] + Cardinality(Handlers(e)) <= forgotten[IdOf[e]] + Marked(e)
    BY DEF Inv, OnceInv
  <2>3. QED
    BY <2>1, <2>2, HandlersFinite, MarkedType
<1>4. QED
  BY <1>1, <1>2, <1>3, PTL DEF Spec
=============================================================================
