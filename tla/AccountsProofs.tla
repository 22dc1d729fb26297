--------------------------- MODULE AccountsProofs ---------------------------
(***************************************************************************)
(* Proofs about Accounts, for any devices, users, account hashes and       *)
(* requests, and any number of random tokens.                              *)
(*                                                                         *)
(* What is handed out, in an answer or in a session, is sound: the token   *)
(* is stored for the account beside it, and the key is the one stored for  *)
(* that account unless the account is in doubt (Sound).  It stays so,      *)
(* because a token that is stored is not stored again for another account: *)
(* logins draw their own tokens (Distinct), and none is stored before its  *)
(* login saves it.  And a key that is stored is not replaced: of two       *)
(* requests that create a key for an account, the second puts the account  *)
(* in doubt, so outside doubt there is one creator, and while there is one *)
(* no key is stored (Creators, RequestInv).                                *)
(***************************************************************************)
EXTENDS Accounts, TLAPS

USE AccountsAssumption

Before == {"code", "info", "hash", "email", "update", "create", "token"}
Keying == {"key", "exists", "overwrite", "add"}
Making == {"exists", "overwrite", "add"}
Done == {"session", "pending", "complete"}

\* A request that drew a token.
Active(q) == req[q].op \in Before \cup Keying \cup Done

\* What may be handed out: a token (or none), an account and its key.
Sound(t, h, k) ==
  /\ h \in Hashes /\ k \in Tokens
  /\ t # NoToken => t \in Tokens /\ tokens[t] = h
  /\ h \notin doubt => keys[h] = k

RequestInv(q) ==
  LET r == req[q] IN
  /\ Active(q) => r.token \in 1..drawn
  /\ r.op \in Before => r.why \in {"callback", "exchange"} /\ tokens[r.token] = None
  /\ r.op \in {"hash", "email", "update", "create", "token"} \cup Keying =>
       r.hash \in Hashes
  /\ r.op \in Keying /\ r.why # "request" => tokens[r.token] = r.hash
  /\ r.op \in Making /\ r.hash \notin doubt => keys[r.hash] = NoKey /\ r.op # "overwrite"
  /\ r.op \in Done => r.why = "callback" /\ Sound(r.token, r.hash, r.key)

\* No two requests drew the same token.
Distinct ==
  \A p, q \in Requests : Active(p) /\ Active(q) /\ req[p].token = req[q].token => p = q

\* Outside doubt, no two requests create the key of an account.
Creators ==
  \A p, q \in Requests : \A h \in Hashes \ doubt : Creating(p, h) /\ Creating(q, h) => p = q

RequestsInv ==
  /\ req \in [Requests -> Request]
  /\ \A q \in Requests : RequestInv(q)
  /\ Distinct
  /\ Creators

TablesInv ==
  /\ accounts \in [Hashes -> {None} \cup Emails]
  /\ tokens \in [Tokens -> {None} \cup Hashes]
  /\ expired \subseteq Tokens
  /\ keys \in [Hashes -> {NoKey} \cup Tokens]
  /\ drawn \in 0..MaxRandom
  /\ doubt \subseteq Hashes
  /\ \A t \in Tokens : t > drawn => tokens[t] = None

\* A session is empty, or what a login handed out.
SessionInv(d) ==
  LET s == sessions[d] IN
  \/ s.token = NoToken /\ s.hash = None
  \/ s.token # NoToken /\ Sound(s.token, s.hash, s.key)

SessionsInv ==
  /\ sessions \in [AllDevices -> Session]
  /\ \A d \in AllDevices : SessionInv(d)

Answers == [token : {NoToken} \cup Tokens, hash : Hashes, key : Tokens]

AnswersInv ==
  /\ answered \subseteq Answers
  /\ \A a \in answered : Sound(a.token, a.hash, a.key)

Inv == RequestsInv /\ TablesInv /\ SessionsInv /\ AnswersInv

-----------------------------------------------------------------------------
\* None is no hash, and no token is NoToken.
LEMMA Names ==
  /\ None \notin Hashes /\ NoToken \notin Tokens /\ NoKey \notin Tokens
  /\ Emails \subseteq Hashes /\ ClientHashes \subseteq Hashes
BY DEF Hashes, HashOf, Tokens, NoToken, NoKey

\* The invariant implies the properties of Accounts.
LEMMA InvProperties ==
  ASSUME Inv
  PROVE  TypeOK /\ AnsweredAccepted /\ SessionAccount /\ KeysAgree
<1>1. \A d \in AllDevices : (sessions[d].token = NoToken) <=> (sessions[d].hash = None)
  BY Names DEF Inv, SessionsInv, SessionInv, Sound
<1>2. TypeOK
  BY <1>1 DEF Inv, RequestsInv, TablesInv, SessionsInv, AnswersInv, Answers, TypeOK
<1>3. AnsweredAccepted
  BY DEF Inv, AnswersInv, Sound, AnsweredAccepted
<1>4. SessionAccount
  BY DEF Inv, SessionsInv, SessionInv, Sound, SessionAccount
<1>5. KeysAgree
  BY Names DEF Inv, AnswersInv, SessionsInv, SessionInv, Sound, KeysAgree
<1> QED
  BY <1>2, <1>3, <1>4, <1>5

-----------------------------------------------------------------------------
(***************************************************************************)
(* What the steps of others do to a request, a session and an answer.      *)
(***************************************************************************)
Only(q) ==
  /\ req' \in [Requests -> Request]
  /\ \A p \in Requests \ {q} : req'[p] = req[p]

\* Nothing that is stored is replaced, but for keys in doubt.
Grow ==
  /\ \A t \in Tokens : tokens[t] # None => tokens'[t] = tokens[t]
  /\ doubt \subseteq doubt'
  /\ \A h \in Hashes \ doubt : keys[h] # NoKey => keys'[h] = keys[h]

\* What request q stores is its own token, and a key it is creating.
OwnWrites(q) ==
  /\ \A t \in Tokens : tokens'[t] # tokens[t] => Active(q) /\ t = req[q].token
  /\ \A h \in Hashes \ doubt : keys'[h] # keys[h] => Creating(q, h)

\* What was sound stays sound.
LEMMA SoundStays ==
  ASSUME Grow, NEW t, NEW h, NEW k, Sound(t, h, k)
  PROVE  /\ t # NoToken => tokens'[t] = h
         /\ h \notin doubt' => keys'[h] = k
BY Names DEF Grow, Sound

\* A request that is being served has drawn a token.
LEMMA ActiveToken ==
  ASSUME Inv, NEW q \in Requests, Active(q)
  PROVE  req[q].token \in Tokens
<1>1. RequestInv(q) /\ drawn \in 0..MaxRandom
  BY DEF Inv, RequestsInv, TablesInv
<1>2. req[q].token \in 1..drawn
  BY <1>1 DEF RequestInv
<1> QED
  BY <1>1, <1>2, AccountsAssumption DEF Tokens

\* A request goes on relying on what it relied on.
LEMMA OthersKept ==
  ASSUME Inv, NEW q \in Requests, Only(q), Grow, OwnWrites(q),
         drawn' \in Nat, drawn <= drawn', NEW p \in Requests \ {q}
  PROVE  RequestInv(p)'
<1> DEFINE r == req[p]
<1>1. req'[p] = r /\ r \in Request /\ RequestInv(p) /\ drawn \in 0..MaxRandom
  BY DEF Only, Inv, RequestsInv, TablesInv
<1>2. Active(p)' <=> Active(p)
  BY <1>1 DEF Active
<1>3. Active(p) => r.token \in Tokens /\ r.token \in 1..drawn'
  BY <1>1 DEF RequestInv, Tokens
<1>4. ASSUME r.op \in Before
      PROVE  r.why \in {"callback", "exchange"} /\ tokens'[r.token] = None
  <2>1. tokens[r.token] = None /\ r.why \in {"callback", "exchange"} /\ Active(p)
    BY <1>1, <1>4 DEF RequestInv, Active
  <2>2. ~(Active(q) /\ r.token = req[q].token)
    BY <2>1 DEF Inv, RequestsInv, Distinct
  <2> QED
    BY <1>3, <2>1, <2>2 DEF OwnWrites
<1>5. ASSUME r.op \in Keying, r.why # "request" PROVE tokens'[r.token] = r.hash
  <2>1. Active(p) /\ tokens[r.token] = r.hash /\ r.hash \in Hashes
    BY <1>1, <1>5 DEF RequestInv, Active
  <2> QED
    BY <1>3, <2>1, Names DEF Grow
<1>6. ASSUME r.op \in Making, r.hash \notin doubt'
      PROVE  keys'[r.hash] = NoKey /\ r.op # "overwrite"
  <2>1. r.hash \in Hashes \ doubt /\ keys[r.hash] = NoKey /\ r.op # "overwrite"
    BY <1>1, <1>6 DEF RequestInv, Grow, Making, Keying
  <2>2. Creating(p, r.hash)
    BY <1>6 DEF Creating, Making
  <2>3. ~Creating(q, r.hash)
    BY <2>1, <2>2 DEF Inv, RequestsInv, Creators
  <2> QED
    BY <2>1, <2>3 DEF OwnWrites
<1>7. ASSUME r.op \in Done
      PROVE  /\ r.why = "callback" /\ r.hash \in Hashes /\ r.key \in Tokens
             /\ r.token # NoToken => r.token \in Tokens /\ tokens'[r.token] = r.hash
             /\ r.hash \notin doubt' => keys'[r.hash] = r.key
  <2>1. r.why = "callback" /\ Sound(r.token, r.hash, r.key)
    BY <1>1, <1>7 DEF RequestInv
  <2>2. /\ r.token # NoToken => tokens'[r.token] = r.hash
        /\ r.hash \notin doubt' => keys'[r.hash] = r.key
    BY <2>1, SoundStays
  <2> QED
    BY <2>1, <2>2 DEF Sound
<1>8. r.op \in {"hash", "email", "update", "create", "token"} \cup Keying
        => r.hash \in Hashes
  BY <1>1 DEF RequestInv
<1> HIDE DEF r
<1> QED
  BY <1>1, <1>2, <1>3, <1>4, <1>5, <1>6, <1>7, <1>8 DEF RequestInv, Sound

\* The same, for a step that generates no number.
LEMMA OthersStay ==
  ASSUME Inv, NEW q \in Requests, Only(q), Grow, OwnWrites(q), UNCHANGED drawn
  PROVE  \A p \in Requests \ {q} : RequestInv(p)'
<1>1. drawn \in Nat
  BY DEF Inv, TablesInv
<1>2. drawn' \in Nat /\ drawn <= drawn'
  BY <1>1
<1> TAKE p \in Requests \ {q}
<1> QED
  BY <1>2, OthersKept, Zenon

\* The request that acts keeps its token or draws the next, and creates no key
\* that another is creating.
LEMMA PairsKept ==
  ASSUME Inv, NEW q \in Requests, Only(q), doubt \subseteq doubt',
         Active(q)' => \/ Active(q) /\ req'[q].token = req[q].token
                       \/ req'[q].token = drawn + 1,
         \A h \in Hashes \ doubt' : Creating(q, h)' =>
           Creating(q, h) \/ \A p \in Requests \ {q} : ~Creating(p, h)
  PROVE  Distinct' /\ Creators'
<1>1. \A p \in Requests \ {q} : /\ Active(p)' <=> Active(p)
                                /\ req'[p].token = req[p].token
                                /\ \A h \in Hashes : Creating(p, h)' <=> Creating(p, h)
  BY DEF Only, Active, Creating
<1>2. \A p \in Requests : Active(p) => req[p].token # drawn + 1
  BY DEF Inv, RequestsInv, RequestInv, TablesInv
<1>3. Distinct'
  <2> SUFFICES ASSUME NEW a \in Requests, NEW b \in Requests, Active(a)', Active(b)',
                      req'[a].token = req'[b].token
               PROVE  a = b
    BY DEF Distinct
  <2> QED
    BY <1>1, <1>2 DEF Inv, RequestsInv, Distinct
<1>4. Creators'
  <2> SUFFICES ASSUME NEW a \in Requests, NEW b \in Requests, NEW h \in Hashes \ doubt',
                      Creating(a, h)', Creating(b, h)'
               PROVE  a = b
    BY DEF Creators
  <2> QED
    BY <1>1 DEF Inv, RequestsInv, Creators
<1> QED
  BY <1>3, <1>4

\* So a request may take a step that keeps its own part of the invariant.
LEMMA Proceeds ==
  ASSUME Inv, NEW q \in Requests, Only(q), UNCHANGED <<tokens, keys, doubt, drawn>>,
         RequestInv(q)',
         Active(q)' => Active(q) /\ req'[q].token = req[q].token,
         \A h \in Hashes \ doubt : Creating(q, h)' => Creating(q, h)
  PROVE  RequestsInv'
<1>1. Grow /\ OwnWrites(q) /\ drawn \in Nat
  BY DEF Grow, OwnWrites, Inv, TablesInv
<1>2. ASSUME NEW p \in Requests \ {q} PROVE RequestInv(p)'
  BY <1>1, OthersKept
<1>3. Distinct' /\ Creators'
  BY PairsKept
<1> QED
  BY <1>2, <1>3 DEF Only, RequestsInv

\* An idle or polling request relies on nothing.
LEMMA Rests ==
  ASSUME Inv, NEW q \in Requests, Only(q), UNCHANGED <<tokens, keys, doubt, drawn>>,
         req'[q].op \in {"idle", "poll", "insert"}
  PROVE  RequestsInv'
<1>1. ~Active(q)' /\ \A h : ~Creating(q, h)'
  BY DEF Active, Creating, Before, Keying, Done
<1>2. RequestInv(q)'
  BY <1>1 DEF RequestInv, Active, Before, Keying, Making, Done
<1> QED
  BY <1>1, <1>2, Proceeds

\* What the sessions and the answers hold stays sound.
LEMMA SessionStays ==
  ASSUME Inv, Grow, NEW d \in AllDevices,
         /\ sessions'[d].token = sessions[d].token
         /\ sessions'[d].hash = sessions[d].hash
         /\ sessions'[d].key = sessions[d].key
  PROVE  SessionInv(d)'
<1> DEFINE s == sessions[d]
<1>1. SessionInv(d)
  BY DEF Inv, SessionsInv
<1>2. CASE s.token = NoToken /\ s.hash = None
  BY <1>2 DEF SessionInv
<1>3. CASE s.token # NoToken /\ Sound(s.token, s.hash, s.key)
  <2>1. /\ tokens'[s.token] = s.hash
        /\ s.hash \notin doubt' => keys'[s.hash] = s.key
    BY <1>3, SoundStays
  <2> QED
    BY <1>3, <2>1 DEF SessionInv, Sound
<1> QED
  BY <1>1, <1>2, <1>3 DEF SessionInv

\* What was answered stays sound, as the tables only grow.
LEMMA AnswersStay ==
  ASSUME Inv, Grow, answered' \subseteq Answers,
         \A a \in answered' \ answered : Sound(a.token, a.hash, a.key)'
  PROVE  AnswersInv'
<1>1. ASSUME NEW a \in answered, a \in answered' PROVE Sound(a.token, a.hash, a.key)'
  <2>1. Sound(a.token, a.hash, a.key)
    BY DEF Inv, AnswersInv
  <2>2. /\ a.token # NoToken => tokens'[a.token] = a.hash
        /\ a.hash \notin doubt' => keys'[a.hash] = a.key
    BY <2>1, SoundStays
  <2> QED
    BY <2>1, <2>2 DEF Sound
<1> QED
  BY <1>1 DEF AnswersInv

\* So do the sessions and the answers of a step that hands out nothing.
LEMMA HandedStays ==
  ASSUME Inv, Grow, UNCHANGED <<sessions, answered>>
  PROVE  SessionsInv' /\ AnswersInv'
BY SessionStays, AnswersStay DEF Inv, SessionsInv, AnswersInv

\* A step of a request that writes to accounts at most.
LEMMA Quiet ==
  ASSUME Inv, RequestsInv',
         UNCHANGED <<sessions, tokens, expired, keys, drawn, answered, doubt>>,
         accounts' \in [Hashes -> {None} \cup Emails]
  PROVE  Inv'
<1>1. Grow
  BY DEF Grow
<1>2. TablesInv'
  BY DEF Inv, TablesInv
<1> QED
  BY <1>1, <1>2, HandedStays DEF Inv

\* A request of the right type, and the others as they were.
LEMMA Alone ==
  ASSUME Inv, NEW q \in Requests, NEW r \in Request, req' = [req EXCEPT ![q] = r]
  PROVE  Only(q) /\ req'[q] = r
BY DEF Inv, RequestsInv, Only

\* A request that is not being served.
LEMMA IdleRequest == Idle \in Request /\ Idle.op = "idle" /\ Idle.todo = {}
BY DEF Idle, Request, AllDevices, Tokens, NoToken, NoKey

\* A request that ends without having written.
LEMMA Ends ==
  ASSUME Inv, NEW q \in Requests, Finish(q),
         UNCHANGED <<sessions, tables, expired, drawn, history>>
  PROVE  Inv'
<1>1. Only(q) /\ req'[q] = Idle
  BY IdleRequest, Alone DEF Finish
<1>2. RequestsInv'
  BY <1>1, IdleRequest, Rests DEF tables, history
<1> QED
  BY <1>2, Quiet DEF tables, history, Inv, TablesInv

\* A login goes on, before its token is saved.
LEMMA LoginGoesOn ==
  ASSUME Inv, NEW q \in Requests, NEW r \in Request, req' = [req EXCEPT ![q] = r],
         req[q].op \in Before, r.op \in Before,
         r.token = req[q].token, r.why = req[q].why,
         r.op \in {"hash", "email", "update", "create", "token"} => r.hash \in Hashes,
         UNCHANGED <<sessions, tokens, expired, keys, drawn, answered, doubt>>,
         accounts' \in [Hashes -> {None} \cup Emails]
  PROVE  Inv'
<1>1. Only(q) /\ req'[q] = r
  BY Alone
<1>2. /\ Active(q) /\ Active(q)' /\ \A h : ~Creating(q, h)'
      /\ r.op \notin Keying /\ r.op \notin Making /\ r.op \notin Done
  BY <1>1 DEF Active, Creating, Before, Keying, Making, Done
<1>3. RequestInv(q)
  BY DEF Inv, RequestsInv
<1>4. RequestInv(q)'
  BY <1>1, <1>2, <1>3 DEF RequestInv
<1>5. RequestsInv'
  BY <1>1, <1>2, <1>4, Proceeds
<1> QED
  BY <1>5, Quiet

\* The steps of a login before its token is saved.
LoginStep(q) ==
  \/ ExchangeCode(q)
  \/ \E e \in Emails : GetUserInfo(q, e)
  \/ GetAccountByHash(q)
  \/ GetAccountByEmail(q)
  \/ LookupFails(q)
  \/ UpdateAccount(q)
  \/ UpdateAccountFails(q)
  \/ CreateAccount(q)
  \/ CreateAccountFails(q)

\* The steps of a callback up to the account it creates.
LEMMA LoginInv ==
  ASSUME Inv, NEW q \in Requests, LoginStep(q)
  PROVE  Inv'
<1> USE DEF Goto, GotoToken, tables, history
<1> DEFINE r == req'[q]
           o == req[q]
<1>1. o \in Request /\ RequestInv(q) /\ accounts \in [Hashes -> {None} \cup Emails]
  BY DEF Inv, RequestsInv, TablesInv
<1>2. UNCHANGED <<sessions, tokens, expired, keys, drawn, answered, doubt>>
  BY DEF LoginStep, ExchangeCode, GetUserInfo, GetAccountByHash, GetAccountByEmail,
         LookupFails, UpdateAccount, UpdateAccountFails, CreateAccount,
         CreateAccountFails
<1>3. o.op \in Before
  BY DEF LoginStep, ExchangeCode, GetUserInfo, GetAccountByHash, GetAccountByEmail,
         LookupFails, UpdateAccount, UpdateAccountFails, CreateAccount,
         CreateAccountFails, Before
<1>4. o.op \in {"hash", "email", "update", "create"} => o.hash \in Hashes
  BY <1>1 DEF RequestInv
<1>5. /\ req' = [req EXCEPT ![q] = r] /\ r \in Request
      /\ r.op \in Before /\ r.token = o.token /\ r.why = o.why
      /\ r.op \in {"hash", "email", "update", "create", "token"} => r.hash \in Hashes
      /\ accounts' \in [Hashes -> {None} \cup Emails]
  <2> USE <1>1, <1>4 DEF Inv, RequestsInv, Request, Before
  <2>1. CASE ExchangeCode(q)
    BY <2>1 DEF ExchangeCode
  <2>2. CASE \E e \in Emails : GetUserInfo(q, e)
    <3> PICK e \in Emails : GetUserInfo(q, e)
      BY <2>2
    <3>1. /\ r = [o EXCEPT !.op = "hash", !.email = e,
                           !.hash = IF o.hash = None THEN e ELSE o.hash]
          /\ req' = [req EXCEPT ![q] = r] /\ UNCHANGED accounts
      BY DEF GetUserInfo, HashOf
    <3>2. (IF o.hash = None THEN e ELSE o.hash) \in Hashes
      BY Names
    <3> QED
      BY <3>1, <3>2
  <2>3. CASE GetAccountByHash(q)
    BY <2>3 DEF GetAccountByHash
  <2>4. CASE GetAccountByEmail(q)
    BY <2>4 DEF GetAccountByEmail
  <2>5. CASE LookupFails(q)
    BY <2>5 DEF LookupFails
  <2>6. CASE UpdateAccount(q)
    BY <2>6 DEF UpdateAccount
  <2>7. CASE UpdateAccountFails(q)
    BY <2>7 DEF UpdateAccountFails
  <2>8. CASE CreateAccount(q)
    BY <2>8 DEF CreateAccount
  <2>9. CASE CreateAccountFails(q)
    BY <2>9 DEF CreateAccountFails
  <2> QED
    BY <2>1, <2>2, <2>3, <2>4, <2>5, <2>6, <2>7, <2>8, <2>9 DEF LoginStep
<1> HIDE DEF r
<1> QED
  BY <1>2, <1>3, <1>5, LoginGoesOn

(***************************************************************************)
(* Requests that draw a token: logins, and requests for a key.             *)
(***************************************************************************)
LEMMA Draws ==
  ASSUME Inv, NEW q \in Requests, NEW r \in Request, req' = [req EXCEPT ![q] = r],
         Draw, r.token = drawn + 1,
         \/ r.op = "code" /\ r.why \in {"callback", "exchange"}
         \/ r.op = "key" /\ r.why = "request" /\ r.hash \in Hashes,
         UNCHANGED <<sessions, tables, expired, history>>
  PROVE  Inv'
<1>1. Only(q) /\ req'[q] = r
  BY Alone
<1>2. /\ drawn \in Nat /\ drawn' = drawn + 1 /\ drawn' \in 0..MaxRandom
      /\ r.token \in 1..drawn' /\ r.token \in Tokens
  BY DEF Draw, Inv, TablesInv, Tokens
<1>3. Grow /\ OwnWrites(q)
  BY DEF Grow, OwnWrites, tables, history
<1>4. ASSUME NEW p \in Requests \ {q} PROVE RequestInv(p)'
  BY <1>1, <1>2, <1>3, OthersKept
<1>5. tokens[r.token] = None
  BY <1>2 DEF Inv, TablesInv
<1>6. \A h : ~Creating(q, h)'
  BY <1>1 DEF Creating
<1>7. RequestInv(q)'
  BY <1>1, <1>2, <1>5 DEF RequestInv, Before, Keying, Making, Done, tables
<1>8. Distinct' /\ Creators'
  BY <1>1, <1>6, PairsKept DEF history
<1>9. RequestsInv'
  BY <1>1, <1>4, <1>7, <1>8 DEF Only, RequestsInv
<1>10. \A t \in Tokens : t > drawn' => t > drawn
  BY <1>2 DEF Tokens
<1>11. TablesInv'
  BY <1>2, <1>10 DEF Inv, TablesInv, tables, history
<1> QED
  BY <1>3, <1>9, <1>11, HandedStays DEF Inv, history

\* A request arrives, with what the client or the provider sent.
LEMMA BeginInv ==
  ASSUME Inv, NEW q \in Requests,
         \/ \E d \in AllDevices, h \in {None} \cup ClientHashes : OAuthCallback(q, d, h)
         \/ OAuthExchange(q)
         \/ \E t \in Tokens, h \in Hashes : RequestKey(q, t, h)
  PROVE  Inv'
<1>1. Idle \in Request /\ (drawn < MaxRandom => drawn + 1 \in Tokens)
  BY IdleRequest DEF Inv, TablesInv, Tokens
<1>2. ASSUME NEW why \in {"callback", "exchange"}, NEW d \in AllDevices,
             NEW h \in {None} \cup ClientHashes, drawn < MaxRandom
      PROVE  /\ Login(why, d, h) \in Request /\ Login(why, d, h).token = drawn + 1
             /\ Login(why, d, h).op = "code" /\ Login(why, d, h).why = why
  BY <1>1, <1>2, Names DEF Login, Idle, Request
<1>3. ASSUME NEW d \in AllDevices, NEW h \in {None} \cup ClientHashes,
             OAuthCallback(q, d, h)
      PROVE  Inv'
  BY <1>2, <1>3, Draws DEF OAuthCallback, Draw
<1>4. CASE OAuthExchange(q)
  <2>1. TempDevice \in AllDevices
    BY DEF AllDevices
  <2> QED
    BY <1>2, <1>4, <2>1, Draws DEF OAuthExchange, Draw
<1>5. ASSUME NEW t \in Tokens, NEW h \in Hashes, RequestKey(q, t, h) PROVE Inv'
  <2> DEFINE r == [Idle EXCEPT !.op = "key", !.why = "request", !.hash = h,
                               !.token = drawn + 1]
  <2>1. /\ r \in Request /\ r.token = drawn + 1 /\ r.op = "key"
        /\ r.why = "request" /\ r.hash = h
    BY <1>1, <1>5 DEF RequestKey, Draw, Idle, Request
  <2>2. /\ req' = [req EXCEPT ![q] = r] /\ Draw
        /\ UNCHANGED <<sessions, tables, expired, history>>
    BY <1>5 DEF RequestKey
  <2> HIDE DEF r
  <2> QED
    BY <2>1, <2>2, Draws
<1> QED
  BY <1>3, <1>4, <1>5

(***************************************************************************)
(* The token is saved: until then it was stored for nobody.                *)
(***************************************************************************)
LEMMA SaveInv ==
  ASSUME Inv, NEW q \in Requests, SaveToken(q)
  PROVE  Inv'
<1> DEFINE t == req[q].token
           h == req[q].hash
<1>1. RequestInv(q) /\ req[q] \in Request /\ req[q].op = "token"
  BY DEF Inv, RequestsInv, SaveToken
<1>2. /\ t \in Tokens /\ t \in 1..drawn /\ h \in Hashes /\ tokens[t] = None
      /\ req[q].why \in {"callback", "exchange"} /\ Active(q)
  BY <1>1 DEF RequestInv, Active, Before, Tokens, Inv, TablesInv
<1>3. /\ tokens' = [tokens EXCEPT ![t] = h] /\ tokens \in [Tokens -> {None} \cup Hashes]
      /\ UNCHANGED <<sessions, accounts, keys, expired, drawn, answered, doubt>>
  BY DEF SaveToken, history, Inv, TablesInv
<1>4. /\ Only(q) /\ req'[q].op = "key" /\ req'[q].token = t
      /\ req'[q].hash = h /\ req'[q].why = req[q].why
  <2> DEFINE r == [req[q] EXCEPT !.op = "key"]
  <2>1. /\ r \in Request /\ r.op = "key" /\ r.token = t /\ r.hash = h
        /\ r.why = req[q].why
    BY <1>1 DEF Request
  <2>2. req' = [req EXCEPT ![q] = r]
    BY DEF SaveToken, Goto
  <2> HIDE DEF r, t, h
  <2> QED
    BY <2>1, <2>2, Alone
<1> HIDE DEF t, h
<1>5. Grow /\ OwnWrites(q) /\ drawn \in Nat
  BY <1>2, <1>3 DEF Grow, OwnWrites, Inv, TablesInv, t
<1>6. \A p \in Requests \ {q} : RequestInv(p)'
  BY <1>3, <1>4, <1>5, OthersStay, Zenon
<1>7. Active(q)' /\ \A x : ~Creating(q, x)'
  BY <1>4 DEF Active, Creating, Keying
<1>8. RequestInv(q)'
  BY <1>2, <1>3, <1>4 DEF RequestInv, Before, Making, Done
<1>9. Distinct' /\ Creators'
  BY <1>2, <1>3, <1>4, <1>7, PairsKept DEF t
<1>10. RequestsInv'
  BY <1>4, <1>6, <1>8, <1>9 DEF Only, RequestsInv
<1>11. TablesInv'
  <2>1. tokens' \in [Tokens -> {None} \cup Hashes]
    BY <1>2, <1>3
  <2>2. \A x \in Tokens : x > drawn => tokens'[x] = None
    <3>1. \A x \in Tokens : x > drawn => tokens[x] = None /\ x # t
      BY <1>2, <1>5 DEF Inv, TablesInv, Tokens
    <3> QED
      BY <1>3, <3>1
  <2> QED
    BY <1>3, <2>1, <2>2 DEF Inv, TablesInv
<1> QED
  BY <1>3, <1>5, <1>10, <1>11, HandedStays DEF Inv

(***************************************************************************)
(* The key of an account.                                                  *)
(***************************************************************************)

\* A request uses a key: k is the one that is stored now, or in doubt.
LEMMA UseInv ==
  ASSUME Inv, NEW q \in Requests, req[q].op \in Keying, NEW k \in Tokens, UseKey(q, k),
         Grow, OwnWrites(q), keys' \in [Hashes -> {NoKey} \cup Tokens],
         doubt' \subseteq Hashes,
         req[q].hash \notin doubt' => keys'[req[q].hash] = k,
         UNCHANGED <<sessions, accounts, tokens, expired, drawn>>
  PROVE  Inv'
<1> DEFINE o == req[q]
<1>1. /\ RequestInv(q) /\ o \in Request /\ o.hash \in Hashes /\ Active(q)
      /\ o.token \in Tokens /\ o.token \in 1..drawn /\ drawn \in Nat
  <2>1. RequestInv(q) /\ o \in Request /\ drawn \in Nat
    BY DEF Inv, RequestsInv, TablesInv
  <2>2. o.hash \in Hashes /\ Active(q) /\ o.token \in 1..drawn
    BY <2>1 DEF RequestInv, Active
  <2> QED
    BY <2>1, <2>2, ActiveToken
<1>2. o.why # "request" => tokens[o.token] = o.hash
  BY <1>1 DEF RequestInv
<1>3. TablesInv'
  BY DEF Inv, TablesInv
<1>4. CASE o.why = "callback"
  <2> DEFINE r == [o EXCEPT !.op = "session", !.key = k]
  <2>1. /\ r \in Request /\ r.op = "session" /\ r.key = k /\ r.token = o.token
        /\ r.hash = o.hash /\ r.why = "callback"
    BY <1>1, <1>4 DEF Request
  <2>2. req' = [req EXCEPT ![q] = r] /\ UNCHANGED answered
    BY <1>4 DEF UseKey
  <2> HIDE DEF r
  <2>3. Only(q) /\ req'[q] = r
    BY <2>1, <2>2, Alone
  <2>4. Active(q)' /\ \A x : ~Creating(q, x)'
    BY <2>1, <2>3 DEF Active, Creating, Done
  <2>5. RequestInv(q)'
    BY <1>1, <1>2, <1>4, <2>1, <2>3 DEF RequestInv, Before, Keying, Making, Sound
  <2>6. \A p \in Requests \ {q} : RequestInv(p)'
    BY <2>3, OthersStay, Zenon
  <2>7. Distinct' /\ Creators'
    BY <1>1, <2>1, <2>3, <2>4, PairsKept DEF Grow
  <2>8. RequestsInv'
    BY <2>3, <2>5, <2>6, <2>7 DEF Only, RequestsInv
  <2> QED
    BY <1>3, <2>2, <2>8, HandedStays DEF Inv
<1>5. CASE o.why # "callback"
  <2> DEFINE a == Answer(q, k)
  <2>1. /\ a \in Answers /\ a.hash = o.hash /\ a.key = k
        /\ a.token = NoToken \/ (o.why # "request" /\ a.token = o.token)
    BY <1>1 DEF Answer, Answers
  <2>2. Finish(q) /\ answered' = answered \cup {a}
    BY <1>5 DEF UseKey
  <2> HIDE DEF a
  <2>3. Only(q) /\ req'[q] = Idle
    BY <2>2, IdleRequest, Alone DEF Finish
  <2>4. ~Active(q)' /\ \A x : ~Creating(q, x)'
    BY <2>3, IdleRequest DEF Active, Creating, Before, Keying, Done
  <2>5. RequestInv(q)'
    BY <2>3, <2>4, IdleRequest DEF RequestInv, Active, Before, Keying, Making, Done
  <2>6. \A p \in Requests \ {q} : RequestInv(p)'
    BY <2>3, OthersStay, Zenon
  <2>7. Distinct' /\ Creators'
    BY <2>3, <2>4, PairsKept DEF Grow
  <2>8. RequestsInv'
    BY <2>3, <2>5, <2>6, <2>7 DEF Only, RequestsInv
  <2>9. /\ a.token # NoToken => tokens'[a.token] = a.hash
        /\ a.hash \notin doubt' => keys'[a.hash] = a.key
    BY <1>2, <2>1
  <2>10. AnswersInv'
    <3>1. \A b \in answered' \ answered : b = a
      BY <2>2
    <3>2. answered' \subseteq Answers
      BY <2>1, <2>2 DEF Inv, AnswersInv
    <3>3. \A b \in answered' \ answered : Sound(b.token, b.hash, b.key)'
      BY <1>1, <2>1, <2>9, <3>1 DEF Sound
    <3> QED
      BY <3>2, <3>3, AnswersStay
  <2>11. SessionsInv'
    BY SessionStays DEF Inv, SessionsInv
  <2> QED
    BY <1>3, <2>8, <2>10, <2>11 DEF Inv
<1> QED
  BY <1>4, <1>5

\* A request goes on to create a key; who comes second puts it in doubt.
LEMMA MakesInv ==
  ASSUME Inv, NEW q \in Requests, req[q].op \in Keying, NEW op \in Making, Goto(q, op),
         doubt \subseteq doubt', doubt' \subseteq Hashes,
         req[q].hash \notin doubt' =>
           /\ keys[req[q].hash] = NoKey /\ op # "overwrite"
           /\ \A p \in Requests \ {q} : ~Creating(p, req[q].hash),
         UNCHANGED <<sessions, tables, expired, drawn, answered>>
  PROVE  Inv'
<1> DEFINE o == req[q]
           r == [o EXCEPT !.op = op]
<1>1. /\ RequestInv(q) /\ o \in Request /\ o.hash \in Hashes /\ Active(q)
      /\ drawn \in Nat
  <2>1. RequestInv(q) /\ o \in Request /\ drawn \in Nat
    BY DEF Inv, RequestsInv, TablesInv
  <2> QED
    BY <2>1 DEF RequestInv, Active
<1>2. /\ r \in Request /\ r.op = op /\ r.token = o.token /\ r.hash = o.hash
      /\ r.why = o.why
  BY <1>1 DEF Request, Making
<1>3. req' = [req EXCEPT ![q] = r]
  BY DEF Goto
<1> HIDE DEF r
<1>4. Only(q) /\ req'[q] = r
  BY <1>2, <1>3, Alone
<1>5. Grow /\ OwnWrites(q) /\ UNCHANGED <<tokens, keys, accounts>>
  BY DEF Grow, OwnWrites, tables
<1>6. Active(q)' /\ op \in Keying /\ op \notin Before /\ op \notin Done
  BY <1>2, <1>4 DEF Active, Keying, Making, Before, Done
<1>7. RequestInv(q)'
  BY <1>1, <1>2, <1>4, <1>5, <1>6 DEF RequestInv
<1>8. \A p \in Requests \ {q} : RequestInv(p)'
  <2>1. UNCHANGED drawn
    OBVIOUS
  <2> QED
    BY <1>4, <1>5, <2>1, OthersStay, Zenon
<1>9. Distinct' /\ Creators'
  <2>1. \A h \in Hashes \ doubt' : Creating(q, h)' =>
          \A p \in Requests \ {q} : ~Creating(p, h)
    BY <1>2, <1>4 DEF Creating
  <2> QED
    BY <1>1, <1>2, <1>4, <2>1, PairsKept
<1>10. RequestsInv'
  BY <1>4, <1>7, <1>8, <1>9 DEF Only, RequestsInv
<1>11. TablesInv'
  BY <1>5 DEF Inv, TablesInv
<1> QED
  BY <1>5, <1>10, <1>11, HandedStays DEF Inv

\* Every step on the key of an account.
KeyStep(q) ==
  \/ GetKey(q) \/ GetNoKey(q) \/ GetKeyFails(q)
  \/ KeyExists(q) \/ StoreKey(q) \/ StoreKeyFails(q)

\* Reading the key of an account, or creating it.
LEMMA KeyInv ==
  ASSUME Inv, NEW q \in Requests, KeyStep(q)
  PROVE  Inv'
<1> DEFINE o == req[q]
           h == o.hash
<1>1. /\ o.op \in Keying /\ RequestInv(q) /\ o \in Request
      /\ keys \in [Hashes -> {NoKey} \cup Tokens] /\ doubt \subseteq Hashes
  BY DEF KeyStep, GetKey, GetNoKey, GetKeyFails, KeyExists, StoreKey, StoreKeyFails,
         Keying, Inv, RequestsInv, TablesInv
<1>2. h \in Hashes /\ o.token \in Tokens
  <2>1. h \in Hashes
    BY <1>1 DEF RequestInv
  <2> QED
    BY <1>1, <2>1, ActiveToken DEF Active
<1>3. o.op \in Making /\ h \notin doubt =>
        /\ keys[h] = NoKey /\ o.op # "overwrite"
        /\ Creating(q, h) /\ \A p \in Requests \ {q} : ~Creating(p, h)
  BY <1>1, <1>2 DEF RequestInv, Making, Creating, Inv, RequestsInv, Creators
<1>4. o.op \in {"exists", "overwrite", "add"} <=> o.op \in Making
  BY DEF Making
<1>5. CASE GetKey(q)
  <2>1. keys[h] \in Tokens /\ UNCHANGED <<sessions, tables, expired, drawn, doubt>>
    BY <1>1, <1>2, <1>5 DEF GetKey
  <2>2. Grow /\ OwnWrites(q)
    BY <2>1 DEF Grow, OwnWrites, tables
  <2> QED
    BY <1>1, <1>5, <2>1, <2>2, UseInv DEF GetKey, tables
<1>6. CASE GetNoKey(q)
  <2>1. /\ keys[h] = NoKey /\ Goto(q, "exists") /\ DoubtIfTwo(q, h)
        /\ UNCHANGED <<sessions, tables, expired, drawn, answered>>
    BY <1>6 DEF GetNoKey
  <2>2. doubt \subseteq doubt' /\ doubt' \subseteq Hashes
    BY <1>1, <1>2, <2>1 DEF DoubtIfTwo
  <2>3. h \notin doubt' => \A p \in Requests \ {q} : ~Creating(p, h)
    BY <2>1 DEF DoubtIfTwo
  <2> QED
    BY <1>1, <2>1, <2>2, <2>3, MakesInv DEF Making
<1>7. CASE GetKeyFails(q)
  <2>1. CASE o.why = "request"
    BY <1>7, <2>1, Ends DEF GetKeyFails, history
  <2>2. CASE o.why # "request"
    <3>1. /\ Goto(q, "exists") /\ doubt' = doubt \cup {h}
          /\ UNCHANGED <<sessions, tables, expired, drawn, answered>>
      BY <1>7, <2>2 DEF GetKeyFails
    <3>2. doubt \subseteq doubt' /\ doubt' \subseteq Hashes /\ h \in doubt'
      BY <1>1, <1>2, <3>1
    <3> QED
      BY <1>1, <3>1, <3>2, MakesInv DEF Making
  <2> QED
    BY <2>1, <2>2
<1>8. CASE KeyExists(q)
  <2> DEFINE op == IF keys[h] = NoKey THEN "add" ELSE "overwrite"
  <2>1. /\ Goto(q, op) /\ op \in Making /\ o.op \in Making
        /\ UNCHANGED <<sessions, tables, expired, drawn, history>>
    BY <1>8 DEF KeyExists, Making
  <2>2. h \notin doubt => op = "add"
    BY <1>3, <2>1
  <2> HIDE DEF op
  <2> QED
    BY <1>1, <1>3, <2>1, <2>2, MakesInv DEF history
<1>9. CASE StoreKey(q)
  <2>1. /\ keys' = [keys EXCEPT ![h] = o.token] /\ UseKey(q, o.token) /\ o.op \in Making
        /\ UNCHANGED <<sessions, accounts, tokens, expired, drawn, doubt>>
    BY <1>4, <1>9 DEF StoreKey
  <2>2. Grow /\ OwnWrites(q)
    BY <1>1, <1>2, <1>3, <2>1 DEF Grow, OwnWrites
  <2>3. keys'[h] = o.token /\ keys' \in [Hashes -> {NoKey} \cup Tokens]
    BY <1>1, <1>2, <2>1
  <2> QED
    BY <1>1, <1>2, <2>1, <2>2, <2>3, UseInv
<1>10. CASE StoreKeyFails(q)
  <2>1. CASE o.why = "request"
    BY <1>10, <2>1, Ends DEF StoreKeyFails
  <2>2. CASE o.why # "request"
    <3>1. /\ UseKey(q, o.token) /\ doubt' = doubt \cup {h}
          /\ UNCHANGED <<sessions, tables, expired, drawn>>
      BY <1>10, <2>2 DEF StoreKeyFails
    <3>2. Grow /\ OwnWrites(q) /\ h \in doubt' /\ doubt' \subseteq Hashes
      BY <1>1, <1>2, <3>1 DEF Grow, OwnWrites, tables
    <3> QED
      BY <1>1, <1>2, <3>1, <3>2, UseInv DEF tables
  <2> QED
    BY <2>1, <2>2
<1> QED
  BY <1>5, <1>6, <1>7, <1>8, <1>9, <1>10 DEF KeyStep

\* get_account_info hands out what is stored.
LEMMA InfoInv ==
  ASSUME Inv, NEW t \in Tokens, GetAccountInfo(t)
  PROVE  Inv'
<1> DEFINE h == tokens[t]
           a == [token |-> NoToken, hash |-> h, key |-> keys[h]]
<1>1. h \in Hashes /\ keys[h] \in Tokens
  BY DEF GetAccountInfo, IsValid, IsStored, Inv, TablesInv
<1>2. /\ a \in Answers /\ a.token = NoToken /\ a.hash \in Hashes /\ a.key \in Tokens
      /\ a.key = keys[a.hash]
  BY <1>1 DEF Answers
<1>3. /\ answered' = answered \cup {a}
      /\ UNCHANGED <<sessions, tables, expired, drawn, req, doubt>>
  BY DEF GetAccountInfo
<1> HIDE DEF a
<1>4. Grow
  BY <1>3 DEF Grow, tables
<1>5. AnswersInv'
  <2>1. answered' \subseteq Answers /\ \A b \in answered' \ answered : b = a
    BY <1>2, <1>3 DEF Inv, AnswersInv
  <2>2. \A b \in answered' \ answered : Sound(b.token, b.hash, b.key)'
    BY <1>2, <1>3, <2>1 DEF Sound, tables
  <2> QED
    BY <1>4, <2>1, <2>2, AnswersStay
<1>6. SessionsInv'
  BY <1>3, <1>4, SessionStays DEF Inv, SessionsInv
<1>7. RequestsInv' /\ TablesInv'
  BY <1>3 DEF Inv, RequestsInv, TablesInv, tables, RequestInv, Sound, Active, Distinct,
              Creators, Creating
<1> QED
  BY <1>5, <1>6, <1>7 DEF Inv

(***************************************************************************)
(* The end of a callback, and the sessions.                                *)
(***************************************************************************)

\* A callback goes through the sessions it completes, or ends.
LEMMA DoneGoesOn ==
  ASSUME Inv, NEW q \in Requests, NEW r \in Request, req' = [req EXCEPT ![q] = r],
         req[q].op \in Done,
         \/ r = Idle
         \/ /\ r.op \in Done /\ r.why = req[q].why /\ r.token = req[q].token
            /\ r.hash = req[q].hash /\ r.key = req[q].key,
         UNCHANGED <<tables, expired, drawn, doubt>>
  PROVE  RequestsInv' /\ TablesInv'
<1>1. Only(q) /\ req'[q] = r
  BY Alone
<1>2. UNCHANGED <<tokens, keys, accounts>>
  BY DEF tables
<1>3. TablesInv'
  BY <1>2 DEF Inv, TablesInv
<1>4. CASE r = Idle
  BY <1>1, <1>2, <1>3, <1>4, IdleRequest, Rests
<1>5. CASE /\ r.op \in Done /\ r.why = req[q].why /\ r.token = req[q].token
           /\ r.hash = req[q].hash /\ r.key = req[q].key
  <2>1. RequestInv(q) /\ Active(q)
    BY DEF Inv, RequestsInv, Active
  <2>2. Active(q)' /\ \A h : ~Creating(q, h)'
    BY <1>1, <1>5 DEF Active, Creating, Done
  <2>3. r.op \notin Before /\ r.op \notin Keying /\ r.op \notin Making
    BY <1>5 DEF Before, Keying, Making, Done
  <2>4. r.op \notin {"hash", "email", "update", "create", "token"}
    BY <1>5 DEF Done
  <2>5. r.token \in 1..drawn' /\ r.why = "callback"
    BY <1>5, <2>1 DEF RequestInv
  <2>6. Sound(r.token, r.hash, r.key)
    BY <1>5, <2>1 DEF RequestInv
  <2>7. Sound(r.token, r.hash, r.key)'
    BY <1>2, <2>6 DEF Sound
  <2>8. RequestInv(q)'
    BY <1>1, <2>3, <2>4, <2>5, <2>7 DEF RequestInv
  <2> QED
    BY <1>1, <1>2, <1>3, <1>5, <2>1, <2>2, <2>8, Proceeds
<1> QED
  BY <1>4, <1>5

\* update_session copies what the login hands out.
LEMMA UpdateSessionInv ==
  ASSUME Inv, NEW q \in Requests, req[q].op \in Done, NEW d \in AllDevices,
         UpdateSession(d, req[q]), UNCHANGED <<tables, doubt>>
  PROVE  SessionsInv'
<1> DEFINE o == req[q]
           at == IF HasSession(d) THEN sessions[d].at ELSE "fresh"
           s == [sessions[d] EXCEPT !.token = o.token, !.key = o.key, !.hash = o.hash,
                                    !.at = at]
<1>1. /\ o \in Request /\ Sound(o.token, o.hash, o.key) /\ o.token # NoToken
      /\ sessions \in [AllDevices -> Session]
  BY DEF Inv, RequestsInv, RequestInv, Active, SessionsInv, NoToken, TablesInv
<1>2. at \in {"absent", "fresh", "stale"}
  BY <1>1 DEF Session
<1> HIDE DEF at
<1>3. s \in Session /\ s.token = o.token /\ s.hash = o.hash /\ s.key = o.key
  <2>1. /\ o.token \in {NoToken} \cup Tokens /\ o.hash \in {None} \cup Hashes
        /\ o.key \in {NoKey} \cup Tokens /\ sessions[d] \in Session
    BY <1>1 DEF Request
  <2> HIDE DEF o
  <2> QED
    BY <1>2, <2>1 DEF Session
<1>4. sessions' = [sessions EXCEPT ![d] = s]
  BY DEF UpdateSession, at
<1> HIDE DEF s
<1>5. Grow /\ UNCHANGED <<tokens, keys>>
  BY DEF Grow, tables
<1>6. SessionInv(d)'
  BY <1>1, <1>3, <1>4, <1>5 DEF SessionInv, Sound
<1>7. \A c \in AllDevices \ {d} : SessionInv(c)'
  BY <1>1, <1>4, <1>5, SessionStays
<1> QED
  BY <1>1, <1>3, <1>4, <1>6, <1>7 DEF SessionsInv

CallbackStep(q) ==
  \/ CallbackSession(q)
  \/ CallbackPending(q)
  \/ \E d \in Devices : CallbackComplete(q, d)

\* The request NextPending leaves.
LEMMA PendingRequest ==
  ASSUME Inv, NEW q \in Requests, req[q].op \in Done, NEW todo \in SUBSET Devices,
         NextPending(q, todo), UNCHANGED <<tables, expired, drawn, doubt>>
  PROVE  RequestsInv' /\ TablesInv'
<1> DEFINE c == [req[q] EXCEPT !.op = "complete", !.todo = todo]
           r == IF todo = {} THEN Idle ELSE c
<1>1. req[q] \in Request
  BY DEF Inv, RequestsInv
<1>2. /\ c \in Request /\ c.op \in Done /\ c.why = req[q].why /\ c.token = req[q].token
      /\ c.hash = req[q].hash /\ c.key = req[q].key
  BY <1>1 DEF Request, Done
<1>3. req' = [req EXCEPT ![q] = r]
  BY DEF NextPending
<1> HIDE DEF c
<1>4. r \in Request /\ (r = Idle \/ r = c)
  BY <1>2, IdleRequest
<1> HIDE DEF r
<1> QED
  BY <1>2, <1>3, <1>4, DoneGoesOn

\* The steps of a callback after the key, which hand the account to sessions.
LEMMA CallbackInv ==
  ASSUME Inv, NEW q \in Requests, CallbackStep(q)
  PROVE  Inv'
<1> DEFINE o == req[q]
<1>1. o.op \in Done /\ o \in Request /\ RequestInv(q) /\ o.dev \in AllDevices
  BY DEF CallbackStep, CallbackSession, CallbackPending, CallbackComplete, Done, Inv,
         RequestsInv, Request
<1>2. UNCHANGED <<tables, expired, drawn, doubt>>
  BY DEF CallbackStep, CallbackSession, CallbackPending, CallbackComplete, history
<1>3. Grow
  BY <1>2 DEF Grow, tables
<1>4. CASE CallbackSession(q)
  <2> DEFINE a == Answer(q, o.key)
             r == IF o.dev = TempDevice THEN [o EXCEPT !.op = "pending"] ELSE Idle
  <2>1. o.why = "callback" /\ Sound(o.token, o.hash, o.key) /\ o.token \in Tokens
    <3>1. o.why = "callback" /\ Sound(o.token, o.hash, o.key)
      BY <1>1 DEF RequestInv
    <3> QED
      BY <1>1, <3>1, ActiveToken DEF Active
  <2>2. a \in Answers /\ a.token = o.token /\ a.hash = o.hash /\ a.key = o.key
    BY <2>1 DEF Answer, Answers, Sound
  <2>3. answered' = answered \cup {a} /\ UpdateSession(o.dev, o)
    BY <1>4 DEF CallbackSession
  <2> HIDE DEF a
  <2>4. AnswersInv'
    <3>1. answered' \subseteq Answers /\ \A b \in answered' \ answered : b = a
      BY <2>2, <2>3 DEF Inv, AnswersInv
    <3>2. \A b \in answered' \ answered : Sound(b.token, b.hash, b.key)'
      BY <1>2, <2>1, <2>2, <3>1 DEF Sound, tables
    <3> QED
      BY <1>3, <3>1, <3>2, AnswersStay
  <2>5. SessionsInv'
    BY <1>1, <1>2, <2>3, UpdateSessionInv
  <2>6. /\ r \in Request
        /\ \/ r = Idle
           \/ /\ r.op \in Done /\ r.why = o.why /\ r.token = o.token
              /\ r.hash = o.hash /\ r.key = o.key
    BY <1>1, IdleRequest DEF Request, Done
  <2>7. req' = [req EXCEPT ![q] = r]
    BY <1>4 DEF CallbackSession, Goto, Finish
  <2> HIDE DEF r
  <2>8. RequestsInv' /\ TablesInv'
    BY <1>1, <1>2, <2>6, <2>7, DoneGoesOn
  <2> QED
    BY <2>4, <2>5, <2>8 DEF Inv
<1>5. CASE CallbackPending(q)
  <2>1. Waiting \in SUBSET Devices
    BY DEF Waiting
  <2>2. RequestsInv' /\ TablesInv'
    BY <1>1, <1>2, <1>5, <2>1, PendingRequest DEF CallbackPending
  <2> QED
    BY <1>3, <1>5, <2>2, HandedStays DEF CallbackPending, Inv, history
<1>6. ASSUME NEW d \in Devices, CallbackComplete(q, d) PROVE Inv'
  <2>1. o.todo \ {d} \in SUBSET Devices
    BY <1>1 DEF Request
  <2>2. RequestsInv' /\ TablesInv'
    BY <1>1, <1>2, <1>6, <2>1, PendingRequest DEF CallbackComplete
  <2>3. d \in AllDevices
    BY DEF AllDevices
  <2>4. SessionsInv'
    BY <1>1, <1>2, <1>6, <2>3, UpdateSessionInv DEF CallbackComplete
  <2>5. AnswersInv'
    BY <1>3, <1>6, AnswersStay DEF CallbackComplete, history, Inv, AnswersInv
  <2> QED
    BY <2>2, <2>4, <2>5 DEF Inv
<1> QED
  BY <1>4, <1>5, <1>6 DEF CallbackStep

\* A session that no login has filled in names nobody.
LEMMA EmptySession ==
  ASSUME NEW d \in AllDevices, sessions'[d] \in {NoSession, NewSession}
  PROVE  SessionInv(d)'
<1>1. sessions'[d].token = NoToken /\ sessions'[d].hash = None
  BY DEF NoSession, NewSession
<1> QED
  BY <1>1 DEF SessionInv

\* Sessions are made, expire and are dropped.
LEMMA SessionsKept ==
  ASSUME Inv, UNCHANGED <<tables, doubt>>, sessions' \in [AllDevices -> Session],
         \A d \in AllDevices :
           \/ sessions'[d] \in {NoSession, NewSession}
           \/ /\ sessions'[d].token = sessions[d].token
              /\ sessions'[d].hash = sessions[d].hash
              /\ sessions'[d].key = sessions[d].key
  PROVE  SessionsInv'
<1>1. Grow
  BY DEF Grow, tables
<1>2. ASSUME NEW d \in AllDevices, sessions'[d] \in {NoSession, NewSession}
      PROVE  SessionInv(d)'
  BY <1>2, EmptySession, Zenon
<1> QED
  BY <1>1, <1>2, SessionStays DEF SessionsInv

\* Every step of the handlers, of time and of a restart keeps the invariant.
LEMMA InvStep == Inv /\ [Next]_vars => Inv'
<1> SUFFICES ASSUME Inv, [Next]_vars PROVE Inv'
  OBVIOUS
<1>0. /\ sessions \in [AllDevices -> Session] /\ NoSession \in Session
      /\ NewSession \in Session /\ Devices \subseteq AllDevices
      /\ req \in [Requests -> Request]
  BY DEF Inv, SessionsInv, RequestsInv, NoSession, NewSession, Session, AllDevices,
         NoToken, NoKey
<1>1. ASSUME UNCHANGED <<tables, expired, drawn, history>>, SessionsInv', RequestsInv'
      PROVE  Inv'
  <2>1. Grow /\ UNCHANGED <<answered, tokens, keys, accounts, doubt>>
    BY <1>1 DEF Grow, tables, history
  <2>2. AnswersInv'
    BY <2>1, AnswersStay DEF Inv, AnswersInv
  <2>3. TablesInv'
    BY <1>1, <2>1 DEF Inv, TablesInv
  <2> QED
    BY <1>1, <2>2, <2>3 DEF Inv
<1>2. ASSUME UNCHANGED <<tables, expired, drawn, req, history>>, SessionsInv'
      PROVE  Inv'
  <2>1. RequestsInv'
    BY <1>2 DEF Inv, RequestsInv, RequestInv, Sound, Active, Distinct, Creators, Creating,
                tables, history
  <2> QED
    BY <1>1, <1>2, <2>1
<1>3. ASSUME NEW d \in Devices, RegisterSession(d) PROVE Inv'
  BY <1>0, <1>2, <1>3, SessionsKept DEF RegisterSession, history
<1>4. ASSUME NEW q \in Requests, NEW d \in Devices, CheckStatus(q, d) PROVE Inv'
  <2> DEFINE r == [req[q] EXCEPT !.op = "poll", !.dev = d]
  <2>0. req[q] \in Request /\ d \in AllDevices
    BY <1>0
  <2>1. r \in Request /\ r.op = "poll"
    BY <2>0 DEF Request
  <2>2. req' = [req EXCEPT ![q] = r]
    BY <1>4 DEF CheckStatus
  <2> HIDE DEF r
  <2>3. RequestsInv'
    BY <1>4, <2>1, <2>2, Alone, Rests DEF CheckStatus, tables, history
  <2>4. sessions' \in [AllDevices -> Session]
    BY <1>0, <1>4 DEF CheckStatus
  <2>5. \A c \in AllDevices : sessions'[c] = NoSession \/ sessions'[c] = sessions[c]
    BY <1>4 DEF CheckStatus
  <2>6. SessionsInv'
    BY <1>4, <2>4, <2>5, SessionsKept DEF CheckStatus, history
  <2> QED
    BY <1>1, <1>4, <2>3, <2>6 DEF CheckStatus
<1>5. ASSUME NEW q \in Requests, CheckStatusMissed(q) PROVE Inv'
  <2> DEFINE r == [req[q] EXCEPT !.op = "insert"]
  <2>1. r \in Request /\ r.op = "insert"
    BY <1>0 DEF Request
  <2>2. req' = [req EXCEPT ![q] = r]
    BY <1>5 DEF CheckStatusMissed, Goto
  <2> HIDE DEF r
  <2>3. RequestsInv'
    BY <1>5, <2>1, <2>2, Alone, Rests DEF CheckStatusMissed, tables, history
  <2> QED
    BY <1>5, <2>3, Quiet DEF CheckStatusMissed, tables, history, Inv, TablesInv
<1>6. ASSUME NEW q \in Requests, CheckStatusInsert(q) PROVE Inv'
  <2>1. RequestsInv'
    BY <1>6, IdleRequest, Alone, Rests DEF CheckStatusInsert, Finish, tables, history
  <2>2. SessionsInv'
    BY <1>0, <1>6, SessionsKept DEF CheckStatusInsert, history
  <2> QED
    BY <1>1, <1>6, <2>1, <2>2 DEF CheckStatusInsert
<1>7. ASSUME NEW q \in Requests,
             CheckStatusFound(q) \/ ExternalFails(q) \/ SaveTokenFails(q) \/ Cancel(q)
      PROVE  Inv'
  BY <1>7, Ends DEF CheckStatusFound, ExternalFails, SaveTokenFails, Cancel
<1>8. ASSUME NEW d \in AllDevices, SessionExpires(d) PROVE Inv'
  <2> DEFINE s == [sessions[d] EXCEPT !.at = "stale"]
  <2>1. s \in Session /\ s.token = sessions[d].token /\ s.hash = sessions[d].hash
        /\ s.key = sessions[d].key
    BY <1>0 DEF Session
  <2>2. sessions' = [sessions EXCEPT ![d] = s]
    BY <1>8 DEF SessionExpires
  <2> HIDE DEF s
  <2>3. SessionsInv'
    BY <1>0, <1>8, <2>1, <2>2, SessionsKept DEF SessionExpires, history
  <2> QED
    BY <1>2, <1>8, <2>3 DEF SessionExpires
<1>9. ASSUME NEW t \in Tokens, TokenExpires(t) PROVE Inv'
  <2>1. expired' = expired \cup {t} /\ UNCHANGED <<sessions, tables, drawn, req, history>>
    BY <1>9 DEF TokenExpires
  <2>2. TablesInv'
    BY <2>1 DEF Inv, TablesInv, tables, history
  <2>3. RequestsInv'
    BY <2>1 DEF Inv, RequestsInv, RequestInv, Sound, Active, Distinct, Creators, Creating,
                tables, history
  <2>4. Grow
    BY <2>1 DEF Grow, tables, history
  <2> QED
    BY <2>1, <2>2, <2>3, <2>4, HandedStays DEF Inv, history
<1>10. CASE Restart
  <2>1. \A q \in Requests : req'[q] = Idle
    BY <1>10 DEF Restart
  <2>2. \A q \in Requests : ~Active(q)' /\ \A h : ~Creating(q, h)'
    BY <2>1, IdleRequest DEF Active, Creating, Before, Keying, Done
  <2>3. \A q \in Requests : RequestInv(q)'
    BY <2>1, <2>2, IdleRequest DEF RequestInv, Active, Before, Keying, Making, Done
  <2>4. RequestsInv'
    BY <1>10, <2>2, <2>3, IdleRequest DEF Restart, RequestsInv, Distinct, Creators
  <2>5. SessionsInv'
    BY <1>0, <1>10, SessionsKept DEF Restart, history
  <2> QED
    BY <1>1, <1>10, <2>4, <2>5 DEF Restart
<1>11. CASE UNCHANGED vars
  <2>1. SessionsInv'
    BY <1>0, <1>11, SessionsKept DEF vars, tables
  <2> QED
    BY <1>2, <1>11, <2>1 DEF vars, tables, history
<1>12. ASSUME NEW q \in Requests, Step(q) PROVE Inv'
  BY <1>5, <1>6, <1>7, <1>12, LoginInv, SaveInv, KeyInv, CallbackInv
     DEF Step, LoginStep, KeyStep, CallbackStep
<1> QED
  BY <1>3, <1>4, <1>7, <1>8, <1>9, <1>10, <1>11, <1>12, BeginInv, InfoInv DEF Next

\* Nothing was handed out yet.
LEMMA InvInit == Init => Inv
<1> SUFFICES ASSUME Init PROVE Inv
  OBVIOUS
<1>1. RequestsInv
  <2>1. \A q \in Requests : ~Active(q) /\ \A h : ~Creating(q, h)
    BY IdleRequest DEF Init, Active, Creating, Before, Keying, Done
  <2>2. \A q \in Requests : RequestInv(q)
    BY <2>1, IdleRequest DEF Init, RequestInv, Active, Before, Keying, Making, Done
  <2> QED
    BY <2>1, <2>2, IdleRequest DEF Init, RequestsInv, Distinct, Creators
<1>2. TablesInv
  BY DEF Init, TablesInv
<1>3. SessionsInv
  BY DEF Init, SessionsInv, SessionInv, Session, NoSession, NoToken, NoKey
<1>4. AnswersInv
  BY DEF Init, AnswersInv
<1> QED
  BY <1>1, <1>2, <1>3, <1>4 DEF Inv

\* Inv is an invariant.
LEMMA InvAlways == Spec => []Inv
BY InvInit, InvStep, PTL DEF Spec

(***************************************************************************)
(* The maps, tables and requests of the login code hold what they should,  *)
(* and no session is completed in part.                                    *)
(***************************************************************************)
THEOREM TypeCorrect == Spec => []TypeOK
BY InvAlways, InvProperties, PTL

(***************************************************************************)
(* The token of a login that was answered with success is stored for the   *)
(* account the answer names, whatever failed in process_oauth_code before. *)
(***************************************************************************)
THEOREM AnswersAreAccepted == Spec => []AnsweredAccepted
BY InvAlways, InvProperties, PTL

(***************************************************************************)
(* The token a polling client finds in its session is a token of the       *)
(* account beside it, however many callbacks update_session at once.       *)
(***************************************************************************)
THEOREM SessionsNameTheirAccount == Spec => []SessionAccount
BY InvAlways, InvProperties, PTL

(***************************************************************************)
(* All answers and sessions of an account carry the key stored for it,     *)
(* unless a statement on the key failed at a login, or two requests were   *)
(* creating the key at once (get_encryption_key, get_or_create_key).       *)
(***************************************************************************)
THEOREM KeysDoAgree == Spec => []KeysAgree
BY InvAlways, InvProperties, PTL
=============================================================================
