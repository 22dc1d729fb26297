------------------------------ MODULE Accounts ------------------------------
(***************************************************************************)
(* Logins: the OAuth callback and the code exchange (handlers/oauth.rs,    *)
(* handlers/auth_handler.rs, auth/oauth.rs), the auth sessions a desktop   *)
(* client polls while its user logs in with a browser, and the accounts,   *)
(* auth_tokens and encryption_keys tables behind them (mysql_account.rs,   *)
(* mysql_auth.rs, mysql_file.rs, services/encryption_service.rs).          *)
(*                                                                         *)
(* The sessions are a map of the process, guarded by a mutex: each use of  *)
(* the lock is a step.  Each statement of the database is a step and may   *)
(* fail.  The token row has the foreign key to accounts of init_schema; an *)
(* account is never deleted (delete_account is not implemented), so the    *)
(* branch of verify_token that recreates a missing account cannot be taken *)
(* and is left out.  Devices are module Devices.                           *)
(***************************************************************************)
EXTENDS Naturals, FiniteSets

CONSTANTS
  Devices,       \* device hashes the clients use as OAuth state
  TempDevice,    \* the temp_ hash of a callback that names no device
  Emails,        \* users of the external OAuth server
  ClientHashes,  \* account hashes a callback may bring along
  Requests,      \* requests served at once
  MaxRandom      \* bound: requests that draw a token or a key

VARIABLES
  sessions,  \* AppState.auth_sessions, by device hash
  accounts,  \* the accounts table: the email of each account hash
  tokens,    \* the auth_tokens table: the account hash of each token
  expired,   \* tokens past their expires_at
  keys,      \* the encryption_keys table, by account hash
  drawn,     \* requests that drew random tokens and keys so far
  req,       \* what each request is doing
  answered,  \* history: the token, account and key of each answer
  doubt      \* history: accounts whose key had a failure or two creators

vars == <<sessions, accounts, tokens, expired, keys, drawn, req, answered,
          doubt>>

tables == <<accounts, tokens, keys>>
history == <<answered, doubt>>

(***************************************************************************)
(* generate_account_hash_from_email_only is a SHA-256 of the email: it     *)
(* tells emails apart, so an email stands for its own hash.                *)
(***************************************************************************)
HashOf(email) == email
Hashes == {HashOf(e) : e \in Emails} \cup ClientHashes
None == "none"

\* A column that is NULL names nobody.
ASSUME AccountsAssumption ==
  /\ None \notin Emails \cup ClientHashes
  /\ MaxRandom \in Nat

(***************************************************************************)
(* A login generates a token and may generate a key; a key request may     *)
(* generate a key.  They are random, so the model names both by the number *)
(* of the request that drew them.                                          *)
(***************************************************************************)
Tokens == 1..MaxRandom
NoToken == 0
NoKey == 0

AllDevices == Devices \cup {TempDevice}

NoSession == [token |-> NoToken, hash |-> None, key |-> NoKey, at |-> "absent"]
NewSession == [token |-> NoToken, hash |-> None, key |-> NoKey, at |-> "fresh"]

HasSession(d) == sessions[d].at # "absent"

Idle == [op |-> "idle", why |-> None, dev |-> TempDevice, email |-> None,
         hash |-> None, token |-> NoToken, key |-> NoKey,
         todo |-> {}]

Login(why, d, h) ==
  [Idle EXCEPT !.op = "code", !.why = why, !.dev = d, !.hash = h,
               !.token = drawn + 1]

Draw ==
  /\ drawn < MaxRandom
  /\ drawn' = drawn + 1

Goto(q, op) == req' = [req EXCEPT ![q].op = op]

\* The token of a login needs its account hash, no longer the email.
GotoToken(q) == req' = [req EXCEPT ![q].op = "token", ![q].email = None]

Finish(q) == req' = [req EXCEPT ![q] = Idle]

Init ==
  /\ sessions = [d \in AllDevices |-> NoSession]
  /\ accounts = [h \in Hashes |-> None]
  /\ tokens = [t \in Tokens |-> None]
  /\ expired = {}
  /\ keys = [h \in Hashes |-> NoKey]
  /\ drawn = 0
  /\ req = [q \in Requests |-> Idle]
  /\ answered = {}
  /\ doubt = {}

-----------------------------------------------------------------------------
(***************************************************************************)
(* The sessions.                                                           *)
(***************************************************************************)

\* handle_register_session keeps a session that exists, under one lock.
RegisterSession(d) ==
  /\ ~HasSession(d)
  /\ sessions' = [sessions EXCEPT ![d] = NewSession]
  /\ UNCHANGED <<tables, expired, drawn, req, history>>

\* check_auth_status first removes every session past its expires_at.
CheckStatus(q, d) ==
  /\ req[q] = Idle
  /\ sessions' = [c \in AllDevices |->
                    IF sessions[c].at = "stale" THEN NoSession ELSE sessions[c]]
  /\ req' = [req EXCEPT ![q].op = "poll", ![q].dev = d]
  /\ UNCHANGED <<tables, expired, drawn, history>>

\* It then copies the session out of the map and answers from the copy.
CheckStatusFound(q) ==
  /\ req[q].op = "poll"
  /\ HasSession(req[q].dev)
  /\ Finish(q)
  /\ UNCHANGED <<sessions, tables, expired, drawn, history>>

CheckStatusMissed(q) ==
  /\ req[q].op = "poll"
  /\ ~HasSession(req[q].dev)
  /\ Goto(q, "insert")
  /\ UNCHANGED <<sessions, tables, expired, drawn, history>>

\* Without a session it locks again and inserts one, whatever is there now.
CheckStatusInsert(q) ==
  /\ req[q].op = "insert"
  /\ sessions' = [sessions EXCEPT ![req[q].dev] = NewSession]
  /\ Finish(q)
  /\ UNCHANGED <<tables, expired, drawn, history>>

\* Mutant: the account of the login is not copied.
UpdateSessionNoAccount(d, r) ==
  sessions' = [sessions EXCEPT ![d].token = r.token, ![d].key = r.key,
                 ![d].at = IF HasSession(d) THEN @ ELSE "fresh"]

\* Mutant: a session that exists keeps the account it had.
UpdateSessionKeepsAccount(d, r) ==
  sessions' = [sessions EXCEPT ![d].token = r.token, ![d].key = r.key,
                 ![d].hash = IF HasSession(d) /\ @ # None THEN @ ELSE r.hash,
                 ![d].at = IF HasSession(d) THEN @ ELSE "fresh"]

\* update_session: a session that exists keeps its expires_at.
UpdateSession(d, r) ==
  sessions' = [sessions EXCEPT ![d].token = r.token, ![d].key = r.key,
                 ![d].hash = r.hash,
                 ![d].at = IF HasSession(d) THEN @ ELSE "fresh"]

-----------------------------------------------------------------------------
(***************************************************************************)
(* process_oauth_code.  The external server turns the code into an access  *)
(* token, and that into the email of the user.  The callback may know the  *)
(* account hash of the client, from a header or from a state that looks    *)
(* like one; otherwise the hash is that of the email.                      *)
(***************************************************************************)
OAuthCallback(q, d, h) ==
  /\ req[q] = Idle
  /\ req' = [req EXCEPT ![q] = Login("callback", d, h)]
  /\ Draw
  /\ UNCHANGED <<sessions, tables, expired, history>>

OAuthExchange(q) ==
  /\ req[q] = Idle
  /\ req' = [req EXCEPT ![q] = Login("exchange", TempDevice, None)]
  /\ Draw
  /\ UNCHANGED <<sessions, tables, expired, history>>

ExchangeCode(q) ==
  /\ req[q].op = "code"
  /\ Goto(q, "info")
  /\ UNCHANGED <<sessions, tables, expired, drawn, history>>

GetUserInfo(q, e) ==
  /\ req[q].op = "info"
  /\ req' = [req EXCEPT ![q].op = "hash", ![q].email = e,
                        ![q].hash = IF @ = None THEN HashOf(e) ELSE @]
  /\ UNCHANGED <<sessions, tables, expired, drawn, history>>

\* The page or the answer says that the authentication failed.
ExternalFails(q) ==
  /\ req[q].op \in {"code", "info"}
  /\ Finish(q)
  /\ UNCHANGED <<sessions, tables, expired, drawn, history>>

GetAccountByHash(q) ==
  /\ req[q].op = "hash"
  /\ req' = IF accounts[req[q].hash] = None
              THEN [req EXCEPT ![q].op = "email"]
              ELSE [req EXCEPT ![q].op = "update",
                               ![q].email = accounts[req[q].hash]]
  /\ UNCHANGED <<sessions, tables, expired, drawn, history>>

HasAccount(email) == \E h \in Hashes : accounts[h] = email

GetAccountByEmail(q) ==
  /\ req[q].op = "email"
  /\ Goto(q, IF HasAccount(req[q].email) THEN "update" ELSE "create")
  /\ UNCHANGED <<sessions, tables, expired, drawn, history>>

\* An error of either lookup is logged, and the account taken for missing.
LookupFails(q) ==
  /\ req[q].op \in {"hash", "email"}
  /\ Goto(q, "create")
  /\ UNCHANGED <<sessions, tables, expired, drawn, history>>

(***************************************************************************)
(* update_account writes name, email and times WHERE account_hash is the   *)
(* hash of this login: of an account found by its email under another hash *)
(* no row is written.  Its error is ignored.                               *)
(***************************************************************************)
UpdateAccount(q) ==
  /\ req[q].op = "update"
  /\ accounts' = [accounts EXCEPT ![req[q].hash] =
                    IF @ = None THEN None ELSE req[q].email]
  /\ GotoToken(q)
  /\ UNCHANGED <<sessions, tokens, keys, expired, drawn, history>>

UpdateAccountFails(q) ==
  /\ req[q].op = "update"
  /\ GotoToken(q)
  /\ UNCHANGED <<sessions, tables, expired, drawn, history>>

\* create_account; a duplicate hash is taken as created by someone else.
CreateAccount(q) ==
  /\ req[q].op = "create"
  /\ accounts' = [accounts EXCEPT ![req[q].hash] =
                    IF @ = None THEN req[q].email ELSE @]
  /\ GotoToken(q)
  /\ UNCHANGED <<sessions, tokens, keys, expired, drawn, history>>

(***************************************************************************)
(* An account and a token are each tried three times.  Failed tries change *)
(* nothing, so only the last one is a step; it leads on without the        *)
(* account, but a login without a token is answered with an error.         *)
(***************************************************************************)
CreateAccountFails(q) ==
  /\ req[q].op = "create"
  /\ GotoToken(q)
  /\ UNCHANGED <<sessions, tables, expired, drawn, history>>

\* create_auth_token: the foreign key wants the account of the token.
SaveToken(q) ==
  /\ req[q].op = "token"
  /\ accounts[req[q].hash] # None
  /\ tokens' = [tokens EXCEPT ![req[q].token] = req[q].hash]
  /\ Goto(q, "key")
  /\ UNCHANGED <<sessions, accounts, keys, expired, drawn, history>>

\* Mutant: the login goes on without the token, as it does for the account.
SaveTokenFailsUnnoticed(q) ==
  /\ req[q].op = "token"
  /\ Goto(q, "key")
  /\ UNCHANGED <<sessions, tables, expired, drawn, history>>

SaveTokenFails(q) ==
  /\ req[q].op = "token"
  /\ Finish(q)
  /\ UNCHANGED <<sessions, tables, expired, drawn, history>>

-----------------------------------------------------------------------------
(***************************************************************************)
(* The encryption key of an account: get_encryption_key at a login, and    *)
(* get_or_create_key of EncryptionService on request.  Both read the table *)
(* and, if it has no key, generate one and store it; store_encryption_key  *)
(* is a SELECT and then an UPDATE or an INSERT, with no transaction.       *)
(***************************************************************************)
Creating(q, h) == req[q].hash = h /\ req[q].op \in {"exists", "overwrite", "add"}

\* History: q starts to create a key that another request is creating.
DoubtIfTwo(q, h) ==
  doubt' = IF \E p \in Requests \ {q} : Creating(p, h) THEN doubt \cup {h} ELSE doubt

\* validate_token of the request: the token is stored and has not expired.
IsStored(t) == tokens[t] # None
IsValid(t) == IsStored(t) /\ t \notin expired

\* verify_token of a request that says which account it is for.
Verified(t, h) == IsValid(t) /\ tokens[t] = h

RequestKey(q, t, h) ==
  /\ req[q] = Idle
  /\ Verified(t, h)
  /\ Draw
  /\ req' = [req EXCEPT ![q] = [Idle EXCEPT !.op = "key", !.why = "request",
                                           !.hash = h,
                                           !.token = drawn + 1]]
  /\ UNCHANGED <<sessions, tables, expired, history>>

Answer(q, k) ==
  [token |-> IF req[q].why = "request" THEN NoToken ELSE req[q].token,
   hash |-> req[q].hash, key |-> k]

\* What a request does with the key it got or made.
UseKey(q, k) ==
  IF req[q].why = "callback"
  THEN /\ req' = [req EXCEPT ![q].op = "session", ![q].key = k]
       /\ UNCHANGED answered
  ELSE /\ Finish(q)
       /\ answered' = answered \cup {Answer(q, k)}

GetKey(q) ==
  /\ req[q].op = "key"
  /\ keys[req[q].hash] # NoKey
  /\ UseKey(q, keys[req[q].hash])
  /\ UNCHANGED <<sessions, tables, expired, drawn, doubt>>

GetNoKey(q) ==
  /\ req[q].op = "key"
  /\ keys[req[q].hash] = NoKey
  /\ Goto(q, "exists")
  /\ DoubtIfTwo(q, req[q].hash)
  /\ UNCHANGED <<sessions, tables, expired, drawn, answered>>

\* A login takes an error for a missing key; a key request is answered with it.
GetKeyFails(q) ==
  /\ req[q].op = "key"
  /\ IF req[q].why = "request"
     THEN Finish(q) /\ UNCHANGED doubt
     ELSE Goto(q, "exists") /\ doubt' = doubt \cup {req[q].hash}
  /\ UNCHANGED <<sessions, tables, expired, drawn, answered>>

KeyExists(q) ==
  /\ req[q].op = "exists"
  /\ Goto(q, IF keys[req[q].hash] = NoKey THEN "add" ELSE "overwrite")
  /\ UNCHANGED <<sessions, tables, expired, drawn, history>>

\* Mutant: the generated key is answered and not stored.
StoreKeyForgets(q) ==
  /\ \/ req[q].op = "overwrite"
     \/ req[q].op = "add" /\ keys[req[q].hash] = NoKey
  /\ UseKey(q, req[q].token)
  /\ UNCHANGED <<sessions, tables, expired, drawn, doubt>>

\* The INSERT needs account_hash to be new (UNIQUE); the UPDATE does not ask.
StoreKey(q) ==
  /\ \/ req[q].op = "overwrite"
     \/ req[q].op = "add" /\ keys[req[q].hash] = NoKey
  /\ keys' = [keys EXCEPT ![req[q].hash] = req[q].token]
  /\ UseKey(q, req[q].token)
  /\ UNCHANGED <<sessions, accounts, tokens, expired, drawn, doubt>>

\* A login hands out the key it could not store; a key request fails.
StoreKeyFails(q) ==
  /\ req[q].op \in {"exists", "overwrite", "add"}
  /\ IF req[q].why = "request"
     THEN Finish(q) /\ UNCHANGED history
     ELSE UseKey(q, req[q].token) /\ doubt' = doubt \cup {req[q].hash}
  /\ UNCHANGED <<sessions, tables, expired, drawn>>

\* get_account_info reads the token and the key and stores nothing.
GetAccountInfo(t) ==
  /\ IsValid(t)
  /\ keys[tokens[t]] # NoKey
  /\ answered' = answered \cup
       {[token |-> NoToken, hash |-> tokens[t], key |-> keys[tokens[t]]]}
  /\ UNCHANGED <<sessions, tables, expired, drawn, req, doubt>>

-----------------------------------------------------------------------------
(***************************************************************************)
(* The end of a callback: the session of its device is completed and the   *)
(* page is shown.  A callback that names no device also completes every    *)
(* session that was waiting when it looked, one lock after the other.      *)
(***************************************************************************)
CallbackSession(q) ==
  /\ req[q].op = "session"
  /\ UpdateSession(req[q].dev, req[q])
  /\ answered' = answered \cup {Answer(q, req[q].key)}
  /\ IF req[q].dev = TempDevice THEN Goto(q, "pending") ELSE Finish(q)
  /\ UNCHANGED <<tables, expired, drawn, doubt>>

Waiting == {d \in Devices : HasSession(d) /\ sessions[d].token = NoToken}

\* Empties the request once no session is left to complete.
NextPending(q, todo) ==
  req' = [req EXCEPT ![q] = IF todo = {} THEN Idle
                            ELSE [@ EXCEPT !.op = "complete", !.todo = todo]]

CallbackPending(q) ==
  /\ req[q].op = "pending"
  /\ NextPending(q, Waiting)
  /\ UNCHANGED <<sessions, tables, expired, drawn, history>>

CallbackComplete(q, d) ==
  /\ req[q].op = "complete"
  /\ d \in req[q].todo
  /\ UpdateSession(d, req[q])
  /\ NextPending(q, req[q].todo \ {d})
  /\ UNCHANGED <<tables, expired, drawn, history>>

-----------------------------------------------------------------------------
(***************************************************************************)
(* Time, closed connections and restarts.                                  *)
(***************************************************************************)
SessionExpires(d) ==
  /\ sessions[d].at = "fresh"
  /\ sessions' = [sessions EXCEPT ![d].at = "stale"]
  /\ UNCHANGED <<tables, expired, drawn, req, history>>

TokenExpires(t) ==
  /\ IsValid(t)
  /\ expired' = expired \cup {t}
  /\ UNCHANGED <<sessions, tables, drawn, req, history>>

\* A handler is dropped at an await when its connection closes.
Cancel(q) ==
  /\ req[q].op \notin {"idle", "poll", "insert", "session", "pending", "complete"}
  /\ Finish(q)
  /\ UNCHANGED <<sessions, tables, expired, drawn, history>>

Restart ==
  /\ sessions' = [d \in AllDevices |-> NoSession]
  /\ req' = [q \in Requests |-> Idle]
  /\ UNCHANGED <<tables, expired, drawn, history>>

\* The steps a request takes by itself once it has begun.
Step(q) ==
  \/ CheckStatusFound(q)
  \/ CheckStatusMissed(q)
  \/ CheckStatusInsert(q)
  \/ ExchangeCode(q)
  \/ \E e \in Emails : GetUserInfo(q, e)
  \/ ExternalFails(q)
  \/ GetAccountByHash(q)
  \/ GetAccountByEmail(q)
  \/ LookupFails(q)
  \/ UpdateAccount(q)
  \/ UpdateAccountFails(q)
  \/ CreateAccount(q)
  \/ CreateAccountFails(q)
  \/ SaveToken(q)
  \/ SaveTokenFails(q)
  \/ GetKey(q)
  \/ GetNoKey(q)
  \/ GetKeyFails(q)
  \/ KeyExists(q)
  \/ StoreKey(q)
  \/ StoreKeyFails(q)
  \/ CallbackSession(q)
  \/ CallbackPending(q)
  \/ \E d \in Devices : CallbackComplete(q, d)

Next ==
  \/ \E d \in Devices : RegisterSession(d)
  \/ \E q \in Requests, d \in Devices : CheckStatus(q, d)
  \/ \E q \in Requests, d \in AllDevices, h \in {None} \cup ClientHashes :
       OAuthCallback(q, d, h)
  \/ \E q \in Requests : OAuthExchange(q)
  \/ \E q \in Requests, t \in Tokens, h \in Hashes : RequestKey(q, t, h)
  \/ \E t \in Tokens : GetAccountInfo(t)
  \/ \E q \in Requests : Step(q) \/ Cancel(q)
  \/ \E d \in AllDevices : SessionExpires(d)
  \/ \E t \in Tokens : TokenExpires(t)
  \/ Restart

Spec == Init /\ [][Next]_vars

-----------------------------------------------------------------------------
Session == [token : {NoToken} \cup Tokens, hash : {None} \cup Hashes,
            key : {NoKey} \cup Tokens, at : {"absent", "fresh", "stale"}]

Request ==
  [op : {"idle", "poll", "insert", "code", "info", "hash", "email", "update",
         "create", "token",
         "key", "exists", "overwrite", "add", "session", "pending", "complete"},
   why : {None, "callback", "exchange", "request"},
   dev : AllDevices, email : {None} \cup Emails, hash : {None} \cup Hashes,
   token : {NoToken} \cup Tokens, key : {NoKey} \cup Tokens,
   todo : SUBSET Devices]

(***************************************************************************)
(* The type invariant: the maps, tables and requests of the login code     *)
(* hold what they should, and no session is completed in part.             *)
(***************************************************************************)
TypeOK ==
  /\ sessions \in [AllDevices -> Session]
  /\ \A d \in AllDevices :
       (sessions[d].token = NoToken) <=> (sessions[d].hash = None)
  /\ accounts \in [Hashes -> {None} \cup Emails]
  /\ tokens \in [Tokens -> {None} \cup Hashes]
  /\ expired \subseteq Tokens
  /\ keys \in [Hashes -> {NoKey} \cup Tokens]
  /\ drawn \in 0..MaxRandom
  /\ req \in [Requests -> Request]
  /\ answered \subseteq [token : {NoToken} \cup Tokens, hash : Hashes, key : Tokens]
  /\ doubt \subseteq Hashes

(***************************************************************************)
(* A login that is answered with success, by the exchange or by the page   *)
(* of the callback, has its token stored for the account it names: however *)
(* the statements before it failed, validate_token accepts the token until *)
(* it expires (process_oauth_code).                                        *)
(***************************************************************************)
AnsweredAccepted ==
  \A a \in answered : a.token # NoToken => tokens[a.token] = a.hash

(***************************************************************************)
(* The token a polling client finds in its session is a token of the       *)
(* account named beside it, although callbacks for several devices, users  *)
(* and waiting sessions update sessions at once (update_session).          *)
(***************************************************************************)
SessionAccount ==
  \A d \in AllDevices :
    sessions[d].token # NoToken => tokens[sessions[d].token] = sessions[d].hash

(***************************************************************************)
(* All answers and sessions of an account carry the key that is stored for *)
(* it, unless a statement on the key failed at a login or two requests     *)
(* created the key at once (get_encryption_key, get_or_create_key).        *)
(***************************************************************************)
KeysAgree ==
  /\ \A a \in answered : a.hash \notin doubt => keys[a.hash] = a.key
  /\ \A d \in AllDevices :
       sessions[d].hash \in Hashes \ doubt => keys[sessions[d].hash] = sessions[d].key
=============================================================================
