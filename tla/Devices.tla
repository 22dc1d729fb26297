------------------------------ MODULE Devices ------------------------------
(***************************************************************************)
(* The devices table (mysql_device.rs) and the requests that write it:     *)
(* register_device, update_device_info and delete_device of                *)
(* device_handler.rs, the registration at a login                          *)
(* (auto_register_or_update_device), and the end of an initial sync, which *)
(* writes back the row it read (send_initial_file_sync).                   *)
(*                                                                         *)
(* device_hash is the primary key; every statement also names the account. *)
(* A SELECT locks nothing, so each statement is a step; a write and its    *)
(* commit are one.  Any statement may fail.  Of a row the model keeps its  *)
(* account and is_active.  The map device_registrations of DeviceService   *)
(* is never filled and is left out.  Tokens are module Accounts: a request *)
(* acts for the account of its token (update_device_info takes none and    *)
(* believes the request).                                                  *)
(***************************************************************************)
EXTENDS Clients

CONSTANT Calls  \* requests served at once

VARIABLES
  devices,  \* the devices table, by device hash
  owned,    \* history: registrations answered with success, not deleted since
  call      \* what each request is doing

ASSUME AccountsAssumption == None \notin Accounts

deviceVars == <<devices, owned, call>>

NoRow == [acct |-> None, active |-> FALSE]
Row == [acct : Accounts, active : BOOLEAN]

HasRow(a, d) == devices[d].acct = a

(***************************************************************************)
(* A request: the operation it is in, the account and device it acts for,  *)
(* the is_active it writes, what its SELECT found, and whether the device  *)
(* was deleted meanwhile.                                                  *)
(***************************************************************************)
NoCall == [op |-> "idle", why |-> None, acct |-> None, dev |-> None,
           active |-> FALSE, found |-> FALSE, gone |-> FALSE]

Call(op, why, a, d) ==
  [NoCall EXCEPT !.op = op, !.why = why, !.acct = a, !.dev = d]

EndCall(q) == call' = [call EXCEPT ![q] = NoCall]

DevicesInit ==
  /\ devices = [d \in Hashes |-> NoRow]
  /\ owned = {}
  /\ call = [q \in Calls |-> NoCall]

-----------------------------------------------------------------------------
\* The handler has validated the token and builds a new Device.
RegisterDevice(q, a, d, active) ==
  /\ call[q] = NoCall
  /\ call' = [call EXCEPT ![q] = [Call("select", "register", a, d)
                                  EXCEPT !.active = active]]
  /\ UNCHANGED <<devices, owned>>

\* update_device_info looks the device up first.
UpdateDeviceInfo(q, a, d, active) ==
  /\ call[q] = NoCall
  /\ call' = [call EXCEPT ![q] = [Call("get", "info", a, d)
                                  EXCEPT !.active = active]]
  /\ UNCHANGED <<devices, owned>>

\* A login does so too, and activates the device.
AutoRegisterDevice(q, a, d) ==
  /\ call[q] = NoCall
  /\ call' = [call EXCEPT ![q] = [Call("get", "login", a, d)
                                  EXCEPT !.active = TRUE]]
  /\ UNCHANGED <<devices, owned>>

\* An initial sync that delivered files ends with a new last_sync.
SyncDelivered(q, a, d) ==
  /\ call[q] = NoCall
  /\ call' = [call EXCEPT ![q] = Call("get", "sync", a, d)]
  /\ UNCHANGED <<devices, owned>>

(***************************************************************************)
(* get_device.  update_device_info updates a device it found and registers *)
(* one it did not; a login registers in both cases; a sync updates the row *)
(* it found, with the is_active it read, or does nothing.                  *)
(***************************************************************************)
GetDevice(q) ==
  LET r == call[q]
      found == HasRow(r.acct, r.dev) IN
  /\ r.op = "get"
  /\ CASE r.why = "info" ->
            call' = [call EXCEPT ![q].op = IF found THEN "update" ELSE "select"]
       [] r.why = "login" ->
            call' = [call EXCEPT ![q].op = "select"]
       [] r.why = "sync" ->
            call' = [call EXCEPT ![q] =
                      IF found
                      THEN [r EXCEPT !.op = "update", !.active = devices[r.dev].active]
                      ELSE NoCall]
  /\ UNCHANGED <<devices, owned>>

\* register_device asks for a row of this account and device.
RegisterSelect(q) ==
  /\ call[q].op = "select"
  /\ call' = [call EXCEPT ![q].op = "write",
                          ![q].found = HasRow(call[q].acct, call[q].dev)]
  /\ UNCHANGED <<devices, owned>>

NewRow(r) == [acct |-> r.acct, active |-> r.active]

\* A success answer to a request, in the history; a sync answers nothing.
AnswerSuccess(r) ==
  owned' = IF r.gone \/ r.why = "sync" THEN owned
           ELSE owned \cup {<<r.acct, r.dev>>}

\* Mutant: the device goes to the account that registers it last, whoever had it.
RegisterInsertTakesOver(q) ==
  LET r == call[q] IN
  /\ r.op = "write"
  /\ ~r.found
  /\ devices' = [devices EXCEPT ![r.dev] = NewRow(r)]
  /\ owned' = {o \in owned : o[2] # r.dev}
  /\ EndCall(q)

\* Mutant: INSERT IGNORE, which succeeds when the device hash is taken.
RegisterInsertIgnores(q) ==
  LET r == call[q] IN
  /\ r.op = "write"
  /\ ~r.found
  /\ devices' = [devices EXCEPT ![r.dev] = IF @ = NoRow THEN NewRow(r) ELSE @]
  /\ AnswerSuccess(r)
  /\ EndCall(q)

\* INSERT: the primary key refuses a device hash that has a row by now.
RegisterInsert(q) ==
  LET r == call[q] IN
  /\ r.op = "write"
  /\ ~r.found
  /\ devices[r.dev] = NoRow
  /\ devices' = [devices EXCEPT ![r.dev] = NewRow(r)]
  /\ AnswerSuccess(r)
  /\ EndCall(q)

\* Mutant: the UPDATE takes for granted the row the SELECT found.
UpdateRowUnchecked(r) ==
  devices' = [devices EXCEPT ![r.dev].active = r.active]

\* The UPDATE writes the row of the account, or no row and succeeds as well.
UpdateRow(r) ==
  devices' = IF HasRow(r.acct, r.dev)
             THEN [devices EXCEPT ![r.dev].active = r.active] ELSE devices

RegisterUpdate(q) ==
  /\ call[q].op = "write"
  /\ call[q].found
  /\ UpdateRow(call[q])
  /\ AnswerSuccess(call[q])
  /\ EndCall(q)

\* update_device, for update_device_info and for a sync.
UpdateDevice(q) ==
  /\ call[q].op = "update"
  /\ UpdateRow(call[q])
  /\ AnswerSuccess(call[q])
  /\ EndCall(q)

\* DELETE ... WHERE account_hash = ? AND device_hash = ?
DeleteRow(a, d) ==
  devices' = IF HasRow(a, d) THEN [devices EXCEPT ![d] = NoRow] ELSE devices

(***************************************************************************)
(* delete_device is one statement, of the account of the token; it ends no *)
(* subscription and needs no row to succeed.                               *)
(***************************************************************************)
DeleteDevice(a, d) ==
  /\ DeleteRow(a, d)
  /\ owned' = owned \ {<<a, d>>}
  /\ call' = [q \in Calls |->
                IF call[q].acct = a /\ call[q].dev = d /\ call[q].op # "idle"
                THEN [call[q] EXCEPT !.gone = TRUE] ELSE call[q]]

\* A statement fails, a key is taken, or the client gives the request up.
CallFails(q) ==
  /\ call[q].op \in {"get", "select", "write", "update"}
  /\ EndCall(q)
  /\ UNCHANGED <<devices, owned>>

DevicesNext ==
  \/ \E q \in Calls, a \in Accounts, d \in Hashes :
       \/ \E active \in BOOLEAN : RegisterDevice(q, a, d, active)
       \/ \E active \in BOOLEAN : UpdateDeviceInfo(q, a, d, active)
       \/ AutoRegisterDevice(q, a, d)
       \/ SyncDelivered(q, a, d)
  \/ \E q \in Calls :
       \/ GetDevice(q)
       \/ RegisterSelect(q)
       \/ RegisterInsert(q)
       \/ RegisterUpdate(q)
       \/ UpdateDevice(q)
       \/ CallFails(q)
  \/ \E a \in Accounts, d \in Hashes : DeleteDevice(a, d)

DevicesSpec == DevicesInit /\ [][DevicesNext]_deviceVars

-----------------------------------------------------------------------------
CallRecord ==
  [op : {"idle", "get", "select", "write", "update"},
   why : {None, "register", "info", "login", "sync"},
   acct : Accounts \cup {None}, dev : Hashes \cup {None},
   active : BOOLEAN, found : BOOLEAN, gone : BOOLEAN]

(***************************************************************************)
(* The type invariant: the table holds rows, at most one for each device   *)
(* hash, and the requests of the handlers what they read and mean to write.*)
(***************************************************************************)
DevicesTypeOK ==
  /\ devices \in [Hashes -> Row \cup {NoRow}]
  /\ owned \subseteq Accounts \X Hashes
  /\ call \in [Calls -> CallRecord]

(***************************************************************************)
(* A device whose registration was answered with success, with no delete   *)
(* of it since the request began, is in the table under that account,      *)
(* although other accounts and other requests of the same account register *)
(* the same device hash at once (register_device).                         *)
(***************************************************************************)
AnsweredRegistered == \A ad \in owned : HasRow(ad[1], ad[2])

(***************************************************************************)
(* A device never passes from one account to another: the row has to be    *)
(* deleted, by its own account, first (the statements of mysql_device.rs). *)
(***************************************************************************)
DeviceKeepsAccount ==
  [][\A d \in Hashes :
       devices[d] # NoRow /\ devices'[d] # NoRow =>
         devices'[d].acct = devices[d].acct]_devices
=============================================================================
