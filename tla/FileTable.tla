----------------------------- MODULE FileTable -----------------------------
(***************************************************************************)
(* The MySQL `files` table: the operations of storage/mysql_file.rs and of *)
(* the version methods of storage/mysql.rs that write it, run by           *)
(* concurrent requests over a connection pool, and the hourly retention    *)
(* task.                                                                   *)
(*                                                                         *)
(* A request that opens a transaction takes two steps.  Its SELECTs read   *)
(* the snapshot InnoDB takes at the first of them (REPEATABLE READ), so    *)
(* they are one step; its UPDATEs and INSERTs act on the latest committed  *)
(* rows under next-key locks held to the commit, so they are another.  A   *)
(* statement outside a transaction is a step of its own.                   *)
(*                                                                         *)
(* A key stands for (account_hash, file_path, filename, group_id).  A row  *)
(* keeps the columns the queries tell apart, and two pieces of history:    *)
(* `begin`, the next row id when the request that inserted it read its     *)
(* snapshot, and `sole`, whether that snapshot held at most one active     *)
(* version of the key.                                                     *)
(***************************************************************************)
EXTENDS Naturals, FiniteSets

CONSTANTS
  Keys,          \* (account_hash, file_path, filename, group_id)
  Requests,      \* requests the connection pool serves at once
  MaxRevisions,  \* config.storage.max_file_revisions
  Ttl,           \* config.storage.file_ttl_secs
  IdCollisions,  \* whether store_file_info may be given the id of a stored file
  MaxRow,        \* bound: rows ever inserted
  MaxRev,        \* bound: revision an update of a row may reach
  MaxTime        \* bound: clock

ASSUME TableAssumption ==
  /\ MaxRevisions \in Nat
  /\ Ttl \in Nat
  /\ IdCollisions \in BOOLEAN
  /\ MaxRow \in Nat
  /\ MaxRev \in Nat
  /\ MaxTime \in Nat

VARIABLES
  files,   \* the rows
  nextId,  \* the next AUTO_INCREMENT id
  req,     \* what each request has read and is about to do
  clock    \* Utc::now() in seconds

vars == <<files, nextId, req, clock>>

(***************************************************************************)
(* Rows.  A new file_id is a fresh random number; the model takes the row  *)
(* id of the first row that carries it.  The kind of a row fixes two       *)
(* columns: delete_file leaves server_group_id of the tombstone at its     *)
(* default 0, and only store_file_info fills eq_index.                     *)
(***************************************************************************)
Kind == {"upload", "restored", "tombstone"}

Row == [id : Nat, fid : Nat, key : Keys, kind : Kind, rev : Nat,
        del : BOOLEAN, upd : Nat, begin : Nat, sole : BOOLEAN]

\* Rows the predicate `server_group_id = ?` selects.
InServerGroup(r) == r.kind # "tombstone"

\* Mutant: the MAX(revision) query leaves deleted rows out.
VersionsNotDeleted(k) == {r \in files : r.key = k /\ InServerGroup(r) /\ ~r.del}

\* Rows of key k in its server group, deleted ones included.
Versions(k) == {r \in files : r.key = k /\ InServerGroup(r)}

\* Rows that get_file_history selects: by group_id, tombstones included.
History(k) == {r \in files : r.key = k}

Active(S) == {r \in S : ~r.del}

\* m is COALESCE(MAX(revision), 0) over the rows S.
IsMaxRevision(m, S) ==
  /\ \/ S = {} /\ m = 0
     \/ \E r \in S : r.rev = m
  /\ \A r \in S : r.rev <= m

\* UPDATE files SET is_deleted = TRUE, on the rows that satisfy Cond.
Deleted(r) == [r EXCEPT !.del = TRUE]

MarkDeleted(Cond(_)) == {IF Cond(r) THEN Deleted(r) ELSE r : r \in files}

(***************************************************************************)
(* Requests.                                                               *)
(***************************************************************************)
Idle == [op |-> "idle"]

StoreReq == [op : {"store"}, key : Keys, old : Nat, rev : Nat, upd : Nat,
             begin : Nat, sole : BOOLEAN]
UpdateReq == [op : {"update"}, fid : Nat, upd : Nat]
DeleteReq == [op : {"delete", "already_deleted"}, fid : Nat]
TombstoneReq == [op : {"tombstone"}, fid : Nat, key : Keys, rev : Nat]
TargetReq == [op : {"target"}, fid : Nat, key : Keys]
RestoreReq == [op : {"restore"}, fid : Nat, key : Keys, rev : Nat, upd : Nat,
               begin : Nat]

Request == {Idle} \cup StoreReq \cup UpdateReq \cup DeleteReq
             \cup TombstoneReq \cup TargetReq \cup RestoreReq

\* Mutant: what a request has read stays on its pooled connection.
FinishKeepsContext(q) == req' = [req EXCEPT ![q].op = "idle"]

Finish(q) == req' = [req EXCEPT ![q] = Idle]

Insert(fid, k, kind, rev, del, upd, begin, sole) ==
  [id |-> nextId, fid |-> fid, key |-> k, kind |-> kind, rev |-> rev,
   del |-> del, upd |-> upd, begin |-> begin, sole |-> sole]

-----------------------------------------------------------------------------
Init ==
  /\ files = {}
  /\ nextId = 1
  /\ req = [q \in Requests |-> Idle]
  /\ clock = 0

(***************************************************************************)
(* store_file_info.  The SELECTs: no active row carries the new file_id,   *)
(* the next revision is one above the versions of the key, and one of the  *)
(* active versions (LIMIT 1, no ORDER BY) is the one to retire.  0 stands  *)
(* for none.  updated_time was read when the handler built the FileInfo.   *)
(***************************************************************************)
StoreRead(q, k) ==
  /\ req[q] = Idle
  /\ LET V == Versions(k)
     IN  \E m \in {0} \cup {r.rev : r \in V} :
         \E old \in IF Active(V) = {} THEN {0} ELSE {r.fid : r \in Active(V)} :
           /\ IsMaxRevision(m, V)
           /\ req' = [req EXCEPT ![q] =
                [op |-> "store", key |-> k, old |-> old, rev |-> m + 1,
                 upd |-> clock, begin |-> nextId,
                 sole |-> \A r, s \in Active(V) : r = s]]
  /\ UNCHANGED <<files, nextId, clock>>

\* Mutant: the older version is not retired.
StoreCommitKeepsOld(q) ==
  /\ req[q].op = "store"
  /\ nextId <= MaxRow
  /\ files' = files \cup {Insert(nextId, req[q].key, "upload", req[q].rev, FALSE,
                                 req[q].upd, req[q].begin, req[q].sole)}
  /\ nextId' = nextId + 1
  /\ Finish(q)
  /\ UNCHANGED clock

\* Its writes: retire that file_id, insert the new version, commit.
StoreCommit(q) ==
  /\ req[q].op = "store"
  /\ nextId <= MaxRow
  /\ files' = MarkDeleted(LAMBDA r : r.fid = req[q].old)
                \cup {Insert(nextId, req[q].key, "upload", req[q].rev, FALSE,
                             req[q].upd, req[q].begin, req[q].sole)}
  /\ nextId' = nextId + 1
  /\ Finish(q)
  /\ UNCHANGED clock

\* The branch of store_file_info for a file_id that an active row carries.
UpdateRead(q, fid) ==
  /\ IdCollisions
  /\ req[q] = Idle
  /\ \E r \in Active(files) : r.fid = fid
  /\ req' = [req EXCEPT ![q] = [op |-> "update", fid |-> fid, upd |-> clock]]
  /\ UNCHANGED <<files, nextId, clock>>

\* Mutant: the UPDATE also resets is_deleted.
UpdatedRevives(r, now) == [r EXCEPT !.rev = r.rev + 1, !.upd = now, !.del = FALSE]

\* Its UPDATE has no is_deleted condition: every row of the file_id moves.
Updated(r, now) == [r EXCEPT !.rev = r.rev + 1, !.upd = now]

UpdateCommit(q) ==
  /\ req[q].op = "update"
  /\ \A r \in files : r.fid = req[q].fid => r.rev < MaxRev
  /\ files' = {IF r.fid = req[q].fid THEN Updated(r, req[q].upd) ELSE r :
                 r \in files}
  /\ Finish(q)
  /\ UNCHANGED <<nextId, clock>>

(***************************************************************************)
(* delete_file of the handler, the file service and the storage.  The      *)
(* handler and the service first look at some row of the file_id           *)
(* (fetch_optional, no ORDER BY) and answer success if it is deleted.      *)
(***************************************************************************)
DeleteAlreadyDeleted(q, fid) ==
  /\ req[q] = Idle
  /\ \E r \in files : r.fid = fid /\ r.del
  /\ req' = [req EXCEPT ![q] = [op |-> "already_deleted", fid |-> fid]]
  /\ UNCHANGED <<files, nextId, clock>>

DeleteCheck(q, fid) ==
  /\ req[q] = Idle
  /\ \E r \in Active(files) : r.fid = fid
  /\ req' = [req EXCEPT ![q] = [op |-> "delete", fid |-> fid]]
  /\ UNCHANGED <<files, nextId, clock>>

\* The storage reads some row of the file_id again, deleted or not; the
\* tombstone's revision is one above it.
DeleteRead(q) ==
  /\ req[q].op = "delete"
  /\ \E r \in files :
       /\ r.fid = req[q].fid
       /\ req' = [req EXCEPT ![q] = [op |-> "tombstone", fid |-> r.fid,
                                     key |-> r.key, rev |-> r.rev + 1]]
  /\ UNCHANGED <<files, nextId, clock>>

\* The row was purged in between: NotFound.
DeleteNotFound(q) ==
  /\ req[q].op = "delete"
  /\ \A r \in files : r.fid # req[q].fid
  /\ Finish(q)
  /\ UNCHANGED <<files, nextId, clock>>

\* Mutant: only the rows of the file_id are marked.
DeleteCommitOneFile(q) ==
  /\ req[q].op = "tombstone"
  /\ nextId <= MaxRow
  /\ files' = MarkDeleted(LAMBDA r : r.fid = req[q].fid)
                \cup {Insert(nextId, req[q].key, "tombstone", req[q].rev, TRUE,
                             clock, nextId, FALSE)}
  /\ nextId' = nextId + 1
  /\ Finish(q)
  /\ UNCHANGED clock

\* Two UPDATEs (by file_id; by key) and the tombstone with a random file_id.
DeleteCommit(q) ==
  /\ req[q].op = "tombstone"
  /\ nextId <= MaxRow
  /\ files' = MarkDeleted(LAMBDA r : r.fid = req[q].fid \/ r.key = req[q].key)
                \cup {Insert(nextId, req[q].key, "tombstone", req[q].rev, TRUE,
                             clock, nextId, FALSE)}
  /\ nextId' = nextId + 1
  /\ Finish(q)
  /\ UNCHANGED clock

(***************************************************************************)
(* restore_file_version: three statements, none in a transaction.  A       *)
(* tombstone has no data, so restoring one fails when its data is copied.  *)
(***************************************************************************)
RestoreTarget(q, fid) ==
  /\ req[q] = Idle
  /\ \E r \in files :
       /\ r.fid = fid
       /\ InServerGroup(r)
       /\ req' = [req EXCEPT ![q] = [op |-> "target", fid |-> fid,
                                     key |-> r.key]]
  /\ UNCHANGED <<files, nextId, clock>>

RestoreHistory(q) ==
  /\ req[q].op = "target"
  /\ LET H == History(req[q].key)
     IN  \E m \in {0} \cup {r.rev : r \in H} :
           /\ IsMaxRevision(m, H)
           /\ req' = [req EXCEPT ![q] =
                [op |-> "restore", fid |-> req[q].fid, key |-> req[q].key,
                 rev |-> m + 1, upd |-> clock, begin |-> nextId]]
  /\ UNCHANGED <<files, nextId, clock>>

\* store_file: a plain INSERT under the old file_id; nothing is retired.
RestoreInsert(q) ==
  /\ req[q].op = "restore"
  /\ nextId <= MaxRow
  /\ files' = files \cup
       {Insert(req[q].fid, req[q].key, "restored", req[q].rev, FALSE,
               req[q].upd, req[q].begin, FALSE)}
  /\ nextId' = nextId + 1
  /\ Finish(q)
  /\ UNCHANGED clock

\* The answer is sent; or a database error, a deadlock victim or a failed data
\* copy ends the request and nothing of it is kept.
Abort(q) ==
  /\ req[q] # Idle
  /\ Finish(q)
  /\ UNCHANGED <<files, nextId, clock>>

\* Mutant: a version with MaxRevisions versions at least as recent is marked.
SurplusOffByOne ==
  {r \in Active(files) :
     /\ InServerGroup(r)
     /\ Cardinality({s \in Active(Versions(r.key)) : s.upd >= r.upd})
          >= MaxRevisions}

(***************************************************************************)
(* The retention task.  Trim marks the active versions of a key that have  *)
(* more than MaxRevisions active versions at least as recent, themselves   *)
(* included; the JOIN matches them by file_id and revision.  Trim and      *)
(* Purge are two statements of one pass, and either may fail on its own,   *)
(* so any sequence of them is possible.                                    *)
(***************************************************************************)
Surplus ==
  {r \in Active(files) :
     /\ InServerGroup(r)
     /\ Cardinality({s \in Active(Versions(r.key)) : s.upd >= r.upd})
          > MaxRevisions}

Trim ==
  /\ files' = MarkDeleted(LAMBDA r :
                \E x \in Surplus : /\ r.key = x.key
                                   /\ InServerGroup(r)
                                   /\ r.fid = x.fid
                                   /\ r.rev = x.rev)
  /\ UNCHANGED <<nextId, req, clock>>

Purge ==
  /\ files' = {r \in files : ~(r.del /\ r.upd + Ttl < clock)}
  /\ UNCHANGED <<nextId, req, clock>>

Tick ==
  /\ clock < MaxTime
  /\ clock' = clock + 1
  /\ UNCHANGED <<files, nextId, req>>

FileIds == {r.fid : r \in files}

Next ==
  \/ \E q \in Requests :
       \/ \E k \in Keys : StoreRead(q, k)
       \/ \E fid \in FileIds :
            \/ UpdateRead(q, fid)
            \/ DeleteAlreadyDeleted(q, fid)
            \/ DeleteCheck(q, fid)
            \/ RestoreTarget(q, fid)
       \/ StoreCommit(q)
       \/ UpdateCommit(q)
       \/ DeleteRead(q)
       \/ DeleteNotFound(q)
       \/ DeleteCommit(q)
       \/ RestoreHistory(q)
       \/ RestoreInsert(q)
       \/ Abort(q)
  \/ Trim
  \/ Purge
  \/ Tick

Spec == Init /\ [][Next]_vars

-----------------------------------------------------------------------------
\* Every variable keeps its type.
TypeOK ==
  /\ files \subseteq Row
  /\ nextId \in Nat
  /\ req \in [Requests -> Request]
  /\ clock \in Nat

(***************************************************************************)
(* store_file_info and restore_file_version number versions in real-time   *)
(* order: a version whose request began after another version of the same  *)
(* key was committed has the larger revision, whatever other requests,     *)
(* deletes and retention passes ran in between.  (Two versions can share a *)
(* revision only if their requests overlapped.)                            *)
(***************************************************************************)
RevisionsInRealTimeOrder ==
  \A r, s \in files :
    /\ r.key = s.key
    /\ InServerGroup(r)
    /\ InServerGroup(s)
    /\ r.id < s.begin
    => r.rev < s.rev

(***************************************************************************)
(* An upload that found at most one active version of its key leaves no    *)
(* version that was committed before it began active, although it retires  *)
(* by file_id what it read in an older snapshot.                           *)
(***************************************************************************)
UploadSupersedes ==
  \A r, s \in files :
    /\ r.key = s.key
    /\ s.kind = "upload"
    /\ s.sole
    /\ r.id < s.begin
    => r.del

(***************************************************************************)
(* A delete is final for everything committed before it: no version older  *)
(* than a tombstone of its key is active, not even one that a restore or a *)
(* concurrent upload inserted under another file_id.                       *)
(***************************************************************************)
DeleteIsFinal ==
  \A r, d \in files :
    /\ r.key = d.key
    /\ d.kind = "tombstone"
    /\ r.id < d.id
    => r.del

Least(a, b) == IF a <= b THEN a ELSE b

(***************************************************************************)
(* trim_old_revisions keeps the newest MaxRevisions active versions of a   *)
(* key, and only those, when no two of them carry the same updated_time,   *)
(* nor the same file_id and revision (as overlapping restores may).        *)
(***************************************************************************)
TrimKeepsNewest ==
  [][Trim => \A k \in Keys :
       LET A == Active(Versions(k))
           B == {r \in files' : r.key = k /\ ~r.del}
       IN  (\A r, s \in A :
              (r.upd = s.upd \/ (r.fid = s.fid /\ r.rev = s.rev)) => r = s) =>
             /\ Cardinality(B) = Least(MaxRevisions, Cardinality(A))
             /\ \A r \in A, s \in B : r.upd > s.upd => r \in B]_vars
=============================================================================
