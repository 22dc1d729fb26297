-------------------------- MODULE FileTableProofs --------------------------
(***************************************************************************)
(* The safety invariants of FileTable, for every set of keys and requests  *)
(* and every value of the retention settings and bounds.                   *)
(***************************************************************************)
EXTENDS FileTable, FiniteSetTheorems, TLAPS

(***************************************************************************)
(* The inductive invariant.  A request that read its snapshot carries what *)
(* it will insert, so each property of the rows has a counterpart for the  *)
(* requests: what it says of the rows committed before the snapshot.       *)
(***************************************************************************)

\* Row ids grow, a snapshot is older than the row inserted from it, and the
\* two properties of the rows.
RowsOK ==
  /\ \A r \in files : r.id < nextId /\ r.begin <= r.id
  /\ \A r \in files : r.kind = "tombstone" => r.del
  /\ UploadSupersedes
  /\ DeleteIsFinal

\* The active versions an upload saw, if at most one, are of the file_id it
\* is going to retire.
SnapshotOK(q) ==
  /\ req[q].op \in {"store", "restore"} => req[q].begin <= nextId
  /\ req[q].op = "store" /\ req[q].sole =>
       \A r \in files :
         r.key = req[q].key /\ r.id < req[q].begin => r.del \/ r.fid = req[q].old

SupersedeInv == TypeOK /\ RowsOK /\ \A q \in Requests : SnapshotOK(q)

\* The revision a request is going to insert is above those it read.
NumbersAbove(q) ==
  /\ req[q].op # "update"
  /\ req[q].op \in {"store", "restore"} =>
       \A r \in files :
         r.key = req[q].key /\ InServerGroup(r) /\ r.id < req[q].begin
           => r.rev < req[q].rev

RevisionInv ==
  SupersedeInv /\ RevisionsInRealTimeOrder /\ \A q \in Requests : NumbersAbove(q)

-----------------------------------------------------------------------------
\* The operation of a request fixes the fields it carries.
LEMMA RequestByOp ==
  ASSUME NEW x \in Request
  PROVE  /\ x.op = "store" => x \in StoreReq
         /\ x.op = "update" => x \in UpdateReq
         /\ x.op \in {"delete", "already_deleted"} => x \in DeleteReq
         /\ x.op = "tombstone" => x \in TombstoneReq
         /\ x.op = "target" => x \in TargetReq
         /\ x.op = "restore" => x \in RestoreReq
BY DEF Request, Idle, StoreReq, UpdateReq, DeleteReq, TombstoneReq, TargetReq,
       RestoreReq

\* s is what a statement that inserts nothing may leave of row r: the same
\* columns, and never undeleted.
SameRow(r, s) ==
  /\ s.id = r.id
  /\ s.fid = r.fid
  /\ s.key = r.key
  /\ s.kind = r.kind
  /\ s.begin = r.begin
  /\ s.sole = r.sole
  /\ r.del => s.del

\* Marking or updating a row keeps its identity.
LEMMA MarkedRow ==
  ASSUME NEW r \in Row
  PROVE  /\ Deleted(r) \in Row
         /\ SameRow(r, Deleted(r))
         /\ Deleted(r).rev = r.rev
         /\ Deleted(r).del
         /\ SameRow(r, r)
BY DEF Row, SameRow, Deleted

\* An update in place (store_file_info with a known file_id) keeps the row's
\* identity.
LEMMA UpdatedRow ==
  ASSUME NEW r \in Row, NEW now \in Nat
  PROVE  Updated(r, now) \in Row /\ SameRow(r, Updated(r, now))
<1>1. r.rev + 1 \in Nat
  BY DEF Row
<1>2. Updated(r, now) \in Row
  BY <1>1 DEF Row, Updated
<1>3. SameRow(r, Updated(r, now))
  BY DEF Row, SameRow, Updated
<1> QED BY <1>2, <1>3

NewRow(q) ==
  CASE req[q].op = "store" ->
         Insert(nextId, req[q].key, "upload", req[q].rev, FALSE, req[q].upd,
                req[q].begin, req[q].sole)
    [] req[q].op = "tombstone" ->
         Insert(nextId, req[q].key, "tombstone", req[q].rev, TRUE, clock,
                nextId, FALSE)
    [] req[q].op = "restore" ->
         Insert(req[q].fid, req[q].key, "restored", req[q].rev, FALSE,
                req[q].upd, req[q].begin, FALSE)

\* s stems from a row of the table.
OldRow(s) == s \in Row /\ \E r \in files : SameRow(r, s) /\ s.rev = r.rev

(***************************************************************************)
(* What each writing step leaves in the table.                             *)
(***************************************************************************)
\* store_file_info marks rows and inserts the new version with the next id.
LEMMA StoreCommitRows ==
  ASSUME TypeOK, NEW q \in Requests, StoreCommit(q)
  PROVE  /\ req[q] \in StoreReq
         /\ \A s \in files' :
              \/ /\ s \in Row
                 /\ \E r \in files : /\ SameRow(r, s)
                                     /\ s.rev = r.rev
                                     /\ r.fid = req[q].old => s.del
              \/ s = NewRow(q)
<1>1. req[q] \in StoreReq
  BY RequestByOp DEF TypeOK, StoreCommit
<1>2. ASSUME NEW s \in files', s # NewRow(q)
      PROVE /\ s \in Row
            /\ \E r \in files : /\ SameRow(r, s)
                                /\ s.rev = r.rev
                                /\ r.fid = req[q].old => s.del
  <2>1. PICK r \in files : s = IF r.fid = req[q].old THEN Deleted(r) ELSE r
    BY <1>2 DEF StoreCommit, MarkDeleted, NewRow
  <2>2. r \in Row
    BY DEF TypeOK
  <2> QED BY <2>1, <2>2, MarkedRow
<1> QED BY <1>1, <1>2

\* delete_file marks rows and inserts its tombstone with the next id.
LEMMA DeleteCommitRows ==
  ASSUME TypeOK, NEW q \in Requests, DeleteCommit(q)
  PROVE  /\ req[q] \in TombstoneReq
         /\ \A s \in files' :
              \/ /\ s \in Row
                 /\ \E r \in files : /\ SameRow(r, s)
                                     /\ s.rev = r.rev
                                     /\ r.key = req[q].key => s.del
              \/ s = NewRow(q)
<1>1. req[q] \in TombstoneReq
  BY RequestByOp DEF TypeOK, DeleteCommit
<1>2. ASSUME NEW s \in files', s # NewRow(q)
      PROVE /\ s \in Row
            /\ \E r \in files : /\ SameRow(r, s)
                                /\ s.rev = r.rev
                                /\ r.key = req[q].key => s.del
  <2>1. PICK r \in files :
          s = IF r.fid = req[q].fid \/ r.key = req[q].key THEN Deleted(r) ELSE r
    BY <1>2 DEF DeleteCommit, MarkDeleted, NewRow
  <2>2. r \in Row
    BY DEF TypeOK
  <2> QED BY <2>1, <2>2, MarkedRow
<1> QED BY <1>1, <1>2

\* A restore inserts its row and leaves the others alone.
LEMMA RestoreInsertRows ==
  ASSUME TypeOK, NEW q \in Requests, RestoreInsert(q)
  PROVE  /\ req[q] \in RestoreReq
         /\ \A s \in files' : OldRow(s) \/ s = NewRow(q)
<1>1. req[q] \in RestoreReq
  BY RequestByOp DEF TypeOK, RestoreInsert
<1>2. \A s \in files' : s \in files \/ s = NewRow(q)
  BY DEF RestoreInsert, NewRow
<1>3. \A s \in files : OldRow(s)
  BY MarkedRow DEF TypeOK, OldRow
<1> QED BY <1>1, <1>2, <1>3

\* An update in place changes only rows of its file_id, and inserts none.
LEMMA UpdateCommitRows ==
  ASSUME TypeOK, NEW q \in Requests, UpdateCommit(q)
  PROVE  \A s \in files' : s \in Row /\ \E r \in files : SameRow(r, s)
<1> TAKE s \in files'
<1>1. req[q].upd \in Nat
  BY RequestByOp DEF TypeOK, UpdateCommit, UpdateReq
<1>2. PICK r \in files :
        s = IF r.fid = req[q].fid THEN Updated(r, req[q].upd) ELSE r
  BY DEF UpdateCommit
<1>3. r \in Row
  BY DEF TypeOK
<1> QED BY <1>1, <1>2, <1>3, MarkedRow, UpdatedRow

\* Trimming marks rows and purging removes them; neither inserts one.
LEMMA RetentionRows ==
  ASSUME TypeOK, Trim \/ Purge
  PROVE  \A s \in files' : OldRow(s)
<1> TAKE s \in files'
<1>1. \E r \in files : s = r \/ s = Deleted(r)
  BY DEF Trim, Purge, MarkDeleted
<1>2. \A r \in files : r \in Row
  BY DEF TypeOK
<1> QED BY <1>1, <1>2, MarkedRow DEF OldRow

\* The row a request inserts has the type of a row.
LEMMA NewRowType ==
  ASSUME TypeOK, NEW q \in Requests,
         req[q].op \in {"store", "tombstone", "restore"}
  PROVE  NewRow(q) \in Row
<1>1. nextId \in Nat /\ clock \in Nat
  BY DEF TypeOK
<1>2. CASE req[q].op = "store"
  <2>1. req[q] \in StoreReq
    BY <1>2, RequestByOp DEF TypeOK
  <2> QED BY <1>1, <1>2, <2>1 DEF NewRow, Insert, StoreReq, Row, Kind
<1>3. CASE req[q].op = "tombstone"
  <2>1. req[q] \in TombstoneReq
    BY <1>3, RequestByOp DEF TypeOK
  <2> QED BY <1>1, <1>3, <2>1 DEF NewRow, Insert, TombstoneReq, Row, Kind
<1>4. CASE req[q].op = "restore"
  <2>1. req[q] \in RestoreReq
    BY <1>4, RequestByOp DEF TypeOK
  <2> QED BY <1>1, <1>4, <2>1 DEF NewRow, Insert, RestoreReq, Row, Kind
<1> QED BY <1>2, <1>3, <1>4

\* Type correctness: every step keeps the rows, requests, ids and clock in
\* their types.
LEMMA TypeStep == TypeOK /\ [Next]_vars => TypeOK'
<1> SUFFICES ASSUME TypeOK, [Next]_vars PROVE TypeOK'
  OBVIOUS
<1>0. Idle \in Request
  BY DEF Request
<1>a. \A r \in files : r \in Row
  BY DEF TypeOK
<1>1. ASSUME NEW q \in Requests, NEW k \in Keys, StoreRead(q, k) PROVE TypeOK'
  BY <1>1, <1>a DEF StoreRead, TypeOK, Request, StoreReq, Versions, Active, Row
<1>2. ASSUME NEW q \in Requests, StoreCommit(q) PROVE TypeOK'
  <2>1. files' \subseteq Row
    BY <1>2, StoreCommitRows, NewRowType DEF StoreCommit
  <2>2. /\ nextId' = nextId + 1
        /\ req' = [req EXCEPT ![q] = Idle]
        /\ clock' = clock
    BY <1>2 DEF StoreCommit, Finish
  <2> QED BY <1>0, <2>1, <2>2 DEF TypeOK
<1>3. ASSUME NEW q \in Requests, NEW fid \in FileIds, UpdateRead(q, fid) PROVE TypeOK'
  <2>1. fid \in Nat
    BY <1>a DEF FileIds, Row
  <2> QED BY <1>3, <2>1 DEF UpdateRead, TypeOK, Request, UpdateReq
<1>4. ASSUME NEW q \in Requests, UpdateCommit(q) PROVE TypeOK'
  <2>1. files' \subseteq Row
    BY <1>4, UpdateCommitRows
  <2> QED BY <1>0, <1>4, <2>1 DEF UpdateCommit, Finish, TypeOK
<1>5. ASSUME NEW q \in Requests, NEW fid \in FileIds,
             DeleteAlreadyDeleted(q, fid) \/ DeleteCheck(q, fid)
      PROVE TypeOK'
  <2>1. fid \in Nat
    BY <1>a DEF FileIds, Row
  <2> QED BY <1>5, <2>1 DEF DeleteAlreadyDeleted, DeleteCheck, TypeOK, Request, DeleteReq
<1>6. ASSUME NEW q \in Requests, DeleteRead(q) PROVE TypeOK'
  BY <1>6, <1>a DEF DeleteRead, TypeOK, Request, TombstoneReq, Row
<1>7. ASSUME NEW q \in Requests, DeleteNotFound(q) \/ Abort(q) PROVE TypeOK'
  BY <1>0, <1>7 DEF DeleteNotFound, Abort, Finish, TypeOK
<1>8. ASSUME NEW q \in Requests, DeleteCommit(q) PROVE TypeOK'
  <2>1. files' \subseteq Row
    BY <1>8, DeleteCommitRows, NewRowType DEF DeleteCommit
  <2>2. /\ nextId' = nextId + 1
        /\ req' = [req EXCEPT ![q] = Idle]
        /\ clock' = clock
    BY <1>8 DEF DeleteCommit, Finish
  <2> QED BY <1>0, <2>1, <2>2 DEF TypeOK
<1>9. ASSUME NEW q \in Requests, NEW fid \in FileIds, RestoreTarget(q, fid)
      PROVE TypeOK'
  <2>1. fid \in Nat
    BY <1>a DEF FileIds, Row
  <2> QED BY <1>9, <1>a, <2>1 DEF RestoreTarget, TypeOK, Request, TargetReq, Row
<1>10. ASSUME NEW q \in Requests, RestoreHistory(q) PROVE TypeOK'
  <2>1. req[q] \in TargetReq
    BY <1>10, RequestByOp DEF TypeOK, RestoreHistory
  <2> QED BY <1>10, <1>a, <2>1
          DEF RestoreHistory, History, TypeOK, Request, TargetReq, RestoreReq, Row
<1>11. ASSUME NEW q \in Requests, RestoreInsert(q) PROVE TypeOK'
  <2>1. files' \subseteq Row
    BY <1>11, RestoreInsertRows, NewRowType DEF RestoreInsert, OldRow
  <2>2. /\ nextId' = nextId + 1
        /\ req' = [req EXCEPT ![q] = Idle]
        /\ clock' = clock
    BY <1>11 DEF RestoreInsert, Finish
  <2> QED BY <1>0, <2>1, <2>2 DEF TypeOK
<1>12. ASSUME Trim \/ Purge PROVE TypeOK'
  <2>1. files' \subseteq Row
    BY <1>12, RetentionRows DEF OldRow
  <2> QED BY <1>12, <2>1 DEF Trim, Purge, TypeOK
<1>13. ASSUME Tick \/ UNCHANGED vars PROVE TypeOK'
  BY <1>13 DEF Tick, TypeOK, vars
<1> QED BY <1>1, <1>2, <1>3, <1>4, <1>5, <1>6, <1>7, <1>8, <1>9, <1>10, <1>11,
           <1>12, <1>13 DEF Next

(***************************************************************************)
(* Type correctness of the table, its id counter, the requests and the     *)
(* clock.                                                                  *)
(***************************************************************************)
THEOREM TypeCorrect == Spec => []TypeOK
<1>1. Init => TypeOK
  BY DEF Init, TypeOK, Request
<1> QED BY <1>1, TypeStep, PTL DEF Spec

-----------------------------------------------------------------------------
\* A step that inserts nothing keeps what is known of the rows.
LEMMA QuietRows ==
  ASSUME TypeOK, RowsOK, nextId' = nextId,
         \A s \in files' : s \in Row /\ \E r \in files : SameRow(r, s)
  PROVE  RowsOK'
<1>1. \A s \in files' : s.id < nextId' /\ s.begin <= s.id
  BY DEF RowsOK, SameRow
<1>2. \A s \in files' : s.kind = "tombstone" => s.del
  BY DEF RowsOK, SameRow
<1>3. UploadSupersedes'
  BY DEF RowsOK, UploadSupersedes, SameRow
<1>4. DeleteIsFinal'
  BY DEF RowsOK, DeleteIsFinal, SameRow
<1> QED BY <1>1, <1>2, <1>3, <1>4 DEF RowsOK

\* A request that does not move keeps what is known of its snapshot: rows are
\* only inserted above it and never undeleted.
LEMMA QuietRequest ==
  ASSUME TypeOK, NEW q \in Requests, SnapshotOK(q), req'[q] = req[q],
         nextId' \in {nextId, nextId + 1},
         \A s \in files' : (\E r \in files : SameRow(r, s)) \/ s.id = nextId
  PROVE  SnapshotOK(q)'
<1>1. nextId \in Nat
  BY DEF TypeOK
<1>2. req[q].op \in {"store", "restore"} => req[q].begin \in Nat
  BY RequestByOp DEF TypeOK, StoreReq, RestoreReq
<1>3. req'[q].op \in {"store", "restore"} => req'[q].begin <= nextId'
  BY <1>1, <1>2 DEF SnapshotOK
<1>4. ASSUME req'[q].op = "store", req'[q].sole, NEW s \in files',
             s.key = req'[q].key, s.id < req'[q].begin
      PROVE  s.del \/ s.fid = req'[q].old
  <2>1. s.id # nextId
    BY <1>1, <1>2, <1>4 DEF SnapshotOK
  <2>2. PICK r \in files : SameRow(r, s)
    BY <2>1
  <2> QED BY <1>4, <2>2 DEF SnapshotOK, SameRow
<1> QED BY <1>3, <1>4 DEF SnapshotOK

\* An upload that saw one active version retires it with every row of its
\* file_id.
LEMMA StoreCommitRowsOK ==
  ASSUME SupersedeInv, NEW q \in Requests, StoreCommit(q)
  PROVE  RowsOK'
<1> DEFINE n == NewRow(q)
<1>0. nextId \in Nat /\ nextId' = nextId + 1 /\ req[q].op = "store"
  BY DEF SupersedeInv, TypeOK, StoreCommit
<1>1. req[q] \in StoreReq
  BY StoreCommitRows DEF SupersedeInv
<1>2. /\ n.id = nextId /\ n.key = req[q].key /\ n.kind = "upload" /\ ~n.del
      /\ n.begin = req[q].begin /\ n.sole = req[q].sole
  BY <1>0 DEF NewRow, Insert
<1>3. \A s \in files' :
        \/ s \in Row /\ \E r \in files : SameRow(r, s) /\ (r.fid = req[q].old => s.del)
        \/ s = n
  BY StoreCommitRows DEF SupersedeInv
<1>4. SnapshotOK(q) /\ RowsOK
  BY DEF SupersedeInv
<1>5. \A r \in files : r \in Row
  BY DEF SupersedeInv, TypeOK
<1> HIDE DEF n
<1>6. \A s \in files' : s.id < nextId' /\ s.begin <= s.id
  BY <1>0, <1>1, <1>2, <1>3, <1>4, <1>5 DEF RowsOK, SameRow, SnapshotOK, StoreReq, Row
<1>7. \A s \in files' : s.kind = "tombstone" => s.del
  BY <1>2, <1>3, <1>4 DEF RowsOK, SameRow
<1>8. UploadSupersedes'
  <2> SUFFICES ASSUME NEW r \in files', NEW s \in files', r.key = s.key,
                      s.kind = "upload", s.sole, r.id < s.begin
               PROVE r.del
    BY DEF UploadSupersedes
  <2>1. r # n
    BY <1>0, <1>1, <1>2, <1>3, <1>4, <1>5 DEF RowsOK, SameRow, SnapshotOK, StoreReq, Row
  <2>2. PICK r0 \in files : SameRow(r0, r) /\ (r0.fid = req[q].old => r.del)
    BY <2>1, <1>3
  <2>3. CASE s = n
    BY <1>0, <1>2, <1>4, <2>2, <2>3 DEF SnapshotOK, SameRow
  <2>4. CASE s # n
    <3>1. PICK s0 \in files : SameRow(s0, s)
      BY <2>4, <1>3
    <3> QED BY <2>2, <3>1, <1>4 DEF RowsOK, UploadSupersedes, SameRow
  <2> QED BY <2>3, <2>4
<1>9. DeleteIsFinal'
  <2> SUFFICES ASSUME NEW r \in files', NEW d \in files', r.key = d.key,
                      d.kind = "tombstone", r.id < d.id
               PROVE r.del
    BY DEF DeleteIsFinal
  <2>1. PICK d0 \in files : SameRow(d0, d)
    BY <1>2, <1>3
  <2>2. r # n
    BY <1>0, <1>2, <1>4, <1>5, <2>1 DEF RowsOK, SameRow, Row
  <2>3. PICK r0 \in files : SameRow(r0, r)
    BY <2>2, <1>3
  <2> QED BY <2>1, <2>3, <1>4 DEF RowsOK, DeleteIsFinal, SameRow
<1> QED BY <1>6, <1>7, <1>8, <1>9 DEF RowsOK

\* A delete marks every row of its key below the tombstone it inserts.
LEMMA DeleteCommitRowsOK ==
  ASSUME SupersedeInv, NEW q \in Requests, DeleteCommit(q)
  PROVE  RowsOK'
<1> DEFINE n == NewRow(q)
<1>0. nextId \in Nat /\ nextId' = nextId + 1 /\ req[q].op = "tombstone"
  BY DEF SupersedeInv, TypeOK, DeleteCommit
<1>2. /\ n.id = nextId /\ n.key = req[q].key /\ n.kind = "tombstone" /\ n.del
      /\ n.begin = nextId
  BY <1>0 DEF NewRow, Insert
<1>3. \A s \in files' :
        \/ s \in Row /\ \E r \in files : SameRow(r, s) /\ (r.key = req[q].key => s.del)
        \/ s = n
  BY DeleteCommitRows DEF SupersedeInv
<1>4. RowsOK
  BY DEF SupersedeInv
<1>5. \A r \in files : r \in Row
  BY DEF SupersedeInv, TypeOK
<1> HIDE DEF n
<1>6. \A s \in files' : s.id < nextId' /\ s.begin <= s.id
  BY <1>0, <1>2, <1>3, <1>4, <1>5 DEF RowsOK, SameRow, Row
<1>7. \A s \in files' : s.kind = "tombstone" => s.del
  BY <1>2, <1>3, <1>4 DEF RowsOK, SameRow
<1>8. UploadSupersedes'
  BY <1>2, <1>3, <1>4 DEF RowsOK, UploadSupersedes, SameRow
<1>9. DeleteIsFinal'
  BY <1>2, <1>3, <1>4 DEF RowsOK, DeleteIsFinal, SameRow
<1> QED BY <1>6, <1>7, <1>8, <1>9 DEF RowsOK

\* A restore inserts above every tombstone and every snapshot.
LEMMA RestoreInsertRowsOK ==
  ASSUME SupersedeInv, NEW q \in Requests, RestoreInsert(q)
  PROVE  RowsOK'
<1> DEFINE n == NewRow(q)
<1>0. nextId \in Nat /\ nextId' = nextId + 1 /\ req[q].op = "restore"
  BY DEF SupersedeInv, TypeOK, RestoreInsert
<1>1. req[q] \in RestoreReq
  BY RestoreInsertRows DEF SupersedeInv
<1>2. n.id = nextId /\ n.kind = "restored" /\ n.begin = req[q].begin
  BY <1>0 DEF NewRow, Insert
<1>3. \A s \in files' : (s \in Row /\ \E r \in files : SameRow(r, s)) \/ s = n
  BY RestoreInsertRows DEF SupersedeInv, OldRow
<1>4. SnapshotOK(q) /\ RowsOK
  BY DEF SupersedeInv
<1>5. \A r \in files : r \in Row
  BY DEF SupersedeInv, TypeOK
<1> HIDE DEF n
<1>6. \A s \in files' : s.id < nextId' /\ s.begin <= s.id
  BY <1>0, <1>1, <1>2, <1>3, <1>4, <1>5 DEF RowsOK, SameRow, SnapshotOK, RestoreReq, Row
<1>7. \A s \in files' : s.kind = "tombstone" => s.del
  BY <1>2, <1>3, <1>4 DEF RowsOK, SameRow
<1>8. \A s \in files' : s # n => \E s0 \in files : SameRow(s0, s)
  BY <1>3
<1>9. \A s \in files' : s # n => s.begin <= nextId /\ s.id < nextId
  BY <1>0, <1>4, <1>5, <1>8 DEF RowsOK, SameRow, Row
<1>10. UploadSupersedes'
  <2> SUFFICES ASSUME NEW r \in files', NEW s \in files', r.key = s.key,
                      s.kind = "upload", s.sole, r.id < s.begin
               PROVE r.del
    BY DEF UploadSupersedes
  <2>1. s # n /\ r # n
    BY <1>0, <1>2, <1>3, <1>9 DEF Row
  <2> QED BY <2>1, <1>4, <1>8 DEF RowsOK, UploadSupersedes, SameRow
<1>11. DeleteIsFinal'
  <2> SUFFICES ASSUME NEW r \in files', NEW d \in files', r.key = d.key,
                      d.kind = "tombstone", r.id < d.id
               PROVE r.del
    BY DEF DeleteIsFinal
  <2>1. d # n /\ r # n
    BY <1>0, <1>2, <1>3, <1>9 DEF Row
  <2> QED BY <2>1, <1>4, <1>8 DEF RowsOK, DeleteIsFinal, SameRow
<1> QED BY <1>6, <1>7, <1>10, <1>11 DEF RowsOK

\* A row that is untouched is the same row.
LEMMA SameTable ==
  ASSUME TypeOK, files' = files
  PROVE  \A s \in files' : s \in Row /\ \E r \in files : SameRow(r, s) /\ s.rev = r.rev
BY MarkedRow DEF TypeOK

\* Every step keeps the rows' part of the invariant, and no step changes a
\* row otherwise than by marking it or inserting it with the next id.
LEMMA RowsStep ==
  ASSUME SupersedeInv, [Next]_vars
  PROVE  /\ RowsOK'
         /\ nextId' \in {nextId, nextId + 1}
         /\ \A s \in files' : (\E r \in files : SameRow(r, s)) \/ s.id = nextId
<1> DEFINE Old == \A s \in files' : s \in Row /\ \E r \in files : SameRow(r, s)
<1>0. TypeOK /\ RowsOK
  BY DEF SupersedeInv
<1>1. ASSUME nextId' = nextId, Old
      PROVE  /\ RowsOK'
             /\ nextId' \in {nextId, nextId + 1}
             /\ \A s \in files' : (\E r \in files : SameRow(r, s)) \/ s.id = nextId
  BY <1>0, <1>1, QuietRows
<1>2. ASSUME nextId' = nextId, files' = files PROVE Old
  BY <1>0, <1>2, SameTable
<1>3. ASSUME NEW q \in Requests, UpdateCommit(q) PROVE nextId' = nextId /\ Old
  BY <1>0, <1>3, UpdateCommitRows DEF UpdateCommit
<1>4. ASSUME Trim \/ Purge PROVE nextId' = nextId /\ Old
  BY <1>0, <1>4, RetentionRows DEF Trim, Purge, OldRow
<1>5. ASSUME NEW q \in Requests, StoreCommit(q) \/ DeleteCommit(q) \/ RestoreInsert(q)
      PROVE  /\ RowsOK'
             /\ nextId' \in {nextId, nextId + 1}
             /\ \A s \in files' : (\E r \in files : SameRow(r, s)) \/ s.id = nextId
  <2>1. RowsOK'
    BY <1>5, StoreCommitRowsOK, DeleteCommitRowsOK, RestoreInsertRowsOK
  <2>2. nextId' = nextId + 1
    BY <1>5 DEF StoreCommit, DeleteCommit, RestoreInsert
  <2>3. req[q].op \in {"store", "tombstone", "restore"}
    BY <1>5 DEF StoreCommit, DeleteCommit, RestoreInsert
  <2>4. NewRow(q).id = nextId
    BY <2>3 DEF NewRow, Insert
  <2>5. \A s \in files' : (\E r \in files : SameRow(r, s)) \/ s = NewRow(q)
    BY <1>0, <1>5, StoreCommitRows, DeleteCommitRows, RestoreInsertRows DEF OldRow
  <2> QED BY <2>1, <2>2, <2>4, <2>5
<1>6. \/ nextId' = nextId /\ files' = files
      \/ \E q \in Requests : UpdateCommit(q)
      \/ Trim \/ Purge
      \/ \E q \in Requests : StoreCommit(q) \/ DeleteCommit(q) \/ RestoreInsert(q)
  BY DEF Next, vars, StoreRead, UpdateRead, DeleteAlreadyDeleted, DeleteCheck,
         RestoreTarget, DeleteRead, DeleteNotFound, RestoreHistory, Abort, Tick
<1> HIDE DEF Old
<1> QED BY <1>1, <1>2, <1>3, <1>4, <1>5, <1>6

\* A step moves one request; only store_file_info's and the restore's reads
\* leave it with a revision to insert, and only the former with a file_id to
\* retire.
LEMMA RequestMoves ==
  ASSUME TypeOK, [Next]_vars, NEW q \in Requests
  PROVE  \/ req'[q] = req[q]
         \/ req'[q].op \notin {"store", "restore", "update"}
         \/ \E k \in Keys : StoreRead(q, k)
         \/ RestoreHistory(q)
         \/ IdCollisions /\ req'[q].op = "update"
<1>0. req \in [Requests -> Request]
  BY DEF TypeOK
<1> DEFINE Goal == \/ req'[q] = req[q]
                   \/ req'[q].op \notin {"store", "restore", "update"}
                   \/ \E k \in Keys : StoreRead(q, k)
                   \/ RestoreHistory(q)
                   \/ IdCollisions /\ req'[q].op = "update"
<1>1. ASSUME NEW p \in Requests, NEW k \in Keys, StoreRead(p, k) PROVE Goal
  <2>1. CASE p = q
    BY <1>1, <2>1
  <2>2. CASE p # q
    BY <1>0, <1>1, <2>2 DEF StoreRead
  <2> QED BY <2>1, <2>2
<1>2. ASSUME NEW p \in Requests, RestoreHistory(p) PROVE Goal
  <2>1. CASE p = q
    BY <1>2, <2>1
  <2>2. CASE p # q
    BY <1>0, <1>2, <2>2 DEF RestoreHistory
  <2> QED BY <2>1, <2>2
<1>3. ASSUME NEW p \in Requests, Finish(p) PROVE Goal
  BY <1>0, <1>3 DEF Finish, Idle
<1>4. ASSUME NEW p \in Requests,
             StoreCommit(p) \/ UpdateCommit(p) \/ DeleteNotFound(p)
               \/ DeleteCommit(p) \/ RestoreInsert(p) \/ Abort(p)
      PROVE Goal
  <2>1. Finish(p)
    BY <1>4 DEF StoreCommit, UpdateCommit, DeleteNotFound, DeleteCommit,
                RestoreInsert, Abort
  <2> QED BY <1>3, <2>1
<1>5. ASSUME NEW p \in Requests, NEW fid \in FileIds,
             UpdateRead(p, fid) \/ DeleteAlreadyDeleted(p, fid)
               \/ DeleteCheck(p, fid) \/ RestoreTarget(p, fid)
      PROVE Goal
  <2>1. CASE UpdateRead(p, fid)
    BY <1>0, <2>1 DEF UpdateRead
  <2>2. CASE DeleteAlreadyDeleted(p, fid) \/ DeleteCheck(p, fid) \/ RestoreTarget(p, fid)
    BY <1>0, <2>2 DEF DeleteAlreadyDeleted, DeleteCheck, RestoreTarget
  <2> QED BY <1>5, <2>1, <2>2
<1>6. ASSUME NEW p \in Requests, DeleteRead(p) PROVE Goal
  BY <1>0, <1>6 DEF DeleteRead
<1>7. ASSUME Trim \/ Purge \/ Tick \/ UNCHANGED vars PROVE Goal
  BY <1>7 DEF Trim, Purge, Tick, vars
<1> QED BY <1>1, <1>2, <1>4, <1>5, <1>6, <1>7 DEF Next

\* The snapshot of an upload: what is active and sole is of one file_id.
LEMMA StoreReadSnapshot ==
  ASSUME SupersedeInv, NEW q \in Requests, NEW k \in Keys, StoreRead(q, k)
  PROVE  SnapshotOK(q)' /\ NumbersAbove(q)'
<1> DEFINE V == Versions(k)
<1>0. /\ req \in [Requests -> Request]
      /\ nextId \in Nat
      /\ files' = files /\ nextId' = nextId
      /\ \A r \in files : r \in Row
  BY DEF SupersedeInv, TypeOK, StoreRead
<1>1. PICK m \in {0} \cup {r.rev : r \in V},
           old \in IF Active(V) = {} THEN {0} ELSE {r.fid : r \in Active(V)} :
        /\ IsMaxRevision(m, V)
        /\ req' = [req EXCEPT ![q] =
             [op |-> "store", key |-> k, old |-> old, rev |-> m + 1,
              upd |-> clock, begin |-> nextId,
              sole |-> \A r, s \in Active(V) : r = s]]
  BY DEF StoreRead
<1>2. /\ req'[q].op = "store" /\ req'[q].key = k /\ req'[q].old = old
      /\ req'[q].rev = m + 1 /\ req'[q].begin = nextId
      /\ req'[q].sole = (\A r, s \in Active(V) : r = s)
  BY <1>0, <1>1
<1>3. ASSUME req'[q].sole, NEW r \in files, r.key = k, ~r.del
      PROVE  r.fid = old
  <2>1. r.kind # "tombstone"
    BY <1>3 DEF SupersedeInv, RowsOK
  <2>2. r \in Active(V)
    BY <1>3, <2>1 DEF Active, Versions, InServerGroup
  <2>3. PICK s \in Active(V) : s.fid = old
    BY <1>1, <2>2
  <2> QED BY <1>2, <1>3, <2>2, <2>3
<1>4. SnapshotOK(q)'
  BY <1>0, <1>2, <1>3 DEF SnapshotOK
<1>5. m \in Nat
  BY <1>0, <1>1 DEF Versions, Row
<1>6. ASSUME NEW r \in files, r.key = k, InServerGroup(r) PROVE r.rev < m + 1
  <2>1. r \in V
    BY <1>6 DEF Versions
  <2>2. r.rev <= m
    BY <1>1, <2>1 DEF IsMaxRevision
  <2> QED BY <1>0, <1>5, <2>2 DEF Row
<1>7. NumbersAbove(q)'
  BY <1>0, <1>2, <1>6 DEF NumbersAbove, InServerGroup
<1> QED BY <1>4, <1>7

\* The history a restore reads holds every version of the key.
LEMMA RestoreHistorySnapshot ==
  ASSUME SupersedeInv, NEW q \in Requests, RestoreHistory(q)
  PROVE  SnapshotOK(q)' /\ NumbersAbove(q)'
<1> DEFINE H == History(req[q].key)
<1>0. /\ req \in [Requests -> Request]
      /\ nextId \in Nat
      /\ files' = files /\ nextId' = nextId
      /\ \A r \in files : r \in Row
  BY DEF SupersedeInv, TypeOK, RestoreHistory
<1>1. PICK m \in {0} \cup {r.rev : r \in H} :
        /\ IsMaxRevision(m, H)
        /\ req' = [req EXCEPT ![q] =
             [op |-> "restore", fid |-> req[q].fid, key |-> req[q].key,
              rev |-> m + 1, upd |-> clock, begin |-> nextId]]
  BY DEF RestoreHistory
<1>2. /\ req'[q].op = "restore" /\ req'[q].key = req[q].key
      /\ req'[q].rev = m + 1 /\ req'[q].begin = nextId
  BY <1>0, <1>1
<1>3. SnapshotOK(q)'
  BY <1>0, <1>2 DEF SnapshotOK
<1>4. m \in Nat
  BY <1>0, <1>1 DEF History, Row
<1>5. ASSUME NEW r \in files, r.key = req[q].key PROVE r.rev < m + 1
  <2>1. r \in H
    BY <1>5 DEF History
  <2>2. r.rev <= m
    BY <1>1, <2>1 DEF IsMaxRevision
  <2> QED BY <1>0, <1>4, <2>2 DEF Row
<1>6. NumbersAbove(q)'
  BY <1>0, <1>2, <1>5 DEF NumbersAbove
<1> QED BY <1>3, <1>6

\* No step of an upload, delete, restore or of retention breaks SupersedeInv.
LEMMA SupersedeStep == SupersedeInv /\ [Next]_vars => SupersedeInv'
<1> SUFFICES ASSUME SupersedeInv, [Next]_vars PROVE SupersedeInv'
  OBVIOUS
<1>1. TypeOK'
  BY TypeStep DEF SupersedeInv
<1>2. RowsOK'
  BY RowsStep
<1>3. ASSUME NEW q \in Requests PROVE SnapshotOK(q)'
  <2>1. CASE req'[q] = req[q]
    BY <2>1, RowsStep, QuietRequest DEF SupersedeInv
  <2>2. CASE req'[q].op \notin {"store", "restore"}
    BY <2>2 DEF SnapshotOK
  <2>3. CASE \E k \in Keys : StoreRead(q, k)
    BY <2>3, StoreReadSnapshot
  <2>4. CASE RestoreHistory(q)
    BY <2>4, RestoreHistorySnapshot
  <2> QED BY <2>1, <2>2, <2>3, <2>4, RequestMoves DEF SupersedeInv
<1> QED BY <1>1, <1>2, <1>3 DEF SupersedeInv

\* Holds initially: the table is empty and no request runs.
LEMMA SupersedeInit == Init => SupersedeInv
BY DEF Init, SupersedeInv, TypeOK, Request, RowsOK, SnapshotOK, Idle,
       UploadSupersedes, DeleteIsFinal

(***************************************************************************)
(* An upload that found at most one active version leaves none of the      *)
(* versions committed before it began active (store_file_info).            *)
(***************************************************************************)
THEOREM UploadsSupersede == Spec => []UploadSupersedes
<1>1. SupersedeInv => UploadSupersedes
  BY DEF SupersedeInv, RowsOK
<1> QED BY <1>1, SupersedeInit, SupersedeStep, PTL DEF Spec

(***************************************************************************)
(* No version committed before a delete of its key is ever active again    *)
(* (delete_file).                                                          *)
(***************************************************************************)
THEOREM DeletesAreFinal == Spec => []DeleteIsFinal
<1>1. SupersedeInv => DeleteIsFinal
  BY DEF SupersedeInv, RowsOK
<1> QED BY <1>1, SupersedeInit, SupersedeStep, PTL DEF Spec

-----------------------------------------------------------------------------
\* Without updates in place every row keeps its revision, and a new row is
\* the one its request carried.
LEMMA RevisionRows ==
  ASSUME SupersedeInv, [Next]_vars, \A q \in Requests : req[q].op # "update"
  PROVE  \/ \A s \in files' : OldRow(s)
         \/ \E q \in Requests :
              /\ req[q].op \in {"store", "tombstone", "restore"}
              /\ \A s \in files' : OldRow(s) \/ s = NewRow(q)
<1>0. TypeOK
  BY DEF SupersedeInv
<1>1. ASSUME files' = files PROVE \A s \in files' : OldRow(s)
  BY <1>0, <1>1, SameTable DEF OldRow
<1>2. ASSUME Trim \/ Purge PROVE \A s \in files' : OldRow(s)
  BY <1>0, <1>2, RetentionRows
<1>3. ASSUME NEW q \in Requests, StoreCommit(q) \/ DeleteCommit(q) \/ RestoreInsert(q)
      PROVE  /\ req[q].op \in {"store", "tombstone", "restore"}
             /\ \A s \in files' : OldRow(s) \/ s = NewRow(q)
  <2>1. req[q].op \in {"store", "tombstone", "restore"}
    BY <1>3 DEF StoreCommit, DeleteCommit, RestoreInsert
  <2>2. \A s \in files' : OldRow(s) \/ s = NewRow(q)
    BY <1>0, <1>3, StoreCommitRows, DeleteCommitRows, RestoreInsertRows DEF OldRow
  <2> QED BY <2>1, <2>2
<1>4. \A q \in Requests : ~UpdateCommit(q)
  BY DEF UpdateCommit
<1>5. \/ files' = files
      \/ Trim \/ Purge
      \/ \E q \in Requests : StoreCommit(q) \/ DeleteCommit(q) \/ RestoreInsert(q)
  BY <1>4 DEF Next, vars, StoreRead, UpdateRead, DeleteAlreadyDeleted, DeleteCheck,
         RestoreTarget, DeleteRead, DeleteNotFound, RestoreHistory, Abort, Tick
<1> QED BY <1>1, <1>2, <1>3, <1>5

\* No step of a request breaks the invariant on the order of revisions.
LEMMA RevisionStep ==
  ASSUME IdCollisions = FALSE, RevisionInv, [Next]_vars
  PROVE  RevisionInv'
<1>1. SupersedeInv'
  BY SupersedeStep DEF RevisionInv
<1>2. /\ SupersedeInv /\ TypeOK /\ RowsOK /\ nextId \in Nat
      /\ \A q \in Requests : req[q].op # "update"
      /\ \A r \in files : r \in Row
  BY DEF RevisionInv, SupersedeInv, TypeOK, NumbersAbove
<1>3. \A r \in files : r.id < nextId /\ r.begin <= r.id
  BY <1>2 DEF RowsOK
<1>4. RevisionsInRealTimeOrder'
  <2>1. CASE \A s \in files' : OldRow(s)
    <3> SUFFICES ASSUME NEW r \in files', NEW s \in files', r.key = s.key,
                        InServerGroup(r), InServerGroup(s), r.id < s.begin
                 PROVE r.rev < s.rev
      BY DEF RevisionsInRealTimeOrder, InServerGroup
    <3>1. PICK r0 \in files : SameRow(r0, r) /\ r.rev = r0.rev
      BY <2>1 DEF OldRow
    <3>2. PICK s0 \in files : SameRow(s0, s) /\ s.rev = s0.rev
      BY <2>1 DEF OldRow
    <3> QED BY <3>1, <3>2 DEF RevisionInv, RevisionsInRealTimeOrder, InServerGroup, SameRow
  <2>2. ASSUME NEW q \in Requests,
               req[q].op \in {"store", "tombstone", "restore"},
               \A s \in files' : OldRow(s) \/ s = NewRow(q)
        PROVE RevisionsInRealTimeOrder'
    <3> DEFINE n == NewRow(q)
    <3>1. /\ n.id = nextId /\ n.key = req[q].key /\ n.rev = req[q].rev
          /\ req[q].op \in {"store", "restore"} => n.begin = req[q].begin
          /\ req[q].op = "tombstone" => n.kind = "tombstone"
      BY <2>2 DEF NewRow, Insert
    <3>2. /\ SnapshotOK(q) /\ NumbersAbove(q)
          /\ req[q].op \in {"store", "restore"} => req[q].begin \in Nat
      BY <1>2, RequestByOp DEF RevisionInv, SupersedeInv, TypeOK, StoreReq, RestoreReq
    <3> SUFFICES ASSUME NEW r \in files', NEW s \in files', r.key = s.key,
                        InServerGroup(r), InServerGroup(s), r.id < s.begin
                 PROVE r.rev < s.rev
      BY DEF RevisionsInRealTimeOrder, InServerGroup
    <3> HIDE DEF n
    <3>3. CASE s = n
      <4>1. req[q].op \in {"store", "restore"}
        BY <2>2, <3>1, <3>3 DEF InServerGroup
      <4>2. r # n
        BY <1>2, <3>1, <3>2, <3>3, <4>1 DEF SnapshotOK
      <4>3. PICK r0 \in files : SameRow(r0, r) /\ r.rev = r0.rev
        BY <2>2, <4>2 DEF OldRow, n
      <4> QED BY <3>1, <3>2, <3>3, <4>1, <4>3 DEF NumbersAbove, InServerGroup, SameRow
    <3>4. CASE s # n
      <4>1. PICK s0 \in files : SameRow(s0, s) /\ s.rev = s0.rev
        BY <2>2, <3>4 DEF OldRow, n
      <4>2. r # n
        BY <1>2, <1>3, <3>1, <4>1 DEF SameRow, Row
      <4>3. PICK r0 \in files : SameRow(r0, r) /\ r.rev = r0.rev
        BY <2>2, <4>2 DEF OldRow, n
      <4> QED BY <4>1, <4>3 DEF RevisionInv, RevisionsInRealTimeOrder, InServerGroup, SameRow
    <3> QED BY <3>3, <3>4
  <2> QED BY <1>2, <2>1, <2>2, RevisionRows
<1>5. ASSUME NEW q \in Requests PROVE NumbersAbove(q)'
  <2>1. CASE req'[q] = req[q]
    <3>1. /\ SnapshotOK(q) /\ NumbersAbove(q)
          /\ req[q].op \in {"store", "restore"} => req[q].begin \in Nat
      BY <1>2, RequestByOp DEF RevisionInv, SupersedeInv, TypeOK, StoreReq, RestoreReq
    <3>2. \A s \in files' : OldRow(s) \/ s.id = nextId
      <4>1. ASSUME NEW p \in Requests, req[p].op \in {"store", "tombstone", "restore"}
            PROVE NewRow(p).id = nextId
        BY <4>1 DEF NewRow, Insert
      <4> QED BY <1>2, <4>1, RevisionRows
    <3>3. ASSUME req[q].op \in {"store", "restore"}, NEW s \in files',
                 s.key = req[q].key, InServerGroup(s), s.id < req[q].begin
          PROVE  s.rev < req[q].rev
      <4>1. s.id # nextId
        BY <1>2, <3>1, <3>3 DEF SnapshotOK
      <4>2. PICK r \in files : SameRow(r, s) /\ s.rev = r.rev
        BY <3>2, <4>1 DEF OldRow
      <4> QED BY <3>1, <3>3, <4>2 DEF NumbersAbove, InServerGroup, SameRow
    <3> QED BY <2>1, <3>1, <3>3 DEF NumbersAbove, InServerGroup
  <2>2. CASE req'[q].op \notin {"store", "restore", "update"}
    BY <2>2 DEF NumbersAbove
  <2>3. CASE \E k \in Keys : StoreRead(q, k)
    BY <1>2, <2>3, StoreReadSnapshot
  <2>4. CASE RestoreHistory(q)
    BY <1>2, <2>4, RestoreHistorySnapshot
  <2> QED BY <1>2, <2>1, <2>2, <2>3, <2>4, RequestMoves
<1> QED BY <1>1, <1>4, <1>5 DEF RevisionInv

(***************************************************************************)
(* When no request reuses the file_id of a stored file, the revisions      *)
(* store_file_info and restore_file_version hand out follow real time.     *)
(***************************************************************************)
THEOREM RevisionsOrdered ==
  ASSUME IdCollisions = FALSE
  PROVE  Spec => []RevisionsInRealTimeOrder
<1>1. Init => RevisionInv
  BY SupersedeInit DEF Init, RevisionInv, RevisionsInRealTimeOrder, NumbersAbove, Idle
<1>2. RevisionInv /\ [Next]_vars => RevisionInv'
  BY RevisionStep
<1>3. RevisionInv => RevisionsInRealTimeOrder
  BY DEF RevisionInv
<1> QED BY <1>1, <1>2, <1>3, PTL DEF Spec

-----------------------------------------------------------------------------
(***************************************************************************)
(* What trim_old_revisions keeps.  The rank of a version is the number of  *)
(* versions at least as recent, which the query counts.  If no two of them *)
(* are equally recent the ranks of n versions are 1 to n, each taken once; *)
(* so as many versions have a rank up to MaxRevisions as the smaller of    *)
(* the two.                                                                *)
(***************************************************************************)
Rank(S, r) == Cardinality({s \in S : s.upd >= r.upd})

\* The rank is at least 1 and at most n, and older versions rank higher.
LEMMA RankOrder ==
  ASSUME NEW S \in SUBSET Row, IsFiniteSet(S), NEW r \in S
  PROVE  /\ Rank(S, r) \in 1 .. Cardinality(S)
         /\ \A s \in S : s.upd < r.upd => Rank(S, r) < Rank(S, s)
<1> DEFINE M(x) == {s \in S : s.upd >= x.upd}
<1>1. \A x \in S : x.upd \in Nat
  BY DEF Row
<1>2. \A x \in S : /\ IsFiniteSet(M(x)) /\ Cardinality(M(x)) \in Nat
                  /\ Cardinality(M(x)) <= Cardinality(S)
  BY FS_Subset, FS_CardinalityType
<1>3. r \in M(r)
  BY <1>1
<1>4. Cardinality(M(r)) # 0
  BY <1>2, <1>3, FS_EmptySet
<1>5. Cardinality(S) \in Nat
  BY FS_CardinalityType
<1>6. ASSUME NEW s \in S, s.upd < r.upd PROVE Cardinality(M(r)) < Cardinality(M(s))
  <2>1. M(r) \subseteq M(s) /\ s \in M(s) /\ s \notin M(r)
    BY <1>1, <1>6
  <2>2. Cardinality(M(r)) <= Cardinality(M(s)) /\ Cardinality(M(r)) # Cardinality(M(s))
    BY <1>2, <2>1, FS_Subset
  <2> HIDE DEF M
  <2> QED
    BY <1>2, <2>2
<1> QED
  BY <1>2, <1>4, <1>5, <1>6 DEF Rank

\* So the versions of rank at most m are the smaller of m and n.
LEMMA RankCount ==
  ASSUME NEW S \in SUBSET Row, IsFiniteSet(S), NEW m \in Nat,
         \A r, s \in S : r.upd = s.upd => r = s
  PROVE  Cardinality({r \in S : Rank(S, r) <= m}) = Least(m, Cardinality(S))
<1> DEFINE n == Cardinality(S)
           f == [r \in S |-> Rank(S, r)]
           T == {r \in S : Rank(S, r) <= m}
           k == Least(m, n)
           g == [r \in T |-> Rank(S, r)]
<1>1. n \in Nat /\ k \in Nat /\ k <= n /\ k <= m
  BY FS_CardinalityType DEF Least
<1>2. \A r \in S : r.upd \in Nat /\ Rank(S, r) \in 1 .. n
  BY RankOrder DEF Row
<1>3. ASSUME NEW r \in S, NEW s \in S, Rank(S, r) = Rank(S, s) PROVE r = s
  <2>1. ~(r.upd < s.upd) /\ ~(s.upd < r.upd)
    BY <1>1, <1>2, <1>3, RankOrder
  <2> QED
    BY <1>2, <2>1
<1>4. f \in Injection(S, 1 .. n)
  BY <1>2, <1>3 DEF Injection, IsInjective
<1>5. IsFiniteSet(1 .. n) /\ Cardinality(1 .. n) = n
  BY <1>1, FS_Interval
<1>6. f \in Surjection(S, 1 .. n)
  BY <1>4, <1>5, FS_Injection
<1>7. \A i \in 1 .. n : \E r \in S : Rank(S, r) = i
  BY <1>6 DEF Surjection
<1>8. g \in Injection(T, 1 .. k)
  <2>1. \A r \in T : Rank(S, r) \in 1 .. k
    BY <1>1, <1>2 DEF Least
  <2> QED
    BY <1>3, <2>1 DEF Injection, IsInjective
<1>9. g \in Surjection(T, 1 .. k)
  <2>1. \A i \in 1 .. k : i \in 1 .. n /\ i <= m
    BY <1>1
  <2>2. \A i \in 1 .. k : \E r \in T : Rank(S, r) = i
    BY <1>7, <2>1
  <2> QED
    BY <1>8, <2>2 DEF Surjection, Injection
<1>10. IsFiniteSet(1 .. k) /\ Cardinality(1 .. k) = k
  BY <1>1, FS_Interval
<1>11. Cardinality(T) = Cardinality(1 .. k)
  BY <1>8, <1>9, <1>10, FS_Injection
<1> QED
  BY <1>10, <1>11

\* The image of a finite table is finite.
LEMMA ImageFinite ==
  ASSUME NEW S, IsFiniteSet(S), NEW f, DOMAIN f = S
  PROVE  IsFiniteSet({f[r] : r \in S})
<1> DEFINE T == {f[r] : r \in S}
           g == [r \in S |-> f[r]]
<1>1. g \in Surjection(S, T)
  BY DEF Surjection
<1> QED
  BY <1>1, FS_Surjection

\* MarkDeleted leaves a finite table finite.
LEMMA MarkFinite ==
  ASSUME IsFiniteSet(files), NEW D \in SUBSET files
  PROVE  IsFiniteSet({IF r \in D THEN Deleted(r) ELSE r : r \in files})
<1> DEFINE f == [r \in files |-> IF r \in D THEN Deleted(r) ELSE r]
<1>1. IsFiniteSet({f[r] : r \in files})
  BY ImageFinite
<1>2. {f[r] : r \in files} = {IF r \in D THEN Deleted(r) ELSE r : r \in files}
  OBVIOUS
<1> QED
  BY <1>1, <1>2

\* The table is always finite: a step inserts one row at most.
LEMMA FiniteStep == IsFiniteSet(files) /\ [Next]_vars => IsFiniteSet(files')
<1> SUFFICES ASSUME IsFiniteSet(files), [Next]_vars, files' # files
             PROVE  IsFiniteSet(files')
  OBVIOUS
<1> DEFINE Marked(D) == {IF r \in D THEN Deleted(r) ELSE r : r \in files}
<1>1. ASSUME NEW q \in Requests, StoreCommit(q) PROVE IsFiniteSet(files')
  <2> DEFINE D == {r \in files : r.fid = req[q].old}
             n == Insert(nextId, req[q].key, "upload", req[q].rev, FALSE,
                         req[q].upd, req[q].begin, req[q].sole)
  <2>1. files' = Marked(D) \cup {n}
    BY <1>1 DEF StoreCommit, MarkDeleted
  <2>2. IsFiniteSet(Marked(D))
    BY MarkFinite
  <2> HIDE DEF n, Marked, D
  <2> QED
    BY <2>1, <2>2, FS_AddElement
<1>2. ASSUME NEW q \in Requests, DeleteCommit(q) PROVE IsFiniteSet(files')
  <2> DEFINE D == {r \in files : r.fid = req[q].fid \/ r.key = req[q].key}
             n == Insert(nextId, req[q].key, "tombstone", req[q].rev, TRUE,
                         clock, nextId, FALSE)
  <2>1. files' = Marked(D) \cup {n}
    BY <1>2 DEF DeleteCommit, MarkDeleted
  <2>2. IsFiniteSet(Marked(D))
    BY MarkFinite
  <2> HIDE DEF n, Marked, D
  <2> QED
    BY <2>1, <2>2, FS_AddElement
<1>3. ASSUME NEW q \in Requests, RestoreInsert(q) PROVE IsFiniteSet(files')
  <2> DEFINE n == Insert(req[q].fid, req[q].key, "restored", req[q].rev, FALSE,
                         req[q].upd, req[q].begin, FALSE)
  <2>1. files' = files \cup {n}
    BY <1>3 DEF RestoreInsert
  <2> HIDE DEF n
  <2> QED
    BY <2>1, FS_AddElement
<1>4. ASSUME NEW q \in Requests, UpdateCommit(q) PROVE IsFiniteSet(files')
  <2> DEFINE f == [r \in files |-> IF r.fid = req[q].fid THEN Updated(r, req[q].upd) ELSE r]
  <2>1. files' = {f[r] : r \in files}
    BY <1>4 DEF UpdateCommit
  <2>2. DOMAIN f = files
    OBVIOUS
  <2> HIDE DEF f
  <2> QED
    BY <2>1, <2>2, ImageFinite
<1>5. ASSUME Trim PROVE IsFiniteSet(files')
  <2> DEFINE D == {r \in files : \E x \in Surplus : /\ r.key = x.key
                                                   /\ InServerGroup(r)
                                                   /\ r.fid = x.fid
                                                   /\ r.rev = x.rev}
  <2>1. files' = Marked(D)
    BY <1>5 DEF Trim, MarkDeleted
  <2> QED
    BY <2>1, MarkFinite
<1>6. ASSUME Purge PROVE IsFiniteSet(files')
  BY <1>6, FS_Subset DEF Purge
<1>7. \/ \E q \in Requests : \/ StoreCommit(q) \/ DeleteCommit(q)
                            \/ RestoreInsert(q) \/ UpdateCommit(q)
      \/ Trim \/ Purge
  BY DEF Next, vars, StoreRead, UpdateRead, DeleteAlreadyDeleted, DeleteCheck,
         RestoreTarget, DeleteRead, DeleteNotFound, RestoreHistory, Abort, Tick
<1> QED
  BY <1>1, <1>2, <1>3, <1>4, <1>5, <1>6, <1>7

\* What a trim leaves of the active versions of a key that no two restores
\* gave the same file_id and revision: those of a rank up to MaxRevisions.
LEMMA TrimRanks ==
  ASSUME TypeOK, RowsOK, IsFiniteSet(files), Trim, NEW k \in Keys,
         \A r, s \in Active(Versions(k)) : r.fid = s.fid /\ r.rev = s.rev => r = s
  PROVE  {r \in files' : r.key = k /\ ~r.del} =
           {r \in Active(Versions(k)) : Rank(Active(Versions(k)), r) <= MaxRevisions}
<1> DEFINE A == Active(Versions(k))
           C(r) == \E x \in Surplus : /\ r.key = x.key
                                     /\ InServerGroup(r)
                                     /\ r.fid = x.fid
                                     /\ r.rev = x.rev
<1>1. files' = {IF C(r) THEN Deleted(r) ELSE r : r \in files}
  BY DEF Trim, MarkDeleted
<1>2. \A r \in files : Deleted(r).del
  BY DEF TypeOK, Row, Deleted
<1>3. \A r : r \in files' /\ ~r.del <=> r \in files /\ ~r.del /\ ~C(r)
  BY <1>1, <1>2
<1>4. \A r \in files : r.key = k /\ ~r.del <=> r \in A
  BY DEF RowsOK, Active, Versions, InServerGroup
<1>5. \A r \in A : r.key = k /\ InServerGroup(r) /\ r \in Active(files)
  BY DEF Active, Versions
<1>6. \A r \in A : r \in Surplus <=> Rank(A, r) > MaxRevisions
  BY <1>5 DEF Surplus, Rank
<1>7. \A x \in Surplus : x.key = k => x \in A
  BY DEF Surplus, Active, Versions
<1>8. \A r \in A : C(r) <=> r \in Surplus
  BY <1>5, <1>7
<1>9. A \in SUBSET Row /\ IsFiniteSet(A) /\ Cardinality(A) \in Nat
  BY FS_Subset, FS_CardinalityType DEF TypeOK, Active, Versions
<1> HIDE DEF A
<1>10. \A r \in A : Rank(A, r) \in Nat
  BY <1>9, RankOrder
<1>11. \A r \in A : ~C(r) <=> Rank(A, r) <= MaxRevisions
  BY <1>6, <1>8, <1>10, TableAssumption
<1>12. \A r : r \in files' /\ r.key = k /\ ~r.del <=>
             r \in A /\ Rank(A, r) <= MaxRevisions
  <2>1. \A r \in A : r \in files
    BY DEF A, Active, Versions
  <2> QED
    BY <1>3, <1>4, <1>11, <2>1
<1> QED
  BY <1>12 DEF A

(***************************************************************************)
(* trim_old_revisions keeps the newest MaxRevisions active versions of a   *)
(* key, and only those, when no two of them carry the same updated_time,   *)
(* nor the same file_id and revision.                                      *)
(***************************************************************************)
THEOREM TrimsKeepNewest == Spec => TrimKeepsNewest
<1> DEFINE Kept(k) ==
             LET A == Active(Versions(k))
                 B == {r \in files' : r.key = k /\ ~r.del}
             IN  (\A r, s \in A :
                    (r.upd = s.upd \/ (r.fid = s.fid /\ r.rev = s.rev)) => r = s) =>
                   /\ Cardinality(B) = Least(MaxRevisions, Cardinality(A))
                   /\ \A r \in A, s \in B : r.upd > s.upd => r \in B
           FiniteInv == SupersedeInv /\ IsFiniteSet(files)
<1>1. ASSUME FiniteInv, Trim, NEW k \in Keys PROVE Kept(k)
  <2> DEFINE A == Active(Versions(k))
             B == {r \in files' : r.key = k /\ ~r.del}
  <2> SUFFICES ASSUME \A r, s \in A :
                        (r.upd = s.upd \/ (r.fid = s.fid /\ r.rev = s.rev)) => r = s
               PROVE  /\ Cardinality(B) = Least(MaxRevisions, Cardinality(A))
                      /\ \A r \in A, s \in B : r.upd > s.upd => r \in B
    OBVIOUS
  <2>1. TypeOK /\ RowsOK /\ IsFiniteSet(files)
    BY <1>1 DEF SupersedeInv
  <2>2. B = {r \in A : Rank(A, r) <= MaxRevisions}
    BY <1>1, <2>1, TrimRanks
  <2>3. A \in SUBSET Row /\ IsFiniteSet(A) /\ Cardinality(A) \in Nat
    BY <2>1, FS_Subset, FS_CardinalityType DEF TypeOK, Active, Versions
  <2> HIDE DEF A, B
  <2>4. Cardinality(B) = Least(MaxRevisions, Cardinality(A))
    BY <2>2, <2>3, RankCount, TableAssumption
  <2>5. ASSUME NEW r \in A, NEW s \in B, r.upd > s.upd PROVE r \in B
    <3>1. s \in A /\ Rank(A, s) <= MaxRevisions /\ r.upd \in Nat /\ s.upd \in Nat
      BY <2>2, <2>3 DEF Row
    <3>2. Rank(A, r) < Rank(A, s) /\ Rank(A, r) \in Nat /\ Rank(A, s) \in Nat
      BY <2>3, <2>5, <3>1, RankOrder
    <3> QED
      BY <2>2, <3>1, <3>2, TableAssumption
  <2> QED
    BY <2>4, <2>5
<1>2. FiniteInv => [Trim => \A k \in Keys : Kept(k)]_vars
  BY <1>1
<1>3. Init => FiniteInv
  BY SupersedeInit, FS_EmptySet DEF Init
<1>4. FiniteInv /\ [Next]_vars => FiniteInv'
  BY SupersedeStep, FiniteStep
<1> QED
  BY <1>2, <1>3, <1>4, PTL DEF Spec, TrimKeepsNewest
=============================================================================
