--------------------------- MODULE FileDataProofs ---------------------------
(***************************************************************************)
(* Proofs about FileData: for any number of files and requests, what an    *)
(* upload or a restore answered with success is in the file storage, and   *)
(* with the database as file storage it reads back as it was uploaded.     *)
(*                                                                         *)
(* The properties are not inductive by themselves.  DataInv adds what a    *)
(* request has in hand between its steps: bytes to store, a file whose     *)
(* data is stored, or a file it reads back after storing it.               *)
(* CellInv does the same for the cell that guards the check of the bucket. *)
(***************************************************************************)
EXTENDS FileData, FiniteSetTheorems, TLAPS

\* The configured file storage holds the data of f.
Safe(f) ==
  /\ backend = "database" => db[f] = "full"
  /\ backend = "s3" => objects[f] # "none"

\* With the database, d is missing or is what was uploaded.
Whole(d) == backend = "database" => d \in {"none", "full"}

\* What request r has in hand.
HandOK(r) ==
  /\ r.op \in {"store", "head", "create", "put"} => r.why \in {"upload", "restore"}
  /\ r.op = "cache" => r.why \in {"upload", "restore", "reread"}
  /\ r.op \in {"get", "get_db"} => r.why \in {"download", "restore", "reread"}
  /\ r.op \in {"head", "create", "put"} => backend = "s3"
  /\ r.op \in {"store", "head", "create", "put", "cache"} =>
       r.got # "none" /\ Whole(r.got)
  /\ (r.op \in {"cache", "row"} \/ r.why = "reread") => Safe(r.f)

\* What the stores and the cache hold for f.
StoreOK(f) ==
  /\ Whole(db[f])
  /\ Whole(cache[f])
  /\ backend = "database" /\ cache[f] # "none" => db[f] = "full"

DataInv ==
  /\ TypeOK
  /\ \A q \in Requests : HandOK(req[q])
  /\ \A f \in Files : StoreOK(f)
  /\ \A f \in acked : Safe(f)

-----------------------------------------------------------------------------
(***************************************************************************)
(* The request a handler leaves behind when it returns has its type.       *)
(***************************************************************************)
LEMMA IdleType == Idle \in Request
BY DEF Idle, Request, Data, NoFile

(***************************************************************************)
(* A request that finishes, or moves on with a file, keeps the type of the *)
(* request table.                                                          *)
(***************************************************************************)
LEMMA RequestType ==
  ASSUME req \in [Requests -> Request],
         \A q \in Requests : (req[q].op = "idle") <=> (req[q].f = NoFile),
         NEW q \in Requests, NEW r \in Request,
         (r.op = "idle") <=> (r.f = NoFile),
         req' = [req EXCEPT ![q] = r]
  PROVE  /\ req' \in [Requests -> Request]
         /\ \A p \in Requests : (req[p].op = "idle")' <=> (req[p].f = NoFile)'
OBVIOUS

(***************************************************************************)
(* A step of request q that leaves the data alone, the rows and the bucket *)
(* perhaps not, keeps DataInv if what q then has in hand is right.         *)
(***************************************************************************)
Quiet ==
  /\ UNCHANGED <<backend, db, objects, cache, acked>>
  /\ meta' \in [Files -> Meta]
  /\ bucket' \in BOOLEAN
  /\ ready' \in {"unset", "checking", "ok", "err"}

\* Request q goes on as r; and r is q itself with its next operation.
With(q, op) == [req[q] EXCEPT !.op = op]
Becomes(q, r) == req' = [req EXCEPT ![q] = r]

\* A step that stores, drops and caches no contents keeps the invariant.
LEMMA QuietStep ==
  ASSUME DataInv, Quiet,
         NEW q \in Requests, NEW r \in Request,
         (r.op = "idle") <=> (r.f = NoFile),
         HandOK(r),
         Becomes(q, r)
  PROVE  DataInv'
<1>1. TypeOK'
  BY RequestType DEF DataInv, TypeOK, Quiet, Becomes
<1>2. \A p \in Requests : HandOK(req[p])'
  BY DEF DataInv, TypeOK, Quiet, Becomes, HandOK, Whole, Safe
<1> QED
  BY <1>1, <1>2 DEF DataInv, Quiet, StoreOK, Whole, Safe

\* QuietStep for a request that is answered or given up.
LEMMA FinishStep ==
  ASSUME DataInv, Quiet, NEW q \in Requests, Finish(q)
  PROVE  DataInv'
<1>1. HandOK(Idle) /\ Idle.op = "idle" /\ Idle.f = NoFile
  BY DEF HandOK, Idle
<1>2. Becomes(q, Idle)
  BY DEF Finish, Becomes
<1> QED
  BY <1>1, <1>2, IdleType, QuietStep

Ops == {"idle", "known", "store", "head", "create", "put", "cache",
        "get", "get_db", "row", "delete_check", "delete", "uncache"}
Whys == {"none", "upload", "restore", "reread", "download"}
Asked(op, why, f, got) == [op |-> op, why |-> why, f |-> f, got |-> got]

\* A request that a handler has started on a file has its type.
LEMMA AskedType ==
  ASSUME NEW op \in Ops \ {"idle"}, NEW why \in Whys, NEW f \in Files, NEW got \in Data
  PROVE  /\ Asked(op, why, f, got) \in Request
         /\ Asked(op, why, f, got).op # "idle"
         /\ Asked(op, why, f, got).f # NoFile
BY FilesAssumption DEF Asked, Request, Ops, Whys, NoFile, Files

\* QuietStep for a request that a handler starts, with what it has in hand.
LEMMA StartStep ==
  ASSUME DataInv, Quiet, NEW q \in Requests,
         NEW op \in Ops \ {"idle"}, NEW why \in Whys, NEW f \in Files, NEW got \in Data,
         HandOK(Asked(op, why, f, got)),
         Start(q, op, why, f, got)
  PROVE  DataInv'
<1>1. Becomes(q, Asked(op, why, f, got))
  BY DEF Start, Becomes, Asked
<1> QED
  BY <1>1, AskedType, QuietStep

\* QuietStep for a handler that goes on with its next call.
LEMMA NextOp ==
  ASSUME DataInv, Quiet, NEW q \in Requests, req[q].op # "idle",
         NEW op \in Ops \ {"idle"},
         HandOK(With(q, op)),
         Becomes(q, With(q, op))
  PROVE  DataInv'
<1>1. req[q] \in Request /\ req[q].f # NoFile
  BY DEF DataInv, TypeOK
<1>2. With(q, op) \in Request /\ With(q, op).op # "idle" /\ With(q, op).f # NoFile
  BY <1>1 DEF Request, Ops, With
<1> QED
  BY <1>2, QuietStep

(***************************************************************************)
(* What follows a read that returned d: a download ends, a copy stores d   *)
(* unless it is missing, and a restore that reads back caches d.           *)
(***************************************************************************)
LEMMA GotStep ==
  ASSUME DataInv, NEW q \in Requests, NEW d \in Data,
         req[q].f \in Files, req[q].op \in {"get", "get_db"}, Whole(d),
         req[q].why = "reread" => Safe(req[q].f),
         req[q].why = "reread" /\ backend = "database" => d # "none",
         GotFileData(q, d)
  PROVE  DataInv'
<1>1. Quiet /\ req[q].why \in {"download", "restore", "reread"}
  BY DEF GotFileData, Quiet, stores, DataInv, TypeOK, HandOK
<1>2. CASE Finish(q)
  BY <1>1, <1>2, FinishStep
<1>3. CASE req[q].why = "restore" /\ d # "none"
  <2>1. Start(q, "store", "restore", req[q].f, d)
    BY <1>3 DEF GotFileData, CopyFileData
  <2>2. HandOK(Asked("store", "restore", req[q].f, d))
    BY <1>3 DEF Asked, HandOK
  <2> QED
    BY <1>1, <2>1, <2>2, StartStep DEF Ops, Whys
<1>4. CASE req[q].why = "reread"
  <2> DEFINE e == IF d = "none" THEN "empty" ELSE d
  <2>1. Start(q, "cache", "reread", req[q].f, e) /\ e \in Data
    BY <1>4 DEF GotFileData, Reread, Data
  <2>2. HandOK(Asked("cache", "reread", req[q].f, e))
    BY <1>4 DEF Asked, HandOK, Whole
  <2> HIDE DEF e
  <2> QED
    BY <1>1, <2>1, <2>2, StartStep DEF Ops, Whys
<1>5. CASE req[q].why = "restore" /\ d = "none"
  BY <1>2, <1>5 DEF GotFileData, CopyFileData
<1>6. CASE req[q].why = "download"
  BY <1>2, <1>6 DEF GotFileData
<1> QED
  BY <1>1, <1>3, <1>4, <1>5, <1>6

(***************************************************************************)
(* Every step of a handler, the purge and a restart keep DataInv.          *)
(***************************************************************************)
LEMMA DataStep == DataInv /\ [Next]_vars => DataInv'
<1> SUFFICES ASSUME DataInv, [Next]_vars PROVE DataInv'
  OBVIOUS
<1>1. ASSUME NEW q \in Requests, StorageFails(q) PROVE DataInv'
  <2>1. Quiet /\ Finish(q)
    BY <1>1 DEF StorageFails, Quiet, stores, DataInv, TypeOK
  <2> QED
    BY <2>1, FinishStep
<1>2. ASSUME NEW q \in Requests, StoreDatabase(q) PROVE DataInv'
  <2> USE <1>2 DEF StoreDatabase, DataInv
  <2>1. TypeOK'
    BY FilesAssumption
       DEF TypeOK, Request, Data, Meta, Files, NoFile, Idle, Finish, HandOK, Whole, stores
  <2>2. \A p \in Requests : HandOK(req[p])'
    BY DEF TypeOK, Request, HandOK, Whole, Safe, StoreOK, Idle, Finish, stores
  <2>3. \A f \in Files : StoreOK(f)'
    BY DEF TypeOK, Request, HandOK, StoreOK, Whole, Safe, stores
  <2>4. \A f \in acked' : Safe(f)'
    BY DEF TypeOK, Request, HandOK, Whole, Safe, stores
  <2> QED
    BY <2>1, <2>2, <2>3, <2>4
<1>3. ASSUME NEW q \in Requests, CheckBucket(q) PROVE DataInv'
  <2>1. Quiet /\ req[q].op # "idle" /\ Becomes(q, With(q, "head"))
    BY <1>3 DEF CheckBucket, Quiet, stores, DataInv, TypeOK, Becomes, With
  <2>2. HandOK(With(q, "head"))
    BY <1>3 DEF CheckBucket, HandOK, DataInv, TypeOK, Request, With
  <2> QED
    BY <2>1, <2>2, NextOp DEF Ops
<1>4. ASSUME NEW q \in Requests, HeadBucket(q) PROVE DataInv'
  <2>1. Quiet /\ req[q].op # "idle"
    BY <1>4 DEF HeadBucket, Quiet, stores, DataInv, TypeOK
  <2>2. CASE Becomes(q, With(q, "put")) /\ HandOK(With(q, "put"))
    BY <2>1, <2>2, NextOp DEF Ops
  <2>3. CASE Becomes(q, With(q, "create")) /\ HandOK(With(q, "create"))
    BY <2>1, <2>3, NextOp DEF Ops
  <2>4. CASE Finish(q)
    BY <2>1, <2>4, FinishStep
  <2> QED
    BY <1>4, <2>2, <2>3, <2>4
       DEF HeadBucket, HandOK, DataInv, TypeOK, Request, Becomes, With
<1>5. ASSUME NEW q \in Requests, CreateBucket(q) PROVE DataInv'
  <2> bucket' \in BOOLEAN
    BY <1>5, Zenon DEF CreateBucket, DataInv, TypeOK
  <2>1. Quiet /\ req[q].op # "idle"
    BY <1>5 DEF CreateBucket, Quiet, stores, DataInv, TypeOK
  <2>2. CASE Becomes(q, With(q, "put")) /\ HandOK(With(q, "put"))
    BY <2>1, <2>2, NextOp DEF Ops
  <2>3. CASE Finish(q)
    BY <2>1, <2>3, FinishStep
  <2> QED
    BY <1>5, <2>2, <2>3
       DEF CreateBucket, HandOK, DataInv, TypeOK, Request, Becomes, With
<1>6. ASSUME NEW q \in Requests, BucketKnown(q) PROVE DataInv'
  <2>1. Quiet /\ req[q].op # "idle"
    BY <1>6 DEF BucketKnown, Quiet, stores, DataInv, TypeOK
  <2>2. CASE Becomes(q, With(q, "put")) /\ HandOK(With(q, "put"))
    BY <2>1, <2>2, NextOp DEF Ops
  <2>3. CASE Finish(q)
    BY <2>1, <2>3, FinishStep
  <2> QED
    BY <1>6, <2>2, <2>3
       DEF BucketKnown, HandOK, DataInv, TypeOK, Request, Becomes, With
<1>7. ASSUME NEW q \in Requests, PutObject(q) PROVE DataInv'
  <2> USE <1>7 DEF PutObject, DataInv
  <2>1. TypeOK'
    BY FilesAssumption
       DEF TypeOK, Request, Data, Meta, Files, NoFile, Idle, Finish, HandOK, Whole, stores
  <2>2. \A p \in Requests : HandOK(req[p])'
    BY DEF TypeOK, Request, HandOK, Whole, Safe, StoreOK, Idle, Finish, stores
  <2>3. \A f \in Files : StoreOK(f)'
    BY DEF TypeOK, Request, HandOK, StoreOK, Whole, Safe, stores
  <2>4. \A f \in acked' : Safe(f)'
    BY DEF TypeOK, Request, HandOK, Whole, Safe, stores
  <2> QED
    BY <2>1, <2>2, <2>3, <2>4
<1>8. ASSUME NEW q \in Requests, CacheInsert(q) PROVE DataInv'
  <2> DEFINE g == req[q].f
  <2>1. /\ g \in Files /\ Safe(g) /\ req[q].got \in Data
        /\ req[q].got # "none" /\ Whole(req[q].got)
        /\ req[q].why \in {"upload", "restore", "reread"}
    BY <1>8 DEF CacheInsert, DataInv, TypeOK, Request, HandOK
  <2>2. acked' = acked \cup {g} \/ acked' = acked
    BY <1>8, <2>1, Zenon DEF CacheInsert
  <2>3. PICK r \in Request : /\ Becomes(q, r)
                             /\ (r.op = "idle") <=> (r.f = NoFile)
                             /\ HandOK(r)
    <3>1. CASE req[q].why = "upload"
      <4>1. Becomes(q, Idle) /\ HandOK(Idle) /\ Idle.op = "idle" /\ Idle.f = NoFile
        BY <1>8, <3>1 DEF CacheInsert, Finish, Becomes, HandOK, Idle
      <4> QED
        BY <4>1, IdleType
    <3>2. CASE req[q].why = "restore"
      <4> DEFINE a == Asked("get", "reread", g, "none")
      <4>1. Becomes(q, a)
        BY <1>8, <3>2 DEF CacheInsert, Start, Becomes, Asked
      <4>2. HandOK(a)
        BY <2>1 DEF HandOK, Asked
      <4>3. a \in Request /\ a.op # "idle" /\ a.f # NoFile
        BY <2>1, AskedType DEF Ops, Whys, Data
      <4> QED
        BY <4>1, <4>2, <4>3
    <3>3. CASE req[q].why = "reread"
      <4> DEFINE a == Asked("row", "restore", g, "none")
      <4>1. Becomes(q, a)
        BY <1>8, <3>3 DEF CacheInsert, Start, Becomes, Asked
      <4>2. HandOK(a)
        BY <2>1 DEF HandOK, Asked
      <4>3. a \in Request /\ a.op # "idle" /\ a.f # NoFile
        BY <2>1, AskedType DEF Ops, Whys, Data
      <4> QED
        BY <4>1, <4>2, <4>3
    <3> QED
      BY <2>1, <3>1, <3>2, <3>3
  <2>4. /\ UNCHANGED <<backend, meta, db, objects, bucket, ready>>
        /\ cache' = [cache EXCEPT ![g] = req[q].got]
    BY <1>8 DEF CacheInsert, stores
  <2>5. TypeOK'
    BY <2>1, <2>2, <2>3, <2>4, RequestType DEF DataInv, TypeOK, Becomes
  <2>6. \A p \in Requests : HandOK(req[p])'
    BY <2>3, <2>4 DEF DataInv, TypeOK, Becomes, HandOK, Whole, Safe
  <2>7. \A f \in Files : StoreOK(f)'
    BY <2>1, <2>4 DEF DataInv, TypeOK, StoreOK, Whole, Safe
  <2>8. \A f \in acked' : Safe(f)'
    BY <2>1, <2>2, <2>4 DEF DataInv, Safe
  <2> QED
    BY <2>5, <2>6, <2>7, <2>8 DEF DataInv
<1>9. ASSUME NEW q \in Requests, GetCached(q) PROVE DataInv'
  <2> DEFINE d == cache[req[q].f]
  <2>1. GotFileData(q, d) /\ req[q].op \in {"get", "get_db"}
    BY <1>9 DEF GetCached
  <2>2. /\ req[q].f \in Files /\ d \in Data /\ Whole(d)
        /\ req[q].why = "reread" => Safe(req[q].f)
    BY <2>1 DEF DataInv, TypeOK, Request, StoreOK, HandOK
  <2>3. req[q].why = "reread" /\ backend = "database" => d # "none"
    BY <1>9, <2>2 DEF GetCached, Safe
  <2> HIDE DEF d
  <2> QED
    BY <2>1, <2>2, <2>3, GotStep
<1>10. ASSUME NEW q \in Requests, GetStored(q) PROVE DataInv'
  <2> DEFINE d == db[req[q].f]
  <2>1. GotFileData(q, d) /\ req[q].op \in {"get", "get_db"}
    BY <1>10 DEF GetStored
  <2>2. /\ req[q].f \in Files /\ d \in Data /\ Whole(d)
        /\ req[q].why = "reread" => Safe(req[q].f)
    BY <2>1 DEF DataInv, TypeOK, Request, StoreOK, HandOK
  <2>3. req[q].why = "reread" /\ backend = "database" => d # "none"
    BY <1>10, <2>2 DEF GetStored, Safe
  <2> HIDE DEF d
  <2> QED
    BY <2>1, <2>2, <2>3, GotStep
<1>11. ASSUME NEW q \in Requests, GetMissed(q) PROVE DataInv'
  <2>1. Quiet /\ req[q].op # "idle" /\ Becomes(q, With(q, "get_db"))
    BY <1>11 DEF GetMissed, Quiet, stores, DataInv, TypeOK, Becomes, With
  <2>2. HandOK(With(q, "get_db"))
    BY <1>11 DEF GetMissed, HandOK, DataInv, TypeOK, Request, With
  <2> QED
    BY <2>1, <2>2, NextOp DEF Ops
<1>12. ASSUME NEW q \in Requests, DeleteRows(q) PROVE DataInv'
  <2>1. Quiet /\ req[q].op # "idle"
    BY <1>12 DEF DeleteRows, Quiet, stores, DataInv, TypeOK, Meta
  <2>2. CASE Becomes(q, With(q, "uncache")) /\ HandOK(With(q, "uncache"))
    BY <2>1, <2>2, NextOp DEF Ops
  <2>3. CASE Finish(q)
    BY <2>1, <2>3, FinishStep
  <2> QED
    BY <1>12, <2>2, <2>3 DEF DeleteRows, HandOK, DataInv, TypeOK, Request, Becomes, With
<1>13. ASSUME NEW q \in Requests, Uncache(q) PROVE DataInv'
  <2> USE <1>13 DEF Uncache, DataInv
  <2>1. TypeOK'
    BY FilesAssumption
       DEF TypeOK, Request, Data, Meta, Files, NoFile, Idle, Finish, HandOK, Whole, stores
  <2>2. \A p \in Requests : HandOK(req[p])'
    BY DEF TypeOK, Request, HandOK, Whole, Safe, StoreOK, Idle, Finish, stores
  <2>3. \A f \in Files : StoreOK(f)'
    BY DEF TypeOK, Request, HandOK, StoreOK, Whole, Safe, stores
  <2>4. \A f \in acked' : Safe(f)'
    BY DEF TypeOK, Request, HandOK, Whole, Safe, stores
  <2> QED
    BY <2>1, <2>2, <2>3, <2>4
<1>14. ASSUME NEW q \in Requests, RestoreRow(q) PROVE DataInv'
  <2> USE <1>14 DEF RestoreRow, DataInv
  <2>1. TypeOK'
    BY FilesAssumption
       DEF TypeOK, Request, Data, Meta, Files, NoFile, Idle, Finish, HandOK, Whole, stores
  <2>2. \A p \in Requests : HandOK(req[p])'
    BY DEF TypeOK, Request, HandOK, Whole, Safe, StoreOK, Idle, Finish, stores
  <2>3. \A f \in Files : StoreOK(f)'
    BY DEF TypeOK, Request, HandOK, StoreOK, Whole, Safe, stores
  <2>4. \A f \in acked' : Safe(f)'
    BY DEF TypeOK, Request, HandOK, Whole, Safe, stores
  <2> QED
    BY <2>1, <2>2, <2>3, <2>4
<1>15. ASSUME NEW q \in Requests, DownloadFile(q) PROVE DataInv'
  <2>1. Quiet /\ req[q].f \in Files
    BY <1>15 DEF DownloadFile, Quiet, stores, DataInv, TypeOK, Request
  <2>2. CASE Start(q, "get", "download", req[q].f, "none")
    <3>1. HandOK(Asked("get", "download", req[q].f, "none"))
      BY DEF Asked, HandOK
    <3> QED
      BY <2>1, <2>2, <3>1, StartStep DEF Ops, Whys, Data
  <2>3. CASE Finish(q)
    BY <2>1, <2>3, FinishStep
  <2> QED
    BY <1>15, <2>2, <2>3 DEF DownloadFile
<1>16. ASSUME NEW q \in Requests, DeleteById(q) PROVE DataInv'
  <2>1. Quiet /\ req[q].op # "idle"
    BY <1>16 DEF DeleteById, Quiet, stores, DataInv, TypeOK, SeesActive
  <2>2. CASE Becomes(q, With(q, "delete_check")) /\ HandOK(With(q, "delete_check"))
    BY <2>1, <2>2, NextOp DEF Ops
  <2>3. CASE Finish(q)
    BY <2>1, <2>3, FinishStep
  <2> QED
    BY <1>16, <2>2, <2>3
       DEF DeleteById, HandOK, DataInv, TypeOK, Request, Becomes, With, SeesActive
<1>17. ASSUME NEW q \in Requests, DeleteCheck(q) PROVE DataInv'
  <2>1. Quiet /\ req[q].op # "idle"
    BY <1>17 DEF DeleteCheck, Quiet, stores, DataInv, TypeOK, SeesActive
  <2>2. CASE Becomes(q, With(q, "delete")) /\ HandOK(With(q, "delete"))
    BY <2>1, <2>2, NextOp DEF Ops
  <2>3. CASE Finish(q)
    BY <2>1, <2>3, FinishStep
  <2> QED
    BY <1>17, <2>2, <2>3
       DEF DeleteCheck, HandOK, DataInv, TypeOK, Request, Becomes, With, SeesActive
<1>18. ASSUME NEW q \in Requests, Cancel(q) PROVE DataInv'
  <2>1. Quiet /\ Finish(q)
    BY <1>18 DEF Cancel, Quiet, stores, DataInv, TypeOK
  <2> QED
    BY <2>1, FinishStep
<1>19. ASSUME NEW q \in Requests, NEW f \in Files, UploadInfo(q, f) PROVE DataInv'
  <2>1. Quiet /\ Start(q, "store", "upload", f, "full")
    BY <1>19 DEF UploadInfo, Quiet, stores, DataInv, TypeOK, Meta, Retire
  <2>2. HandOK(Asked("store", "upload", f, "full"))
    BY DEF Asked, HandOK, Whole
  <2> QED
    BY <2>1, <2>2, StartStep DEF Ops, Whys, Data
<1>20. ASSUME NEW q \in Requests, NEW f \in Files, ListFiles(q, f) PROVE DataInv'
  <2>1. Quiet /\ Start(q, "known", "none", f, "none")
    BY <1>20 DEF ListFiles, Quiet, stores, DataInv, TypeOK, Meta, Learn
  <2>2. HandOK(Asked("known", "none", f, "none"))
    BY DEF Asked, HandOK, Whole
  <2> QED
    BY <2>1, <2>2, StartStep DEF Ops, Whys, Data
<1>21. ASSUME NEW q \in Requests, NEW f \in Files, FindFile(q, f) PROVE DataInv'
  <2>1. Quiet /\ Start(q, "known", "none", f, "none")
    BY <1>21 DEF FindFile, Quiet, stores, DataInv, TypeOK, Meta, Learn
  <2>2. HandOK(Asked("known", "none", f, "none"))
    BY DEF Asked, HandOK, Whole
  <2> QED
    BY <2>1, <2>2, StartStep DEF Ops, Whys, Data
<1>22. ASSUME NEW q \in Requests, NEW f \in Files, CheckFileExists(q, f) PROVE DataInv'
  <2>1. Quiet /\ Start(q, "known", "none", f, "none")
    BY <1>22 DEF CheckFileExists, Quiet, stores, DataInv, TypeOK, Meta, Learn
  <2>2. HandOK(Asked("known", "none", f, "none"))
    BY DEF Asked, HandOK, Whole
  <2> QED
    BY <2>1, <2>2, StartStep DEF Ops, Whys, Data
<1>23. ASSUME NEW q \in Requests, NEW f \in Files, DeleteByPath(q, f) PROVE DataInv'
  <2>1. Quiet /\ Start(q, "delete_check", "none", f, "none")
    BY <1>23 DEF DeleteByPath, Quiet, stores, DataInv, TypeOK, Meta
  <2>2. HandOK(Asked("delete_check", "none", f, "none"))
    BY DEF Asked, HandOK, Whole
  <2> QED
    BY <2>1, <2>2, StartStep DEF Ops, Whys, Data
<1>24. ASSUME NEW q \in Requests, NEW f \in Files, RestoreFileVersion(q, f) PROVE DataInv'
  <2>1. Quiet /\ Start(q, "get", "restore", f, "none")
    BY <1>24 DEF RestoreFileVersion, Quiet, stores, DataInv, TypeOK, Meta
  <2>2. HandOK(Asked("get", "restore", f, "none"))
    BY DEF Asked, HandOK, Whole
  <2> QED
    BY <2>1, <2>2, StartStep DEF Ops, Whys, Data
<1>25. ASSUME NEW f \in Files, Purge(f) PROVE DataInv'
  BY <1>25 DEF Purge, DataInv, TypeOK, Meta, HandOK, StoreOK, Whole, Safe, stores
<1>26. CASE Restart
  BY <1>26, IdleType
     DEF Restart, DataInv, TypeOK, Data, HandOK, StoreOK, Whole, Safe, Idle, stores
<1>27. CASE UNCHANGED vars
  BY <1>27 DEF vars, DataInv, TypeOK, HandOK, StoreOK, Whole, Safe
<1> QED
  BY <1>1, <1>2, <1>3, <1>4, <1>5, <1>6, <1>7, <1>8, <1>9,
     <1>10, <1>11, <1>12, <1>13, <1>14, <1>15, <1>16, <1>17, <1>18,
     <1>19, <1>20, <1>21, <1>22, <1>23, <1>24, <1>25, <1>26, <1>27
     DEF Next

(***************************************************************************)
(* DataInv holds when the server is new, and so in every reachable state.  *)
(***************************************************************************)
LEMMA DataInit == Init => DataInv
<1> SUFFICES ASSUME Init PROVE DataInv
  OBVIOUS
<1>1. bucket \in BOOLEAN
  BY Zenon DEF Init
<1>2. TypeOK
  BY <1>1, IdleType DEF Init, TypeOK, Data, Meta, Idle
<1>3. \A q \in Requests : HandOK(req[q])
  BY DEF Init, HandOK, Idle
<1>4. \A f \in Files : StoreOK(f)
  BY DEF Init, StoreOK, Whole
<1> QED
  BY <1>2, <1>3, <1>4 DEF Init, DataInv

\* DataInv holds whatever the handlers, the purge and restarts do.
LEMMA DataAlways == Spec => []DataInv
BY DataInit, DataStep, PTL DEF Spec

(***************************************************************************)
(* Types, for every number of files and requests.                          *)
(***************************************************************************)
THEOREM TypeCorrect == Spec => []TypeOK
BY DataAlways, PTL DEF DataInv

(***************************************************************************)
(* With the database as file storage, what store_file_with_update_type or  *)
(* restore_file_version answered with success is read back by              *)
(* get_file_data as it was uploaded.                                       *)
(***************************************************************************)
THEOREM AnsweredReadsBack == Spec => []AckedReadable
<1>1. DataInv => AckedReadable
  BY DEF DataInv, TypeOK, AckedReadable, Readable, StoreOK, Safe, Whole
<1> QED
  BY <1>1, DataAlways, PTL

(***************************************************************************)
(* With the database as file storage, the cache of FileService holds       *)
(* nothing that the file_data table does not.                              *)
(***************************************************************************)
THEOREM CacheIsBacked == Spec => []CacheBacked
<1>1. DataInv => CacheBacked
  BY DEF DataInv, CacheBacked, StoreOK
<1> QED
  BY <1>1, DataAlways, PTL

(***************************************************************************)
(* The configured file storage holds what was answered with success, and   *)
(* delete_file and the purge leave it there.                               *)
(***************************************************************************)
THEOREM AnsweredIsKept == Spec => []AckedKept
<1>1. DataInv => AckedKept
  BY DEF DataInv, AckedKept, Safe
<1> QED
  BY <1>1, DataAlways, PTL
-----------------------------------------------------------------------------
(***************************************************************************)
(* The OnceCell bucket_ready.  That the number of requests which check the *)
(* bucket follows the cell comes down to two facts: the cell is taken just *)
(* when somebody checks, and no two requests check at once.                *)
(***************************************************************************)
Checking(q) == req[q].op \in {"head", "create"}

CellInv ==
  /\ ready = "checking" <=> \E q \in Requests : Checking(q)
  /\ \A p, q \in Requests : Checking(p) /\ Checking(q) => p = q

\* Request q takes a step, and the others do not.
Alone(q) == \A p \in Requests \ {q} : req'[p] = req[p]

\* Handlers that are not at the bucket before or after a step leave the cell as
\* it is.
LEMMA CellQuiet ==
  ASSUME CellInv, NEW q \in Requests, Alone(q), ready' = ready,
         ~Checking(q), ~Checking(q)'
  PROVE  CellInv'
BY DEF CellInv, Alone, Checking

\* A handler that comes to the bucket takes the cell.
LEMMA CellTaken ==
  ASSUME CellInv, NEW q \in Requests, Alone(q), ready = "unset",
         ready' = "checking", Checking(q)'
  PROVE  CellInv'
BY DEF CellInv, Alone, Checking

\* The handler that goes from asking for the bucket to creating it keeps it.
LEMMA CellKept ==
  ASSUME CellInv, NEW q \in Requests, Alone(q), ready' = ready,
         Checking(q), Checking(q)'
  PROVE  CellInv'
BY DEF CellInv, Alone, Checking

\* The handler that is done with the bucket, or dropped, gives the cell back.
LEMMA CellGiven ==
  ASSUME CellInv, NEW q \in Requests, Alone(q), ready' # "checking",
         Checking(q), ~Checking(q)'
  PROVE  CellInv'
BY DEF CellInv, Alone, Checking

\* The three ways in which a step changes its request.
LEMMA StepAlone ==
  ASSUME req \in [Requests -> Request], NEW q \in Requests
  PROVE  /\ Finish(q) => Alone(q) /\ ~Checking(q)'
         /\ \A op, why, f, got : Start(q, op, why, f, got) =>
              Alone(q) /\ (Checking(q)' <=> op \in {"head", "create"})
         /\ \A op : req' = [req EXCEPT ![q].op = op] =>
              Alone(q) /\ (Checking(q)' <=> op \in {"head", "create"})
<1>1. Finish(q) => Alone(q) /\ ~Checking(q)'
  BY DEF Finish, Idle, Alone, Checking
<1>2. ASSUME NEW op, NEW why, NEW f, NEW got, Start(q, op, why, f, got)
      PROVE  Alone(q) /\ (Checking(q)' <=> op \in {"head", "create"})
  BY <1>2 DEF Start, Alone, Checking
<1>3. ASSUME NEW op, req' = [req EXCEPT ![q].op = op]
      PROVE  Alone(q) /\ (Checking(q)' <=> op \in {"head", "create"})
  <2>1. Alone(q)
    BY <1>3 DEF Alone
  <2>2. req'[q].op = op
    BY <1>3 DEF Request
  <2> QED
    BY <2>1, <2>2 DEF Checking
<1> QED
  BY <1>1, <1>2, <1>3

\* Every step of the handlers, and a restart, keeps the cell with its checker.
LEMMA CellStep == DataInv /\ CellInv /\ [Next]_vars => CellInv'
<1> SUFFICES ASSUME DataInv, CellInv, [Next]_vars PROVE CellInv'
  OBVIOUS
<1>0. req \in [Requests -> Request] /\ \A q \in Requests : HandOK(req[q])
  BY DEF DataInv, TypeOK
<1>1. ASSUME NEW q \in Requests, StorageFails(q) PROVE CellInv'
  <2>1. Alone(q) /\ ready' = ready /\ ~Checking(q) /\ ~Checking(q)'
    BY <1>0, <1>1 DEF StorageFails, MayFail, Finish, Idle, Alone, Checking
  <2> QED
    BY <2>1, CellQuiet
<1>2. ASSUME NEW q \in Requests, StoreDatabase(q) PROVE CellInv'
  <2>1. Alone(q) /\ ready' = ready /\ ~Checking(q) /\ ~Checking(q)'
    BY <1>0, <1>2 DEF StoreDatabase, Alone, Checking
  <2> QED
    BY <2>1, CellQuiet
<1>3. ASSUME NEW q \in Requests, BucketKnown(q) PROVE CellInv'
  <2>1. ready' = ready /\ ~Checking(q)
    BY <1>3 DEF BucketKnown, Checking
  <2>2. Finish(q) \/ req' = [req EXCEPT ![q].op = "put"]
    BY <1>0, <1>3 DEF BucketKnown
  <2> QED
    BY <1>0, <2>1, <2>2, StepAlone, CellQuiet
<1>4. ASSUME NEW q \in Requests, PutObject(q) PROVE CellInv'
  <2>1. Alone(q) /\ ready' = ready /\ ~Checking(q) /\ ~Checking(q)'
    BY <1>0, <1>4 DEF PutObject, Alone, Checking
  <2> QED
    BY <2>1, CellQuiet
<1>5. ASSUME NEW q \in Requests, CacheInsert(q) PROVE CellInv'
  <2>1. ready' = ready /\ ~Checking(q)
    BY <1>5 DEF CacheInsert, Checking
  <2>2. Finish(q) \/ \E op \in {"get", "row"} : \E why, got :
                        Start(q, op, why, req[q].f, got)
    BY <1>0, <1>5 DEF CacheInsert, HandOK
  <2> QED
    BY <1>0, <2>1, <2>2, StepAlone, CellQuiet
<1>6. ASSUME NEW q \in Requests, GetCached(q) PROVE CellInv'
  <2>1. ready' = ready /\ ~Checking(q)
    BY <1>6 DEF GetCached, GotFileData, Checking
  <2>2. Finish(q) \/ \E op \in {"store", "cache"} : \E why, got :
                        Start(q, op, why, req[q].f, got)
    BY <1>0, <1>6 DEF GetCached, GotFileData, CopyFileData, Reread, HandOK
  <2> QED
    BY <1>0, <2>1, <2>2, StepAlone, CellQuiet
<1>7. ASSUME NEW q \in Requests, GetMissed(q) PROVE CellInv'
  <2>1. Alone(q) /\ ready' = ready /\ ~Checking(q) /\ ~Checking(q)'
    BY <1>0, <1>7 DEF GetMissed, Alone, Checking
  <2> QED
    BY <2>1, CellQuiet
<1>8. ASSUME NEW q \in Requests, GetStored(q) PROVE CellInv'
  <2>1. ready' = ready /\ ~Checking(q)
    BY <1>8 DEF GetStored, GotFileData, Checking
  <2>2. Finish(q) \/ \E op \in {"store", "cache"} : \E why, got :
                        Start(q, op, why, req[q].f, got)
    BY <1>0, <1>8 DEF GetStored, GotFileData, CopyFileData, Reread, HandOK
  <2> QED
    BY <1>0, <2>1, <2>2, StepAlone, CellQuiet
<1>9. ASSUME NEW q \in Requests, DeleteRows(q) PROVE CellInv'
  <2>1. ready' = ready /\ ~Checking(q)
    BY <1>9 DEF DeleteRows, Checking
  <2>2. Finish(q) \/ req' = [req EXCEPT ![q].op = "uncache"]
    BY <1>0, <1>9 DEF DeleteRows
  <2> QED
    BY <1>0, <2>1, <2>2, StepAlone, CellQuiet
<1>10. ASSUME NEW q \in Requests, Uncache(q) PROVE CellInv'
  <2>1. Alone(q) /\ ready' = ready /\ ~Checking(q) /\ ~Checking(q)'
    BY <1>0, <1>10 DEF Uncache, Finish, Idle, Alone, Checking
  <2> QED
    BY <2>1, CellQuiet
<1>11. ASSUME NEW q \in Requests, RestoreRow(q) PROVE CellInv'
  <2>1. Alone(q) /\ ready' = ready /\ ~Checking(q) /\ ~Checking(q)'
    BY <1>0, <1>11 DEF RestoreRow, Finish, Idle, Alone, Checking
  <2> QED
    BY <2>1, CellQuiet
<1>12. ASSUME NEW q \in Requests, DownloadFile(q) PROVE CellInv'
  <2>1. Alone(q) /\ ready' = ready /\ ~Checking(q) /\ ~Checking(q)'
    BY <1>0, <1>12 DEF DownloadFile, Finish, Start, Idle, Alone, Checking
  <2> QED
    BY <2>1, CellQuiet
<1>13. ASSUME NEW q \in Requests, DeleteById(q) PROVE CellInv'
  <2>1. ready' = ready /\ ~Checking(q)
    BY <1>13 DEF DeleteById, Checking
  <2>2. Finish(q) \/ req' = [req EXCEPT ![q].op = "delete_check"]
    BY <1>0, <1>13 DEF DeleteById, SeesActive
  <2> QED
    BY <1>0, <2>1, <2>2, StepAlone, CellQuiet
<1>14. ASSUME NEW q \in Requests, DeleteCheck(q) PROVE CellInv'
  <2>1. ready' = ready /\ ~Checking(q)
    BY <1>14 DEF DeleteCheck, Checking
  <2>2. Finish(q) \/ req' = [req EXCEPT ![q].op = "delete"]
    BY <1>0, <1>14 DEF DeleteCheck, SeesActive
  <2> QED
    BY <1>0, <2>1, <2>2, StepAlone, CellQuiet
<1>15. ASSUME NEW q \in Requests, NEW f \in Files, UploadInfo(q, f) PROVE CellInv'
  <2>1. Alone(q) /\ ready' = ready /\ ~Checking(q) /\ ~Checking(q)'
    BY <1>0, <1>15 DEF UploadInfo, Start, Idle, Alone, Checking
  <2> QED
    BY <2>1, CellQuiet
<1>16. ASSUME NEW q \in Requests, NEW f \in Files, ListFiles(q, f) PROVE CellInv'
  <2>1. Alone(q) /\ ready' = ready /\ ~Checking(q) /\ ~Checking(q)'
    BY <1>0, <1>16 DEF ListFiles, Learn, Start, Idle, Alone, Checking
  <2> QED
    BY <2>1, CellQuiet
<1>17. ASSUME NEW q \in Requests, NEW f \in Files, FindFile(q, f) PROVE CellInv'
  <2>1. Alone(q) /\ ready' = ready /\ ~Checking(q) /\ ~Checking(q)'
    BY <1>0, <1>17 DEF FindFile, Learn, Start, Idle, Alone, Checking
  <2> QED
    BY <2>1, CellQuiet
<1>18. ASSUME NEW q \in Requests, NEW f \in Files, CheckFileExists(q, f) PROVE CellInv'
  <2>1. Alone(q) /\ ready' = ready /\ ~Checking(q) /\ ~Checking(q)'
    BY <1>0, <1>18 DEF CheckFileExists, Learn, Start, Idle, Alone, Checking
  <2> QED
    BY <2>1, CellQuiet
<1>19. ASSUME NEW q \in Requests, NEW f \in Files, DeleteByPath(q, f) PROVE CellInv'
  <2>1. Alone(q) /\ ready' = ready /\ ~Checking(q) /\ ~Checking(q)'
    BY <1>0, <1>19 DEF DeleteByPath, Start, Idle, Alone, Checking
  <2> QED
    BY <2>1, CellQuiet
<1>20. ASSUME NEW q \in Requests, NEW f \in Files, RestoreFileVersion(q, f) PROVE CellInv'
  <2>1. Alone(q) /\ ready' = ready /\ ~Checking(q) /\ ~Checking(q)'
    BY <1>0, <1>20 DEF RestoreFileVersion, Start, Idle, Alone, Checking
  <2> QED
    BY <2>1, CellQuiet
<1>21. ASSUME NEW q \in Requests, CheckBucket(q) PROVE CellInv'
  <2>1. Alone(q) /\ ready = "unset" /\ ready' = "checking" /\ Checking(q)'
    BY <1>0, <1>21 DEF CheckBucket, Alone, Checking
  <2> QED
    BY <2>1, CellTaken
<1>22. ASSUME NEW q \in Requests, HeadBucket(q) \/ CreateBucket(q) PROVE CellInv'
  <2>1. Checking(q)
    BY <1>22 DEF HeadBucket, CreateBucket, Checking
  <2>2. \/ ready' = ready /\ req' = [req EXCEPT ![q].op = "create"]
        \/ ready' \in {"ok", "err"} /\ (Finish(q) \/ req' = [req EXCEPT ![q].op = "put"])
    BY <1>22 DEF HeadBucket, CreateBucket
  <2>3. \/ Alone(q) /\ ready' = ready /\ Checking(q)'
        \/ Alone(q) /\ ready' # "checking" /\ ~Checking(q)'
    BY <1>0, <2>2, StepAlone
  <2> QED
    BY <2>1, <2>3, CellKept, CellGiven
<1>23. ASSUME NEW q \in Requests, Cancel(q) PROVE CellInv'
  <2>1. Alone(q) /\ ~Checking(q)'
    BY <1>0, <1>23 DEF Cancel, Finish, Idle, Alone, Checking
  <2>2. IF Checking(q) THEN ready' # "checking" ELSE ready' = ready
    BY <1>23 DEF Cancel, Checking
  <2> QED
    BY <2>1, <2>2, CellQuiet, CellGiven
<1>24. CASE Restart
  <2>1. ready' = "unset" /\ \A q \in Requests : ~Checking(q)'
    BY <1>24 DEF Restart, Idle, Checking
  <2> QED
    BY <2>1 DEF CellInv
<1>25. CASE UNCHANGED vars \/ \E f \in Files : Purge(f)
  BY <1>25 DEF vars, Purge, CellInv, Checking
<1> QED
  BY <1>1, <1>2, <1>3, <1>4, <1>5, <1>6, <1>7, <1>8, <1>9, <1>10, <1>11,
     <1>12, <1>13, <1>14, <1>15, <1>16, <1>17, <1>18, <1>19, <1>20, <1>21,
     <1>22, <1>23, <1>24, <1>25
     DEF Next

\* Nobody checks the bucket of a server that has just started.
LEMMA CellInit == Init => CellInv
BY DEF Init, CellInv, Checking, Idle

(***************************************************************************)
(* The OnceCell of S3FileStorage is taken exactly while one upload checks  *)
(* the bucket, wherever that upload fails, is cancelled or dies with the   *)
(* process: the uploads that wait for the cell are never left waiting.     *)
(***************************************************************************)
THEOREM CellIsHeldByChecker == Spec => []CellHeldByChecker
<1>1. CellInv => CellHeldByChecker
  <2> SUFFICES ASSUME CellInv PROVE CellHeldByChecker
    OBVIOUS
  <2> DEFINE C == {q \in Requests : req[q].op \in {"head", "create"}}
  <2>1. CASE ready = "checking"
    <3>1. PICK q \in Requests : Checking(q)
      BY <2>1 DEF CellInv
    <3>2. C = {q}
      BY <3>1 DEF CellInv, Checking
    <3> QED
      BY <2>1, <3>2, FS_Singleton DEF CellHeldByChecker
  <2>2. CASE ready # "checking"
    <3>1. C = {}
      BY <2>2 DEF CellInv, Checking
    <3> QED
      BY <2>2, <3>1, FS_EmptySet DEF CellHeldByChecker
  <2> QED
    BY <2>1, <2>2
<1> QED
  BY <1>1, CellInit, CellStep, DataAlways, PTL DEF Spec
=============================================================================
