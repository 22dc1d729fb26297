------------------------------ MODULE FileData ------------------------------
(***************************************************************************)
(* The contents of files: services/file_service.rs and the upload,         *)
(* download, list, find, exists and delete handlers above it, the restore  *)
(* of services/version_service.rs, and the file storages below it          *)
(* (storage/file_storage.rs and the file_data table of mysql_file.rs).     *)
(*                                                                         *)
(* An upload writes the row of the file, then its data, then the cache of  *)
(* the process, then answers; each is a step, and any of them may fail, be *)
(* cancelled with its connection, or be lost in a crash.  What rows a path *)
(* has, and their revisions, is module FileTable; here a file_id only has  *)
(* rows that are active, deleted, or one of each after a restore.  The     *)
(* notifications are module FileUpdates.                                   *)
(***************************************************************************)
EXTENDS Naturals, FiniteSets

CONSTANTS
  MaxFiles,  \* bound: uploads
  Requests,  \* requests served at once
  Backends   \* file storages the server may be configured with

ASSUME FilesAssumption == MaxFiles \in Nat

VARIABLES
  backend,  \* the file storage of this deployment
  meta,     \* rows of each file id in the files table
  db,       \* the file_data table
  objects,  \* the objects of the S3 bucket
  bucket,   \* whether the bucket exists
  ready,    \* S3FileStorage.bucket_ready, a OnceCell of this process
  cache,    \* FileService.files, a map of this process
  req,      \* what each request is doing
  acked     \* history: files whose upload or restore was answered with success

vars == <<backend, meta, db, objects, bucket, ready, cache, req, acked>>

stores == <<db, objects, bucket>>

(***************************************************************************)
(* generate_file_id hashes the time and a random number with the name, so  *)
(* every upload gets a fresh file_id; the model numbers them.              *)
(***************************************************************************)
Files == 1..MaxFiles
NoFile == 0

\* What a file_id holds: nothing, the bytes uploaded, or no bytes at all.
Data == {"none", "full", "empty"}

\* "both": a deleted row and one a restore inserted, "restored": only the latter.
Meta == {"none", "active", "deleted", "both", "restored", "purged"}

(***************************************************************************)
(* What the queries find.  Lists, lookups by id and searches by criteria   *)
(* select active rows.  A search by path selects by eq_index, which a      *)
(* restore leaves empty.  The existence check takes any row.               *)
(***************************************************************************)
IsActive(f) == meta[f] \in {"active", "both", "restored"}
GetFileInfo(f) == IsActive(f)
FindByCriteria(f) == IsActive(f)
FindByPathAndName(f) == meta[f] = "active"
HasRow(f) == IsActive(f) \/ meta[f] = "deleted"

Idle == [op |-> "idle", why |-> "none", f |-> NoFile, got |-> "none"]

Start(q, op, why, f, got) ==
  req' = [req EXCEPT ![q] = [op |-> op, why |-> why, f |-> f, got |-> got]]

\* Mutant: a finished request keeps the file it was about.
FinishKeepsFile(q) == req' = [req EXCEPT ![q].op = "idle"]

Finish(q) == req' = [req EXCEPT ![q] = Idle]

Init ==
  /\ backend \in Backends
  /\ meta = [f \in Files |-> "none"]
  /\ db = [f \in Files |-> "none"]
  /\ objects = [f \in Files |-> "none"]
  /\ bucket \in (IF backend = "s3" THEN BOOLEAN ELSE {FALSE})
  /\ ready = "unset"
  /\ cache = [f \in Files |-> "none"]
  /\ req = [q \in Requests |-> Idle]
  /\ acked = {}

-----------------------------------------------------------------------------
(***************************************************************************)
(* Uploads.  store_file_info inserts the row of a new file_id and retires  *)
(* the file that was active at its path, if there is one.                  *)
(***************************************************************************)
IsNew(f) == meta[f] = "none" /\ \A g \in 1..(f - 1) : meta[g] # "none"

Retire(old) == IF old = NoFile THEN meta ELSE [meta EXCEPT ![old] = "deleted"]

\* Mutant: the cache is filled before the data is stored.
UploadInfoCaches(q, f) ==
  /\ req[q] = Idle
  /\ IsNew(f)
  /\ meta' = [meta EXCEPT ![f] = "active"]
  /\ cache' = [cache EXCEPT ![f] = "full"]
  /\ Start(q, "store", "upload", f, "full")
  /\ UNCHANGED <<backend, stores, ready, acked>>

UploadInfo(q, f) ==
  /\ req[q] = Idle
  /\ IsNew(f)
  /\ \E old \in {NoFile} \cup {g \in Files : IsActive(g)} :
       meta' = [Retire(old) EXCEPT ![f] = "active"]
  /\ Start(q, "store", "upload", f, "full")
  /\ UNCHANGED <<backend, stores, ready, cache, acked>>

\* A statement of the main storage or a PutObject may fail.
MayFail(q) ==
  \/ req[q].op \in {"put", "row", "delete", "get_db"}
  \/ req[q].op = "store" /\ backend = "database"

\* Mutant: an error of the file storage is logged and answered with success.
StorageFailsUnnoticed(q) ==
  /\ MayFail(q)
  /\ Finish(q)
  /\ acked' = IF req[q].why = "upload" THEN acked \cup {req[q].f} ELSE acked
  /\ UNCHANGED <<backend, meta, stores, ready, cache>>

\* The request is answered with an error: the row of an upload stays.
StorageFails(q) ==
  /\ MayFail(q)
  /\ Finish(q)
  /\ UNCHANGED <<backend, meta, stores, ready, cache, acked>>

(***************************************************************************)
(* store_file_data_internal, by file storage.  The SELECT and the INSERT   *)
(* or UPDATE of file_data are two statements; one step is enough, since    *)
(* only the upload of a file_id runs them while the id has no data.        *)
(***************************************************************************)
StoreDatabase(q) ==
  /\ backend = "database"
  /\ req[q].op = "store"
  /\ db' = [db EXCEPT ![req[q].f] = req[q].got]
  /\ req' = [req EXCEPT ![q].op = "cache"]
  /\ UNCHANGED <<backend, meta, objects, bucket, ready, cache, acked>>

(***************************************************************************)
(* S3: the first request to need the bucket initialises the OnceCell, the  *)
(* others wait for it, and the cell keeps the outcome, be it an error.     *)
(***************************************************************************)
CheckBucket(q) ==
  /\ backend = "s3"
  /\ req[q].op = "store"
  /\ ready = "unset"
  /\ ready' = "checking"
  /\ req' = [req EXCEPT ![q].op = "head"]
  /\ UNCHANGED <<backend, meta, stores, cache, acked>>

HeadBucket(q) ==
  /\ req[q].op = "head"
  /\ \/ /\ bucket
        /\ ready' = "ok"
        /\ req' = [req EXCEPT ![q].op = "put"]
     \/ /\ ~bucket
        /\ req' = [req EXCEPT ![q].op = "create"]
        /\ UNCHANGED ready
     \/ ready' = "err" /\ Finish(q)
  /\ UNCHANGED <<backend, meta, stores, cache, acked>>

CreateBucket(q) ==
  /\ req[q].op = "create"
  /\ \/ /\ bucket' = TRUE
        /\ ready' = "ok"
        /\ req' = [req EXCEPT ![q].op = "put"]
     \/ ready' = "err" /\ Finish(q) /\ UNCHANGED bucket
  /\ UNCHANGED <<backend, meta, db, objects, cache, acked>>

BucketKnown(q) ==
  /\ backend = "s3"
  /\ req[q].op = "store"
  /\ \/ ready = "ok" /\ req' = [req EXCEPT ![q].op = "put"]
     \/ ready = "err" /\ Finish(q)
  /\ UNCHANGED <<backend, meta, stores, ready, cache, acked>>

\* Mutant: the upload goes on when PutObject fails.
PutObjectUnnoticed(q) ==
  /\ req[q].op = "put"
  /\ req' = [req EXCEPT ![q].op = "cache"]
  /\ UNCHANGED <<backend, meta, stores, ready, cache, acked>>

PutObject(q) ==
  /\ req[q].op = "put"
  /\ objects' = [objects EXCEPT ![req[q].f] = req[q].got]
  /\ req' = [req EXCEPT ![q].op = "cache"]
  /\ UNCHANGED <<backend, meta, db, bucket, ready, cache, acked>>

(***************************************************************************)
(* The cache, then the answer.  An upload is done; the copy of a restore   *)
(* reads the data back, caches it once more and then writes its row.       *)
(***************************************************************************)
CacheInsert(q) ==
  /\ req[q].op = "cache"
  /\ cache' = [cache EXCEPT ![req[q].f] = req[q].got]
  /\ CASE req[q].why = "upload" ->
            Finish(q) /\ acked' = acked \cup {req[q].f}
       [] req[q].why = "restore" ->
            Start(q, "get", "reread", req[q].f, "none") /\ UNCHANGED acked
       [] req[q].why = "reread" ->
            Start(q, "row", "restore", req[q].f, "none") /\ UNCHANGED acked
  /\ UNCHANGED <<backend, meta, stores, ready>>

-----------------------------------------------------------------------------
(***************************************************************************)
(* get_file_data looks in the cache, then in the main storage, whichever   *)
(* file storage the data went to.                                          *)
(***************************************************************************)
\* copy_file_data: no data to copy is an error.
CopyFileData(q, d) ==
  IF d = "none" THEN Finish(q) ELSE Start(q, "store", "restore", req[q].f, d)

\* restore_file_version: unwrap_or_default takes missing data for empty data.
Reread(q, d) ==
  Start(q, "cache", "reread", req[q].f, IF d = "none" THEN "empty" ELSE d)

GotFileData(q, d) ==
  /\ CASE req[q].why = "download" -> Finish(q)
       [] req[q].why = "restore" -> CopyFileData(q, d)
       [] req[q].why = "reread" -> Reread(q, d)
  /\ UNCHANGED <<backend, meta, stores, ready, cache, acked>>

GetCached(q) ==
  /\ req[q].op = "get"
  /\ cache[req[q].f] # "none"
  /\ GotFileData(q, cache[req[q].f])

GetMissed(q) ==
  /\ req[q].op = "get"
  /\ cache[req[q].f] = "none"
  /\ req' = [req EXCEPT ![q].op = "get_db"]
  /\ UNCHANGED <<backend, meta, stores, ready, cache, acked>>

GetStored(q) ==
  /\ req[q].op = "get_db"
  /\ GotFileData(q, db[req[q].f])

(***************************************************************************)
(* A device learns of a file from a list, a search or an existence check,  *)
(* and then downloads or deletes it in a request of its own.  A check      *)
(* counts deleted files too.                                               *)
(***************************************************************************)
Learn(q, f) ==
  /\ req[q] = Idle
  /\ Start(q, "known", "none", f, "none")
  /\ UNCHANGED <<backend, meta, stores, ready, cache, acked>>

ListFiles(q, f) == IsActive(f) /\ Learn(q, f)
FindFile(q, f) == FindByCriteria(f) /\ Learn(q, f)
CheckFileExists(q, f) == HasRow(f) /\ Learn(q, f)

DownloadFile(q) ==
  /\ req[q].op = "known"
  /\ IF GetFileInfo(req[q].f)
       THEN Start(q, "get", "download", req[q].f, "none")
       ELSE Finish(q)
  /\ UNCHANGED <<backend, meta, stores, ready, cache, acked>>

(***************************************************************************)
(* Deletes, by file_id or by path.  The handler and the service each look  *)
(* the file up, reading one of its rows if it has several, and a deleted   *)
(* one ends the request with success.                                      *)
(***************************************************************************)
SeesActive(q, op) ==
  \/ IsActive(req[q].f) /\ req' = [req EXCEPT ![q].op = op]
  \/ meta[req[q].f] \notin {"active", "restored"} /\ Finish(q)

DeleteById(q) ==
  /\ req[q].op = "known"
  /\ SeesActive(q, "delete_check")
  /\ UNCHANGED <<backend, meta, stores, ready, cache, acked>>

DeleteByPath(q, f) ==
  /\ req[q] = Idle
  /\ FindByPathAndName(f)
  /\ Start(q, "delete_check", "none", f, "none")
  /\ UNCHANGED <<backend, meta, stores, ready, cache, acked>>

DeleteCheck(q) ==
  /\ req[q].op = "delete_check"
  /\ SeesActive(q, "delete")
  /\ UNCHANGED <<backend, meta, stores, ready, cache, acked>>

\* The storage deletes whatever rows there are by then, or finds none.
DeleteRows(q) ==
  /\ req[q].op = "delete"
  /\ IF HasRow(req[q].f)
       THEN /\ meta' = [meta EXCEPT ![req[q].f] = "deleted"]
            /\ req' = [req EXCEPT ![q].op = "uncache"]
       ELSE UNCHANGED meta /\ Finish(q)
  /\ UNCHANGED <<backend, stores, ready, cache, acked>>

\* The data stays in the file storage; only the cache drops it.
Uncache(q) ==
  /\ req[q].op = "uncache"
  /\ cache' = [cache EXCEPT ![req[q].f] = "none"]
  /\ Finish(q)
  /\ UNCHANGED <<backend, meta, stores, ready, acked>>

\* restore_file_version of any version that has a row, a deleted one included.
RestoreTarget(f) == HasRow(f)

RestoreFileVersion(q, f) ==
  /\ req[q] = Idle
  /\ RestoreTarget(f)
  /\ Start(q, "get", "restore", f, "none")
  /\ UNCHANGED <<backend, meta, stores, ready, cache, acked>>

RestoreRow(q) ==
  /\ req[q].op = "row"
  /\ meta' = [meta EXCEPT ![req[q].f] =
                CASE @ \in {"deleted", "both"} -> "both"
                  [] @ \in {"restored", "purged"} -> "restored"
                  [] OTHER -> "active"]
  /\ acked' = acked \cup {req[q].f}
  /\ Finish(q)
  /\ UNCHANGED <<backend, stores, ready, cache>>

\* The retention task removes old deleted rows, and nothing of the data.
Purge(f) ==
  /\ meta[f] \in {"deleted", "both"}
  /\ meta' = [meta EXCEPT ![f] = IF @ = "both" THEN "restored" ELSE "purged"]
  /\ UNCHANGED <<backend, stores, ready, cache, req, acked>>

\* Mutant: the OnceCell stays taken.
CancelKeepsCell(q) ==
  /\ req[q] # Idle
  /\ Finish(q)
  /\ UNCHANGED <<backend, meta, stores, ready, cache, acked>>

\* The client goes away: the handler is dropped, and a OnceCell it was
\* initialising is free for the next to try.
Cancel(q) ==
  /\ req[q] # Idle
  /\ Finish(q)
  /\ ready' = IF req[q].op \in {"head", "create"} THEN "unset" ELSE ready
  /\ UNCHANGED <<backend, meta, stores, cache, acked>>

Restart ==
  /\ req' = [q \in Requests |-> Idle]
  /\ cache' = [f \in Files |-> "none"]
  /\ ready' = "unset"
  /\ UNCHANGED <<backend, meta, stores, acked>>

Next ==
  \/ \E q \in Requests :
       \/ StorageFails(q)
       \/ StoreDatabase(q)
       \/ CheckBucket(q)
       \/ HeadBucket(q)
       \/ CreateBucket(q)
       \/ BucketKnown(q)
       \/ PutObject(q)
       \/ CacheInsert(q)
       \/ GetCached(q)
       \/ GetMissed(q)
       \/ GetStored(q)
       \/ DeleteRows(q)
       \/ Uncache(q)
       \/ RestoreRow(q)
       \/ DownloadFile(q)
       \/ DeleteById(q)
       \/ DeleteCheck(q)
       \/ Cancel(q)
       \/ \E f \in Files :
            \/ UploadInfo(q, f)
            \/ ListFiles(q, f)
            \/ FindFile(q, f)
            \/ CheckFileExists(q, f)
            \/ DeleteByPath(q, f)
            \/ RestoreFileVersion(q, f)
  \/ \E f \in Files : Purge(f)
  \/ Restart

Spec == Init /\ [][Next]_vars

-----------------------------------------------------------------------------
Request == [op : {"idle", "known", "store", "head", "create", "put", "cache",
                  "get", "get_db", "row", "delete_check", "delete", "uncache"},
            why : {"none", "upload", "restore", "reread", "download"},
            f : Files \cup {NoFile}, got : Data]

(***************************************************************************)
(* Types; a request in progress is about a file, an idle one about none.   *)
(***************************************************************************)
TypeOK ==
  /\ backend \in Backends
  /\ meta \in [Files -> Meta]
  /\ {db, objects, cache} \subseteq [Files -> Data]
  /\ bucket \in BOOLEAN
  /\ ready \in {"unset", "checking", "ok", "err"}
  /\ req \in [Requests -> Request]
  /\ \A q \in Requests : (req[q].op = "idle") <=> (req[q].f = NoFile)
  /\ acked \subseteq Files

\* What get_file_data would return for f now.
Readable(f) == IF cache[f] # "none" THEN cache[f] ELSE db[f]

(***************************************************************************)
(* With the database as file storage, a file whose upload or restore was   *)
(* answered with success reads back as the bytes uploaded, whatever        *)
(* deletes, restores, failures, cancellations and restarts follow:         *)
(* store_file_with_update_type answers after the data is stored, and       *)
(* copy_file_data refuses to copy what is not there.                       *)
(***************************************************************************)
AckedReadable ==
  backend = "database" => \A f \in acked : Readable(f) = "full"

(***************************************************************************)
(* With the database as file storage the cache is never ahead of the       *)
(* file_data table: a download, which may well run before the upload is    *)
(* answered, hands out nothing that a restart could take back.             *)
(***************************************************************************)
CacheBacked ==
  backend = "database" => \A f \in Files : cache[f] # "none" => db[f] = "full"

(***************************************************************************)
(* A success answer means the configured file storage holds an object or a *)
(* row for the file, and deletes and purges never take it away.            *)
(***************************************************************************)
AckedKept ==
  \A f \in acked : /\ backend = "database" => db[f] # "none"
                   /\ backend = "s3" => objects[f] # "none"

(***************************************************************************)
(* Uploads to S3 that wait for the bucket_ready cell are never left        *)
(* waiting: it is taken exactly while one request is checking the bucket,  *)
(* although that request may fail, be cancelled or die with the process.   *)
(***************************************************************************)
CellHeldByChecker ==
  Cardinality({q \in Requests : req[q].op \in {"head", "create"}})
    = IF ready = "checking" THEN 1 ELSE 0
=============================================================================
