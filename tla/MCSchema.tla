------------------------------ MODULE MCSchema ------------------------------
(***************************************************************************)
(* Two servers on one database.  It is empty, or has an old files table,   *)
(* or old conditions and presets, or old watchers, or lacks extra_json,    *)
(* which MySQL cannot add; or it is up to date and holds a plain path and  *)
(* an encrypted one, both of the time before the index.                    *)
(***************************************************************************)
EXTENDS Schema, TLC

CONSTANTS i1, i2, f1, f2, r1, r2, r3

NoRows == [r \in Rows |-> NoRow]

Base == {Table(t) : t \in {"accounts", "auth_tokens", "devices", "files",
                            "encryption_keys", "watcher_groups", "watchers",
                            "watcher_conditions", "watcher_presets"}}

Current ==
  Expected \cup Base
  \cup {<<"watchers", "unique key">>, <<"watcher_presets", "unique account">>}

OldFiles ==
  Current \ Of("files", {"operation_type", "eq_index", "eq_index key", "token_path",
                         "key_id", "binary path"})

OldConditions ==
  (Current \ {<<"watcher_conditions", "account_hash">>, <<"watcher_presets", "preset_json">>})
  \cup {<<"watcher_presets", "presets">>}

OldWatchers ==
  Current \ Of("watchers", {"unique key", "watcher_id", "local_group_id", "is_active"})

NoExtraJson ==
  Current \ {<<"watchers", "extra_json">>, <<"watcher_presets", "unique account">>}

Path(f, n) == [file |-> f, layers |-> n, index |-> NoIndex]

\* Strict and lenient starts meet on the old schemas, migrations of paths on
\* the current one.
MCDeployments ==
  {[schema |-> s, rows |-> NoRows, mode |-> (i1 :> "component" @@ i2 :> "state")] :
     s \in {{}, OldFiles, OldConditions, OldWatchers, NoExtraJson}}
  \cup
  {[schema |-> Current, mode |-> m,
    rows |-> (r1 :> Path(f1, 0) @@ r2 :> Path(f2, 1) @@ r3 :> NoRow)] :
     m \in {(i1 :> "component" @@ i2 :> "component"), (i1 :> "main" @@ i2 :> "state")}}
=============================================================================
