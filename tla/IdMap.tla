------------------------------- MODULE IdMap -------------------------------
(***************************************************************************)
(* What the watcher tables promise to the rest of the server: a mapping    *)
(* from the ids a client chose (a group, a watcher in a group) to server   *)
(* ids.  Rows of `files` carry server ids, so a mapping must not move: an  *)
(* id is new when it is assigned, stays as long as the client id is        *)
(* mapped, is never assigned again, and a watcher is mapped under the      *)
(* server id of its own group.                                             *)
(***************************************************************************)
EXTENDS Naturals

CONSTANTS
  Gids,  \* client group ids
  Wids   \* client watcher ids

VARIABLES
  group,    \* mapped client group -> server group id
  watcher,  \* mapped <<client group, client watcher>> -> its two server ids
  usedG,    \* server group ids assigned so far
  usedW     \* server watcher ids assigned so far

vars == <<group, watcher, usedG, usedW>>

Init ==
  /\ group = <<>>
  /\ watcher = <<>>
  /\ usedG = {}
  /\ usedW = {}

Extend(f, x, y) == [z \in DOMAIN f \cup {x} |-> IF z = x THEN y ELSE f[z]]

\* A client group that has no server id gets a new one.
MapGroup(g) ==
  /\ g \notin DOMAIN group
  /\ g \in DOMAIN group'
  /\ group'[g] \in Nat \ usedG
  /\ group' = Extend(group, g, group'[g])
  /\ usedG' = usedG \cup {group'[g]}

\* A watcher gets a new id under the server id its group has from now on.
MapWatcher(g, w) ==
  /\ g \in DOMAIN group'
  /\ <<g, w>> \notin DOMAIN watcher
  /\ <<g, w>> \in DOMAIN watcher'
  /\ LET i == watcher'[<<g, w>>].id
     IN  /\ i \in Nat \ usedW
         /\ watcher' = Extend(watcher, <<g, w>>, [group |-> group'[g], id |-> i])
         /\ usedW' = usedW \cup {i}

\* Removing a group removes its watchers.
Unmap(g) ==
  /\ g \in DOMAIN group
  /\ group' = [h \in DOMAIN group \ {g} |-> group[h]]
  /\ watcher' = [p \in {p \in DOMAIN watcher : p[1] # g} |-> watcher[p]]
  /\ UNCHANGED <<usedG, usedW>>

Next ==
  \E g \in Gids :
    \/ MapGroup(g) /\ UNCHANGED <<watcher, usedW>>
    \/ \E w \in Wids : MapWatcher(g, w) /\ UNCHANGED <<group, usedG>>
    \/ \E w \in Wids : MapGroup(g) /\ MapWatcher(g, w)
    \/ Unmap(g)

Spec == Init /\ [][Next]_vars
=============================================================================
