---------------------------- MODULE FilterManager ----------------------------
(***************************************************************************)
(* The filter manager of bloomd (src/bloomd/filter_manager.c).             *)
(*                                                                         *)
(* The registry of filters is read without locks.  It is two ART trees (a  *)
(* primary and an alternate), a list of deltas that only grows at its      *)
(* head, and a vacuum thread that merges old deltas into the trees and     *)
(* then frees them.  A reader announces the version it works at with a     *)
(* checkpoint; the vacuum frees nothing that an announced version may      *)
(* still reach.                                                            *)
(*                                                                         *)
(* Accesses to shared fields are sequentially consistent and in program    *)
(* order.  An action makes one access that another thread can race with;   *)
(* three are coarser: a tree is searched or listed in one step, with the   *)
(* flags of its wrappers (AltTreeUnshared says it does not change          *)
(* meanwhile), and WalkOn reads a flag together with primary_vsn.          *)
(***************************************************************************)
EXTENDS Integers, Sequences, FiniteSets

CONSTANTS
  Clients,      \* worker, flush and unmap threads
  Names,        \* filter names
  Wrappers,     \* addresses of bloom_filter_wrapper, each allocated once
  Ops,          \* the calls the clients make in this instance
  MaxVsn,       \* bound: no call that writes is made from this version on
  Vacuum,       \* the vacuum thread, as a holder of the write lock
  NULL

AllOps == {"keys", "peek", "unmap", "create", "drop", "clear", "list", "cold"}
WriteOps == {"create", "drop", "clear"}
ListOps == {"list", "cold"}

ASSUME ConstantsAssumption ==
  /\ Ops \subseteq AllOps
  /\ MaxVsn \in Nat
  /\ NULL \notin Wrappers \cup Names \cup Clients
  /\ Vacuum \notin Clients \cup {NULL}

VARIABLES
  (* struct bloom_filtmgr *)
  should_run,     \* the vacuum thread may go on
  clients,        \* the client list: threads that have joined it
  client_vsn,     \* version each client announced last
  vsn,            \* current version
  write_lock,     \* holder: a client, Vacuum or NULL
  primary_vsn,    \* version that filter_map is said to represent
  trees,          \* the two ART trees: name -> wrapper or NULL
  filter_map,     \* which tree is the primary
  pending_deletes,\* names whose wrapper the vacuum is still deleting
  delta,          \* every delta ever linked; delta[v] has version v
  trimmed,        \* deltas up to this version are cut off the list
  nodes,          \* versions whose list node is allocated
  (* struct bloom_filter_wrapper, and the folders under data_dir *)
  heap,           \* allocated wrappers
  wname,          \* name of each wrapper (NULL: never allocated)
  is_active, is_hot, should_delete,
  proxied,        \* wrappers whose filter is not in memory
  disk,           \* names that have a folder
  (* locals of a client thread *)
  pc, op, arg,    \* where it is, the call and the name it was given
  tree,           \* the tree it searches (0: none)
  cur,            \* the delta node it looks at (0: none)
  filt,           \* the wrapper it holds
  reg,            \* a version it has read and not yet used
  listed,         \* how often it has put each name in its result list
  early,          \* history: clients that last read mgr->vsn in BarrierLink's window
  (* locals of the vacuum thread *)
  vpc, phase,     \* where it is; before ("plan") or after ("barrier") the swap
  mgr_vsn, min_vsn, barrier_vsn,
  cmin, scan,     \* client_min_vsn: minimum so far, clients still to visit
  cursor, last    \* position in, and last position of, a walk of the deltas

clientList == <<clients, client_vsn>>
treeVars == <<trees, filter_map, primary_vsn, pending_deletes>>
deltaVars == <<delta, trimmed, nodes>>
mgr == <<should_run, clientList, vsn, treeVars, deltaVars>>
wrapVars == <<heap, wname, is_active, is_hot, should_delete, proxied, disk>>
locals == <<op, arg, tree, cur, filt, reg, listed>>
clientSide == <<pc, locals, early>>
roundVars == <<phase, mgr_vsn, min_vsn, barrier_vsn>>
walkVars == <<cmin, scan, cursor, last>>
vacuum == <<vpc, roundVars, walkVars>>
vars == <<mgr, write_lock, wrapVars, clientSide, vacuum>>

NoneListed == [n \in Names |-> 0]

AltMap == 3 - filter_map

\* mgr->delta: the newest linked node, 0 when the list is empty.
Head0 == IF Len(delta) > trimmed THEN Len(delta) ELSE 0

\* current->next: the next older node, 0 at the end of the list.
NextNode(v) == IF v - 1 > trimmed THEN v - 1 ELSE 0

Types == {"CREATE", "DELETE", "BARRIER"}

\* One delta node: its type and the wrapper it is about.
Node(type, w) == [type |-> type, filter |-> w]

-----------------------------------------------------------------------------
(***************************************************************************)
(* init_filter_manager.  Every folder found on disk becomes an active,     *)
(* cold and proxied wrapper in both trees; the alternate is a copy.        *)
(***************************************************************************)

\* One wrapper for each folder that load_existing_filters finds.
LoadedTrees ==
  {t \in [Names -> Wrappers \cup {NULL}] :
     \A m, n \in Names : m # n /\ t[m] # NULL => t[m] # t[n]}

InitFrom(t) ==
  LET loaded == {t[n] : n \in Names} \ {NULL}
  IN  /\ trees = [i \in 1..2 |-> t]
      /\ heap = loaded
      /\ is_active = loaded
      /\ proxied = loaded
      /\ wname = [w \in Wrappers |->
                    IF w \in loaded THEN CHOOSE n \in Names : t[n] = w ELSE NULL]
      /\ disk = {n \in Names : t[n] # NULL}

Init ==
  /\ \E t \in LoadedTrees : InitFrom(t)
  /\ is_hot = {} /\ should_delete = {}
  /\ should_run = TRUE
  /\ clients = {} /\ client_vsn = [c \in Clients |-> 0]
  /\ vsn = 0 /\ primary_vsn = 0 /\ write_lock = NULL /\ filter_map = 1
  /\ pending_deletes = {} /\ delta = <<>> /\ trimmed = 0 /\ nodes = {}
  /\ pc = [c \in Clients |-> "start"]
  /\ op = [c \in Clients |-> "none"] /\ arg = [c \in Clients |-> NULL]
  /\ tree = [c \in Clients |-> 0] /\ cur = [c \in Clients |-> 0]
  /\ filt = [c \in Clients |-> NULL] /\ reg = [c \in Clients |-> 0]
  /\ listed = [c \in Clients |-> NoneListed] /\ early = {}
  /\ vpc = "top" /\ phase = "plan"
  /\ mgr_vsn = 0 /\ min_vsn = 0 /\ barrier_vsn = 0
  /\ cmin = 0 /\ scan = {} /\ cursor = 0 /\ last = 0

-----------------------------------------------------------------------------
(***************************************************************************)
(* Client threads.                                                         *)
(***************************************************************************)

Goto(c, label) == pc' = [pc EXCEPT ![c] = label]

\* The call returns: locals are dropped and the write lock, if taken, freed.
Return(c) ==
  /\ Goto(c, "idle")
  /\ op' = [op EXCEPT ![c] = "none"]
  /\ arg' = [arg EXCEPT ![c] = NULL]
  /\ tree' = [tree EXCEPT ![c] = 0]
  /\ cur' = [cur EXCEPT ![c] = 0]
  /\ filt' = [filt EXCEPT ![c] = NULL]
  /\ reg' = [reg EXCEPT ![c] = 0]
  /\ listed' = [listed EXCEPT ![c] = NoneListed]
  /\ write_lock' = IF write_lock = c THEN NULL ELSE write_lock

\* filtmgr_client_checkpoint reads mgr->vsn ...
CheckpointRead(c) ==
  /\ pc[c] \in {"start", "idle"}
  /\ reg' = [reg EXCEPT ![c] = vsn]
  /\ early' = IF vpc = "blink" THEN early \cup {c} ELSE early \ {c}
  /\ Goto(c, "checkpoint")
  /\ UNCHANGED <<mgr, write_lock, wrapVars, op, arg, tree, cur, filt, listed,
                 vacuum>>

\* ... and stores it, or joins the client list the first time.
CheckpointStore(c) ==
  /\ pc[c] = "checkpoint"
  /\ client_vsn' = [client_vsn EXCEPT ![c] = reg[c]]
  /\ clients' = clients \cup {c}
  /\ reg' = [reg EXCEPT ![c] = 0]
  /\ Goto(c, "idle")
  /\ UNCHANGED <<should_run, vsn, write_lock, deltaVars, treeVars, wrapVars,
                 op, arg, tree, cur, filt, listed, early, vacuum>>

\* A call of the public interface begins.
Call(c, o, n) ==
  /\ pc[c] = "idle"
  /\ o \in WriteOps => vsn < MaxVsn
  /\ op' = [op EXCEPT ![c] = o]
  /\ arg' = [arg EXCEPT ![c] = IF o \in ListOps THEN NULL ELSE n]
  /\ Goto(c, IF o \in WriteOps THEN "lock" ELSE "load")
  /\ UNCHANGED <<mgr, write_lock, wrapVars, tree, cur, filt, reg, listed,
                 early, vacuum>>

Lock(c) ==
  /\ pc[c] = "lock"
  /\ write_lock = NULL
  /\ write_lock' = c
  /\ Goto(c, "load")
  /\ UNCHANGED <<mgr, wrapVars, locals, early, vacuum>>

\* mgr->filter_map is read, and the tree it points to is then searched.
LoadTree(c) ==
  /\ pc[c] = "load"
  /\ tree' = [tree EXCEPT ![c] = filter_map]
  /\ Goto(c, "search")
  /\ UNCHANGED <<mgr, write_lock, wrapVars, op, arg, cur, filt, reg, listed,
                 early, vacuum>>

\* art_search of find_filter.
Search(c) ==
  LET w == trees[tree[c]][arg[c]]
  IN  /\ pc[c] = "search"
      /\ op[c] \notin ListOps
      /\ filt' = [filt EXCEPT ![c] = w]
      /\ tree' = [tree EXCEPT ![c] = 0]
      /\ Goto(c, IF w # NULL THEN "found" ELSE "compare")
      /\ UNCHANGED <<mgr, write_lock, wrapVars, op, arg, cur, reg, listed,
                     early, vacuum>>

InTree(t, n, S) == trees[t][n] # NULL /\ trees[t][n] \in S

\* art_iter of filtmgr_list_filters: the active wrappers of the tree.
IterList(c) ==
  /\ pc[c] = "search"
  /\ op[c] = "list"
  /\ listed' = [listed EXCEPT ![c] =
       [n \in Names |-> IF InTree(tree[c], n, is_active) THEN 1 ELSE 0]]
  /\ tree' = [tree EXCEPT ![c] = 0]
  /\ Goto(c, "compare")
  /\ UNCHANGED <<mgr, write_lock, wrapVars, op, arg, cur, filt, reg, early,
                 vacuum>>

\* filtmgr_list_cold_filters: cools the hot, returns the cold and mapped.
IterCold(c) ==
  /\ pc[c] = "search"
  /\ op[c] = "cold"
  /\ is_hot' = is_hot \ {trees[tree[c]][n] : n \in Names}
  /\ listed' = [listed EXCEPT ![c] =
       [n \in Names |->
          IF InTree(tree[c], n, Wrappers \ (is_hot \cup proxied)) THEN 1 ELSE 0]]
  /\ tree' = [tree EXCEPT ![c] = 0]
  /\ Goto(c, "listed")
  /\ UNCHANGED <<mgr, write_lock, heap, wname, is_active, should_delete,
                 proxied, disk, op, arg, cur, filt, reg, early, vacuum>>

\* if (mgr->primary_vsn == mgr->vsn): the left operand is read ...
ReadPrimaryVsn(c) ==
  /\ pc[c] = "compare"
  /\ reg' = [reg EXCEPT ![c] = primary_vsn]
  /\ Goto(c, "compare2")
  /\ UNCHANGED <<mgr, write_lock, wrapVars, op, arg, tree, cur, filt, listed,
                 early, vacuum>>

\* Where a search of the delta list that found nothing goes.
Missed(c) == IF op[c] = "list" THEN "listed" ELSE "miss"

\* ... then the right one; equal versions end the search.
CompareVsn(c) ==
  /\ pc[c] = "compare2"
  /\ Goto(c, IF reg[c] = vsn THEN Missed(c) ELSE "head")
  /\ reg' = [reg EXCEPT ![c] = 0]
  /\ UNCHANGED <<mgr, write_lock, wrapVars, op, arg, tree, cur, filt, listed,
                 early, vacuum>>

ReadDelta(c) ==
  /\ pc[c] = "head"
  /\ cur' = [cur EXCEPT ![c] = Head0]
  /\ Goto(c, IF Head0 = 0 THEN Missed(c) ELSE "walk")
  /\ UNCHANGED <<mgr, write_lock, wrapVars, op, arg, tree, filt, reg, listed,
                 early, vacuum>>

\* Does the node end the search of find_filter?
Matches(c, v) ==
  /\ op[c] # "list"
  /\ delta[v].type # "BARRIER"
  /\ wname[delta[v].filter] = arg[c]

WalkMatch(c) ==
  /\ pc[c] = "walk"
  /\ Matches(c, cur[c])
  /\ filt' = [filt EXCEPT ![c] = delta[cur[c]].filter]
  /\ cur' = [cur EXCEPT ![c] = 0]
  /\ Goto(c, "found")
  /\ UNCHANGED <<mgr, write_lock, wrapVars, op, arg, tree, reg, listed, early,
                 vacuum>>

\* Slip: the search stops one node early.
WalkOnSlip(c) ==
      /\ pc[c] = "walk"
      /\ ~Matches(c, cur[c])
      /\ UNCHANGED listed
      /\ IF cur[c] <= primary_vsn + 2
         THEN cur' = [cur EXCEPT ![c] = 0] /\ Goto(c, Missed(c))
         ELSE cur' = cur /\ Goto(c, "next")
      /\ UNCHANGED <<mgr, write_lock, wrapVars, op, arg, tree, filt, reg,
                     early, vacuum>>

\* No match; stop at primary_vsn + 1, read afresh at every node.
WalkOn(c) ==
  LET node == delta[cur[c]]
  IN  /\ pc[c] = "walk"
      /\ ~Matches(c, cur[c])
      /\ listed' =
           IF op[c] = "list" /\ node.type = "CREATE" /\ node.filter \in is_active
           THEN [listed EXCEPT ![c][wname[node.filter]] = @ + 1]
           ELSE listed
      /\ IF cur[c] = primary_vsn + 1
         THEN cur' = [cur EXCEPT ![c] = 0] /\ Goto(c, Missed(c))
         ELSE cur' = cur /\ Goto(c, "next")
      /\ UNCHANGED <<mgr, write_lock, wrapVars, op, arg, tree, filt, reg,
                     early, vacuum>>

WalkNext(c) ==
  /\ pc[c] = "next"
  /\ cur' = [cur EXCEPT ![c] = NextNode(cur[c])]
  /\ Goto(c, IF NextNode(cur[c]) = 0 THEN Missed(c) ELSE "walk")
  /\ UNCHANGED <<mgr, write_lock, wrapVars, op, arg, tree, filt, reg, listed,
                 early, vacuum>>

\* The caller reads its result list and frees it.
ListDone(c) ==
  /\ pc[c] = "listed"
  /\ Return(c)
  /\ UNCHANGED <<mgr, wrapVars, early, vacuum>>

\* find_filter returned nothing: every call but create fails with -1.
Miss(c) ==
  /\ pc[c] = "miss"
  /\ op[c] # "create"
  /\ Return(c)
  /\ UNCHANGED <<mgr, wrapVars, early, vacuum>>

\* create scans pending_deletes and answers -3 when it finds the name.
CreatePending(c) ==
  /\ pc[c] = "miss"
  /\ op[c] = "create"
  /\ \/ /\ arg[c] \in pending_deletes
        /\ Return(c)
     \/ /\ arg[c] \notin pending_deletes
        /\ Goto(c, "add")
        /\ UNCHANGED <<write_lock, locals>>
  /\ UNCHANGED <<mgr, wrapVars, early, vacuum>>

\* take_filter refuses an inactive wrapper; create refuses any (-1 or -3).
Refuse(c) ==
  /\ pc[c] = "found"
  /\ op[c] = "create" \/ filt[c] \notin is_active
  /\ Return(c)
  /\ UNCHANGED <<mgr, wrapVars, early, vacuum>>

\* take_filter hands the wrapper to a call that uses it.
Take(c) ==
  /\ pc[c] = "found"
  /\ op[c] \notin WriteOps
  /\ filt[c] \in is_active
  /\ Goto(c, "use")
  /\ UNCHANGED <<mgr, write_lock, wrapVars, locals, early, vacuum>>

\* check and set keys: fault the filter in, which may fail, and mark it hot.
UseKeys(c) ==
  /\ pc[c] = "use"
  /\ op[c] = "keys"
  /\ is_hot' = is_hot \cup {filt[c]}
  /\ proxied' \in {proxied, proxied \ {filt[c]}}
  /\ Return(c)
  /\ UNCHANGED <<mgr, heap, wname, is_active, should_delete, disk, early,
                 vacuum>>

\* flush and the info callback: read the wrapper, change nothing here.
UsePeek(c) ==
  /\ pc[c] = "use"
  /\ op[c] = "peek"
  /\ Return(c)
  /\ UNCHANGED <<mgr, wrapVars, early, vacuum>>

\* unmap closes the filter, unless it is configured to live in memory.
UseUnmap(c) ==
  /\ pc[c] = "use"
  /\ op[c] = "unmap"
  /\ proxied' \in {proxied, proxied \cup {filt[c]}}
  /\ Return(c)
  /\ UNCHANGED <<mgr, heap, wname, is_active, is_hot, should_delete, disk,
                 early, vacuum>>

\* add_filter fails: the folder may have been made, nothing is registered.
AddFails(c) ==
  /\ pc[c] = "add"
  /\ disk' \in {disk, disk \cup {arg[c]}}
  /\ Return(c)
  /\ UNCHANGED <<mgr, heap, wname, is_active, is_hot, should_delete, proxied,
                 early, vacuum>>

\* add_filter: a hot, active wrapper whose folder exists.
AddFilter(c, w) ==
  /\ pc[c] = "add"
  /\ wname[w] = NULL
  /\ wname' = [wname EXCEPT ![w] = arg[c]]
  /\ heap' = heap \cup {w}
  /\ is_active' = is_active \cup {w}
  /\ is_hot' = is_hot \cup {w}
  /\ disk' = disk \cup {arg[c]}
  /\ filt' = [filt EXCEPT ![c] = w]
  /\ Goto(c, "bump")
  /\ UNCHANGED <<mgr, write_lock, should_delete, proxied, op, arg, tree, cur,
                 reg, listed, early, vacuum>>

\* drop: deactivate and mark for deletion.
DropFilter(c) ==
  /\ pc[c] = "found"
  /\ op[c] = "drop"
  /\ filt[c] \in is_active
  /\ is_active' = is_active \ {filt[c]}
  /\ should_delete' = should_delete \cup {filt[c]}
  /\ Goto(c, "bump")
  /\ UNCHANGED <<mgr, write_lock, heap, wname, is_hot, proxied, disk, locals,
                 early, vacuum>>

\* clear: only a proxied filter; it is closed and its files stay.
ClearFilter(c) ==
  /\ pc[c] = "found"
  /\ op[c] = "clear"
  /\ filt[c] \in is_active
  /\ \/ /\ filt[c] \notin proxied
        /\ Return(c)
        /\ UNCHANGED <<is_active, should_delete>>
     \/ /\ filt[c] \in proxied
        /\ is_active' = is_active \ {filt[c]}
        /\ should_delete' = should_delete \ {filt[c]}
        /\ Goto(c, "bump")
        /\ UNCHANGED <<write_lock, locals>>
  /\ UNCHANGED <<mgr, heap, wname, is_hot, proxied, disk, early, vacuum>>

\* create_delta_update: first the version ...
BumpVsn(c) ==
  /\ pc[c] = "bump"
  /\ vsn' = vsn + 1
  /\ Goto(c, "link")
  /\ UNCHANGED <<should_run, clientList, write_lock, deltaVars, treeVars,
                 wrapVars, locals, early, vacuum>>

\* Links one more node at the head of the delta list.
LinkNode(type, w) ==
  /\ delta' = Append(delta, Node(type, w))
  /\ nodes' = nodes \cup {Len(delta) + 1}

\* ... then the node is linked; the call unlocks and returns.
LinkDelta(c) ==
  /\ pc[c] = "link"
  /\ LinkNode(IF op[c] = "create" THEN "CREATE" ELSE "DELETE", filt[c])
  /\ Return(c)
  /\ UNCHANGED <<should_run, clientList, vsn, trimmed, treeVars, wrapVars,
                 early, vacuum>>

-----------------------------------------------------------------------------
(***************************************************************************)
(* The vacuum thread, filtmgr_thread_main.                                 *)
(***************************************************************************)

VGoto(label) == vpc' = label

Least(a, b) == IF a < b THEN a ELSE b

\* The loop test: leave when told to stop, poll while nothing changed.
VacuumExit ==
  /\ vpc = "top"
  /\ ~should_run
  /\ VGoto("exited")
  /\ UNCHANGED <<mgr, write_lock, wrapVars, clientSide, roundVars, walkVars>>

\* Slip: the special case is skipped and its wait for the write lock with it.
VacuumTopNoSpecial ==
  /\ vpc = "top" /\ should_run /\ vsn # primary_vsn
  /\ VGoto("min")
  /\ UNCHANGED <<mgr, write_lock, wrapVars, clientSide, roundVars, walkVars>>

\* Something changed.  One version behind may mean that all that is left is
\* the barrier of the previous round.
VacuumTop ==
  /\ vpc = "top"
  /\ should_run
  /\ vsn # primary_vsn
  /\ mgr_vsn' = IF vsn - primary_vsn = 1 THEN vsn ELSE 0
  /\ VGoto(IF vsn - primary_vsn = 1 THEN "special" ELSE "min")
  /\ UNCHANGED <<mgr, write_lock, wrapVars, clientSide, phase, min_vsn,
                 barrier_vsn, walkVars>>

\* Under the write lock: a lone barrier only moves primary_vsn.
LoneBarrier ==
  /\ mgr_vsn = vsn
  /\ Head0 # 0
  /\ delta[Head0].type = "BARRIER"

VacuumSpecial ==
  /\ vpc = "special"
  /\ write_lock = NULL
  /\ primary_vsn' = IF LoneBarrier THEN mgr_vsn ELSE primary_vsn
  /\ VGoto(IF LoneBarrier THEN "top" ELSE "min")
  /\ mgr_vsn' = 0
  /\ UNCHANGED <<should_run, clientList, vsn, trees, filter_map,
                 pending_deletes, deltaVars, write_lock, wrapVars, clientSide,
                 phase, min_vsn, barrier_vsn, walkVars>>

\* client_min_vsn, used twice in a round: reads mgr->vsn, ...
ClientMinVsn ==
  /\ vpc = "min"
  /\ cmin' = vsn
  /\ VGoto("clients")
  /\ UNCHANGED <<mgr, write_lock, wrapVars, clientSide, roundVars, scan,
                 cursor, last>>

\* ... the head of the client list (who joins later is not visited), ...
ClientMinHead ==
  /\ vpc = "clients"
  /\ scan' = clients
  /\ VGoto("scan")
  /\ UNCHANGED <<mgr, write_lock, wrapVars, clientSide, roundVars, cmin,
                 cursor, last>>

\* ... and then the announced version of each client.
ClientMinScan(c) ==
  /\ vpc = "scan"
  /\ c \in scan
  /\ cmin' = Least(cmin, client_vsn[c])
  /\ scan' = scan \ {c}
  /\ UNCHANGED <<mgr, write_lock, wrapVars, clientSide, vpc, roundVars,
                 cursor, last>>

\* Slip: "strictly less than the minimum", taken literally.
PlanDoneStrict ==
  /\ vpc = "scan" /\ scan = {} /\ phase = "plan"
  /\ min_vsn' = cmin - 1
  /\ cmin' = 0
  /\ VGoto("merge")
  /\ UNCHANGED <<mgr, write_lock, wrapVars, clientSide, phase, mgr_vsn,
                 barrier_vsn, scan, cursor, last>>

\* The plan of the round: everything up to the minimum is merged.
PlanDone ==
  /\ vpc = "scan" /\ scan = {} /\ phase = "plan"
  /\ min_vsn' = cmin
  /\ cmin' = 0
  /\ VGoto("merge")
  /\ UNCHANGED <<mgr, write_lock, wrapVars, clientSide, phase, mgr_vsn,
                 barrier_vsn, scan, cursor, last>>

\* merge_old_versions reads mgr->delta and recurses to the oldest node.
MergeStart ==
  /\ vpc = "merge"
  /\ cursor' = trimmed + 1
  /\ last' = Least(Len(delta), min_vsn)
  /\ VGoto("apply")
  /\ UNCHANGED <<mgr, write_lock, wrapVars, clientSide, roundVars, cmin,
                 scan>>

\* art_insert or art_delete, by name, on the alternate tree.
Applied(t, node) ==
  IF node.type = "BARRIER" THEN t
  ELSE [t EXCEPT ![wname[node.filter]] =
          IF node.type = "CREATE" THEN node.filter ELSE NULL]

MergeApply ==
  /\ vpc = "apply"
  /\ cursor <= last
  /\ trees' = [trees EXCEPT ![AltMap] = Applied(@, delta[cursor])]
  /\ cursor' = cursor + 1
  /\ UNCHANGED <<should_run, clientList, vsn, filter_map, primary_vsn,
                 pending_deletes, deltaVars, write_lock, wrapVars, clientSide,
                 vpc, roundVars, cmin, scan, last>>

MergeDone ==
  /\ vpc = "apply"
  /\ cursor > last
  /\ VGoto(IF phase = "plan" THEN "mark" ELSE "trim")
  /\ cursor' = 0 /\ last' = 0
  /\ UNCHANGED <<mgr, write_lock, wrapVars, clientSide, roundVars, cmin,
                 scan>>

\* Slip: the newest delete of the round is not marked.
MarkPendingOffByOne ==
  /\ vpc = "mark"
  /\ pending_deletes' =
       {wname[delta[v].filter] :
          v \in {u \in trimmed + 1 .. Least(Len(delta), min_vsn) - 1 :
                   delta[u].type = "DELETE"}}
  /\ VGoto("swap")
  /\ UNCHANGED <<should_run, clientList, vsn, trees, filter_map, primary_vsn,
                 deltaVars, write_lock, wrapVars, clientSide, roundVars, walkVars>>

\* mark_pending_deletes: the names that this round will delete.
MarkPending ==
  /\ vpc = "mark"
  /\ pending_deletes' =
       {wname[delta[v].filter] :
          v \in {u \in trimmed + 1 .. Least(Len(delta), min_vsn) :
                   delta[u].type = "DELETE"}}
  /\ VGoto("swap")
  /\ UNCHANGED <<should_run, clientList, vsn, trees, filter_map, primary_vsn,
                 deltaVars, write_lock, wrapVars, clientSide, roundVars,
                 walkVars>>

\* swap_filter_maps: the pointers, ...
SwapMaps ==
  /\ vpc = "swap"
  /\ filter_map' = AltMap
  /\ VGoto("publish")
  /\ UNCHANGED <<should_run, clientList, vsn, trees, primary_vsn,
                 pending_deletes, deltaVars, write_lock, wrapVars, clientSide,
                 roundVars, walkVars>>

\* ... then the version.
PublishVsn ==
  /\ vpc = "publish"
  /\ primary_vsn' = min_vsn
  /\ VGoto("barrier")
  /\ UNCHANGED <<should_run, clientList, vsn, trees, filter_map,
                 pending_deletes, deltaVars, write_lock, wrapVars, clientSide,
                 roundVars, walkVars>>

\* version_barrier: a new version under the write lock, ...
BarrierBump ==
  /\ vpc = "barrier"
  /\ write_lock = NULL
  /\ write_lock' = Vacuum
  /\ vsn' = vsn + 1
  /\ barrier_vsn' = vsn + 1
  /\ phase' = "barrier"
  /\ VGoto("blink")
  /\ UNCHANGED <<should_run, clientList, treeVars, deltaVars, wrapVars,
                 clientSide, mgr_vsn, min_vsn, walkVars>>

\* ... linked as a BARRIER node, ...
BarrierLink ==
  /\ vpc = "blink"
  /\ LinkNode("BARRIER", NULL)
  /\ write_lock' = NULL
  /\ VGoto("poll")
  /\ UNCHANGED <<should_run, clientList, vsn, treeVars, trimmed, wrapVars,
                 clientSide, roundVars, walkVars>>

\* Slip: the vacuum does not wait for the clients.
BarrierPollNoWait ==
  /\ vpc = "poll"
  /\ VGoto("merge")
  /\ UNCHANGED <<mgr, write_lock, wrapVars, clientSide, roundVars, walkVars>>

\* Slip: the wait does not look at should_run.
BarrierPollForever ==
  /\ vpc = "poll"
  /\ VGoto("min")
  /\ UNCHANGED <<mgr, write_lock, wrapVars, clientSide, roundVars, walkVars>>

\* ... and a wait until every client has announced it, or we must stop.
BarrierPoll ==
  /\ vpc = "poll"
  /\ VGoto(IF should_run THEN "min" ELSE "merge")
  /\ UNCHANGED <<mgr, write_lock, wrapVars, clientSide, roundVars, walkVars>>

\* Slip: one version short of the barrier is enough.
PollDoneOneShort ==
  /\ vpc = "scan" /\ scan = {} /\ phase = "barrier"
  /\ VGoto(IF cmin < barrier_vsn - 1 THEN "poll" ELSE "merge")
  /\ cmin' = 0
  /\ UNCHANGED <<mgr, write_lock, wrapVars, clientSide, roundVars, scan, cursor,
                 last>>

\* Slip: the clients must be past the barrier.
PollDoneTooStrict ==
  /\ vpc = "scan" /\ scan = {} /\ phase = "barrier"
  /\ VGoto(IF cmin <= barrier_vsn THEN "poll" ELSE "merge")
  /\ cmin' = 0
  /\ UNCHANGED <<mgr, write_lock, wrapVars, clientSide, roundVars, scan, cursor,
                 last>>

\* Slip: the second merge is forgotten.
PollDoneNoMerge ==
  /\ vpc = "scan" /\ scan = {} /\ phase = "barrier"
  /\ VGoto(IF cmin < barrier_vsn THEN "poll" ELSE "trim")
  /\ cmin' = 0
  /\ UNCHANGED <<mgr, write_lock, wrapVars, clientSide, roundVars, scan, cursor,
                 last>>

PollDone ==
  /\ vpc = "scan" /\ scan = {} /\ phase = "barrier"
  /\ VGoto(IF cmin < barrier_vsn THEN "poll" ELSE "merge")
  /\ cmin' = 0
  /\ UNCHANGED <<mgr, write_lock, wrapVars, clientSide, roundVars, scan,
                 cursor, last>>

\* remove_delta_versions, under the write lock: cut the list after the last
\* node newer than min_vsn.  The cut part is then freed from its top.
TrimDeltas ==
  LET top == Least(Len(delta), min_vsn)
  IN  /\ vpc = "trim"
      /\ write_lock = NULL
      /\ trimmed' = IF top > trimmed THEN top ELSE trimmed
      /\ cursor' = IF top > trimmed THEN top ELSE trimmed
      /\ last' = trimmed
      /\ VGoto("reap")
      /\ UNCHANGED <<should_run, clientList, vsn, treeVars, delta, nodes,
                     write_lock, wrapVars, clientSide, roundVars, cmin, scan>>

\* delete_old_versions: a DELETE node takes its wrapper with it (delete_filter
\* removes the folder or only closes the filter), and the node is freed.
Reap ==
  LET node == delta[cursor]
      doomed == IF node.type = "DELETE" THEN {node.filter} ELSE {}
  IN  /\ vpc = "reap"
      /\ cursor > last
      /\ heap' = heap \ doomed
      /\ proxied' = proxied \ doomed
      /\ disk' = disk \ {wname[w] : w \in doomed \cap should_delete}
      /\ nodes' = nodes \ {cursor}
      /\ cursor' = cursor - 1
      /\ UNCHANGED <<should_run, clientList, vsn, treeVars, delta, trimmed,
                     write_lock, wname, is_active, is_hot, should_delete,
                     clientSide, vpc, roundVars, cmin, scan, last>>

\* clear_pending_deletes ends the round.
ClearPending ==
  /\ vpc = "reap"
  /\ cursor = last
  /\ pending_deletes' = {}
  /\ VGoto("top")
  /\ phase' = "plan"
  /\ min_vsn' = 0 /\ barrier_vsn' = 0 /\ cursor' = 0 /\ last' = 0
  /\ UNCHANGED <<should_run, clientList, vsn, trees, filter_map, primary_vsn,
                 deltaVars, write_lock, wrapVars, clientSide, mgr_vsn, cmin,
                 scan>>

-----------------------------------------------------------------------------
(***************************************************************************)
(* Shutdown, as main does it: the threads that use the manager are joined, *)
(* then destroy_filter_manager stops and joins the vacuum and frees all.   *)
(***************************************************************************)

Shutdown ==
  /\ should_run
  /\ \A c \in Clients : pc[c] = "idle"
  /\ should_run' = FALSE
  /\ pc' = [c \in Clients |-> "gone"]
  /\ UNCHANGED <<clientList, vsn, treeVars, deltaVars, write_lock, wrapVars,
                 locals, early, vacuum>>

InPrimary == {trees[filter_map][n] : n \in Names} \ {NULL}

\* Slip: creates that were never merged are forgotten.
NoPendingCreates == {}

\* Wrappers that only the delta list knows.
PendingCreates ==
  {delta[v].filter : v \in {u \in trimmed + 1 .. Len(delta) :
                              delta[u].type = "CREATE"}}

\* Slip: pending creates keep their files too.
DestroyKeepsAll ==
  /\ vpc = "exited"
  /\ heap' = heap \ (InPrimary \cup PendingCreates)
  /\ proxied' = proxied \ (InPrimary \cup PendingCreates)
  /\ nodes' = {}
  /\ VGoto("destroyed")
  /\ UNCHANGED <<should_run, clientList, vsn, treeVars, delta, trimmed,
                 write_lock, wname, is_active, is_hot, should_delete, disk,
                 clientSide, roundVars, walkVars>>

\* filter_map_delete_cb closes what the primary tree holds and keeps the
\* files; the creates still in the list follow.
Destroy ==
  /\ vpc = "exited"
  /\ should_delete' = should_delete \ InPrimary
  /\ heap' = heap \ (InPrimary \cup PendingCreates)
  /\ proxied' = proxied \ (InPrimary \cup PendingCreates)
  /\ disk' = disk \ {wname[w] : w \in (PendingCreates \cap should_delete) \ InPrimary}
  /\ nodes' = {}
  /\ VGoto("destroyed")
  /\ UNCHANGED <<should_run, clientList, vsn, treeVars, delta, trimmed,
                 write_lock, wname, is_active, is_hot, clientSide, roundVars,
                 walkVars>>

\* Nothing is left to do.
Terminated == vpc = "destroyed" /\ UNCHANGED vars

-----------------------------------------------------------------------------
ClientStep(c) ==
  \/ CheckpointStore(c) \/ Lock(c) \/ LoadTree(c) \/ Search(c) \/ IterList(c)
  \/ IterCold(c) \/ ReadPrimaryVsn(c) \/ CompareVsn(c) \/ ReadDelta(c)
  \/ WalkMatch(c) \/ WalkOn(c) \/ WalkNext(c) \/ ListDone(c) \/ Miss(c)
  \/ CreatePending(c) \/ Refuse(c) \/ Take(c) \/ UseKeys(c) \/ UsePeek(c)
  \/ UseUnmap(c) \/ AddFails(c) \/ DropFilter(c) \/ ClearFilter(c)
  \/ BumpVsn(c) \/ LinkDelta(c) \/ \E w \in Wrappers : AddFilter(c, w)

VacuumStep ==
  \/ VacuumExit \/ VacuumTop \/ VacuumSpecial \/ ClientMinVsn \/ ClientMinHead
  \/ \E c \in Clients : ClientMinScan(c)
  \/ PlanDone \/ MergeStart \/ MergeApply \/ MergeDone \/ MarkPending
  \/ SwapMaps \/ PublishVsn \/ BarrierBump \/ BarrierLink \/ BarrierPoll
  \/ PollDone \/ TrimDeltas \/ Reap \/ ClearPending \/ Destroy

Next ==
  \/ \E c \in Clients : ClientStep(c) \/ CheckpointRead(c)
  \/ \E c \in Clients, o \in Ops, n \in Names : Call(c, o, n)
  \/ VacuumStep
  \/ Shutdown
  \/ Terminated

Spec == Init /\ [][Next]_vars

\* Threads run on; a mutex that is released again and again is obtained; the
\* periodic timer of a client fires again and again, whatever else it does.
Fairness ==
  /\ SF_vars(VacuumStep)
  /\ \A c \in Clients : SF_vars(ClientStep(c)) /\ SF_vars(CheckpointRead(c))

FairSpec == Spec /\ Fairness

-----------------------------------------------------------------------------
(***************************************************************************)
(* Properties.                                                             *)
(***************************************************************************)

ClientLabels ==
  {"start", "idle", "checkpoint", "lock", "load", "search", "compare",
   "compare2", "head", "walk", "next", "listed", "miss", "found", "use", "add",
   "bump", "link", "gone"}

VacuumLabels ==
  {"top", "special", "min", "clients", "scan", "merge", "apply", "mark", "swap",
   "publish", "barrier", "blink", "poll", "trim", "reap", "exited", "destroyed"}

MaybeWrapper == Wrappers \cup {NULL}

ManagerTypeOK ==
  /\ should_run \in BOOLEAN
  /\ clients \subseteq Clients /\ client_vsn \in [Clients -> Nat]
  /\ vsn \in Nat /\ primary_vsn \in Nat
  /\ write_lock \in Clients \cup {Vacuum, NULL}
  /\ trees \in [1..2 -> [Names -> MaybeWrapper]] /\ filter_map \in 1..2
  /\ pending_deletes \subseteq Names
  /\ delta \in Seq([type : Types, filter : MaybeWrapper])
  /\ \A v \in 1..Len(delta) : delta[v].type # "BARRIER" => delta[v].filter # NULL
  /\ trimmed \in Nat /\ trimmed <= Len(delta)
  /\ nodes \subseteq 1..Len(delta)

WrapperTypeOK ==
  /\ heap \subseteq Wrappers /\ wname \in [Wrappers -> Names \cup {NULL}]
  /\ is_active \subseteq Wrappers /\ is_hot \subseteq Wrappers
  /\ should_delete \subseteq Wrappers /\ proxied \subseteq Wrappers
  /\ disk \subseteq Names

ClientTypeOK ==
  /\ pc \in [Clients -> ClientLabels] /\ op \in [Clients -> AllOps \cup {"none"}]
  /\ arg \in [Clients -> Names \cup {NULL}] /\ tree \in [Clients -> 0..2]
  /\ cur \in [Clients -> Nat] /\ filt \in [Clients -> MaybeWrapper]
  /\ reg \in [Clients -> Nat] /\ listed \in [Clients -> [Names -> Nat]]
  /\ early \subseteq Clients

VacuumTypeOK ==
  /\ vpc \in VacuumLabels /\ phase \in {"plan", "barrier"}
  /\ mgr_vsn \in Nat /\ min_vsn \in Nat /\ barrier_vsn \in Nat
  /\ cmin \in Nat /\ scan \subseteq Clients /\ cursor \in Nat /\ last \in Nat

\* Every field and local of the manager has the type its declaration gives it;
\* a version that is unsigned in C never goes below zero, and a delta that is
\* not a barrier always has a wrapper.
TypeOK == ManagerTypeOK /\ WrapperTypeOK /\ ClientTypeOK /\ VacuumTypeOK

\* Is everything the client can dereference at its next step allocated?  It
\* reads the wrapper it holds, the delta node it stands on with the name of
\* that node's wrapper, or any wrapper of the tree it searches.
Reachable(c) ==
  /\ pc[c] \in {"found", "use", "bump", "link"} => filt[c] \in heap
  /\ pc[c] \in {"walk", "next"} => cur[c] \in nodes
  /\ pc[c] = "walk" => delta[cur[c]].filter \in heap \cup {NULL}
  /\ pc[c] = "search" => \A n \in Names : trees[tree[c]][n] \in heap \cup {NULL}

\* No client touches a wrapper or a delta node that delete_old_versions has
\* freed (filter_manager.c:995-1009), provided the version it announced last
\* was not read between the two writes with which version_barrier publishes
\* its version (++mgr->vsn and mgr->delta, lines 876 and 880).
NoUseAfterFree == \A c \in Clients \ early : Reachable(c)

\* merge_old_versions never changes a tree that a client is searching:
\* "Safe ONLY if no other thread is using alt_filter_map" (line 886).
AltTreeUnshared ==
  vpc = "apply" => \A c \in Clients : pc[c] = "search" => tree[c] # AltMap

\* Neither the special case nor a merge dereferences an empty delta list:
\* both read mgr->delta without a NULL test (lines 1072, 890), and a writer
\* raises mgr->vsn before it links its node.
DeltaNotNull ==
  (vpc = "merge" \/ (vpc = "special" /\ write_lock = NULL)) => Head0 # 0

\* Deltas up to version k that are about name n.
About(n, k) ==
  {v \in 1..k : delta[v].type # "BARRIER" /\ wname[delta[v].filter] = n}

\* Tree t is what replaying the deltas up to version k leaves of name n.
Replays(t, n, k) ==
  \A v \in About(n, k) :
     (\A u \in About(n, k) : u <= v) =>
        trees[t][n] = (IF delta[v].type = "CREATE" THEN delta[v].filter ELSE NULL)

\* How far each tree has been merged.  A thread that joins late can lower
\* min_vsn below what was merged and cut off in an earlier round.
Merged(t) ==
  LET top == Least(Len(delta), min_vsn)
      planned == IF top > trimmed THEN top ELSE trimmed
  IN  IF t = AltMap
      THEN IF vpc = "apply" THEN cursor - 1
           ELSE IF vpc \in {"mark", "swap", "trim"} THEN planned ELSE trimmed
      ELSE IF phase = "barrier" \/ vpc \in {"publish", "barrier"}
           THEN planned ELSE trimmed

\* Both trees always hold exactly the deltas merged into them, in order, so
\* no create or drop is lost or undone when the trees are swapped, and no
\* delta is cut off the list before both trees have it.
TreesReplayDeltas ==
  \A t \in 1..2, n \in Names : Replays(t, n, Merged(t))

\* What the wrappers of a name amount to.
StatusOf(n) ==
  LET mine == {w \in heap : wname[w] = n}
  IN  IF vpc = "destroyed" \/ mine = {} THEN "absent"
      ELSE IF mine \cap is_active # {} THEN "active"
      ELSE "doomed"

Life == INSTANCE Registry WITH
          status <- [n \in Names |-> StatusOf(n)], open <- vpc # "destroyed"

\* The manager implements Registry: however calls, merges, swaps and rounds of
\* the vacuum interleave, each name goes from absent to active to doomed and
\* back.  In particular create never opens the folder of a filter whose wrapper
\* the vacuum has yet to delete, be it in the tree, in the list or in
\* pending_deletes ("so that create does not allow a filter to be created before
\* we manage to call delete_old_versions", lines 1100-1107), and the vacuum
\* frees no wrapper that was not dropped.
ImplementsRegistry == Life!Spec

\* The last word about name n, said by one of the deltas 1 .. k, is the create
\* of a filter that is active.
Registered(n, k) ==
  \E v \in About(n, k) : /\ \A u \in About(n, Len(delta)) : u <= v
                         /\ delta[v].type = "CREATE"
                         /\ delta[v].filter \in is_active

\* The deltas a search must not overlook: under the write lock all of them; a
\* reader, those linked before its last checkpoint, which are all but the last
\* it announced, as that one may have been about to be linked.
Visible(c) == IF op[c] \in WriteOps THEN Len(delta) ELSE client_vsn[c] - 1

\* A call is told that the filter does not exist only if no active filter of
\* that name was created before the caller's last checkpoint: "-1 if the
\* filter does not exist" (line 332).
MissMeansAbsent ==
  \A c \in Clients : pc[c] = "miss" => ~Registered(arg[c], Visible(c))

\* Between swap_filter_maps and the end of its round.
Swapped == vpc \in {"publish", "barrier"} \/ phase = "barrier"

\* find_filter overlooks a registered filter only while a round that has
\* swapped the trees is not finished: otherwise a reader that misses a name
\* knows that nobody had registered it before its last checkpoint, and a
\* create, which holds the write lock, that nobody has at all (lines 630-656).
LookupSeesAll ==
  \A c \in Clients :
     pc[c] \in {"miss", "add"} /\ ~Swapped => ~Registered(arg[c], Visible(c))

\* Another filter was registered under the name of w after w was, by a create
\* that overlooked w.
Replaced(w) ==
  \E v \in About(wname[w], Len(delta)) :
     /\ delta[v].filter # w
     /\ \A u \in 1..Len(delta) : delta[u] = Node("CREATE", w) => u < v

\* filtmgr_drop_filter "deletes it from disk. This is a permanent operation"
\* (lines 440-441): destroy_filter_manager leaves the folder of a dropped
\* filter only when the drop never reached the primary tree, whose wrappers
\* lose their mark (line 809), or when the filter was replaced.
DropIsPermanent ==
  [][Destroy => \A w \in should_delete \cap heap :
       wname[w] \in disk' => w \in InPrimary \/ Replaced(w)]_vars

\* When the vacuum has stopped, destroy_filter_manager frees each wrapper at
\* most once, and only allocated ones ("pending deletes are still in the
\* primary tree", lines 212-216); and every filter is closed, and with that
\* flushed (lines 202-216), unless it was replaced.
DestroyClosesAllOnce ==
  /\ vpc = "exited" =>
       /\ InPrimary \cap PendingCreates = {}
       /\ InPrimary \cup PendingCreates \subseteq heap
  /\ vpc = "destroyed" => \A w \in heap : Replaced(w)

\* A dropped or cleared filter is freed in the end, or the process ends: the
\* barrier of each round is reached because every client checkpoints.
DoomedIsReclaimed ==
  \A w \in Wrappers :
    (w \in heap \ is_active) ~> (w \notin heap \/ vpc = "destroyed")

\* Once no more writes come, the vacuum comes to rest: its own barriers do not
\* keep it busy ("handle the special case where ... the only delta is a
\* barrier", lines 1061-1067).
VacuumSettles == <>[](~should_run \/ vsn = primary_vsn)

\* destroy_filter_manager returns: a vacuum that waits for clients that are
\* gone gives up its barrier (line 1038).
ShutdownCompletes == ~should_run ~> vpc = "destroyed"

=============================================================================
