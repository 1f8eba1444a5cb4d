----------------------- MODULE FilterManagerRegistry -----------------------
(***************************************************************************)
(* What the filter manager promises to its callers, for any threads, names *)
(* and wrappers: both trees are the replay of the deltas merged into them, *)
(* a lookup overlooks nothing outside the window of a swap, shutdown       *)
(* closes every filter once, and the manager implements Registry.          *)
(***************************************************************************)
EXTENDS FilterManagerProofs

\* How far the primary tree is merged.
Base == IF Swapped THEN Planned ELSE trimmed

\* The list is empty only before the first write: a round links its barrier
\* before it cuts, and the vacuum does not begin one before the first node is
\* linked.
EmptyInv ==
  /\ primary_vsn <= Len(delta)
  /\ trimmed = 0 \/ trimmed < Len(delta)
  /\ vpc = "special" => vsn >= 1 /\ mgr_vsn = primary_vsn + 1
  /\ vpc \in {"min", "clients", "scan", "merge"} /\ phase = "plan" =>
       Len(delta) >= 1

\* The client is adding, or taking away, wrapper w.
Changing(c, w) == pc[c] \in {"bump", "link"} /\ filt[c] = w
Adding(c, w) == Changing(c, w) /\ op[c] = "create"

Created(w) == \E v \in 1..Len(delta) : delta[v] = Node("CREATE", w)

\* A wrapper is created once, and one that is not active any more has its
\* delete in the list or is about to get it.
CreatedInv ==
  /\ \A u, v \in 1..Len(delta) :
       /\ delta[u].type = "CREATE" /\ delta[v].type = "CREATE"
       /\ delta[u].filter = delta[v].filter
       => u = v
  /\ \A c \in Clients, w \in Wrappers : Adding(c, w) => w \in is_active /\ ~Created(w)
  /\ \A w \in Wrappers : wname[w] # NULL /\ w \notin is_active =>
       \/ Dead(w, Len(delta))
       \/ \E c \in Clients : Changing(c, w) /\ op[c] # "create"

\* Of the deltas about a name, one is the last.
LastInv ==
  \A n \in Names, k \in 0..Len(delta) : About(n, k) # {} =>
    \E v \in About(n, k) : \A u \in About(n, k) : u <= v

\* What a tree holds was created up to where the tree is merged, or was there
\* from the start.
OriginInv ==
  \A t \in 1..2, n \in Names : trees[t][n] # NULL =>
    /\ \A v \in 1..Len(delta) : delta[v] = Node("CREATE", trees[t][n]) => v <= Merged(t)
    /\ \A c \in Clients : ~Adding(c, trees[t][n])

\* Both trees still hold a wrapper found on disk while no delta about its name
\* is merged.
LoadedInv ==
  \A w \in Wrappers :
    \/ wname[w] = NULL \/ Created(w) \/ \E c \in Clients : Adding(c, w)
    \/ \A t \in 1..2 : About(wname[w], Merged(t)) = {} => trees[t][wname[w]] = w

\* What was deleted in the part of the list that is cut off is freed, up to
\* where delete_old_versions has come.
HeapInv ==
  /\ \A w \in heap : wname[w] # NULL
  /\ vpc # "destroyed" => \A w \in heap : Dead(w, trimmed) =>
       /\ vpc = "reap"
       /\ \E v \in 1..Len(delta) : last < v /\ v <= cursor /\ delta[v] = Node("DELETE", w)

\* The names of what the round deletes are pending from the swap to the end.
PendingInv ==
  /\ vpc \in {"swap", "publish", "barrier"} \/ (phase = "barrier" /\ vpc # "reap") =>
       \A v \in 1..Len(delta) :
         trimmed < v /\ v <= min_vsn /\ delta[v].type = "DELETE" =>
           wname[delta[v].filter] \in pending_deletes
  /\ vpc = "reap" =>
       \A v \in 1..Len(delta) :
         last < v /\ v <= cursor /\ delta[v].type = "DELETE" =>
           wname[delta[v].filter] \in pending_deletes

\* Where primary_vsn runs ahead of the primary tree there are only barriers.
PrimaryInv ==
  \A v \in 1..Len(delta) :
    Base < v /\ v <= primary_vsn => delta[v].type = "BARRIER"

\* What a search of the deltas has left behind does not concern it, or is
\* merged into the primary tree.
SearchAt(c) ==
  /\ pc[c] = "compare2" =>
       /\ reg[c] <= Len(delta)
       /\ \A v \in About(arg[c], reg[c]) : v <= Base
  /\ pc[c] = "walk" => \A v \in About(arg[c], Visible(c)) : v <= cur[c]
  /\ pc[c] = "next" => \A v \in About(arg[c], Visible(c)) : v < cur[c]
  /\ pc[c] \in {"miss", "add"} => \A v \in About(arg[c], Visible(c)) : v <= Base

SearchInv == \A c \in Clients : op[c] \notin ListOps => SearchAt(c)

\* The client has searched a tree that lacks a filter which the primary tree
\* has.
Lost(c) ==
  /\ pc[c] \in {"compare", "compare2", "head", "walk", "next", "miss", "add"}
  /\ op[c] \notin ListOps
  /\ \E v \in About(arg[c], Visible(c)) :
       /\ \A u \in About(arg[c], Len(delta)) : u <= v
       /\ delta[v].type = "CREATE" /\ v <= Base

\* Then the round waits for it.
LostInv == \A c \in Clients : Lost(c) => WaitsFor(c)

\* create adds no filter while the folder of its name belongs to one that is
\* being deleted.
AddInv ==
  \A c \in Clients : pc[c] = "add" =>
    \A w \in heap : wname[w] = arg[c] => w \in is_active

ClosedInv == vpc = "destroyed" => \A w \in heap : Replaced(w)

RegistryInv ==
  /\ EmptyInv /\ CreatedInv /\ LastInv /\ TreesReplayDeltas /\ OriginInv
  /\ LoadedInv /\ HeapInv /\ PendingInv /\ PrimaryInv /\ SearchInv /\ LostInv /\ AddInv
  /\ ClosedInv

-----------------------------------------------------------------------------
(***************************************************************************)
(* The list is not empty where it is read without a test.                  *)
(***************************************************************************)

\* While the write lock is free, every version has its node.
LEMMA FreeLock ==
  ASSUME TypeInv, LockInv, VsnInv, write_lock = NULL
  PROVE  vsn = Len(delta)
<1> USE ConstantsAssumption
<1>1. vpc # "blink"
  BY Zenon DEF LockInv
<1>2. \A c \in Clients : pc[c] # "link"
  BY OneLinker, Zenon
<1> QED BY <1>1, <1>2, Zenon DEF VsnInv

LEMMA EmptyStep ==
  ASSUME TypeInv, LockInv, VsnInv, PhaseInv, PlanInv, EmptyInv, [Next]_vars
  PROVE  EmptyInv'
<1> USE ConstantsAssumption
<1>1. /\ vpc \in VacuumLabels /\ vsn \in Nat /\ min_vsn \in Nat /\ mgr_vsn \in Nat
      /\ primary_vsn \in Nat /\ trimmed \in Nat /\ trimmed <= Len(delta)
      /\ barrier_vsn \in Nat
  BY Zenon DEF TypeInv, TypeOK, ManagerTypeOK, VacuumTypeOK
<1>2. Len(delta) \in Nat /\ Len(delta') \in Nat /\ Len(delta) <= Len(delta')
  BY Grows, Zenon
<1>3. vsn <= Len(delta) + 1 /\ Len(delta) <= vsn
  BY <1>1, <1>2, SMTT(120) DEF VsnInv
<1>4. CASE UNCHANGED <<vpc, phase, primary_vsn, trimmed, mgr_vsn>> /\ vsn' \in Nat /\ vsn <= vsn'
  BY <1>1, <1>2, <1>4, SMTT(120) DEF EmptyInv
<1>5. ASSUME NEW c \in Clients, ClientAction(c) PROVE EmptyInv'
  <2>1. vsn' = vsn \/ vsn' = vsn + 1
    BY <1>5, ClientManagerFrame, Zenon DEF mgr, CheckpointStore, BumpVsn, LinkDelta
  <2>2. vsn' \in Nat /\ vsn <= vsn'
    BY <1>1, <2>1, SMTT(120)
  <2> QED BY <1>4, <1>5, <2>2, ClientFrame, Zenon DEF vacuum, roundVars, treeVars
<1>6. ASSUME VacuumStep PROVE EmptyInv'
  <2>1. CASE VacuumTop
    BY <1>1, <1>2, <1>3, <2>1, SMTT(120)
    DEF VacuumTop, EmptyInv, VGoto, mgr, deltaVars, treeVars
  <2>2. CASE VacuumSpecial
    <3>1. vsn = Len(delta)
      BY <2>2, FreeLock, Zenon DEF VacuumSpecial
    <3> QED BY <1>1, <1>2, <2>2, <3>1, SMTT(120)
            DEF VacuumSpecial, LoneBarrier, EmptyInv, VGoto, deltaVars
  <2>3. CASE TrimDeltas
    <3>1. phase = "barrier" /\ min_vsn < Len(delta) /\ vpc' = "reap"
      BY <1>1, <1>2, <2>3, SMTT(120) DEF TrimDeltas, PhaseInv, VGoto
    <3> QED BY <1>1, <1>2, <2>3, <3>1, SMTT(120)
            DEF TrimDeltas, EmptyInv, VGoto, treeVars, Least
  <2>4. CASE PublishVsn
    BY <1>1, <1>2, <2>4, SMTT(120) DEF PublishVsn, EmptyInv, PlanInv, VGoto, deltaVars
  <2>5. CASE BarrierBump \/ BarrierLink \/ BarrierPoll \/ PollDone
    <3>1. /\ UNCHANGED <<primary_vsn, trimmed>> /\ phase' = "barrier" /\ vpc' # "special"
      BY <2>5, Zenon
      DEF BarrierBump, BarrierLink, BarrierPoll, PollDone, PhaseInv, VGoto, mgr,
          treeVars, deltaVars, roundVars
    <3> QED BY <1>1, <1>2, <3>1, SMTT(120) DEF EmptyInv
  <2>6. CASE VacuumExit \/ MergeStart \/ MergeApply \/ MergeDone \/ MarkPending \/ SwapMaps
             \/ Reap \/ ClearPending \/ Destroy
    <3>1. /\ UNCHANGED <<primary_vsn, trimmed>>
          /\ vpc' \notin {"special", "min", "clients", "scan", "merge"}
      BY <2>6, Zenon
      DEF VacuumExit, MergeStart, MergeApply, MergeDone, MarkPending, SwapMaps,
          Reap, ClearPending, Destroy, VGoto, mgr, treeVars, deltaVars
    <3> QED BY <1>1, <1>2, <3>1, SMTT(120) DEF EmptyInv
  <2>7. CASE ClientMinVsn \/ ClientMinHead \/ PlanDone \/ \E c \in Clients : ClientMinScan(c)
    <3>1. /\ UNCHANGED <<primary_vsn, trimmed, phase, delta>>
          /\ vpc \in {"min", "clients", "scan"} /\ vpc' \in {"clients", "scan", "merge"}
      BY <2>7, Zenon
      DEF ClientMinVsn, ClientMinHead, PlanDone, ClientMinScan, VGoto, mgr,
          treeVars, deltaVars, roundVars
    <3> QED BY <1>1, <1>2, <3>1, SMTT(120) DEF EmptyInv
  <2> QED BY <1>6, <2>1, <2>2, <2>3, <2>4, <2>5, <2>6, <2>7, Zenon DEF VacuumStep
<1>7. CASE Shutdown
  BY <1>1, <1>4, <1>7, SMTT(120) DEF Shutdown, vacuum, roundVars, treeVars, deltaVars
<1>8. CASE UNCHANGED vars
  BY <1>1, <1>4, <1>8, SMTT(120) DEF vars, mgr, vacuum, roundVars, treeVars, deltaVars
<1> QED BY <1>5, <1>6, <1>7, <1>8, NextCases, Zenon

LEMMA EmptyImplies ==
  ASSUME TypeInv, LockInv, VsnInv, PhaseInv, PlanInv, EmptyInv
  PROVE  DeltaNotNull
<1>1. /\ vsn \in Nat /\ min_vsn \in Nat /\ trimmed \in Nat /\ trimmed <= Len(delta)
      /\ barrier_vsn \in Nat /\ Len(delta) \in Nat /\ phase \in {"plan", "barrier"}
  BY SMTT(120) DEF TypeInv, TypeOK, ManagerTypeOK, VacuumTypeOK
<1>2. CASE vpc = "merge"
  <2>1. Len(delta) >= 1
    BY <1>1, <1>2, SMTT(120) DEF EmptyInv, PhaseInv
  <2> QED BY <1>1, <2>1, SMTT(120) DEF EmptyInv, DeltaNotNull, Head0
<1>3. CASE vpc = "special" /\ write_lock = NULL
  <2>1. vsn = Len(delta)
    BY <1>3, FreeLock, Zenon
  <2> QED BY <1>1, <1>3, <2>1, SMTT(120) DEF EmptyInv, DeltaNotNull, Head0
<1> QED BY <1>2, <1>3, Zenon DEF DeltaNotNull

-----------------------------------------------------------------------------
(***************************************************************************)
(* Both trees are the replay of the deltas merged into them.               *)
(***************************************************************************)

\* About, for list d and names wn.
AboutIn(d, wn, n, k) ==
  {v \in 1..k : d[v].type # "BARRIER" /\ wn[d[v].filter] = n}

\* The last of the deltas about n up to k, if there is one, left w in a tree.
Leaves(d, wn, n, k, w) ==
  \A v \in AboutIn(d, wn, n, k) :
    (\A u \in AboutIn(d, wn, n, k) : u <= v) =>
      w = (IF d[v].type = "CREATE" THEN d[v].filter ELSE NULL)

\* A step changes nothing about the deltas that are linked already.
LEMMA AboutStep ==
  ASSUME TypeInv, [Next]_vars, NEW n, NEW k \in Int, k <= Len(delta)
  PROVE  AboutIn(delta', wname', n, k) = AboutIn(delta, wname, n, k)
<1> USE ConstantsAssumption
<1>1. ManagerTypeOK /\ Named /\ Len(delta) \in Nat
  BY DeltaLength, Zenon DEF TypeInv, TypeOK
<1>2. /\ \A v \in 1..Len(delta) : delta'[v] = delta[v]
      /\ \A w \in Wrappers : wname[w] # NULL => wname'[w] = wname[w]
  BY Grows, Zenon
<1>3. ASSUME NEW v \in 1..k, delta[v].type # "BARRIER"
      PROVE  wname'[delta[v].filter] = wname[delta[v].filter]
  <2>1. v \in 1..Len(delta)
    BY <1>1, SMTT(120)
  <2>2. delta[v].filter \in Wrappers /\ wname[delta[v].filter] # NULL
    BY <1>1, <1>3, <2>1, NodeType, Zenon DEF Named
  <2> QED BY <1>2, <2>2, Zenon
<1>4. \A v \in 1..k : delta'[v] = delta[v]
  BY <1>1, <1>2, SMTT(120)
<1> QED BY <1>3, <1>4, Zenon DEF AboutIn

\* What one step of merge_old_versions does to the trees.
LEMMA ApplyFacts ==
  ASSUME TypeInv, MergeApply
  PROVE  /\ delta' = delta /\ wname' = wname /\ vpc' = vpc
         /\ cursor \in 1..Len(delta) /\ AltMap \in 1..2
         /\ trees \in [1..2 -> [Names -> MaybeWrapper]]
         /\ \A t \in 1..2 :
              /\ t # AltMap => trees'[t] = trees[t] /\ Merged(t)' = Merged(t)
              /\ t = AltMap => /\ trees'[t] = Applied(trees[t], delta[cursor])
                              /\ Merged(t) = cursor - 1 /\ Merged(t)' = cursor
<1>1. ManagerTypeOK /\ Len(delta) \in Nat
  BY DeltaLength, Zenon DEF TypeInv, TypeOK
<1>2. /\ delta' = delta /\ wname' = wname /\ vpc = "apply" /\ vpc' = "apply"
      /\ UNCHANGED <<filter_map, phase, trimmed, min_vsn>> /\ cursor' = cursor + 1
      /\ trees' = [trees EXCEPT ![AltMap] = Applied(@, delta[cursor])]
  BY Zenon DEF MergeApply, deltaVars, wrapVars, roundVars
<1>3. cursor \in 1..Len(delta)
  <2>1. last <= Len(delta) /\ cursor <= last /\ cursor \in Nat /\ last \in Nat /\ trimmed < cursor
        /\ trimmed \in Nat
    BY Zenon DEF MergeApply, TypeInv, WalkFits, TypeOK, VacuumTypeOK, ManagerTypeOK
  <2> QED BY <1>1, <2>1, SMTT(120)
<1>4. AltMap \in 1..2 /\ AltMap' = AltMap /\ trees \in [1..2 -> [Names -> MaybeWrapper]]
  BY <1>1, <1>2, SMTT(120) DEF AltMap, ManagerTypeOK
<1>5. ASSUME NEW t \in 1..2, t # AltMap PROVE trees'[t] = trees[t] /\ Merged(t)' = Merged(t)
  BY <1>2, <1>4, <1>5, Zenon DEF Merged
<1>6. ASSUME NEW t \in 1..2, t = AltMap
      PROVE  /\ trees'[t] = Applied(trees[t], delta[cursor])
             /\ Merged(t) = cursor - 1 /\ Merged(t)' = cursor
  <2>1. trees'[t] = Applied(trees[t], delta[cursor])
    BY <1>2, <1>4, <1>6, Zenon
  <2>2. Merged(t) = cursor - 1 /\ Merged(t)' = cursor' - 1
    BY <1>2, <1>4, <1>6, Zenon DEF Merged
  <2> QED BY <1>2, <1>3, <2>1, <2>2, SMTT(120)
<1> QED BY <1>2, <1>3, <1>4, <1>5, <1>6, Zenon

\* A delta changes the entry of its name only.
LEMMA AppliedEntry ==
  ASSUME NEW t \in [Names -> MaybeWrapper], NEW node, NEW n \in Names
  PROVE  /\ node.type # "BARRIER" /\ n = wname[node.filter] =>
              Applied(t, node)[n] = IF node.type = "CREATE" THEN node.filter ELSE NULL
         /\ node.type = "BARRIER" \/ n # wname[node.filter] => Applied(t, node)[n] = t[n]
BY Zenon DEF Applied

\* What is about a name up to the next delta.
LEMMA AboutNext ==
  ASSUME NEW d, NEW wn, NEW n, NEW k \in Nat \ {0}
  PROVE  /\ d[k].type # "BARRIER" /\ n = wn[d[k].filter] =>
              /\ k \in AboutIn(d, wn, n, k)
              /\ \A v \in AboutIn(d, wn, n, k) : v <= k
         /\ d[k].type = "BARRIER" \/ n # wn[d[k].filter] =>
              AboutIn(d, wn, n, k) = AboutIn(d, wn, n, k - 1)
<1>1. \A v : v \in 1..k <=> v \in 1..(k - 1) \/ v = k
  BY SMTT(120)
<1>2. k \in 1..k /\ \A v \in 1..k : v <= k
  BY SMTT(120)
<1> QED BY <1>1, <1>2, Zenon DEF AboutIn

LEMMA AboutSame ==
  ASSUME NEW d, NEW wn, NEW n, NEW k \in Nat \ {0},
         d[k].type = "BARRIER" \/ n # wn[d[k].filter]
  PROVE  AboutIn(d, wn, n, k) = AboutIn(d, wn, n, k - 1)
BY AboutNext, Zenon

\* A node that is linked is the last about its name.
LEMMA LastStep ==
  ASSUME TypeInv, LastInv, [Next]_vars
  PROVE  LastInv'
<1>1. /\ Len(delta) \in Nat /\ Len(delta') \in Nat
      /\ Len(delta') = Len(delta) \/ Len(delta') = Len(delta) + 1
  BY Grows, DeltaCases, SMTT(120) DEF OneMore
<1>2. SUFFICES ASSUME NEW n \in Names, NEW k \in 0..Len(delta'),
                      AboutIn(delta', wname', n, k) # {}
               PROVE  \E v \in AboutIn(delta', wname', n, k) :
                        \A u \in AboutIn(delta', wname', n, k) : u <= v
  BY Zenon DEF LastInv, About, AboutIn
<1>3. ASSUME NEW i \in 0..Len(delta), AboutIn(delta', wname', n, i) # {}
      PROVE  \E v \in AboutIn(delta', wname', n, i) :
               \A u \in AboutIn(delta', wname', n, i) : u <= v
  <2>1. AboutIn(delta', wname', n, i) = AboutIn(delta, wname, n, i)
    <3>1. i \in Int /\ i <= Len(delta)
      BY <1>1, <1>3, SMTT(120)
    <3> QED BY <3>1, AboutStep, Zenon
  <2>2. AboutIn(delta, wname, n, i) = About(n, i)
    BY Zenon DEF About, AboutIn
  <2> QED BY <1>3, <2>1, <2>2, Zenon DEF LastInv
<1>4. CASE k \in 0..Len(delta)
  BY <1>2, <1>3, <1>4, Zenon
<1>5. CASE k = Len(delta) + 1
  <2>1. k \in Nat \ {0} /\ k - 1 \in 0..Len(delta)
    BY <1>1, <1>5, SMTT(120)
  <2>2. CASE AboutIn(delta', wname', n, k) = AboutIn(delta', wname', n, k - 1)
    BY <1>2, <1>3, <2>1, <2>2, Zenon
  <2> QED BY <2>1, <2>2, AboutNext, Zenon
<1>6. k \in 0..Len(delta) \/ k = Len(delta) + 1
  BY <1>1, <1>2, SMTT(120)
<1> QED BY <1>4, <1>5, <1>6, Zenon

\* merge_old_versions applies the deltas of a round in order, each to the
\* entry of its name.
LEMMA ReplayStep ==
  ASSUME TypeInv, TypeInv', PlanInv, PlanInv', PhaseInv, TreesReplayDeltas, [Next]_vars
  PROVE  TreesReplayDeltas'
<1> USE ConstantsAssumption
<1>1. ManagerTypeOK /\ Named /\ Len(delta) \in Nat
  BY DeltaLength, Zenon DEF TypeInv, TypeOK
<1>2. MergedFits
  BY MergedValue, Zenon
<1>3. SUFFICES ASSUME NEW t \in 1..2, NEW n \in Names
               PROVE  Leaves(delta', wname', n, Merged(t)', trees'[t][n])
  BY Zenon DEF TreesReplayDeltas, Replays, About, AboutIn, Leaves
<1>4. Leaves(delta, wname, n, Merged(t), trees[t][n]) /\ Merged(t) \in Int /\ Merged(t) <= Len(delta)
  BY <1>2, Zenon DEF TreesReplayDeltas, Replays, About, AboutIn, Leaves, MergedFits
<1>5. CASE ~MergeApply
  <2>1. trees' = trees /\ Merged(t)' = Merged(t)
    BY <1>5, MergedStep, Zenon
  <2>2. AboutIn(delta', wname', n, Merged(t)) = AboutIn(delta, wname, n, Merged(t))
    BY <1>4, AboutStep, Zenon
  <2>3. \A v \in AboutIn(delta, wname, n, Merged(t)) : delta'[v] = delta[v]
    <3>1. \A v \in AboutIn(delta, wname, n, Merged(t)) : v \in 1..Len(delta)
      BY <1>1, <1>4, SMTT(120) DEF AboutIn
    <3> QED BY <3>1, Grows, Zenon
  <2> QED BY <1>4, <2>1, <2>2, <2>3, Zenon DEF Leaves
<1>6. CASE MergeApply
  <2>1. CASE t # AltMap
    BY <1>4, <1>6, <2>1, ApplyFacts, Zenon
  <2>2. CASE t = AltMap
    <3> DEFINE node == delta[cursor]
               B == AboutIn(delta, wname, n, cursor)
    <3>1. /\ delta' = delta /\ wname' = wname /\ trees[t] \in [Names -> MaybeWrapper]
          /\ trees'[t] = Applied(trees[t], node) /\ Merged(t) = cursor - 1 /\ Merged(t)' = cursor
          /\ cursor \in 1..Len(delta)
      BY <1>6, <2>2, ApplyFacts, Zenon
    <3>2. cursor \in Nat \ {0}
      BY <3>1, SMTT(120)
    <3>3. CASE node.type # "BARRIER" /\ n = wname[node.filter]
      <4>1. trees'[t][n] = IF node.type = "CREATE" THEN node.filter ELSE NULL
        BY <3>1, <3>3, AppliedEntry, SMTT(120)
      <4>2. cursor \in B /\ \A v \in B : v <= cursor
        BY <3>2, <3>3, AboutNext, Zenon
      <4>3. ASSUME NEW v \in B, \A u \in B : u <= v PROVE v = cursor
        <5>1. v \in Int /\ cursor <= v /\ v <= cursor
          BY <4>2, <4>3, SMTT(120) DEF AboutIn
        <5> QED BY <3>2, <5>1, SMTT(120)
      <4> QED BY <3>1, <4>1, <4>3, Zenon DEF Leaves
    <3>4. CASE node.type = "BARRIER" \/ n # wname[node.filter]
      <4>1. trees'[t][n] = trees[t][n]
        BY <3>1, <3>4, AppliedEntry, SMTT(120)
      <4>2. AboutIn(delta, wname, n, cursor - 1) = B
        <5>1. AboutIn(delta, wname, n, cursor) = AboutIn(delta, wname, n, cursor - 1)
          BY <3>2, <3>4, AboutSame, Zenon
        <5> QED BY <5>1, Zenon
      <4> QED BY <1>4, <3>1, <4>1, <4>2, Zenon DEF Leaves
    <3> QED BY <3>3, <3>4, Zenon
  <2> QED BY <2>1, <2>2, Zenon
<1> QED BY <1>5, <1>6, Zenon

-----------------------------------------------------------------------------
(***************************************************************************)
(* Where the wrappers come from and where they go.                         *)
(***************************************************************************)

\* Client c takes the wrapper of its call out of use.
Retires(c) ==
  /\ pc[c] = "found" /\ pc'[c] = "bump" /\ op[c] \in {"drop", "clear"}
  /\ op' = op /\ filt' = filt /\ filt[c] \in is_active
  /\ is_active' = is_active \ {filt[c]} /\ UNCHANGED <<heap, wname>>

\* A wrapper is registered by add_filter and taken out of use by drop and
\* clear only.
LEMMA ActiveFrame ==
  ASSUME ClientTypeOK, NEW c \in Clients, ClientAction(c)
  PROVE  \/ UNCHANGED <<heap, wname, is_active>>
         \/ \E w \in Wrappers : AddFilter(c, w)
         \/ Retires(c)
<1>1. CASE UNCHANGED wrapVars
  BY <1>1, Zenon DEF wrapVars
<1>2. CASE IterCold(c) \/ UseKeys(c) \/ UseUnmap(c) \/ AddFails(c)
  BY <1>2, Zenon DEF IterCold, UseKeys, UseUnmap, AddFails
<1>3. CASE DropFilter(c)
  <2>1. pc'[c] = "bump"
    BY <1>3, Zenon DEF DropFilter, Goto, ClientTypeOK
  <2> QED BY <1>3, <2>1, Zenon DEF DropFilter, Retires, locals
<1>4. CASE ClearFilter(c)
  <2>1. CASE filt[c] \notin proxied
    BY <1>4, <2>1, Zenon DEF ClearFilter
  <2>2. CASE filt[c] \in proxied
    <3>1. pc'[c] = "bump"
      BY <1>4, <2>2, Zenon DEF ClearFilter, Goto, ClientTypeOK
    <3> QED BY <1>4, <2>2, <3>1, Zenon DEF ClearFilter, Retires, locals
  <2> QED BY <2>1, <2>2, Zenon
<1> QED BY <1>1, <1>2, <1>3, <1>4, ClientWrapperFrame, Zenon

\* What add_filter leaves.
LEMMA AddFilterLeaves ==
  ASSUME TypeInv, NEW c \in Clients, NEW w \in Wrappers, AddFilter(c, w)
  PROVE  /\ pc[c] = "add" /\ op[c] = "create" /\ arg[c] \in Names
         /\ pc'[c] = "bump" /\ filt'[c] = w /\ op' = op
         /\ wname[w] = NULL /\ wname' = [wname EXCEPT ![w] = arg[c]] /\ wname'[w] = arg[c]
         /\ heap' = heap \cup {w} /\ is_active' = is_active \cup {w}
         /\ \A u \in Wrappers : u # w => wname'[u] = wname[u]
<1>1. ClientTypeOK /\ WrapperTypeOK /\ LocalsFit(c)
  BY Zenon DEF TypeInv, TypeOK
<1>2. pc[c] = "add" /\ op[c] = "create" /\ arg[c] \in Names
  BY <1>1, SMTT(120) DEF AddFilter, LocalsFit, ListOps, InCall
<1>3. pc'[c] = "bump" /\ filt'[c] = w /\ op' = op
  BY <1>1, Zenon DEF AddFilter, Goto, ClientTypeOK
<1> QED BY <1>1, <1>2, <1>3, Zenon DEF AddFilter, WrapperTypeOK

\* Two calls that write are one.
LEMMA OneWriter ==
  ASSUME LockInv, NEW c \in Clients, NEW d \in Clients, Writing(c), Writing(d)
  PROVE  c = d
BY Zenon DEF LockInv

\* Who is adding or taking away a wrapper holds the write lock.
LEMMA ChangingWrites ==
  ASSUME TypeInv, NEW c \in Clients,
         pc[c] \in {"add", "bump", "link"} \/ (pc[c] = "found" /\ op[c] \in WriteOps)
  PROVE  Writing(c)
BY Zenon DEF Writing, TypeInv, LocalsFit, InCall, WriteOps

\* A wrapper being added was being added before, or is new.
LEMMA AddingStep ==
  ASSUME TypeInv, [Next]_vars, NEW c \in Clients, NEW w \in Wrappers, Adding(c, w)'
  PROVE  Adding(c, w) \/ AddFilter(c, w)
<1> USE ConstantsAssumption
<1>1. ClientTypeOK
  BY Zenon DEF TypeInv, TypeOK
<1>2. pc'[c] \in {"bump", "link"} /\ filt'[c] = w /\ op'[c] = "create"
  BY Zenon DEF Adding, Changing
<1>3. ASSUME ClientAction(c) PROVE Adding(c, w) \/ AddFilter(c, w)
  <2>1. CASE pc'[c] = "link"
    <3>1. BumpVsn(c)
      BY <1>1, <1>3, <2>1, Arrivals, Zenon
    <3> QED BY <1>2, <3>1, Zenon DEF BumpVsn, locals, Adding, Changing
  <2>2. CASE pc'[c] = "bump"
    <3>1. DropFilter(c) \/ ClearFilter(c) \/ \E x \in Wrappers : AddFilter(c, x)
      BY <1>1, <1>3, <2>2, Arrivals, Zenon
    <3>2. CASE DropFilter(c)
      BY <1>2, <3>2, Zenon DEF DropFilter, locals
    <3>3. CASE ClearFilter(c)
      <4>1. pc'[c] = "bump" => op' = op
        BY <1>1, <3>3, Zenon DEF ClearFilter, Return, Goto, ClientTypeOK, locals
      <4> QED BY <1>2, <2>2, <3>3, <4>1, Zenon DEF ClearFilter
    <3>4. CASE \E x \in Wrappers : AddFilter(c, x)
      BY <1>2, <3>4, AddFilterLeaves, Zenon
    <3> QED BY <3>1, <3>2, <3>3, <3>4, Zenon
  <2> QED BY <1>2, <2>1, <2>2, Zenon
<1>4. ASSUME NEW d \in Clients, d # c, ClientAction(d) PROVE Adding(c, w)
  BY <1>1, <1>2, <1>4, OtherClients, Zenon DEF LocalsSame, Adding, Changing
<1>5. ASSUME VacuumStep PROVE Adding(c, w)
  BY <1>2, <1>5, VacuumFrame, Zenon DEF clientSide, locals, Adding, Changing
<1>6. CASE Shutdown
  BY <1>2, <1>6, Zenon DEF Shutdown
<1>7. CASE UNCHANGED vars
  BY <1>2, <1>7, Zenon DEF vars, clientSide, locals, Adding, Changing
<1> QED BY <1>3, <1>4, <1>5, <1>6, <1>7, NextCases, Zenon

\* A client that adds a wrapper or takes one away does so until it has linked
\* its node.
LEMMA ChangingStep ==
  ASSUME TypeInv, [Next]_vars, NEW c \in Clients, NEW w, Changing(c, w)
  PROVE  \/ Changing(c, w)' /\ op'[c] = op[c]
         \/ LinkDelta(c) /\ filt[c] = w
<1> USE ConstantsAssumption
<1>1. ClientTypeOK
  BY Zenon DEF TypeInv, TypeOK
<1>2. pc[c] \in {"bump", "link"} /\ filt[c] = w
  BY Zenon DEF Changing
<1>3. ASSUME ClientAction(c) PROVE BumpVsn(c) \/ LinkDelta(c)
  BY <1>2, <1>3, Zenon
  DEF ClientAction, ClientStep, CheckpointStore, Lock, LoadTree, Search, IterList,
      IterCold, ReadPrimaryVsn, CompareVsn, ReadDelta, WalkMatch, WalkOn,
      WalkNext, ListDone, Miss, CreatePending, Refuse, Take, UseKeys, UsePeek,
      UseUnmap, AddFails, DropFilter, ClearFilter, AddFilter, CheckpointRead, Call
<1>4. CASE BumpVsn(c)
  <2>1. pc'[c] = "link"
    BY <1>1, <1>4, Zenon DEF BumpVsn, Goto, ClientTypeOK
  <2> QED BY <1>2, <1>4, <2>1, Zenon DEF BumpVsn, locals, Changing
<1>5. ASSUME NEW d \in Clients, d # c, ClientAction(d) PROVE Changing(c, w)' /\ op'[c] = op[c]
  BY <1>1, <1>2, <1>5, OtherClients, Zenon DEF LocalsSame, Changing
<1>6. ASSUME VacuumStep PROVE Changing(c, w)' /\ op'[c] = op[c]
  BY <1>2, <1>6, VacuumFrame, Zenon DEF clientSide, locals, Changing
<1>7. CASE Shutdown
  BY <1>2, <1>7, Zenon DEF Shutdown
<1>8. CASE UNCHANGED vars
  BY <1>2, <1>8, Zenon DEF vars, clientSide, locals, Changing
<1> QED BY <1>2, <1>3, <1>4, <1>5, <1>6, <1>7, <1>8, NextCases, Zenon

\* What is created stays created; a client that was creating w has created it
\* when it is done.
LEMMA CreatedStays ==
  ASSUME TypeInv, [Next]_vars, NEW w, Created(w)
  PROVE  Created(w)'
<1>1. /\ Len(delta) \in Nat /\ Len(delta') \in Nat /\ Len(delta) <= Len(delta')
      /\ \A v \in 1..Len(delta) : delta'[v] = delta[v]
  BY Grows, Zenon
<1>2. PICK v \in 1..Len(delta) : delta[v] = Node("CREATE", w)
  BY Zenon DEF Created
<1>3. v \in 1..Len(delta') /\ delta'[v] = Node("CREATE", w)
  BY <1>1, <1>2, SMTT(120)
<1> QED BY <1>3, Zenon DEF Created

\* What a step adds to the created wrappers.
LEMMA CreatedNew ==
  ASSUME TypeInv, [Next]_vars, NEW w, NEW v \in 1..Len(delta'), delta'[v] = Node("CREATE", w)
  PROVE  \/ v \in 1..Len(delta) /\ delta[v] = Node("CREATE", w)
         \/ /\ v = Len(delta) + 1
            /\ \E c \in Clients : LinkDelta(c) /\ op[c] = "create" /\ filt[c] = w
<1>1. Len(delta) \in Nat
  BY Grows, Zenon
<1>2. CASE delta' = delta
  BY <1>2, Zenon
<1>3. ASSUME NEW type, NEW x, OneMore(delta, delta', type, x)
      PROVE  \/ v \in 1..Len(delta) /\ delta[v] = Node("CREATE", w)
             \/ v = Len(delta) + 1 /\ type = "CREATE" /\ x = w
  <2>1. v \in 1..Len(delta) \/ v = Len(delta) + 1
    BY <1>1, <1>3, SMTT(120) DEF OneMore
  <2>2. CASE v \in 1..Len(delta)
    BY <1>3, <2>2, Zenon DEF OneMore
  <2>3. CASE v = Len(delta) + 1
    BY <1>3, <2>3, SMTT(120) DEF OneMore, Node
  <2> QED BY <2>1, <2>2, <2>3, Zenon
<1>4. ASSUME NEW c \in Clients, LinkDelta(c), OneMore(delta, delta', LinkedType(c), filt[c])
      PROVE  \/ v \in 1..Len(delta) /\ delta[v] = Node("CREATE", w)
             \/ v = Len(delta) + 1 /\ LinkDelta(c) /\ op[c] = "create" /\ filt[c] = w
  BY <1>3, <1>4, Zenon DEF LinkedType
<1>5. ASSUME OneMore(delta, delta', "BARRIER", NULL)
      PROVE  v \in 1..Len(delta) /\ delta[v] = Node("CREATE", w)
  BY <1>3, <1>5, SMTT(120)
<1> QED BY <1>2, <1>4, <1>5, DeltaCases, Zenon

LEMMA CreatedUnique ==
  ASSUME TypeInv, LockInv, CreatedInv, [Next]_vars,
         NEW u \in 1..Len(delta'), NEW v \in 1..Len(delta'), NEW w,
         delta'[u] = Node("CREATE", w), delta'[v] = Node("CREATE", w)
  PROVE  u = v
<1>1. ASSUME NEW x \in 1..Len(delta), delta[x] = Node("CREATE", w),
             NEW c \in Clients, LinkDelta(c), op[c] = "create", filt[c] = w
      PROVE  FALSE
  <2>1. w \in Wrappers
    BY <1>1, Zenon DEF TypeInv, LocalsFit, LinkDelta, Holding
  <2>2. Adding(c, w) /\ Created(w)
    BY <1>1, Zenon DEF Adding, Changing, LinkDelta, Created
  <2> QED BY <2>1, <2>2, Zenon DEF CreatedInv
<1>2. ASSUME u \in 1..Len(delta), v \in 1..Len(delta), delta[u] = Node("CREATE", w),
             delta[v] = Node("CREATE", w)
      PROVE  u = v
  <2>1. delta[u].type = "CREATE" /\ delta[v].type = "CREATE" /\ delta[u].filter = delta[v].filter
    BY <1>2, SMTT(120) DEF Node
  <2> QED BY <1>2, <2>1, Zenon DEF CreatedInv
<1>3. \/ u \in 1..Len(delta) /\ delta[u] = Node("CREATE", w)
      \/ /\ u = Len(delta) + 1
         /\ \E c \in Clients : LinkDelta(c) /\ op[c] = "create" /\ filt[c] = w
  BY CreatedNew, ZenonT(60)
<1>4. \/ v \in 1..Len(delta) /\ delta[v] = Node("CREATE", w)
      \/ /\ v = Len(delta) + 1
         /\ \E c \in Clients : LinkDelta(c) /\ op[c] = "create" /\ filt[c] = w
  BY CreatedNew, ZenonT(60)
<1> QED BY <1>1, <1>2, <1>3, <1>4, ZenonT(60)

\* A create registers a wrapper that no list node mentions, and each wrapper
\* out of use gets its delete from the call that took it.
LEMMA CreatedInvStep ==
  ASSUME TypeInv, TypeInv', LockInv, CreatedInv, [Next]_vars
  PROVE  CreatedInv'
<1> USE ConstantsAssumption
<1>1. /\ ManagerTypeOK /\ ClientTypeOK /\ WrapperTypeOK /\ Named /\ Len(delta) \in Nat
      /\ ManagerTypeOK'
  BY DeltaLength, Zenon DEF TypeInv, TypeOK
<1>2. ASSUME NEW u \in 1..Len(delta'), NEW v \in 1..Len(delta'),
             delta'[u].type = "CREATE", delta'[v].type = "CREATE",
             delta'[u].filter = delta'[v].filter
      PROVE  u = v
  <2>1. /\ delta'[u] \in [type : Types, filter : MaybeWrapper]
        /\ delta'[v] \in [type : Types, filter : MaybeWrapper]
    BY <1>1, ElementProp, Zenon DEF ManagerTypeOK
  <2>2. delta'[u] = Node("CREATE", delta'[u].filter) /\ delta'[v] = Node("CREATE", delta'[u].filter)
    BY <1>2, <2>1, SMTT(120) DEF Node
  <2> QED BY <2>2, CreatedUnique, Zenon
<1>3. ASSUME NEW c \in Clients, NEW w \in Wrappers, Adding(c, w)'
      PROVE  w \in is_active' /\ ~Created(w)'
  <2>1. CASE AddFilter(c, w)
    <3>1. w \in is_active' /\ wname[w] = NULL
      BY <2>1, AddFilterLeaves, SMTT(120)
    <3>2. delta' = delta
      BY <2>1, Zenon DEF AddFilter, mgr, deltaVars
    <3>3. ASSUME NEW v \in 1..Len(delta), delta[v] = Node("CREATE", w) PROVE FALSE
      <4>1. delta[v].type # "BARRIER" /\ delta[v].filter = w
        BY <3>3, SMTT(120) DEF Node
      <4> QED BY <1>1, <3>1, <4>1, Zenon DEF Named
    <3> QED BY <3>1, <3>2, <3>3, Zenon DEF Created
  <2>2. CASE Adding(c, w)
    <3>1. w \in is_active /\ ~Created(w) /\ Writing(c)
      BY <2>2, ChangingWrites, Zenon DEF CreatedInv, Adding, Changing
    <3>2. ASSUME Created(w)' PROVE FALSE
      <4>1. PICK v \in 1..Len(delta') : delta'[v] = Node("CREATE", w)
        BY <3>2, Zenon DEF Created
      <4>2. PICK d \in Clients : LinkDelta(d)
        BY <3>1, <4>1, CreatedNew, Zenon DEF Created
      <4>3. d = c
        BY <3>1, <4>2, ChangingWrites, OneWriter, Zenon DEF LinkDelta
      <4>4. pc'[c] = "idle"
        BY <1>1, <4>2, <4>3, Zenon DEF LinkDelta, Return, Goto, ClientTypeOK
      <4> QED BY <1>3, <4>4, Zenon DEF Adding, Changing
    <3>3. ASSUME NEW d \in Clients, ClientAction(d), w \notin is_active' PROVE FALSE
      <4>1. Retires(d) /\ filt[d] = w
        <5>1. is_active \subseteq is_active' \/ Retires(d)
          BY <1>1, <3>3, ActiveFrame, AddFilterLeaves, Zenon
        <5> QED BY <3>1, <3>3, <5>1, Zenon DEF Retires
      <4>2. Writing(d)
        BY <4>1, ChangingWrites, Zenon DEF Retires, WriteOps
      <4>3. d = c
        BY <3>1, <4>2, OneWriter, Zenon
      <4> QED BY <2>2, <4>1, <4>3, Zenon DEF Retires, Adding, Changing
    <3>4. ASSUME VacuumStep PROVE w \in is_active'
      BY <3>1, <3>4, VacuumFrame, Zenon
    <3>5. ASSUME Shutdown \/ UNCHANGED vars PROVE w \in is_active'
      BY <3>1, <3>5, Zenon DEF Shutdown, vars, wrapVars
    <3> QED BY <3>2, <3>3, <3>4, <3>5, NextCases, Zenon
  <2> QED BY <1>3, <2>1, <2>2, AddingStep, Zenon
<1>4. ASSUME NEW w \in Wrappers, wname'[w] # NULL, w \notin is_active'
      PROVE  DeadIn(delta', w, Len(delta')) \/ \E c \in Clients : Changing(c, w)' /\ op'[c] # "create"
  <2>1. CASE wname[w] # NULL /\ w \notin is_active
    <3>1. CASE Dead(w, Len(delta))
      <4>1. DeadIn(delta', w, Len(delta))
        BY <1>1, <3>1, DeadStep, SMTT(120) DEF Dead
      <4> QED BY <1>1, <4>1, Grows, DeadMonotone, SMTT(120)
    <3>2. ASSUME NEW c \in Clients, Changing(c, w), op[c] # "create"
          PROVE  DeadIn(delta', w, Len(delta')) \/ (Changing(c, w)' /\ op'[c] # "create")
      <4>1. CASE LinkDelta(c) /\ filt[c] = w
        <5>1. Linked("DELETE", w)
          BY <3>2, <4>1, LinkDeltaLinks, Zenon DEF LinkedType
        <5>2. Len(delta') \in 1..Len(delta') /\ delta'[Len(delta')] = Node("DELETE", w) /\ Len(delta') <= Len(delta')
          BY <5>1, SMTT(120) DEF Linked
        <5> QED BY <5>2, Zenon DEF DeadIn
      <4> QED BY <3>2, <4>1, ChangingStep, Zenon
    <3> QED BY <2>1, <3>1, <3>2, Zenon DEF CreatedInv
  <2>2. CASE wname[w] = NULL \/ w \in is_active
    <3>1. ASSUME NEW c \in Clients, ClientAction(c) PROVE Changing(c, w)' /\ op'[c] # "create"
      <4>1. CASE UNCHANGED <<heap, wname, is_active>>
        BY <1>4, <2>2, <4>1, Zenon
      <4>2. ASSUME NEW x \in Wrappers, AddFilter(c, x) PROVE FALSE
        BY <1>4, <2>2, <4>2, AddFilterLeaves, Zenon
      <4>3. CASE Retires(c)
        BY <1>4, <2>2, <4>3, Zenon DEF Retires, Changing
      <4> QED BY <1>1, <3>1, <4>1, <4>2, <4>3, ActiveFrame, Zenon
    <3>2. ASSUME VacuumStep PROVE FALSE
      BY <1>4, <2>2, <3>2, VacuumFrame, Zenon
    <3>3. ASSUME Shutdown \/ UNCHANGED vars PROVE FALSE
      BY <1>4, <2>2, <3>3, Zenon DEF Shutdown, vars, wrapVars
    <3> QED BY <3>1, <3>2, <3>3, NextCases, Zenon
  <2> QED BY <2>1, <2>2, Zenon
<1> QED BY <1>2, <1>3, <1>4, Zenon DEF CreatedInv, Dead

\* A tree gets a wrapper from the node that creates it.
LEMMA OriginStep ==
  ASSUME TypeInv, TypeInv', PlanInv, PlanInv', PhaseInv, CreatedInv, OriginInv, [Next]_vars
  PROVE  OriginInv'
<1> USE ConstantsAssumption
<1>1. ManagerTypeOK /\ ManagerTypeOK' /\ Named /\ Len(delta) \in Nat
  BY DeltaLength, Zenon DEF TypeInv, TypeOK
<1>2. MergedFits
  BY MergedValue, Zenon
<1>3. SUFFICES ASSUME NEW t \in 1..2, NEW n \in Names, trees'[t][n] # NULL
               PROVE  /\ \A v \in 1..Len(delta') :
                           delta'[v] = Node("CREATE", trees'[t][n]) => v <= Merged(t)'
                      /\ \A c \in Clients :
                           ~(pc'[c] \in {"bump", "link"} /\ filt'[c] = trees'[t][n] /\ op'[c] = "create")
  BY Zenon DEF OriginInv, Adding, Changing
<1>4. PICK w : w = trees'[t][n]
  OBVIOUS
<1>5. w \in Wrappers
  BY <1>1, <1>3, <1>4, SMTT(120) DEF ManagerTypeOK, MaybeWrapper
<1>6. SUFFICES /\ \A v \in 1..Len(delta') : delta'[v] = Node("CREATE", w) => v <= Merged(t)'
               /\ \A c \in Clients : ~Adding(c, w)'
  BY <1>4, Zenon DEF Adding, Changing
<1>7. ASSUME trees[t][n] = w, Merged(t)' \in Int, Merged(t) <= Merged(t)'
      PROVE  /\ \A v \in 1..Len(delta') : delta'[v] = Node("CREATE", w) => v <= Merged(t)'
             /\ \A c \in Clients : ~Adding(c, w)'
  <2>1. w # NULL /\ wname[w] = n
    BY <1>1, <1>3, <1>4, <1>7, Zenon DEF Named
  <2>2. /\ \A v \in 1..Len(delta) : delta[v] = Node("CREATE", w) => v <= Merged(t)
        /\ \A c \in Clients : ~Adding(c, w)
    BY <1>3, <1>4, <1>7, Zenon DEF OriginInv
  <2>3. ASSUME NEW v \in 1..Len(delta'), delta'[v] = Node("CREATE", w) PROVE v <= Merged(t)'
    <3>1. ASSUME NEW c \in Clients, LinkDelta(c), op[c] = "create", filt[c] = w PROVE FALSE
      BY <2>2, <3>1, Zenon DEF LinkDelta, Adding, Changing
    <3>2. v \in 1..Len(delta) /\ delta[v] = Node("CREATE", w)
      BY <2>3, <3>1, CreatedNew, Zenon
    <3>3. v <= Merged(t) /\ Merged(t) \in Int
      BY <1>2, <2>2, <3>2, Zenon DEF MergedFits
    <3> QED BY <1>1, <1>7, <3>2, <3>3, SMTT(120)
  <2>4. ASSUME NEW c \in Clients, Adding(c, w)' PROVE FALSE
    <3>1. AddFilter(c, w)
      BY <1>5, <2>2, <2>4, AddingStep, Zenon
    <3> QED BY <1>5, <2>1, <3>1, AddFilterLeaves, Zenon
  <2> QED BY <2>3, <2>4, Zenon
<1>8. CASE ~MergeApply
  <2>1. trees' = trees /\ Merged(t)' = Merged(t) /\ Merged(t) \in Int
    BY <1>2, <1>8, MergedStep, Zenon DEF MergedFits
  <2>2. Merged(t) <= Merged(t)'
    BY <2>1, SMTT(120)
  <2> QED BY <1>4, <1>7, <2>1, <2>2, Zenon
<1>9. CASE MergeApply
  <2> DEFINE node == delta[cursor]
  <2>1. Merged(t) \in Int
    BY <1>2, Zenon DEF MergedFits
  <2>2. CASE t # AltMap
    <3>1. trees'[t] = trees[t] /\ Merged(t)' = Merged(t)
      BY <1>9, <2>2, ApplyFacts, Zenon
    <3>2. Merged(t)' \in Int /\ Merged(t) <= Merged(t)'
      BY <2>1, <3>1, SMTT(120)
    <3> QED BY <1>4, <1>7, <3>1, <3>2, Zenon
  <2>3. CASE t = AltMap
    <3>1. /\ delta' = delta /\ trees[t] \in [Names -> MaybeWrapper]
          /\ trees'[t] = Applied(trees[t], node) /\ Merged(t) = cursor - 1 /\ Merged(t)' = cursor
          /\ cursor \in 1..Len(delta)
      BY <1>9, <2>3, ApplyFacts, Zenon
    <3>2. CASE node.type # "BARRIER" /\ n = wname[node.filter]
      <4>1. trees'[t][n] = IF node.type = "CREATE" THEN node.filter ELSE NULL
        BY <3>1, <3>2, AppliedEntry, SMTT(120)
      <4>2. node.type = "CREATE" /\ node.filter = w
        BY <1>3, <1>4, <4>1, Zenon
      <4>3. delta[cursor] = Node("CREATE", w)
        <5>1. delta[cursor] \in [type : Types, filter : MaybeWrapper]
          BY <1>1, <3>1, NodeType, Zenon
        <5> QED BY <4>2, <5>1, SMTT(120) DEF Node
      <4>4. ASSUME NEW v \in 1..Len(delta), delta[v] = Node("CREATE", w) PROVE v = cursor
        <5>1. delta[v].type = "CREATE" /\ delta[v].filter = w
          BY <4>4, SMTT(120) DEF Node
        <5> QED BY <3>1, <4>2, <5>1, Zenon DEF CreatedInv
      <4>5. Created(w)
        BY <3>1, <4>3, Zenon DEF Created
      <4>6. ASSUME NEW c \in Clients, Adding(c, w)' PROVE FALSE
        <5>1. UNCHANGED <<pc, op, filt>>
          BY <1>9, Zenon DEF MergeApply, clientSide, locals
        <5>2. Adding(c, w)
          BY <4>6, <5>1, Zenon DEF Adding, Changing
        <5> QED BY <1>5, <4>5, <5>2, Zenon DEF CreatedInv
      <4>7. cursor <= cursor
        BY <3>1, SMTT(120)
      <4> QED BY <3>1, <4>4, <4>6, <4>7, Zenon
    <3>3. CASE node.type = "BARRIER" \/ n # wname[node.filter]
      <4>1. trees'[t][n] = trees[t][n]
        BY <3>1, <3>3, AppliedEntry, SMTT(120)
      <4>2. Merged(t)' \in Int /\ Merged(t) <= Merged(t)'
        BY <1>1, <3>1, SMTT(120)
      <4> QED BY <1>4, <1>7, <4>1, <4>2, ZenonT(60)
    <3> QED BY <3>2, <3>3, Zenon
  <2> QED BY <2>2, <2>3, Zenon
<1> QED BY <1>8, <1>9, Zenon

\* A wrapper that init_filter_manager loaded stays in a tree until a delta
\* about its name is merged.
LEMMA LoadedStep ==
  ASSUME TypeInv, TypeInv', PlanInv, PlanInv', PhaseInv, LoadedInv, [Next]_vars
  PROVE  LoadedInv'
<1> USE ConstantsAssumption
<1>1. ManagerTypeOK /\ Named /\ Len(delta) \in Nat /\ WrapperTypeOK
  BY DeltaLength, Zenon DEF TypeInv, TypeOK
<1>2. MergedFits
  BY MergedValue, Zenon
<1>3. SUFFICES ASSUME NEW w \in Wrappers, wname'[w] # NULL, ~Created(w)',
                      \A c \in Clients : ~Adding(c, w)', NEW t \in 1..2,
                      AboutIn(delta', wname', wname'[w], Merged(t)') = {}
               PROVE  trees'[t][wname'[w]] = w
  BY Zenon DEF LoadedInv, About, AboutIn
<1>4. wname[w] # NULL
  <2>1. ASSUME wname[w] = NULL PROVE \E c \in Clients : AddFilter(c, w)
    <3>1. ASSUME NEW c \in Clients, ClientAction(c) PROVE AddFilter(c, w)
      <4>1. ClientTypeOK
        BY Zenon DEF TypeInv, TypeOK
      <4>2. ASSUME NEW x \in Wrappers, AddFilter(c, x) PROVE x = w
        <5>1. \A u \in Wrappers : u # x => wname'[u] = wname[u]
          BY <4>2, AddFilterLeaves, SMTT(120)
        <5> QED BY <1>3, <2>1, <5>1, Zenon
      <4>3. wname' # wname
        BY <1>3, <2>1, Zenon
      <4> QED BY <3>1, <4>1, <4>2, <4>3, ActiveFrame, Zenon DEF Retires
    <3>2. ASSUME VacuumStep PROVE FALSE
      BY <1>3, <2>1, <3>2, VacuumFrame, Zenon
    <3>3. ASSUME Shutdown \/ UNCHANGED vars PROVE FALSE
      BY <1>3, <2>1, <3>3, Zenon DEF Shutdown, vars, wrapVars
    <3> QED BY <3>1, <3>2, <3>3, NextCases, Zenon
  <2>2. ASSUME NEW c \in Clients, AddFilter(c, w) PROVE Adding(c, w)'
    BY <2>2, AddFilterLeaves, Zenon DEF Adding, Changing
  <2> QED BY <1>3, <2>1, <2>2, Zenon
<1>5. PICK n \in Names : n = wname[w] /\ n = wname'[w]
  <2>1. wname'[w] = wname[w]
    BY <1>4, Grows, Zenon
  <2>2. wname[w] \in Names
    BY <1>1, <1>4, SMTT(120) DEF WrapperTypeOK
  <2> QED BY <2>1, <2>2, Zenon
<1>6. ~Created(w)
  BY <1>3, CreatedStays, Zenon
<1>7. ASSUME NEW c \in Clients, Adding(c, w) PROVE FALSE
  <2>1. Changing(c, w) /\ op[c] = "create"
    BY <1>7, Zenon DEF Adding
  <2>2. LinkDelta(c) /\ filt[c] = w
    BY <1>3, <2>1, ChangingStep, Zenon DEF Adding
  <2>3. Linked("CREATE", w)
    BY <2>1, <2>2, LinkDeltaLinks, Zenon DEF LinkedType
  <2>4. Len(delta) + 1 \in 1..Len(delta') /\ delta'[Len(delta) + 1] = Node("CREATE", w)
    BY <2>3, SMTT(120) DEF Linked
  <2> QED BY <1>3, <2>4, Zenon DEF Created
<1>8. AboutIn(delta, wname, n, Merged(t)) = {} => trees[t][n] = w
  BY <1>4, <1>5, <1>6, <1>7, Zenon DEF LoadedInv, About, AboutIn
<1>9. CASE ~MergeApply
  <2>1. trees' = trees /\ Merged(t)' = Merged(t) /\ Merged(t) \in Int /\ Merged(t) <= Len(delta)
    BY <1>2, <1>9, MergedStep, Zenon DEF MergedFits
  <2>2. AboutIn(delta', wname', n, Merged(t)) = AboutIn(delta, wname, n, Merged(t))
    BY <2>1, AboutStep, Zenon
  <2> QED BY <1>3, <1>5, <1>8, <2>1, <2>2, Zenon
<1>10. CASE MergeApply
  <2> DEFINE node == delta[cursor]
  <2>1. delta' = delta /\ wname' = wname
    BY <1>10, ApplyFacts, Zenon
  <2>2. CASE t # AltMap
    <3>1. trees'[t] = trees[t] /\ Merged(t)' = Merged(t)
      BY <1>10, <2>2, ApplyFacts, Zenon
    <3> QED BY <1>3, <1>5, <1>8, <2>1, <3>1, Zenon
  <2>3. CASE t = AltMap
    <3>1. /\ trees[t] \in [Names -> MaybeWrapper]
          /\ trees'[t] = Applied(trees[t], node) /\ Merged(t) = cursor - 1 /\ Merged(t)' = cursor
          /\ cursor \in 1..Len(delta)
      BY <1>10, <2>3, ApplyFacts, Zenon
    <3>2. cursor \in Nat \ {0}
      BY <3>1, SMTT(120)
    <3>3. AboutIn(delta, wname, n, cursor) = {}
      BY <1>3, <1>5, <2>1, <3>1, Zenon
    <3>4. ASSUME node.type # "BARRIER", n = wname[node.filter] PROVE FALSE
      <4>1. cursor \in AboutIn(delta, wname, n, cursor)
        BY <3>2, <3>4, AboutNext, SMTT(120)
      <4> QED BY <3>3, <4>1, Zenon
    <3>5. AboutIn(delta, wname, n, cursor - 1) = {}
      BY <3>2, <3>3, <3>4, AboutNext, SMTT(120)
    <3>6. trees'[t][n] = trees[t][n]
      BY <3>1, <3>4, AppliedEntry, SMTT(120)
    <3> QED BY <1>5, <1>8, <3>1, <3>5, <3>6, Zenon
  <2> QED BY <2>2, <2>3, Zenon
<1> QED BY <1>9, <1>10, Zenon

-----------------------------------------------------------------------------
(***************************************************************************)
(* What is freed, what is pending, and how far the primary tree is merged. *)
(***************************************************************************)

\* delete_old_versions frees what is deleted in the part that was cut off.
LEMMA HeapStep ==
  ASSUME TypeInv, TypeInv', HeapInv, [Next]_vars
  PROVE  HeapInv'
<1> USE ConstantsAssumption
<1>1. /\ ManagerTypeOK /\ ClientTypeOK /\ WrapperTypeOK /\ WrapperTypeOK' /\ Len(delta) \in Nat
      /\ vpc \in VacuumLabels /\ cursor \in Nat /\ last \in Nat /\ trimmed \in Nat
      /\ trimmed <= Len(delta) /\ min_vsn \in Nat
  BY DeltaLength, Zenon DEF TypeInv, TypeOK, VacuumTypeOK, ManagerTypeOK
<1>2. /\ \A v \in 1..Len(delta) : delta'[v] = delta[v]
      /\ Len(delta') \in Nat /\ Len(delta) <= Len(delta')
      /\ \A w \in Wrappers : wname[w] # NULL => wname'[w] = wname[w]
  BY Grows, Zenon
<1>3. ASSUME NEW w \in heap', w \notin heap PROVE \E c \in Clients : AddFilter(c, w)
  <2>1. ASSUME NEW c \in Clients, ClientAction(c) PROVE AddFilter(c, w)
    <3>1. ASSUME NEW x \in Wrappers, AddFilter(c, x) PROVE x = w
      <4>1. heap' = heap \cup {x}
        BY <3>1, Zenon DEF AddFilter
      <4> QED BY <1>3, <4>1, Zenon
    <3>2. heap' # heap
      BY <1>3, Zenon
    <3> QED BY <1>1, <2>1, <3>1, <3>2, ActiveFrame, Zenon DEF Retires
  <2>2. ASSUME VacuumStep PROVE FALSE
    BY <1>3, <2>2, VacuumWrapperFrame, Zenon DEF wrapVars, Reap, Destroy
  <2>3. ASSUME Shutdown \/ UNCHANGED vars PROVE FALSE
    BY <1>3, <2>3, Zenon DEF Shutdown, vars, wrapVars
  <2> QED BY <2>1, <2>2, <2>3, NextCases, Zenon
<1>4. ASSUME NEW w \in heap' PROVE wname'[w] # NULL
  <2>1. CASE w \in heap
    BY <1>1, <1>2, <2>1, Zenon DEF HeapInv, WrapperTypeOK
  <2>2. CASE w \notin heap
    <3>1. PICK c \in Clients : AddFilter(c, w)
      BY <1>3, <2>2, Zenon
    <3>2. w \in Wrappers
      BY <1>1, Zenon DEF WrapperTypeOK
    <3>3. wname'[w] = arg[c] /\ arg[c] \in Names
      BY <3>1, <3>2, AddFilterLeaves, SMTT(120)
    <3> QED BY <3>3, Zenon
  <2> QED BY <2>1, <2>2, Zenon
<1>5. SUFFICES ASSUME vpc' # "destroyed", NEW w \in heap', DeadIn(delta', w, trimmed')
               PROVE  /\ vpc' = "reap"
                      /\ \E v \in 1..Len(delta') :
                           last' < v /\ v <= cursor' /\ delta'[v] = Node("DELETE", w)
  BY <1>4, Zenon DEF HeapInv, Dead
<1>6. CASE TrimDeltas
  <2>1. /\ vpc' = "reap" /\ delta' = delta /\ last' = trimmed /\ cursor' = trimmed'
        /\ heap' = heap /\ vpc = "trim"
    BY <1>6, Zenon DEF TrimDeltas, VGoto, wrapVars
  <2>2. ~DeadIn(delta, w, trimmed)
    BY <2>1, Zenon DEF HeapInv, Dead
  <2>3. PICK v \in 1..Len(delta) : v <= trimmed' /\ delta[v] = Node("DELETE", w)
    BY <1>5, <2>1, Zenon DEF DeadIn
  <2>4. trimmed < v
    BY <1>1, <2>2, <2>3, SMTT(120) DEF DeadIn
  <2> QED BY <2>1, <2>3, <2>4, Zenon
<1>7. CASE trimmed' = trimmed
  <2>1. Dead(w, trimmed)
    BY <1>1, <1>5, <1>7, DeadStep, SMTT(120) DEF Dead
  <2>2. w \in heap /\ w \in Wrappers
    <3>1. ASSUME NEW c \in Clients, AddFilter(c, w), w \in Wrappers PROVE FALSE
      <4>1. wname[w] = NULL
        BY <3>1, Zenon DEF AddFilter
      <4> QED BY <2>1, <3>1, <4>1, UnnamedNotDead, Zenon
    <3> QED BY <1>1, <1>3, <3>1, Zenon DEF WrapperTypeOK
  <2>3. CASE vpc = "destroyed"
    <3>1. ~VacuumStep
      BY <2>3, Zenon
      DEF VacuumStep, VacuumExit, VacuumTop, VacuumSpecial, ClientMinVsn,
          ClientMinHead, ClientMinScan, PlanDone, MergeStart, MergeApply,
          MergeDone, MarkPending, SwapMaps, PublishVsn, BarrierBump, BarrierLink,
          BarrierPoll, PollDone, TrimDeltas, Reap, ClearPending, Destroy
    <3>2. vpc' = vpc
      BY <3>1, NextCases, ClientFrame, Zenon DEF vacuum, Shutdown, vars
    <3> QED BY <1>5, <2>3, <3>2, Zenon
  <2>4. CASE vpc # "destroyed"
    <3>1. PICK v \in 1..Len(delta) : last < v /\ v <= cursor /\ delta[v] = Node("DELETE", w)
      BY <2>1, <2>2, <2>4, Zenon DEF HeapInv
    <3>2. vpc = "reap"
      BY <2>1, <2>2, <2>4, Zenon DEF HeapInv
    <3>3. v \in 1..Len(delta') /\ delta'[v] = Node("DELETE", w) /\ v \in Nat
      BY <1>1, <1>2, <3>1, SMTT(120)
    <3>4. CASE UNCHANGED <<vpc, last, cursor>>
      BY <3>1, <3>2, <3>3, <3>4, Zenon
    <3>5. CASE Reap
      <4>1. vpc' = vpc /\ last' = last /\ cursor' = cursor - 1
        BY <1>5, <3>5, Zenon DEF Reap
      <4>2. v # cursor
        <5>1. ASSUME v = cursor PROVE delta[cursor].type = "DELETE" /\ delta[cursor].filter = w
          BY <3>1, <5>1, SMTT(120) DEF Node
        <5> QED BY <1>5, <3>5, <5>1, Zenon DEF Reap
      <4>3. v <= cursor'
        BY <1>1, <3>1, <3>3, <4>1, <4>2, SMTT(120)
      <4> QED BY <3>1, <3>2, <3>3, <4>1, <4>3, Zenon
    <3>6. CASE ClearPending
      <4>1. cursor = last
        BY <3>6, Zenon DEF ClearPending
      <4> QED BY <1>1, <3>1, <3>3, <4>1, SMTT(120)
    <3>7. ASSUME VacuumStep PROVE Reap \/ ClearPending
      BY <3>2, <3>7, Zenon
      DEF VacuumStep, VacuumExit, VacuumTop, VacuumSpecial, ClientMinVsn,
          ClientMinHead, ClientMinScan, PlanDone, MergeStart, MergeApply,
          MergeDone, MarkPending, SwapMaps, PublishVsn, BarrierBump, BarrierLink,
          BarrierPoll, PollDone, TrimDeltas, Destroy
    <3>8. ASSUME ~VacuumStep PROVE UNCHANGED <<vpc, last, cursor>>
      BY <3>8, NextCases, ClientFrame, Zenon DEF vacuum, walkVars, Shutdown, vars
    <3> QED BY <3>4, <3>5, <3>6, <3>7, <3>8, Zenon
  <2> QED BY <2>3, <2>4, Zenon
<1>8. trimmed' = trimmed \/ TrimDeltas
  BY NextCases, ClientFrame, VacuumDeltaFrame, Zenon
  DEF deltaVars, BarrierBump, BarrierLink, Reap, Destroy, Shutdown, vars, mgr
<1> QED BY <1>6, <1>7, <1>8, Zenon

\* The names of the deletes among deltas a + 1 .. b are pending.
PendingIn(d, wn, p, a, b) ==
  \A v \in 1..Len(d) : a < v /\ v <= b /\ d[v].type = "DELETE" => wn[d[v].filter] \in p

\* The round has marked its deletes and not yet begun to free them.
Marked == vpc \in {"swap", "publish", "barrier"} \/ (phase = "barrier" /\ vpc # "reap")

\* mark_pending_deletes marks what the round will free, and the marks stay
\* until clear_pending_deletes.
LEMMA PendingStep ==
  ASSUME TypeInv, PhaseInv, PlanInv, PendingInv, [Next]_vars
  PROVE  PendingInv'
<1> USE ConstantsAssumption
<1>1. /\ ManagerTypeOK /\ Named /\ Len(delta) \in Nat
      /\ cursor \in Nat /\ last \in Nat /\ trimmed \in Nat
      /\ trimmed <= Len(delta) /\ min_vsn \in Nat /\ min_vsn <= Len(delta)
      /\ (vpc = "reap" => cursor <= Len(delta))
  <2>1. /\ ManagerTypeOK /\ Named /\ Len(delta) \in Nat
        /\ cursor \in Nat /\ last \in Nat /\ trimmed \in Nat
        /\ trimmed <= Len(delta) /\ min_vsn \in Nat /\ min_vsn <= Len(delta)
        /\ (vpc = "reap" => cursor <= trimmed)
    BY DeltaLength, Zenon
    DEF TypeInv, TypeOK, VacuumTypeOK, ManagerTypeOK, PlanInv, WalkFits
  <2> QED BY <2>1, SMTT(120)
<1>2. /\ Marked => PendingIn(delta, wname, pending_deletes, trimmed, min_vsn)
      /\ vpc = "reap" => PendingIn(delta, wname, pending_deletes, last, cursor)
  BY Zenon DEF PendingInv, Marked, PendingIn
<1>3. SUFFICES /\ Marked' => PendingIn(delta', wname', pending_deletes', trimmed', min_vsn')
               /\ vpc' = "reap" => PendingIn(delta', wname', pending_deletes', last', cursor')
  BY Zenon DEF PendingInv, Marked, PendingIn
<1>4. ASSUME NEW a \in Int, NEW b \in Int, b <= Len(delta),
             PendingIn(delta, wname, pending_deletes, a, b)
      PROVE  PendingIn(delta', wname', pending_deletes, a, b)
  <2>1. /\ \A v \in 1..Len(delta) : delta'[v] = delta[v]
        /\ \A w \in Wrappers : wname[w] # NULL => wname'[w] = wname[w]
        /\ Len(delta') \in Nat
    BY Grows, Zenon
  <2>2. SUFFICES ASSUME NEW v \in 1..Len(delta'), a < v, v <= b, delta'[v].type = "DELETE"
                 PROVE  wname'[delta'[v].filter] \in pending_deletes
    BY Zenon DEF PendingIn
  <2>3. v \in 1..Len(delta)
    BY <1>1, <1>4, <2>1, <2>2, SMTT(120)
  <2>4. delta'[v] = delta[v]
    BY <2>1, <2>3, Zenon
  <2>5. delta[v].filter \in Wrappers /\ wname[delta[v].filter] # NULL
    BY <1>1, <2>2, <2>3, <2>4, NodeType, Zenon DEF Named
  <2> QED BY <1>4, <2>1, <2>2, <2>3, <2>4, <2>5, Zenon DEF PendingIn
<1>5. CASE /\ UNCHANGED <<trimmed, min_vsn, pending_deletes>> /\ (Marked' => Marked)
           /\ (vpc' = "reap" => vpc = "reap" /\ last' = last /\ cursor' = cursor)
  BY <1>1, <1>2, <1>4, <1>5, SMTT(120)
<1>6. CASE UNCHANGED <<vpc, phase>> /\ UNCHANGED <<trimmed, min_vsn, pending_deletes, last, cursor>>
  BY <1>5, <1>6, Zenon DEF Marked
<1>7. ASSUME NEW c \in Clients, ClientAction(c)
      PROVE  UNCHANGED <<vpc, phase, trimmed, min_vsn, pending_deletes, last, cursor>>
  BY <1>7, ClientFrame, Zenon DEF vacuum, roundVars, walkVars, treeVars
<1>8. CASE Shutdown
  BY <1>6, <1>8, Zenon DEF Shutdown, vacuum, roundVars, walkVars, treeVars, deltaVars
<1>9. CASE UNCHANGED vars
  BY <1>6, <1>9, Zenon DEF vars, mgr, vacuum, roundVars, walkVars, treeVars, deltaVars
<1>10. ASSUME VacuumStep
       PROVE  /\ Marked' => PendingIn(delta', wname', pending_deletes', trimmed', min_vsn')
              /\ vpc' = "reap" => PendingIn(delta', wname', pending_deletes', last', cursor')
  <2>1. CASE MarkPending
    <3>1. /\ pending_deletes' = {wname[delta[v].filter] :
               v \in {u \in trimmed + 1 .. Least(Len(delta), min_vsn) : delta[u].type = "DELETE"}}
          /\ UNCHANGED <<delta, wname, trimmed, min_vsn>> /\ vpc' = "swap"
      BY <2>1, Zenon DEF MarkPending, VGoto, deltaVars, wrapVars, roundVars
    <3>2. Least(Len(delta), min_vsn) = min_vsn
      BY <1>1, SMTT(120) DEF Least
    <3>3. ASSUME NEW v \in 1..Len(delta), trimmed < v, v <= min_vsn
          PROVE  v \in trimmed + 1 .. min_vsn
      BY <1>1, <3>3, SMTT(120)
    <3>4. PendingIn(delta, wname, pending_deletes', trimmed, min_vsn)
      BY <3>1, <3>2, <3>3, Zenon DEF PendingIn
    <3> QED BY <3>1, <3>4, Zenon
  <2>2. CASE TrimDeltas
    <3>1. /\ vpc = "trim" /\ vpc' = "reap" /\ UNCHANGED <<delta, wname, pending_deletes>>
          /\ last' = trimmed /\ phase = "barrier"
      BY <2>2, Zenon DEF TrimDeltas, VGoto, treeVars, wrapVars, PhaseInv
    <3>2. PendingIn(delta, wname, pending_deletes, trimmed, min_vsn)
      BY <1>2, <3>1, Zenon DEF Marked
    <3>3. cursor' = IF min_vsn > trimmed THEN min_vsn ELSE trimmed
      BY <1>1, <2>2, SMTT(120) DEF TrimDeltas, Least
    <3>4. PendingIn(delta, wname, pending_deletes, trimmed, cursor')
      <4>1. CASE cursor' = min_vsn
        BY <3>2, <4>1, Zenon
      <4>2. CASE cursor' = trimmed
        BY <1>1, <4>2, SMTT(120) DEF PendingIn
      <4> QED BY <3>3, <4>1, <4>2, Zenon
    <3> QED BY <3>1, <3>4, Zenon DEF Marked
  <2>3. CASE Reap
    <3>1. /\ vpc = "reap" /\ vpc' = "reap" /\ UNCHANGED <<delta, wname, pending_deletes>>
          /\ last' = last /\ cursor' = cursor - 1
      BY <2>3, Zenon DEF Reap, treeVars
    <3>2. \A v \in 1..Len(delta) : v <= cursor' => v <= cursor
      BY <1>1, <3>1, SMTT(120)
    <3> QED BY <1>2, <3>1, <3>2, Zenon DEF Marked, PendingIn
  <2>4. CASE ClearPending
    <3>1. vpc' = "top" /\ phase' = "plan"
      BY <2>4, Zenon DEF ClearPending, VGoto
    <3> QED BY <3>1, Zenon DEF Marked
  <2>5. CASE PlanDone
    <3>1. vpc' = "merge" /\ phase' = "plan"
      BY <2>5, Zenon DEF PlanDone, VGoto
    <3> QED BY <3>1, Zenon DEF Marked
  <2>6. CASE BarrierBump \/ SwapMaps \/ PublishVsn
    <3>1. UNCHANGED <<trimmed, min_vsn, pending_deletes>> /\ Marked /\ vpc' # "reap"
      BY <2>6, Zenon
      DEF BarrierBump, SwapMaps, PublishVsn, VGoto, treeVars, deltaVars, roundVars,
          Marked
    <3> QED BY <1>5, <3>1, Zenon
  <2>7. CASE BarrierLink \/ BarrierPoll \/ PollDone \/ MergeStart \/ MergeApply \/ MergeDone
    <3>1. /\ UNCHANGED <<trimmed, min_vsn, pending_deletes, phase>>
          /\ vpc \in {"blink", "poll", "scan", "merge", "apply"}
          /\ vpc' \in {"poll", "min", "merge", "apply", "mark", "trim"}
      BY <2>7, Zenon
      DEF BarrierLink, BarrierPoll, PollDone, MergeStart, MergeApply, MergeDone,
          VGoto, treeVars, deltaVars, roundVars, mgr
    <3> QED BY <1>5, <3>1, Zenon DEF Marked
  <2>8. CASE VacuumExit \/ VacuumTop \/ VacuumSpecial \/ ClientMinVsn \/ ClientMinHead
             \/ Destroy \/ \E c \in Clients : ClientMinScan(c)
    <3>1. /\ UNCHANGED <<trimmed, min_vsn, pending_deletes, phase>>
          /\ vpc # "reap"
          /\ vpc' \in {"exited", "special", "min", "top", "clients", "scan", "destroyed"}
      BY <2>8, Zenon
      DEF VacuumExit, VacuumTop, VacuumSpecial, ClientMinVsn, ClientMinHead, Destroy,
          ClientMinScan, VGoto, treeVars, deltaVars, roundVars, mgr
    <3> QED BY <1>5, <3>1, Zenon DEF Marked
  <2> QED BY <1>10, <2>1, <2>2, <2>3, <2>4, <2>5, <2>6, <2>7, <2>8, Zenon
          DEF VacuumStep
<1> QED BY <1>6, <1>7, <1>8, <1>9, <1>10, NextCases, Zenon

\* Base is how far the primary tree is merged.
LEMMA BaseFits ==
  ASSUME TypeInv, PlanInv
  PROVE  /\ \A t \in 1..2 : t = filter_map => Merged(t) = Base
         /\ Base \in Nat /\ trimmed <= Base /\ Base <= Len(delta)
         /\ Planned \in Nat /\ min_vsn <= Planned /\ trimmed <= Planned /\ Planned <= Len(delta)
<1>1. /\ trimmed \in Nat /\ min_vsn \in Nat /\ filter_map \in 1..2 /\ Len(delta) \in Nat
      /\ trimmed <= Len(delta) /\ min_vsn <= Len(delta)
  BY DeltaLength, Zenon DEF TypeInv, TypeOK, VacuumTypeOK, ManagerTypeOK, PlanInv
<1>2. AltMap # filter_map
  BY <1>1, SMTT(120) DEF AltMap
<1>3. \A t \in 1..2 : t = filter_map => Merged(t) = Base
  BY <1>2, MergedValue, Zenon DEF MergedFits, Base, Swapped
<1>4. Planned \in Nat /\ min_vsn <= Planned /\ trimmed <= Planned /\ Planned <= Len(delta)
  BY <1>1, SMTT(120) DEF Planned
<1>5. Base \in Nat /\ trimmed <= Base /\ Base <= Len(delta)
  BY <1>1, <1>4, SMTT(120) DEF Base
<1> QED BY <1>3, <1>4, <1>5, Zenon

\* Only a swap changes how far the primary tree is merged, and never back.
LEMMA BaseStep ==
  ASSUME TypeInv, TypeInv', PlanInv, PlanInv', PhaseInv, [Next]_vars
  PROVE  /\ ~SwapMaps => Base' = Base
         /\ Base \in Nat /\ Base' \in Nat /\ Base <= Base'
<1>1. filter_map \in 1..2 /\ filter_map' \in 1..2
  BY Zenon DEF TypeInv, TypeOK, ManagerTypeOK
<1>2. Base \in Nat /\ Base' \in Nat
  <2>1. Base \in Nat
    BY BaseFits, Zenon
  <2>2. (Base \in Nat)'
    BY BaseFits, PTL
  <2> QED BY <2>1, <2>2, Zenon
<1>3. (\A t \in 1..2 : t = filter_map => Merged(t) = Base)'
  BY BaseFits, PTL
<1>4. ASSUME ~SwapMaps PROVE Base' = Base
  <2>1. filter_map' = filter_map
    BY <1>4, NextCases, ClientFrame, VacuumTreeFrame, Zenon
    DEF treeVars, VacuumSpecial, MergeApply, MarkPending, PublishVsn, ClearPending,
        Shutdown, vars, mgr
  <2>2. PICK t \in 1..2 : t = filter_map
    BY <1>1, Zenon
  <2>3. Merged(t)' = Merged(t)
    <3>1. CASE MergeApply
      <4>1. t # AltMap
        BY <1>1, <2>2, SMTT(120) DEF AltMap
      <4> QED BY <3>1, <4>1, ApplyFacts, Zenon
    <3>2. CASE ~MergeApply
      BY <3>2, MergedStep, Zenon
    <3> QED BY <3>1, <3>2, Zenon
  <2>4. Merged(t) = Base
    BY <2>2, BaseFits, Zenon
  <2>5. Merged(t)' = Base'
    BY <1>3, <2>1, <2>2, Zenon
  <2> QED BY <2>3, <2>4, <2>5, Zenon
<1>5. ASSUME SwapMaps PROVE Base <= Base'
  <2>1. /\ vpc = "swap" /\ phase = "plan" /\ vpc' = "publish" /\ UNCHANGED <<trimmed, min_vsn>>
    BY <1>5, Zenon DEF SwapMaps, PhaseInv, VGoto, roundVars, deltaVars
  <2>2. Base = trimmed
    BY <2>1, Zenon DEF Base, Swapped
  <2>3. Base' = Planned'
    BY <2>1, Zenon DEF Base, Swapped
  <2>4. Planned' = Planned
    BY <2>1, Zenon DEF Planned
  <2> QED BY <2>2, <2>3, <2>4, BaseFits, Zenon
<1> QED BY <1>2, <1>4, <1>5, SMTT(120)

\* swap_filter_maps publishes no version that its tree does not have, and the
\* special case steps over a barrier only.
LEMMA PrimaryStep ==
  ASSUME TypeInv, TypeInv', LockInv, VsnInv, PhaseInv, PlanInv, PlanInv', EmptyInv,
         PrimaryInv, [Next]_vars
  PROVE  PrimaryInv'
<1> USE ConstantsAssumption
<1>1. /\ ManagerTypeOK /\ Len(delta) \in Nat /\ primary_vsn \in Nat /\ min_vsn \in Nat
      /\ primary_vsn <= Len(delta) /\ trimmed \in Nat /\ trimmed <= Len(delta)
      /\ mgr_vsn \in Nat
  BY DeltaLength, Zenon DEF TypeInv, TypeOK, VacuumTypeOK, ManagerTypeOK, EmptyInv
<1>2. /\ \A v \in 1..Len(delta) : delta'[v] = delta[v]
      /\ Len(delta') \in Nat
  BY Grows, Zenon
<1>3. Base \in Nat /\ Base' \in Nat /\ Base <= Base'
  BY BaseStep, Zenon
<1>4. SUFFICES ASSUME NEW v \in 1..Len(delta'), Base' < v, v <= primary_vsn'
               PROVE  delta'[v].type = "BARRIER"
  BY Zenon DEF PrimaryInv
<1>5. v \in Nat /\ Base < v
  BY <1>2, <1>3, <1>4, SMTT(120)
<1>6. ASSUME v <= primary_vsn PROVE delta'[v].type = "BARRIER"
  <2>1. v \in 1..Len(delta)
    BY <1>1, <1>2, <1>4, <1>6, SMTT(120)
  <2> QED BY <1>2, <1>5, <1>6, <2>1, Zenon DEF PrimaryInv
<1>7. CASE VacuumSpecial
  <2>1. CASE LoneBarrier
    <3>1. /\ vsn = Len(delta) /\ primary_vsn' = mgr_vsn /\ mgr_vsn = vsn
          /\ mgr_vsn = primary_vsn + 1 /\ Head0 # 0 /\ delta[Head0].type = "BARRIER"
      BY <1>7, <2>1, FreeLock, Zenon DEF VacuumSpecial, LoneBarrier, EmptyInv
    <3>2. Head0 = Len(delta)
      BY <3>1, Zenon DEF Head0
    <3>3. v <= primary_vsn \/ v = Len(delta)
      BY <1>1, <1>4, <1>5, <3>1, SMTT(120)
    <3>4. v = Len(delta) => v \in 1..Len(delta)
      BY <1>1, <1>2, <1>4, SMTT(120)
    <3> QED BY <1>2, <1>6, <3>1, <3>2, <3>3, <3>4, Zenon
  <2>2. CASE ~LoneBarrier
    BY <1>4, <1>6, <1>7, <2>2, Zenon DEF VacuumSpecial
  <2> QED BY <2>1, <2>2, Zenon
<1>8. CASE PublishVsn
  <2>1. primary_vsn' = min_vsn /\ vpc' = "barrier" /\ UNCHANGED <<min_vsn, trimmed>>
    BY <1>8, Zenon DEF PublishVsn, VGoto, roundVars, deltaVars
  <2>2. Base' = Planned' /\ Planned' = Planned
    BY <2>1, Zenon DEF Base, Swapped, Planned
  <2>3. Planned \in Nat /\ min_vsn <= Planned
    BY BaseFits, Zenon
  <2> QED BY <1>1, <1>4, <1>5, <2>1, <2>2, <2>3, SMTT(120)
<1>9. ASSUME ~VacuumSpecial, ~PublishVsn PROVE primary_vsn' = primary_vsn
  BY <1>9, NextCases, ClientFrame, VacuumTreeFrame, Zenon
  DEF treeVars, MergeApply, MarkPending, SwapMaps, ClearPending, Shutdown, vars, mgr
<1> QED BY <1>4, <1>6, <1>7, <1>8, <1>9, Zenon

-----------------------------------------------------------------------------
(***************************************************************************)
(* What a search overlooks.                                                *)
(***************************************************************************)

\* A search of find_filter that has found nothing so far.
Searching == {"compare", "compare2", "head", "walk", "next", "miss", "add"}

\* How a client gets to the places of a search that has found nothing.
LEMMA SearchArrivals ==
  ASSUME ClientTypeOK, NEW c \in Clients, ClientAction(c)
  PROVE  /\ pc'[c] = "compare" => Search(c) \/ IterList(c)
         /\ pc'[c] = "compare2" => ReadPrimaryVsn(c)
         /\ pc'[c] = "head" => CompareVsn(c)
         /\ pc'[c] = "walk" => ReadDelta(c) \/ WalkNext(c)
         /\ pc'[c] = "next" => WalkOn(c)
         /\ pc'[c] = "miss" => CompareVsn(c) \/ ReadDelta(c) \/ WalkOn(c) \/ WalkNext(c)
         /\ pc'[c] = "add" => CreatePending(c)
<1>1. pc'[c] = "compare" => Search(c) \/ IterList(c)
  BY Zenon
  DEF ClientTypeOK, ClientAction, ClientStep, Call, CheckpointRead, Goto,
      Return, Missed, locals, CheckpointStore, Lock, LoadTree, IterCold,
      ReadPrimaryVsn, CompareVsn, ReadDelta, WalkMatch, WalkOn, WalkNext,
      ListDone, Miss, CreatePending, Refuse, Take, UseKeys, UsePeek, UseUnmap,
      AddFails, DropFilter, ClearFilter, AddFilter, BumpVsn, LinkDelta
<1>2. pc'[c] = "compare2" => ReadPrimaryVsn(c)
  BY Zenon
  DEF ClientTypeOK, ClientAction, ClientStep, Call, CheckpointRead, Goto,
      Return, Missed, locals, CheckpointStore, Lock, LoadTree, Search, IterList,
      IterCold, CompareVsn, ReadDelta, WalkMatch, WalkOn, WalkNext, ListDone,
      Miss, CreatePending, Refuse, Take, UseKeys, UsePeek, UseUnmap, AddFails,
      DropFilter, ClearFilter, AddFilter, BumpVsn, LinkDelta
<1>3. pc'[c] = "head" => CompareVsn(c)
  BY Zenon
  DEF ClientTypeOK, ClientAction, ClientStep, Call, CheckpointRead, Goto,
      Return, Missed, locals, CheckpointStore, Lock, LoadTree, Search, IterList,
      IterCold, ReadPrimaryVsn, ReadDelta, WalkMatch, WalkOn, WalkNext, ListDone,
      Miss, CreatePending, Refuse, Take, UseKeys, UsePeek, UseUnmap, AddFails,
      DropFilter, ClearFilter, AddFilter, BumpVsn, LinkDelta
<1>4. pc'[c] = "miss" => CompareVsn(c) \/ ReadDelta(c) \/ WalkOn(c) \/ WalkNext(c)
  BY Zenon
  DEF ClientTypeOK, ClientAction, ClientStep, Call, CheckpointRead, Goto,
      Return, Missed, locals, CheckpointStore, Lock, LoadTree, Search, IterList,
      IterCold, ReadPrimaryVsn, WalkMatch, ListDone, Miss, CreatePending, Refuse,
      Take, UseKeys, UsePeek, UseUnmap, AddFails, DropFilter, ClearFilter,
      AddFilter, BumpVsn, LinkDelta
<1>5. pc'[c] = "add" => CreatePending(c)
  BY Zenon
  DEF ClientTypeOK, ClientAction, ClientStep, Call, CheckpointRead, Goto,
      Return, Missed, locals, CheckpointStore, Lock, LoadTree, Search, IterList,
      IterCold, ReadPrimaryVsn, CompareVsn, ReadDelta, WalkMatch, WalkOn,
      WalkNext, ListDone, Miss, Refuse, Take, UseKeys, UsePeek, UseUnmap,
      AddFails, DropFilter, ClearFilter, AddFilter, BumpVsn, LinkDelta
<1> QED BY <1>1, <1>2, <1>3, <1>4, <1>5, Arrivals, Zenon

\* A client that goes on with its search changes nothing that others see.
LEMMA SearchFrame ==
  ASSUME ClientTypeOK, NEW c \in Clients, ClientAction(c), pc'[c] \in Searching
  PROVE  /\ UNCHANGED <<mgr, wrapVars, op, arg, vacuum, write_lock>>
         /\ Search(c) \/ IterList(c) \/ pc[c] \in Searching
<1>1. CASE Search(c) \/ IterList(c)
  BY <1>1, Zenon DEF Search, IterList
<1>2. CASE ReadPrimaryVsn(c) \/ CompareVsn(c) \/ ReadDelta(c) \/ WalkOn(c) \/ WalkNext(c)
  BY <1>2, Zenon
  DEF ReadPrimaryVsn, CompareVsn, ReadDelta, WalkOn, WalkNext, Searching
<1>3. CASE CreatePending(c) /\ pc'[c] = "add"
  <2>1. ~Return(c)
    BY <1>3, Zenon DEF Return, Goto, ClientTypeOK
  <2> QED BY <1>3, <2>1, Zenon DEF CreatePending, Searching, locals
<1> QED BY <1>1, <1>2, <1>3, SearchArrivals, Zenon DEF Searching

\* While a client searches, the deltas it must see stay the same: under the
\* write lock nobody else links, and a reader's announced version is its own.
LEMMA SearchStays ==
  ASSUME TypeInv, LockInv, [Next]_vars, NEW c \in Clients,
         pc'[c] \in Searching, ~(Search(c) \/ IterList(c))
  PROVE  /\ pc[c] \in Searching /\ op'[c] = op[c] /\ arg'[c] = arg[c]
         /\ client_vsn'[c] = client_vsn[c]
         /\ Visible(c)' = Visible(c)
         /\ ClientAction(c) \/ LocalsSame(c)
<1> USE ConstantsAssumption
<1>1. ClientTypeOK /\ ManagerTypeOK
  BY Zenon DEF TypeInv, TypeOK
<1>2. ASSUME ClientAction(c)
      PROVE  pc[c] \in Searching /\ UNCHANGED <<op, arg, client_vsn, delta>>
  BY <1>1, <1>2, SearchFrame, Zenon DEF mgr, clientList, deltaVars
<1>3. ASSUME NEW d \in Clients, d # c, ClientAction(d)
      PROVE  /\ LocalsSame(c) /\ client_vsn'[c] = client_vsn[c]
             /\ delta' = delta \/ LinkDelta(d)
  <2>1. LocalsSame(c)
    BY <1>1, <1>3, OtherClients, Zenon
  <2>2. CASE UNCHANGED mgr
    BY <2>1, <2>2, Zenon DEF mgr, clientList, deltaVars
  <2>3. CASE CheckpointStore(d)
    <3>1. client_vsn'[c] = client_vsn[c]
      BY <1>1, <1>3, <2>3, Zenon DEF CheckpointStore, ManagerTypeOK
    <3> QED BY <2>1, <2>3, <3>1, Zenon DEF CheckpointStore, deltaVars
  <2>4. CASE BumpVsn(d) \/ LinkDelta(d)
    BY <2>1, <2>4, Zenon DEF BumpVsn, LinkDelta, clientList, deltaVars
  <2> QED BY <1>3, <2>2, <2>3, <2>4, ClientManagerFrame, Zenon
<1>4. ASSUME VacuumStep
      PROVE  /\ LocalsSame(c) /\ client_vsn'[c] = client_vsn[c]
             /\ delta' = delta \/ BarrierLink
  BY <1>4, VacuumFrame, VacuumDeltaFrame, Zenon
  DEF clientSide, clientList, locals, LocalsSame, deltaVars, BarrierBump, TrimDeltas,
      Reap, Destroy
<1>5. ~Shutdown
  BY Zenon DEF Shutdown, Searching
<1>6. ASSUME UNCHANGED vars
      PROVE  LocalsSame(c) /\ UNCHANGED <<client_vsn, delta>>
  BY <1>6, Zenon
  DEF vars, mgr, clientList, deltaVars, clientSide, locals, LocalsSame
<1>7. /\ pc[c] \in Searching /\ op'[c] = op[c] /\ arg'[c] = arg[c]
      /\ client_vsn'[c] = client_vsn[c] /\ (ClientAction(c) \/ LocalsSame(c))
      /\ \/ delta' = delta
         \/ BarrierLink
         \/ \E d \in Clients : d # c /\ LinkDelta(d)
  BY <1>2, <1>3, <1>4, <1>5, <1>6, NextCases, Zenon DEF LocalsSame
<1>8. ASSUME op[c] \in WriteOps PROVE delta' = delta
  <2>1. Writing(c) /\ write_lock = c
    BY <1>7, <1>8, Zenon DEF LockInv, Writing, Searching, InCall
  <2>2. ~BarrierLink
    BY <2>1, Zenon DEF LockInv, BarrierLink
  <2>3. ASSUME NEW d \in Clients, d # c, LinkDelta(d) PROVE FALSE
    BY <2>1, <2>3, ChangingWrites, OneWriter, Zenon DEF LinkDelta
  <2> QED BY <1>7, <2>2, <2>3, Zenon
<1> QED BY <1>7, <1>8, Zenon DEF Visible

\* What is visible to a client is linked.
LEMMA VisibleLinked ==
  ASSUME TypeInv, VsnInv, NEW c \in Clients
  PROVE  Visible(c) \in Int /\ Visible(c) <= Len(delta)
<1>1. Len(delta) \in Nat /\ client_vsn[c] \in Nat /\ vsn \in Nat
  BY DeltaLength, Zenon DEF TypeInv, TypeOK, ManagerTypeOK
<1>2. client_vsn[c] <= vsn /\ vsn <= Len(delta) + 1
  BY <1>1, SMTT(120) DEF VsnInv
<1> QED BY <1>1, <1>2, SMTT(120) DEF Visible

\* What a client that goes on with its search leaves behind.
LEMMA SearchMoves ==
  ASSUME TypeInv, VsnInv, PlanInv, PrimaryInv, EmptyInv, NEW c \in Clients, ClientAction(c),
         op[c] \notin ListOps, SearchAt(c), NEW n, n = arg[c], NEW k, k = Visible(c),
         pc'[c] \in Searching
  PROVE  /\ pc'[c] = "compare2" => /\ reg'[c] <= Len(delta)
                                   /\ \A v \in AboutIn(delta, wname, n, reg'[c]) : v <= Base
         /\ pc'[c] = "walk" => \A v \in AboutIn(delta, wname, n, k) : v <= cur'[c]
         /\ pc'[c] = "next" => \A v \in AboutIn(delta, wname, n, k) : v < cur'[c]
         /\ pc'[c] \in {"miss", "add"} => \A v \in AboutIn(delta, wname, n, k) : v <= Base
<1> USE ConstantsAssumption
<1>1. /\ ClientTypeOK /\ Len(delta) \in Nat /\ primary_vsn \in Nat /\ trimmed \in Nat
      /\ cur[c] \in Nat /\ reg[c] \in Nat /\ vsn \in Nat /\ trimmed <= Len(delta)
  BY DeltaLength, Zenon DEF TypeInv, TypeOK, ManagerTypeOK, ClientTypeOK
<1>2. k \in Int /\ k <= Len(delta) /\ Base \in Nat /\ trimmed <= Base /\ Len(delta) <= vsn
  <2>1. Len(delta) <= vsn
    BY <1>1, SMTT(120) DEF VsnInv
  <2> QED BY <2>1, VisibleLinked, BaseFits, ZenonT(60)
<1>3. \A v \in AboutIn(delta, wname, n, k) :
        /\ v \in Nat /\ v <= Len(delta) /\ v \in 1..Len(delta) /\ 1 <= v
        /\ delta[v].type # "BARRIER" /\ wname[delta[v].filter] = n
  BY <1>1, <1>2, SMTT(120) DEF AboutIn
<1>4. ASSUME NEW v \in 1..Len(delta), delta[v].type # "BARRIER", v <= primary_vsn
      PROVE  v <= Base
  BY <1>1, <1>2, <1>4, SMTT(120) DEF PrimaryInv
<1>5. /\ pc[c] = "compare2" => \A v \in AboutIn(delta, wname, n, reg[c]) : v <= Base
      /\ pc[c] = "walk" => \A v \in AboutIn(delta, wname, n, k) : v <= cur[c]
      /\ pc[c] = "next" => \A v \in AboutIn(delta, wname, n, k) : v < cur[c]
      /\ pc[c] \in {"miss", "add"} => \A v \in AboutIn(delta, wname, n, k) : v <= Base
  BY Zenon DEF SearchAt, About, AboutIn
<1>6. CASE ReadPrimaryVsn(c)
  <2>1. reg'[c] = primary_vsn /\ pc'[c] = "compare2"
    BY <1>1, <1>6, Zenon DEF ReadPrimaryVsn, Goto, ClientTypeOK
  <2>2. primary_vsn <= Len(delta)
    BY Zenon DEF EmptyInv
  <2>3. ASSUME NEW v \in AboutIn(delta, wname, n, primary_vsn) PROVE v <= Base
    <3>1. v \in 1..Len(delta) /\ v <= primary_vsn /\ delta[v].type # "BARRIER"
      BY <1>1, <2>2, SMTT(120) DEF AboutIn
    <3> QED BY <1>4, <3>1, ZenonT(60)
  <2> QED BY <2>1, <2>2, <2>3, Zenon
<1>7. CASE CompareVsn(c)
  <2>1. pc[c] = "compare2" /\ pc'[c] = (IF reg[c] = vsn THEN Missed(c) ELSE "head")
    BY <1>1, <1>7, Zenon DEF CompareVsn, Goto, ClientTypeOK
  <2>2. pc'[c] \in {"miss", "head"} /\ (pc'[c] = "miss" => reg[c] = vsn)
    BY <2>1, Zenon DEF Missed, ListOps
  <2>3. ASSUME reg[c] = vsn, NEW v \in AboutIn(delta, wname, n, k) PROVE v <= Base
    <3>1. v \in AboutIn(delta, wname, n, reg[c])
      BY <1>1, <1>2, <1>3, <2>3, SMTT(120) DEF AboutIn
    <3> QED BY <1>5, <2>1, <3>1, ZenonT(60)
  <2> QED BY <2>2, <2>3, Zenon
<1>8. CASE ReadDelta(c)
  <2>1. cur'[c] = Head0 /\ pc'[c] = (IF Head0 = 0 THEN Missed(c) ELSE "walk") /\ Missed(c) = "miss"
    BY <1>1, <1>8, Zenon DEF ReadDelta, Goto, ClientTypeOK, Missed, ListOps
  <2>2. CASE Head0 = 0
    <3>1. Len(delta) <= trimmed
      BY <1>1, <2>2, SMTT(120) DEF Head0
    <3>2. \A v \in AboutIn(delta, wname, n, k) : v <= Base
      BY <1>1, <1>2, <1>3, <3>1, SMTT(120)
    <3> QED BY <2>1, <2>2, <3>2, ZenonT(60)
  <2>3. CASE Head0 # 0
    <3>1. Head0 = Len(delta)
      BY <2>3, Zenon DEF Head0
    <3> QED BY <1>3, <2>1, <2>3, <3>1, Zenon
  <2> QED BY <2>2, <2>3, Zenon
<1>9. CASE WalkOn(c)
  <2>1. /\ pc[c] = "walk" /\ ~Matches(c, cur[c])
        /\ IF cur[c] = primary_vsn + 1 THEN pc'[c] = "miss" ELSE pc'[c] = "next" /\ cur'[c] = cur[c]
    BY <1>1, <1>9, ZenonT(60) DEF WalkOn, Goto, ClientTypeOK, Missed, ListOps
  <2>2. ASSUME NEW v \in AboutIn(delta, wname, n, k) PROVE v < cur[c]
    <3>1. v # cur[c]
      BY <1>3, <2>1, Zenon DEF Matches, ListOps
    <3>2. v <= cur[c] /\ v \in Nat
      BY <1>3, <1>5, <2>1, Zenon
    <3> QED BY <1>1, <3>1, <3>2, SMTT(120)
  <2>3. ASSUME cur[c] = primary_vsn + 1, NEW v \in AboutIn(delta, wname, n, k) PROVE v <= Base
    <3>1. v <= primary_vsn
      BY <1>1, <1>3, <2>2, <2>3, SMTT(120)
    <3> QED BY <1>3, <1>4, <3>1, ZenonT(60)
  <2> QED BY <2>1, <2>2, <2>3, Zenon
<1>10. CASE WalkNext(c)
  <2>1. /\ pc[c] = "next" /\ cur'[c] = NextNode(cur[c])
        /\ pc'[c] = (IF NextNode(cur[c]) = 0 THEN "miss" ELSE "walk")
    BY <1>1, <1>10, ZenonT(60) DEF WalkNext, Goto, ClientTypeOK, Missed, ListOps
  <2>2. ASSUME NEW v \in AboutIn(delta, wname, n, k) PROVE v <= cur[c] - 1 /\ v \in Nat /\ 1 <= v
    <3>1. v < cur[c]
      BY <1>5, <2>1, Zenon
    <3> QED BY <1>1, <1>3, <3>1, SMTT(120)
  <2>3. CASE NextNode(cur[c]) = 0
    <3>1. \A v \in AboutIn(delta, wname, n, k) : v <= Base
      BY <1>1, <1>2, <2>2, <2>3, SMTT(120) DEF NextNode
    <3> QED BY <2>1, <2>3, <3>1, ZenonT(60)
  <2>4. CASE NextNode(cur[c]) # 0
    <3>1. NextNode(cur[c]) = cur[c] - 1
      BY <2>4, Zenon DEF NextNode
    <3> QED BY <2>1, <2>2, <2>4, <3>1, Zenon
  <2> QED BY <2>3, <2>4, Zenon
<1>11. CASE CreatePending(c) /\ pc'[c] = "add"
  BY <1>5, <1>11, Zenon DEF CreatePending
<1>12. CASE pc'[c] \in {"compare", "head"}
  BY <1>12, Zenon
<1> QED BY <1>1, <1>6, <1>7, <1>8, <1>9, <1>10, <1>11, <1>12, SearchArrivals, Zenon
        DEF Searching

\* A search that stops has left nothing behind that the primary tree lacks.
LEMMA SearchStep ==
  ASSUME TypeInv, TypeInv', LockInv, VsnInv, PhaseInv, PlanInv, PlanInv', EmptyInv,
         PrimaryInv, SearchInv, [Next]_vars
  PROVE  SearchInv'
<1> USE ConstantsAssumption
<1>1. ClientTypeOK /\ Len(delta) \in Nat /\ Len(delta') \in Nat /\ Len(delta) <= Len(delta')
  BY Grows, Zenon DEF TypeInv, TypeOK
<1>2. Base \in Nat /\ Base' \in Nat /\ Base <= Base'
  BY BaseStep, Zenon
<1>3. SUFFICES ASSUME NEW c \in Clients, op'[c] \notin ListOps PROVE SearchAt(c)'
  BY Zenon DEF SearchInv
<1>4. CASE pc'[c] \notin {"compare2", "walk", "next", "miss", "add"}
  BY <1>4, Zenon DEF SearchAt
<1>5. CASE pc'[c] \in {"compare2", "walk", "next", "miss", "add"}
  <2>1. ~(Search(c) \/ IterList(c)) /\ pc'[c] \in Searching
    BY <1>1, <1>5, Zenon DEF Search, IterList, Goto, ClientTypeOK, Searching
  <2>2. /\ op'[c] = op[c] /\ arg'[c] = arg[c] /\ Visible(c)' = Visible(c)
        /\ ClientAction(c) \/ LocalsSame(c)
    BY <2>1, SearchStays, Zenon
  <2>3. SearchAt(c) /\ op[c] \notin ListOps
    BY <1>3, <2>2, Zenon DEF SearchInv
  <2>4. PICK n : n = arg[c]
    OBVIOUS
  <2>5. PICK k : k = Visible(c)
    OBVIOUS
  <2>6. k \in Int /\ k <= Len(delta)
    BY <2>5, VisibleLinked, Zenon
  <2>7. AboutIn(delta', wname', n, k) = AboutIn(delta, wname, n, k)
    BY <2>6, AboutStep, Zenon
  <2>8. SUFFICES
          /\ pc'[c] = "compare2" => /\ reg'[c] <= Len(delta')
                                    /\ \A v \in AboutIn(delta', wname', n, reg'[c]) : v <= Base'
          /\ pc'[c] = "walk" => \A v \in AboutIn(delta, wname, n, k) : v <= cur'[c]
          /\ pc'[c] = "next" => \A v \in AboutIn(delta, wname, n, k) : v < cur'[c]
          /\ pc'[c] \in {"miss", "add"} => \A v \in AboutIn(delta, wname, n, k) : v <= Base'
    BY <2>2, <2>4, <2>5, <2>7, Zenon DEF SearchAt, About, AboutIn
  <2>9. CASE ClientAction(c)
    <3>1. UNCHANGED <<mgr, wrapVars, vacuum>>
      BY <1>1, <2>1, <2>9, SearchFrame, Zenon
    <3>2. delta' = delta /\ wname' = wname
      BY <3>1, Zenon DEF mgr, deltaVars, wrapVars
    <3>3. Base' = Base
      BY <3>1, Zenon
      DEF mgr, deltaVars, vacuum, roundVars, Base, Swapped, Planned
    <3> QED BY <2>1, <2>3, <2>4, <2>5, <2>9, <3>2, <3>3, SearchMoves, Zenon
  <2>10. CASE LocalsSame(c)
    <3>1. pc'[c] = pc[c] /\ reg'[c] = reg[c] /\ cur'[c] = cur[c] /\ reg[c] \in Nat
      BY <1>1, <2>10, Zenon DEF LocalsSame, ClientTypeOK
    <3>2. /\ pc[c] = "compare2" => /\ reg[c] <= Len(delta)
                                   /\ \A v \in AboutIn(delta, wname, n, reg[c]) : v <= Base
          /\ pc[c] = "walk" => \A v \in AboutIn(delta, wname, n, k) : v <= cur[c]
          /\ pc[c] = "next" => \A v \in AboutIn(delta, wname, n, k) : v < cur[c]
          /\ pc[c] \in {"miss", "add"} => \A v \in AboutIn(delta, wname, n, k) : v <= Base
      BY <2>3, <2>4, <2>5, ZenonT(60) DEF SearchAt, About, AboutIn
    <3>3. pc[c] = "compare2" => AboutIn(delta', wname', n, reg[c]) = AboutIn(delta, wname, n, reg[c])
      BY <3>1, <3>2, AboutStep, SMTT(120)
    <3>4. \A v \in Int : v <= Base => v <= Base'
      BY <1>2, SMTT(120)
    <3>5. /\ \A v \in AboutIn(delta, wname, n, k) : v \in Int
          /\ \A v \in AboutIn(delta, wname, n, reg[c]) : v \in Int
      BY <2>6, <3>1, SMTT(120) DEF AboutIn
    <3>6. reg[c] <= Len(delta) => reg[c] <= Len(delta')
      BY <1>1, <3>1, SMTT(120)
    <3> QED BY <3>1, <3>2, <3>3, <3>4, <3>5, <3>6, Zenon
  <2> QED BY <2>2, <2>9, <2>10, Zenon
<1> QED BY <1>4, <1>5, Zenon

\* The last word about n, said among deltas 1 .. k, is a create up to b.
LastCreate(d, wn, n, k, b) ==
  \E v \in AboutIn(d, wn, n, k) :
    /\ \A u \in AboutIn(d, wn, n, Len(d)) : u <= v
    /\ d[v].type = "CREATE" /\ v <= b

\* Who searches the primary tree finds what is merged into it.
LEMMA PrimaryFound ==
  ASSUME TypeInv, PlanInv, TreesReplayDeltas, NEW n \in Names, NEW k \in Int, k <= Len(delta),
         NEW t \in 1..2, t = filter_map, LastCreate(delta, wname, n, k, Base)
  PROVE  trees[t][n] # NULL
<1> USE ConstantsAssumption
<1>1. ManagerTypeOK /\ Len(delta) \in Nat
  BY DeltaLength, Zenon DEF TypeInv, TypeOK
<1>2. Base \in Nat /\ Base <= Len(delta) /\ Merged(t) = Base
  BY BaseFits, Zenon
<1>3. PICK v \in AboutIn(delta, wname, n, k) :
        /\ \A u \in AboutIn(delta, wname, n, Len(delta)) : u <= v
        /\ delta[v].type = "CREATE" /\ v <= Base
  BY ZenonT(60) DEF LastCreate
<1>4. v \in 1..Len(delta) /\ v \in AboutIn(delta, wname, n, Base)
  BY <1>1, <1>2, <1>3, SMTT(120) DEF AboutIn
<1>5. AboutIn(delta, wname, n, Base) \subseteq AboutIn(delta, wname, n, Len(delta))
  BY <1>1, <1>2, SMTT(120) DEF AboutIn
<1>6. Leaves(delta, wname, n, Base, trees[t][n])
  BY <1>2, Zenon DEF TreesReplayDeltas, Replays, About, AboutIn, Leaves
<1>7. trees[t][n] = delta[v].filter
  BY <1>3, <1>4, <1>5, <1>6, ZenonT(60) DEF Leaves
<1>8. delta[v].filter \in Wrappers
  BY <1>1, <1>3, <1>4, NodeType, SMTT(120)
<1> QED BY <1>7, <1>8, Zenon

\* A client whose search missed what the primary tree has, because it was sent
\* to the other tree before the swap, is one the round waits for.
LEMMA LostStep ==
  ASSUME TypeInv, TypeInv', LockInv, VsnInv, PhaseInv, PlanInv, PlanInv', AltInv,
         TreesReplayDeltas, LostInv, [Next]_vars
  PROVE  LostInv'
<1> USE ConstantsAssumption
<1>1. /\ ClientTypeOK /\ ManagerTypeOK /\ Len(delta) \in Nat /\ Len(delta') \in Nat
      /\ Len(delta) <= Len(delta') /\ \A v \in 1..Len(delta) : delta'[v] = delta[v]
  BY Grows, Zenon DEF TypeInv, TypeOK
<1>2. SUFFICES ASSUME NEW c \in Clients, pc'[c] \in Searching, op'[c] \notin ListOps,
                      LastCreate(delta', wname', arg'[c], Visible(c)', Base')
               PROVE  WaitsFor(c)'
  BY Zenon DEF LostInv, Lost, LastCreate, Searching, About, AboutIn
<1>3. CASE SwapMaps
  BY <1>3, Zenon DEF SwapMaps, VGoto, WaitsFor
<1>4. ASSUME ~SwapMaps, WaitsFor(c), pc[c] \in InCall PROVE WaitsFor(c)'
  <2>1. pc'[c] \in InCall
    BY <1>2, Zenon DEF Searching, InCall
  <2> QED BY <1>4, <2>1, WaitsStep, Zenon
<1>5. ASSUME ~SwapMaps, Search(c) \/ IterList(c) PROVE WaitsFor(c) /\ pc[c] \in InCall
  <2>1. /\ pc[c] = "search" /\ op' = op /\ arg' = arg /\ UNCHANGED <<mgr, wrapVars, vacuum>>
    BY <1>5, Zenon DEF Search, IterList
  <2>2. /\ pc[c] \in InCall /\ op[c] \notin ListOps /\ Search(c) /\ arg[c] \in Names /\ tree[c] \in 1..2
    <3>1. op[c] \notin ListOps
      BY <1>2, <2>1, Zenon
    <3>2. pc[c] \in InCall
      BY <2>1, Zenon DEF InCall
    <3> QED BY <1>5, <2>1, <3>1, <3>2, Zenon DEF IterList, ListOps, TypeInv, LocalsFit
  <2>3. UNCHANGED <<delta, wname, client_vsn>> /\ Base' = Base
    BY <2>1, Zenon
    DEF mgr, deltaVars, wrapVars, vacuum, roundVars, clientList, Base, Swapped,
        Planned
  <2>4. Visible(c)' = Visible(c)
    BY <2>1, <2>3, Zenon DEF Visible
  <2>5. PICK k : k = Visible(c)
    OBVIOUS
  <2>6. LastCreate(delta, wname, arg[c], k, Base) /\ k \in Int /\ k <= Len(delta)
    BY <1>2, <2>1, <2>3, <2>4, <2>5, VisibleLinked, Zenon
  <2>7. trees[tree[c]][arg[c]] = NULL
    BY <1>1, <1>2, <2>2, Zenon DEF Search, Goto, ClientTypeOK, Searching
  <2>8. tree[c] # filter_map
    BY <2>2, <2>6, <2>7, PrimaryFound, ZenonT(60)
  <2>9. tree[c] = AltMap
    BY <1>1, <2>2, <2>8, SMTT(120) DEF AltMap, ManagerTypeOK
  <2> QED BY <2>1, <2>2, <2>9, Zenon DEF AltInv, OnAlt
<1>6. ASSUME ~SwapMaps, ~(Search(c) \/ IterList(c)) PROVE WaitsFor(c) /\ pc[c] \in InCall
  <2>1. /\ pc[c] \in Searching /\ op'[c] = op[c] /\ arg'[c] = arg[c] /\ Visible(c)' = Visible(c)
    BY <1>2, <1>6, SearchStays, Zenon
  <2>2. Base' = Base /\ Base \in Nat
    BY <1>6, BaseStep, Zenon
  <2>3. PICK n, k : n = arg[c] /\ k = Visible(c)
    OBVIOUS
  <2>4. k \in Int /\ k <= Len(delta)
    BY <2>3, VisibleLinked, Zenon
  <2>5. /\ AboutIn(delta', wname', n, k) = AboutIn(delta, wname, n, k)
        /\ AboutIn(delta', wname', n, Len(delta)) = AboutIn(delta, wname, n, Len(delta))
    <3>1. Len(delta) \in Int /\ Len(delta) <= Len(delta)
      BY <1>1, SMTT(120)
    <3> QED BY <2>4, <3>1, AboutStep, Zenon
  <2>6. AboutIn(delta', wname', n, Len(delta)) \subseteq AboutIn(delta', wname', n, Len(delta'))
    BY <1>1, SMTT(120) DEF AboutIn
  <2>7. \A v \in AboutIn(delta, wname, n, k) : delta'[v] = delta[v]
    <3>1. \A v \in AboutIn(delta, wname, n, k) : v \in 1..Len(delta)
      BY <1>1, <2>4, SMTT(120) DEF AboutIn
    <3> QED BY <1>1, <3>1, ZenonT(60)
  <2>8. LastCreate(delta', wname', n, k, Base)
    BY <1>2, <2>1, <2>2, <2>3, Zenon
  <2>9. LastCreate(delta, wname, n, k, Base)
    BY <2>5, <2>6, <2>7, <2>8, Zenon DEF LastCreate
  <2>10. Lost(c)
    BY <1>2, <2>1, <2>3, <2>9, Zenon DEF Lost, LastCreate, Searching, About, AboutIn
  <2>11. pc[c] \in InCall
    BY <2>1, Zenon DEF Searching, InCall
  <2> QED BY <2>10, <2>11, Zenon DEF LostInv
<1> QED BY <1>3, <1>4, <1>5, <1>6, Zenon

\* create adds a filter only when no filter of that name waits to be freed: it
\* would have met the delete in the list, or the name among the pending ones.
LEMMA AddStep ==
  ASSUME TypeInv, TypeInv', LockInv, PlanInv, CreatedInv, HeapInv, PendingInv, SearchInv,
         AddInv, VsnInv, PhaseInv, [Next]_vars
  PROVE  AddInv'
<1> USE ConstantsAssumption
<1>1. /\ ClientTypeOK /\ ManagerTypeOK /\ WrapperTypeOK /\ Len(delta) \in Nat
      /\ trimmed \in Nat /\ min_vsn \in Nat /\ last \in Nat /\ cursor \in Nat
  BY DeltaLength, Zenon DEF TypeInv, TypeOK, ManagerTypeOK, VacuumTypeOK
<1>2. SUFFICES ASSUME NEW c \in Clients, pc'[c] = "add", NEW w \in heap', wname'[w] = arg'[c]
               PROVE  w \in is_active'
  BY Zenon DEF AddInv
<1>3. ~(Search(c) \/ IterList(c)) /\ pc'[c] \in Searching
  BY <1>1, <1>2, Zenon DEF Search, IterList, Goto, ClientTypeOK, Searching
<1>4. /\ op'[c] = op[c] /\ arg'[c] = arg[c] /\ Visible(c)' = Visible(c) /\ pc[c] \in Searching
      /\ ClientAction(c) \/ LocalsSame(c)
  BY <1>3, SearchStays, Zenon
<1>5. op[c] = "create" /\ arg[c] \in Names /\ arg[c] # NULL /\ op[c] \notin ListOps
  <2>1. op'[c] = "create"
    BY <1>2, Zenon DEF TypeInv, LocalsFit
  <2>2. op[c] \notin ListOps /\ op[c] = "create"
    BY <1>4, <2>1, Zenon DEF ListOps
  <2>3. arg[c] \in Names
    BY <1>4, <2>2, Zenon DEF TypeInv, LocalsFit, Searching, InCall
  <2> QED BY <2>2, <2>3, Zenon
<1>6. Writing(c) /\ write_lock = c
  BY <1>4, <1>5, Zenon DEF LockInv, Writing, Searching, InCall, WriteOps
<1>7. CASE ClientAction(c)
  <2>1. CreatePending(c) /\ UNCHANGED <<mgr, wrapVars, vacuum>>
    BY <1>1, <1>2, <1>3, <1>7, SearchArrivals, SearchFrame, Zenon
  <2>2. pc[c] = "miss" /\ arg[c] \notin pending_deletes
    <3>1. ~Return(c)
      BY <1>1, <1>2, Zenon DEF Return, Goto, ClientTypeOK
    <3> QED BY <2>1, <3>1, Zenon DEF CreatePending
  <2>3. w \in heap /\ wname[w] = arg[c] /\ w \in Wrappers
    BY <1>1, <1>2, <1>4, <2>1, Zenon DEF wrapVars, WrapperTypeOK
  <2>4. SUFFICES ASSUME w \notin is_active PROVE FALSE
    BY <2>1, Zenon DEF wrapVars
  <2>5. Dead(w, Len(delta))
    <3>1. ASSUME NEW d \in Clients, Changing(d, w) PROVE FALSE
      <4>1. d = c
        BY <1>6, <3>1, ChangingWrites, OneWriter, Zenon DEF Changing
      <4> QED BY <2>2, <3>1, <4>1, Zenon DEF Changing
    <3> QED BY <1>5, <2>3, <2>4, <3>1, Zenon DEF CreatedInv
  <2>6. PICK v \in 1..Len(delta) : delta[v] = Node("DELETE", w)
    BY <2>5, ZenonT(60) DEF Dead, DeadIn
  <2>7. delta[v].type = "DELETE" /\ delta[v].filter = w /\ v \in Nat
    BY <2>6, SMTT(120) DEF Node
  <2>8. Visible(c) = Len(delta)
    BY <1>5, Zenon DEF Visible, WriteOps
  <2>9. v <= Base
    <3>1. v \in About(arg[c], Visible(c))
      BY <2>3, <2>7, <2>8, Zenon DEF About
    <3> QED BY <1>5, <2>2, <3>1, Zenon DEF SearchInv, SearchAt
  <2>10. vpc # "destroyed"
    BY <1>1, <2>2, Zenon DEF VsnInv, PhaseInv
  <2>11. CASE Dead(w, trimmed)
    <3>1. PICK x \in 1..Len(delta) : last < x /\ x <= cursor /\ delta[x] = Node("DELETE", w)
      BY <2>3, <2>10, <2>11, Zenon DEF HeapInv
    <3>2. vpc = "reap"
      BY <2>3, <2>10, <2>11, ZenonT(60) DEF HeapInv
    <3>3. delta[x].type = "DELETE" /\ delta[x].filter = w
      BY <3>1, SMTT(120) DEF Node
    <3>4. wname[w] \in pending_deletes
      BY <3>1, <3>2, <3>3, Zenon DEF PendingInv
    <3> QED BY <2>2, <2>3, <3>4, Zenon
  <2>12. CASE ~Dead(w, trimmed)
    <3>1. trimmed < v
      BY <1>1, <2>6, <2>7, <2>12, SMTT(120) DEF Dead, DeadIn
    <3>2. Swapped /\ Base = min_vsn /\ min_vsn > trimmed
      BY <1>1, <2>7, <2>9, <3>1, SMTT(120) DEF Base, Planned
    <3>3. vpc # "reap"
      BY <1>1, <3>2, SMTT(120) DEF PlanInv
    <3>4. wname[w] \in pending_deletes
      BY <2>7, <2>9, <3>1, <3>2, <3>3, Zenon DEF PendingInv, Swapped
    <3> QED BY <2>2, <2>3, <3>4, Zenon
  <2> QED BY <2>11, <2>12, Zenon
<1>8. CASE LocalsSame(c)
  <2>1. pc[c] = "add"
    BY <1>2, <1>8, Zenon DEF LocalsSame
  <2>2. ASSUME w \in heap, wname[w] = wname'[w], w \in is_active => w \in is_active' PROVE w \in is_active'
    BY <1>2, <1>4, <2>1, <2>2, Zenon DEF AddInv
  <2>3. ASSUME NEW d \in Clients, ClientAction(d) PROVE UNCHANGED <<heap, wname, is_active>>
    <3>1. ~Retires(d)
      <4>1. ASSUME Retires(d) PROVE d = c
        BY <1>6, <4>1, ChangingWrites, OneWriter, Zenon DEF Retires, WriteOps
      <4> QED BY <2>1, <4>1, Zenon DEF Retires
    <3>2. ASSUME NEW x \in Wrappers, AddFilter(d, x) PROVE FALSE
      <4>1. d = c
        BY <1>6, <3>2, ChangingWrites, OneWriter, Zenon DEF AddFilter
      <4>2. pc'[c] = "bump"
        BY <1>1, <3>2, <4>1, Zenon DEF AddFilter, Goto, ClientTypeOK
      <4> QED BY <1>2, <4>2, Zenon
    <3> QED BY <1>1, <2>3, <3>1, <3>2, ActiveFrame, Zenon
  <2>4. ASSUME VacuumStep PROVE w \in heap /\ UNCHANGED <<wname, is_active>>
    BY <1>2, <2>4, VacuumFrame, VacuumWrapperFrame, Zenon DEF wrapVars, Reap, Destroy
  <2>5. ASSUME Shutdown \/ UNCHANGED vars PROVE UNCHANGED <<heap, wname, is_active>>
    BY <2>5, Zenon DEF Shutdown, vars, wrapVars
  <2> QED BY <1>2, <2>2, <2>3, <2>4, <2>5, NextCases, Zenon
<1> QED BY <1>4, <1>7, <1>8, Zenon

\* A search that has overlooked nothing but what is merged, and lost nothing
\* but what its round waits for, answers truly outside the window of a swap.
LEMMA LookupImplies ==
  ASSUME TypeInv, SearchInv, LostInv
  PROVE  LookupSeesAll
<1>1. SUFFICES ASSUME NEW c \in Clients, pc[c] \in {"miss", "add"}, ~Swapped,
                      Registered(arg[c], Visible(c))
               PROVE  FALSE
  BY Zenon DEF LookupSeesAll
<1>2. op[c] \notin ListOps
  BY <1>1, Zenon DEF TypeInv, LocalsFit
<1>3. PICK v \in About(arg[c], Visible(c)) :
        (\A u \in About(arg[c], Len(delta)) : u <= v) /\ delta[v].type = "CREATE"
  BY <1>1, Zenon DEF Registered
<1>4. v <= Base
  BY <1>1, <1>2, <1>3, Zenon DEF SearchInv, SearchAt
<1>5. WaitsFor(c)
  BY <1>1, <1>2, <1>3, <1>4, Zenon DEF LostInv, Lost
<1> QED BY <1>1, <1>5, Zenon DEF WaitsFor, Swapped

-----------------------------------------------------------------------------
(***************************************************************************)
(* What destroy_filter_manager closes, and what it leaves.                 *)
(***************************************************************************)

\* A node is its type and its wrapper.
LEMMA NodeIs ==
  ASSUME ManagerTypeOK, NEW v \in 1..Len(delta), NEW n, v \in About(n, Len(delta))
  PROVE  \/ delta[v] = Node("CREATE", delta[v].filter) /\ delta[v].type = "CREATE"
         \/ delta[v] = Node("DELETE", delta[v].filter) /\ delta[v].type = "DELETE"
<1>1. delta[v] \in [type : Types, filter : MaybeWrapper]
  BY NodeType, Zenon
<1>2. delta[v].type \in Types /\ delta[v].type # "BARRIER"
  BY <1>1, ZenonT(60) DEF About
<1>3. delta[v] = [type |-> delta[v].type, filter |-> delta[v].filter]
  BY <1>1, SMTT(120)
<1> QED BY <1>2, <1>3, Zenon DEF Node, Types

\* When the vacuum has stopped, the primary tree is merged as far as the list
\* is cut, and no client is left.
LEMMA ExitedFacts ==
  ASSUME TypeInv, VsnInv, PhaseInv, PlanInv, vpc = "exited"
  PROVE  /\ filter_map \in 1..2 /\ Merged(filter_map) = trimmed
         /\ \A c \in Clients : pc[c] = "gone"
<1>1. filter_map \in 1..2
  BY Zenon DEF TypeInv, TypeOK, ManagerTypeOK
<1>2. ~Swapped
  BY Zenon DEF PhaseInv, Swapped
<1>3. Merged(filter_map) = trimmed
  BY <1>1, <1>2, BaseFits, Zenon DEF Base
<1> QED BY <1>1, <1>3, Zenon DEF PhaseInv, VsnInv

\* A wrapper that destroy_filter_manager does not close has been replaced.
LEMMA LeftIsReplaced ==
  ASSUME TypeInv, VsnInv, PhaseInv, PlanInv, CreatedInv, LastInv, TreesReplayDeltas,
         LoadedInv, HeapInv, vpc = "exited", NEW w \in heap, w \notin InPrimary \cup PendingCreates
  PROVE  Replaced(w)
<1> USE ConstantsAssumption
<1> DEFINE n == wname[w]
<1>1. ManagerTypeOK /\ WrapperTypeOK /\ Len(delta) \in Nat /\ trimmed \in Nat /\ trimmed <= Len(delta)
  BY DeltaLength, Zenon DEF TypeInv, TypeOK, ManagerTypeOK
<1>2. w \in Wrappers /\ n \in Names /\ n # NULL /\ ~Dead(w, trimmed)
  BY <1>1, Zenon DEF WrapperTypeOK, HeapInv
<1>3. /\ filter_map \in 1..2 /\ Merged(filter_map) = trimmed
      /\ \A c \in Clients : pc[c] = "gone"
  BY ExitedFacts, Zenon
<1>4. trees[filter_map][n] # w
  BY <1>2, Zenon DEF InPrimary
<1>5. About(n, trimmed) \subseteq About(n, Len(delta)) /\ About(n, trimmed) \subseteq 1..trimmed
  BY <1>1, SMTT(120) DEF About
<1>6. \A v \in About(n, trimmed) : v \in 1..Len(delta) /\ v <= trimmed
  BY <1>1, <1>5, SMTT(120)
<1>7. ASSUME NEW v \in About(n, trimmed), delta[v].filter = w
      PROVE  delta[v] = Node("CREATE", w) /\ delta[v].type = "CREATE"
  <2>1. ~(delta[v] = Node("DELETE", w))
    BY <1>2, <1>6, Zenon DEF Dead, DeadIn
  <2> QED BY <1>1, <1>5, <1>6, <1>7, <2>1, NodeIs, Zenon
<1>8. CASE Created(w)
  <2>1. PICK u \in 1..Len(delta) : delta[u] = Node("CREATE", w)
    BY <1>8, ZenonT(60) DEF Created
  <2>2. delta[u].type = "CREATE" /\ delta[u].filter = w
    BY <2>1, SMTT(120) DEF Node
  <2>3. u <= trimmed
    <3>1. SUFFICES ASSUME trimmed < u PROVE FALSE
      BY <1>1, SMTT(120)
    <3>2. u \in trimmed + 1 .. Len(delta)
      BY <1>1, <3>1, SMTT(120)
    <3> QED BY <2>2, <3>2, Zenon DEF PendingCreates
  <2>4. u \in About(n, trimmed)
    <3>1. u \in 1..trimmed
      BY <1>1, <2>3, SMTT(120)
    <3> QED BY <2>2, <3>1, Zenon DEF About
  <2>5. PICK v \in About(n, trimmed) : \A x \in About(n, trimmed) : x <= v
    <3>1. trimmed \in 0..Len(delta)
      BY <1>1, SMTT(120)
    <3> QED BY <1>2, <2>4, <3>1, Zenon DEF LastInv
  <2>6. trees[filter_map][n] = (IF delta[v].type = "CREATE" THEN delta[v].filter ELSE NULL)
    BY <1>2, <1>3, <2>5, Zenon DEF TreesReplayDeltas, Replays
  <2>7. delta[v].filter # w
    BY <1>4, <1>7, <2>6, Zenon
  <2>8. ASSUME NEW x \in 1..Len(delta), delta[x] = Node("CREATE", w) PROVE x < v
    <3>1. delta[x].type = "CREATE" /\ delta[x].filter = w
      BY <2>8, SMTT(120) DEF Node
    <3>2. x = u
      BY <2>2, <3>1, Zenon DEF CreatedInv
    <3>3. u <= v /\ u # v
      BY <2>2, <2>4, <2>5, <2>7, Zenon
    <3>4. v \in 1..Len(delta)
      BY <1>6, <2>5, Zenon
    <3> QED BY <1>1, <3>2, <3>3, <3>4, SMTT(120)
  <2> QED BY <1>5, <2>5, <2>7, <2>8, Zenon DEF Replaced
<1>9. CASE ~Created(w)
  <2>1. ASSUME NEW c \in Clients, Adding(c, w) PROVE FALSE
    BY <1>3, <2>1, Zenon DEF Adding, Changing
  <2>2. About(n, trimmed) # {}
    BY <1>2, <1>3, <1>4, <1>9, <2>1, Zenon DEF LoadedInv
  <2>3. PICK v \in About(n, trimmed) : TRUE
    BY <2>2, Zenon
  <2>4. delta[v].filter # w
    BY <1>6, <1>7, <1>9, <2>3, Zenon DEF Created
  <2> QED BY <1>5, <1>9, <2>3, <2>4, Zenon DEF Replaced, Created
<1> QED BY <1>8, <1>9, Zenon

\* What it closes is allocated, and is closed once.
LEMMA ClosedOnce ==
  ASSUME TypeInv, VsnInv, PhaseInv, PlanInv, HistoryInv, MemoryInv, TreeInv, OriginInv,
         vpc = "exited"
  PROVE  /\ InPrimary \cap PendingCreates = {}
         /\ InPrimary \cup PendingCreates \subseteq heap
<1> USE ConstantsAssumption
<1>1. ManagerTypeOK /\ Len(delta) \in Nat /\ trimmed \in Nat /\ Named
  BY DeltaLength, Zenon DEF TypeInv, TypeOK, ManagerTypeOK
<1>2. filter_map \in 1..2 /\ Merged(filter_map) = trimmed
  BY ExitedFacts, Zenon
<1>3. ASSUME NEW w \in PendingCreates
      PROVE  \E v \in 1..Len(delta) : /\ trimmed < v /\ delta[v] = Node("CREATE", w)
                                      /\ delta[v].filter = w /\ w \in Wrappers /\ wname[w] \in Names
  <2>1. PICK v \in trimmed + 1 .. Len(delta) : delta[v].type = "CREATE" /\ delta[v].filter = w
    BY <1>3, Zenon DEF PendingCreates
  <2>2. v \in 1..Len(delta) /\ trimmed < v
    BY <1>1, <2>1, SMTT(120)
  <2>3. w \in Wrappers /\ wname[w] \in Names
    BY <1>1, <2>1, <2>2, NodeType, Zenon DEF Named
  <2>4. v \in About(wname[w], Len(delta))
    BY <2>1, <2>2, Zenon DEF About
  <2>5. delta[v] = Node("CREATE", w)
    BY <1>1, <2>1, <2>2, <2>4, NodeIs, Zenon
  <2> QED BY <2>1, <2>2, <2>3, <2>5, Zenon
<1>4. ASSUME NEW w \in InPrimary
      PROVE  /\ \A v \in 1..Len(delta) : delta[v] = Node("CREATE", w) => v <= trimmed
             /\ w \in heap
  <2>1. PICK n \in Names : w = trees[filter_map][n] /\ w # NULL
    BY <1>4, Zenon DEF InPrimary
  <2>2. \A v \in 1..Len(delta) : delta[v] = Node("CREATE", w) => v <= trimmed
    BY <1>2, <2>1, ZenonT(60) DEF OriginInv
  <2>3. w \in Wrappers /\ wname[w] = n /\ ~Dead(w, trimmed)
    BY <1>1, <1>2, <2>1, SMTT(120) DEF ManagerTypeOK, MaybeWrapper, Named, TreeInv
  <2> QED BY <2>2, <2>3, Zenon DEF MemoryInv
<1>5. InPrimary \cap PendingCreates = {}
  <2>1. SUFFICES ASSUME NEW w \in InPrimary, w \in PendingCreates PROVE FALSE
    BY Zenon
  <2>2. PICK v \in 1..Len(delta) : trimmed < v /\ delta[v] = Node("CREATE", w)
    BY <1>3, <2>1, Zenon
  <2>3. v <= trimmed
    BY <1>4, <2>1, <2>2, Zenon
  <2> QED BY <1>1, <2>2, <2>3, SMTT(120)
<1>6. ASSUME NEW w \in PendingCreates PROVE w \in heap
  <2>1. PICK v \in 1..Len(delta) : trimmed < v /\ delta[v].filter = w /\ w \in Wrappers /\ wname[w] \in Names
    BY <1>3, <1>6, Zenon
  <2>2. ASSUME Dead(w, trimmed) PROVE FALSE
    <3>1. PICK x \in 1..Len(delta) : x <= trimmed /\ delta[x] = Node("DELETE", w)
      BY <2>2, ZenonT(60) DEF Dead, DeadIn
    <3>2. delta[x].type = "DELETE" /\ delta[x].filter = w
      BY <3>1, SMTT(120) DEF Node
    <3>3. v <= x
      BY <2>1, <3>2, Zenon DEF HistoryInv
    <3> QED BY <1>1, <2>1, <3>1, <3>3, SMTT(120)
  <2>3. wname[w] # NULL
    BY <2>1, Zenon
  <2> QED BY <2>1, <2>2, <2>3, Zenon DEF MemoryInv
<1> QED BY <1>4, <1>5, <1>6, Zenon

\* A client that is gone does nothing any more.
LEMMA GoneStays ==
  ASSUME NEW c \in Clients, ClientAction(c)
  PROVE  pc[c] # "gone"
BY Zenon
DEF ClientAction, Call, CheckpointRead, ClientStep, CheckpointStore, Lock, LoadTree,
    Search, IterList, IterCold, ReadPrimaryVsn, CompareVsn, ReadDelta, WalkMatch,
    WalkOn, WalkNext, ListDone, Miss, CreatePending, Refuse, Take, UseKeys, UsePeek,
    UseUnmap, AddFails, DropFilter, ClearFilter, BumpVsn, LinkDelta, AddFilter

\* Nothing happens after destroy_filter_manager.
LEMMA DestroyedStutters ==
  ASSUME VsnInv, PhaseInv, [Next]_vars, vpc = "destroyed"
  PROVE  UNCHANGED vars
<1>1. ~should_run /\ \A c \in Clients : pc[c] = "gone"
  BY Zenon DEF VsnInv, PhaseInv
<1>2. ~\E c \in Clients : ClientAction(c)
  BY <1>1, GoneStays, Zenon
<1>3. ~VacuumStep
  BY Zenon
  DEF VacuumStep, VacuumExit, VacuumTop, VacuumSpecial, ClientMinVsn, ClientMinHead,
      ClientMinScan, PlanDone, MergeStart, MergeApply, MergeDone, MarkPending, SwapMaps,
      PublishVsn, BarrierBump, BarrierLink, BarrierPoll, PollDone, TrimDeltas, Reap,
      ClearPending, Destroy
<1>4. ~Shutdown
  BY <1>1, Zenon DEF Shutdown
<1> QED BY <1>2, <1>3, <1>4, NextCases, Zenon

\* Only destroy_filter_manager ends the manager.
LEMMA DestroyEnds ==
  ASSUME [Next]_vars, vpc # "destroyed", vpc' = "destroyed"
  PROVE  Destroy
<1>1. ~\E c \in Clients : ClientAction(c)
  BY ClientFrame, Zenon DEF vacuum
<1>2. ~Shutdown /\ ~UNCHANGED vars
  BY Zenon DEF Shutdown, vars, vacuum
<1>3. ASSUME VacuumStep PROVE Destroy
  BY <1>3, Zenon
  DEF VacuumStep, VacuumExit, VacuumTop, VacuumSpecial, ClientMinVsn, ClientMinHead,
      ClientMinScan, PlanDone, MergeStart, MergeApply, MergeDone, MarkPending, SwapMaps,
      PublishVsn, BarrierBump, BarrierLink, BarrierPoll, PollDone, TrimDeltas, Reap,
      ClearPending, VGoto
<1> QED BY <1>1, <1>2, <1>3, NextCases, Zenon

LEMMA ClosedStep ==
  ASSUME TypeInv, VsnInv, PhaseInv, PlanInv, CreatedInv, LastInv, TreesReplayDeltas,
         LoadedInv, HeapInv, ClosedInv, [Next]_vars
  PROVE  ClosedInv'
<1>1. SUFFICES ASSUME vpc' = "destroyed", NEW w \in heap' PROVE Replaced(w)'
  BY Zenon DEF ClosedInv
<1>2. SUFFICES ASSUME UNCHANGED <<delta, wname>>, Replaced(w) PROVE Replaced(w)'
  <2>1. CASE vpc = "destroyed"
    BY <1>1, <2>1, DestroyedStutters, Zenon DEF ClosedInv, vars, mgr, deltaVars, wrapVars
  <2>2. CASE vpc # "destroyed"
    <3>1. Destroy
      BY <1>1, <2>2, DestroyEnds, Zenon
    <3>2. w \in heap /\ w \notin InPrimary \cup PendingCreates
      BY <1>1, <3>1, Zenon DEF Destroy
    <3>3. Replaced(w)
      BY <3>1, <3>2, LeftIsReplaced, Zenon DEF Destroy
    <3> QED BY <3>1, <3>3, Zenon DEF Destroy
  <2> QED BY <2>1, <2>2, Zenon
<1> QED BY <1>2, Zenon DEF Replaced, About

-----------------------------------------------------------------------------
(***************************************************************************)
(* The invariant of the registry is inductive.                             *)
(***************************************************************************)

\* The manager starts in it.
LEMMA RegistryInit == Init => RegistryInv
<1> SUFFICES ASSUME Init PROVE RegistryInv
  OBVIOUS
<1> USE ConstantsAssumption
<1>1. /\ delta = <<>> /\ Len(delta) = 0 /\ vpc = "top" /\ phase = "plan" /\ trimmed = 0
      /\ min_vsn = 0 /\ cursor = 0 /\ filter_map = 1 /\ primary_vsn = 0
  BY Zenon DEF Init
<1>2. \A c \in Clients : pc[c] = "start"
  BY ZenonT(60) DEF Init
<1>3. 1..Len(delta) = {} /\ \A n : About(n, 0) = {} /\ About(n, Len(delta)) = {}
  BY <1>1, SMTT(120) DEF About
<1>4. \A t \in 1..2 : Merged(t) = 0
  BY <1>1, SMTT(120) DEF Merged, Least, AltMap
<1>5. PICK t \in LoadedTrees : InitFrom(t)
  BY Zenon DEF Init
<1>6. EmptyInv
  BY <1>1, SMTT(120) DEF EmptyInv
<1>7. CreatedInv
  <2>1. \A w \in Wrappers : wname[w] # NULL => w \in is_active
    BY <1>5, Zenon DEF InitFrom
  <2>2. \A c \in Clients, w \in Wrappers : ~Adding(c, w)
    BY <1>2, Zenon DEF Adding, Changing
  <2> QED BY <1>3, <2>1, <2>2, Zenon DEF CreatedInv
<1>8. TreesReplayDeltas
  BY <1>3, <1>4, Zenon DEF TreesReplayDeltas, Replays
<1>9. OriginInv
  <2>1. \A c \in Clients : \A w : ~Adding(c, w)
    BY <1>2, Zenon DEF Adding, Changing
  <2> QED BY <1>3, <2>1, Zenon DEF OriginInv
<1>10. LoadedInv
  <2>1. ASSUME NEW w \in Wrappers, wname[w] # NULL, NEW i \in 1..2 PROVE trees[i][wname[w]] = w
    <3>1. /\ trees = [j \in 1..2 |-> t]
          /\ wname[w] = IF w \in {t[n] : n \in Names} \ {NULL}
                        THEN CHOOSE n \in Names : t[n] = w ELSE NULL
      BY <1>5, Zenon DEF InitFrom
    <3>2. PICK n \in Names : t[n] = w
      BY <2>1, <3>1, Zenon
    <3>3. wname[w] = CHOOSE m \in Names : t[m] = w
      BY <2>1, <3>1, Zenon
    <3>4. t[wname[w]] = w
      BY <3>2, <3>3, Zenon
    <3> QED BY <3>1, <3>4, Zenon
  <2> QED BY <2>1, Zenon DEF LoadedInv
<1>11. HeapInv
  <2>1. \A w \in heap : wname[w] # NULL
    <3>1. SUFFICES ASSUME NEW w \in heap PROVE wname[w] \in Names
      BY Zenon
    <3>2. /\ heap = {t[n] : n \in Names} \ {NULL} /\ t \in [Names -> Wrappers \cup {NULL}]
          /\ wname = [u \in Wrappers |-> IF u \in {t[n] : n \in Names} \ {NULL}
                                         THEN CHOOSE n \in Names : t[n] = u ELSE NULL]
      BY <1>5, Zenon DEF InitFrom, LoadedTrees
    <3>3. PICK n \in Names : w = t[n] /\ w # NULL
      BY <3>1, <3>2, Zenon
    <3>4. w \in Wrappers
      BY <3>2, <3>3, SMTT(120)
    <3>5. wname[w] = CHOOSE m \in Names : t[m] = w
      BY <3>1, <3>2, <3>4, Zenon
    <3> QED BY <3>3, <3>5, Zenon
  <2> QED BY <1>3, <2>1, Zenon DEF HeapInv, Dead, DeadIn
<1>12. PendingInv /\ PrimaryInv
  BY <1>3, Zenon DEF PendingInv, PrimaryInv
<1>13. SearchInv /\ LostInv /\ AddInv
  BY <1>2, Zenon DEF SearchInv, SearchAt, LostInv, Lost, AddInv
<1>14. ClosedInv
  BY <1>1, ZenonT(60) DEF ClosedInv
<1>15. LastInv
  BY <1>1, SMTT(120) DEF LastInv, About
<1> QED BY <1>6, <1>7, <1>8, <1>9, <1>10, <1>11, <1>12, <1>13, <1>14,
           <1>15, Zenon DEF RegistryInv

\* Every step preserves it.
LEMMA RegistryStep == Inv /\ Inv' /\ RegistryInv /\ [Next]_vars => RegistryInv'
<1> SUFFICES ASSUME Inv, Inv', RegistryInv, [Next]_vars PROVE RegistryInv'
  OBVIOUS
<1>1. /\ TypeInv /\ LockInv /\ VsnInv /\ PhaseInv /\ PlanInv /\ AltInv
      /\ TypeInv' /\ PlanInv'
  BY Zenon DEF Inv
<1>2. /\ EmptyInv /\ CreatedInv /\ LastInv /\ TreesReplayDeltas /\ OriginInv
      /\ LoadedInv /\ HeapInv /\ PendingInv /\ PrimaryInv /\ SearchInv /\ LostInv /\ AddInv
      /\ ClosedInv
  BY Zenon DEF RegistryInv
<1>3. EmptyInv' /\ CreatedInv' /\ LastInv' /\ TreesReplayDeltas'
  BY <1>1, <1>2, EmptyStep, CreatedInvStep, LastStep, ReplayStep, Zenon
<1>4. OriginInv' /\ LoadedInv' /\ HeapInv'
  BY <1>1, <1>2, OriginStep, LoadedStep, HeapStep, Zenon
<1>5. PendingInv' /\ PrimaryInv' /\ SearchInv'
  BY <1>1, <1>2, PendingStep, PrimaryStep, SearchStep, Zenon
<1>6. LostInv' /\ AddInv' /\ ClosedInv'
  BY <1>1, <1>2, LostStep, AddStep, ClosedStep, Zenon
<1> QED BY <1>3, <1>4, <1>5, <1>6, Zenon DEF RegistryInv

\* It holds in every behaviour, with the one it rests on.
LEMMA RegistryAlways == Spec => [](Inv /\ RegistryInv)
<1>1. Init => Inv /\ RegistryInv
  BY InvInit, RegistryInit, Zenon
<1>2. Inv /\ RegistryInv /\ [Next]_vars => (Inv /\ RegistryInv)'
  BY InvStep, RegistryStep, Zenon
<1> QED BY <1>1, <1>2, PTL DEF Spec

-----------------------------------------------------------------------------
(***************************************************************************)
(* What follows.                                                           *)
(***************************************************************************)

\* Neither the special case of the vacuum nor its merge reads an empty list.
THEOREM DeltaNotNullAlways == Spec => []DeltaNotNull
<1>1. Inv /\ RegistryInv => DeltaNotNull
  BY EmptyImplies, Zenon DEF Inv, RegistryInv
<1> QED BY <1>1, RegistryAlways, PTL

\* No create and no drop is lost or undone by the merges and swaps of the two
\* trees, whatever the vacuum and the writers do in between.
THEOREM TreesReplayDeltasAlways == Spec => []TreesReplayDeltas
<1>1. RegistryInv => TreesReplayDeltas
  BY Zenon DEF RegistryInv
<1> QED BY <1>1, RegistryAlways, PTL

\* Outside the window of a swap, find_filter overlooks no filter registered
\* before the caller's checkpoint, and under the write lock none at all.
THEOREM LookupSeesAllAlways == Spec => []LookupSeesAll
<1>1. Inv /\ RegistryInv => LookupSeesAll
  BY LookupImplies, Zenon DEF Inv, RegistryInv
<1> QED BY <1>1, RegistryAlways, PTL

\* destroy_filter_manager frees only allocated wrappers, each once, and leaves
\* open only those that another filter of the same name has replaced.
THEOREM DestroyClosesAllOnceAlways == Spec => []DestroyClosesAllOnce
<1>1. Inv /\ RegistryInv => DestroyClosesAllOnce
  BY ClosedOnce, Zenon DEF Inv, RegistryInv, ClosedInv, DestroyClosesAllOnce
<1> QED BY <1>1, RegistryAlways, PTL

\* destroy_filter_manager leaves the folder of a dropped filter only when the
\* primary tree still has the filter, or when it was replaced.
THEOREM DropIsPermanentAlways == Spec => DropIsPermanent
<1> DEFINE Kept == Destroy => \A w \in should_delete \cap heap :
                     wname[w] \in disk' => w \in InPrimary \/ Replaced(w)
<1>1. Inv /\ RegistryInv => Kept
  <2>1. SUFFICES ASSUME Inv, RegistryInv, Destroy, NEW w \in should_delete \cap heap,
                        wname[w] \in disk', w \notin InPrimary
                 PROVE  Replaced(w)
    BY Zenon
  <2>2. w \notin PendingCreates
    BY <2>1, Zenon DEF Destroy
  <2> QED BY <2>1, <2>2, LeftIsReplaced, Zenon DEF Inv, RegistryInv, Destroy
<1>2. Inv /\ RegistryInv /\ [Next]_vars => [Kept]_vars
  BY <1>1, Zenon
<1> QED BY <1>2, RegistryAlways, PTL DEF Spec, DropIsPermanent

-----------------------------------------------------------------------------
(***************************************************************************)
(* The manager implements Registry.                                        *)
(***************************************************************************)

\* A step that moves one name along its life, or none, is one of Registry.
LEMMA OneNameMoves ==
  ASSUME NEW n \in Names, vpc # "destroyed", vpc' # "destroyed",
         \A m \in Names \ {n} : StatusOf(m)' = StatusOf(m),
         \/ StatusOf(n)' = StatusOf(n)
         \/ StatusOf(n) = "absent" /\ StatusOf(n)' = "active"
         \/ StatusOf(n) = "active" /\ StatusOf(n)' = "doomed"
         \/ StatusOf(n) = "doomed" /\ StatusOf(n)' = "absent"
  PROVE  [Life!Next]_(Life!vars)
<1> DEFINE S == [m \in Names |-> StatusOf(m)]
<1>1. S' = [m \in Names |-> StatusOf(m)']
  OBVIOUS
<1>2. S' = [S EXCEPT ![n] = StatusOf(n)'] /\ S[n] = StatusOf(n)
  BY <1>1, Zenon
<1>3. CASE StatusOf(n)' = StatusOf(n)
  <2>1. S' = S
    BY <1>1, <1>3, Zenon
  <2> QED BY <2>1, Zenon DEF Life!vars
<1>4. CASE StatusOf(n)' # StatusOf(n)
  <2> HIDE DEF S
  <2> QED BY <1>2, <1>4, Zenon DEF S, Life!Next, Life!Create, Life!Retire, Life!Reclaim, Life!Move
<1> QED BY <1>3, <1>4, Zenon

\* Where nothing is allocated, freed, named or deactivated, nothing moves.
LEMMA NoNameMoves ==
  ASSUME UNCHANGED <<heap, wname, is_active>>, (vpc' = "destroyed") <=> (vpc = "destroyed")
  PROVE  UNCHANGED Life!vars
<1>1. \A n \in Names : StatusOf(n)' = StatusOf(n)
  BY Zenon DEF StatusOf
<1> QED BY <1>1, Zenon DEF Life!vars

\* The wrappers of a name, and whether there is an active one, give its status.
LEMMA StatusIs ==
  ASSUME NEW n
  PROVE  /\ StatusOf(n) = "absent" <=> vpc = "destroyed" \/ \A w \in heap : wname[w] # n
         /\ StatusOf(n) = "active" <=>
              vpc # "destroyed" /\ \E w \in heap : wname[w] = n /\ w \in is_active
         /\ StatusOf(n) \in {"absent", "active", "doomed"}
BY Zenon DEF StatusOf

LEMMA StatusIsNext ==
  ASSUME NEW n
  PROVE  /\ StatusOf(n)' = "absent" <=> vpc' = "destroyed" \/ \A w \in heap' : wname'[w] # n
         /\ StatusOf(n)' = "active" <=>
              vpc' # "destroyed" /\ \E w \in heap' : wname'[w] = n /\ w \in is_active'
         /\ StatusOf(n)' \in {"absent", "active", "doomed"}
BY Zenon DEF StatusOf

\* create moves its name from absent to active; or it has overlooked an active
\* filter, and the name stays active.
LEMMA AddRefines ==
  ASSUME TypeInv, HeapInv, AddInv, vpc # "destroyed", vpc' = vpc,
         NEW c \in Clients, NEW w \in Wrappers, AddFilter(c, w)
  PROVE  [Life!Next]_(Life!vars)
<1> USE ConstantsAssumption
<1>1. /\ pc[c] = "add" /\ wname[w] = NULL /\ wname' = [wname EXCEPT ![w] = arg[c]]
      /\ heap' = heap \cup {w} /\ is_active' = is_active \cup {w}
  BY Zenon DEF AddFilter
<1>2. arg[c] \in Names /\ wname \in [Wrappers -> Names \cup {NULL}] /\ heap \subseteq Wrappers
  BY AddFilterLeaves, Zenon DEF TypeInv, TypeOK, WrapperTypeOK
<1>3. w \notin heap /\ wname'[w] = arg[c] /\ \A u \in heap : wname'[u] = wname[u] /\ u # w
  <2>1. w \notin heap
    BY <1>1, Zenon DEF HeapInv
  <2> QED BY <1>1, <1>2, <2>1, Zenon
<1>4. ASSUME NEW m \in Names \ {arg[c]} PROVE StatusOf(m)' = StatusOf(m)
  <2>1. (\A u \in heap' : wname'[u] # m) <=> (\A u \in heap : wname[u] # m)
    BY <1>1, <1>3, <1>4, Zenon
  <2>2. (\E u \in heap' : wname'[u] = m /\ u \in is_active') <=>
        (\E u \in heap : wname[u] = m /\ u \in is_active)
    BY <1>1, <1>3, <1>4, Zenon
  <2> QED BY <2>1, <2>2, StatusIs, StatusIsNext, SMTT(120)
<1>5. StatusOf(arg[c])' = "active"
  <2>1. PICK n : n = arg[c]
    OBVIOUS
  <2>2. arg' = arg
    BY Zenon DEF AddFilter
  <2>3. StatusOf(n)' = "active"
    BY <1>1, <1>3, <2>1, StatusIsNext, Zenon
  <2> QED BY <2>1, <2>2, <2>3, Zenon
<1>6. StatusOf(arg[c]) \in {"absent", "active"}
  <2>1. \A u \in heap : wname[u] = arg[c] => u \in is_active
    BY <1>1, Zenon DEF AddInv
  <2> QED BY <2>1, StatusIs, Zenon
<1>7. PICK n : n = arg[c] /\ n \in Names
  BY <1>2, Zenon
<1>8. arg' = arg
  BY Zenon DEF AddFilter
<1>9. StatusOf(n)' = "active" /\ StatusOf(n) \in {"absent", "active"}
  BY <1>5, <1>6, <1>7, <1>8, Zenon
<1> QED BY <1>4, <1>7, <1>9, OneNameMoves, Zenon

\* drop and clear move a name from active to doomed, unless another filter of
\* that name is active.
LEMMA RetireRefines ==
  ASSUME TypeInv, HistoryInv, MemoryInv, vpc # "destroyed", vpc' = vpc,
         NEW c \in Clients, Retires(c)
  PROVE  [Life!Next]_(Life!vars)
<1> USE ConstantsAssumption
<1>1. PICK w, n : w = filt[c] /\ n = wname[w]
  OBVIOUS
<1>2. w \in is_active /\ is_active' = is_active \ {w} /\ heap' = heap /\ wname' = wname
  BY <1>1, Zenon DEF Retires
<1>3. w \in Wrappers /\ n \in Names /\ n # NULL
  BY <1>1, Zenon DEF Retires, TypeInv, LocalsFit, Holding
<1>4. w \in heap
  <2>1. trimmed \in Nat /\ Len(delta) \in Nat /\ trimmed <= Len(delta)
    BY DeltaLength, Zenon DEF TypeInv, TypeOK, ManagerTypeOK
  <2>2. ~Dead(w, trimmed)
    <3>1. ~Dead(w, Len(delta))
      BY <1>2, ZenonT(60) DEF HistoryInv
    <3> QED BY <2>1, <3>1, SMTT(120) DEF Dead, DeadIn
  <2> QED BY <1>1, <1>3, <2>2, Zenon DEF MemoryInv
<1>5. ASSUME NEW m \in Names \ {n} PROVE StatusOf(m)' = StatusOf(m)
  <2>1. (\E u \in heap' : wname'[u] = m /\ u \in is_active') <=>
        (\E u \in heap : wname[u] = m /\ u \in is_active)
    BY <1>1, <1>2, <1>5, Zenon
  <2>2. (\A u \in heap' : wname'[u] # m) <=> (\A u \in heap : wname[u] # m)
    BY <1>2, Zenon
  <2> QED BY <2>1, <2>2, StatusIs, StatusIsNext, SMTT(120)
<1>6. StatusOf(n) = "active"
  BY <1>1, <1>2, <1>4, StatusIs, Zenon
<1>7. StatusOf(n)' \in {"active", "doomed"}
  <2>1. StatusOf(n)' # "absent"
    BY <1>1, <1>2, <1>4, StatusIsNext, Zenon
  <2> QED BY <2>1, StatusIsNext, Zenon
<1> QED BY <1>3, <1>5, <1>6, <1>7, OneNameMoves, Zenon

\* The vacuum frees a wrapper that is not active: its name stays as it is, or
\* goes from doomed to absent.
LEMMA ReapRefines ==
  ASSUME TypeInv, HistoryInv, Reap, vpc' = vpc, UNCHANGED <<wname, is_active>>
  PROVE  [Life!Next]_(Life!vars)
<1> USE ConstantsAssumption
<1>1. vpc = "reap" /\ vpc' # "destroyed" /\ vpc # "destroyed"
  BY SMTT(120) DEF Reap
<1>2. ManagerTypeOK /\ Len(delta) \in Nat /\ cursor \in 1..Len(delta) /\ Named
  <2>1. /\ ManagerTypeOK /\ Len(delta) \in Nat /\ Named /\ cursor \in Nat /\ last \in Nat
        /\ trimmed \in Nat /\ trimmed <= Len(delta) /\ cursor <= trimmed /\ cursor > last
    BY <1>1, DeltaLength, Zenon
    DEF TypeInv, TypeOK, ManagerTypeOK, VacuumTypeOK, WalkFits, Reap
  <2> QED BY <2>1, SMTT(120)
<1>3. CASE delta[cursor].type # "DELETE"
  <2>1. heap' = heap
    BY <1>3, Zenon DEF Reap
  <2> QED BY <1>1, <2>1, NoNameMoves, Zenon
<1>4. CASE delta[cursor].type = "DELETE"
  <2>1. PICK w, n : w = delta[cursor].filter /\ n = wname[w]
    OBVIOUS
  <2>2. heap' = heap \ {w}
    BY <1>4, <2>1, Zenon DEF Reap
  <2>3. delta[cursor].type # "BARRIER"
    BY <1>4, SMTT(120)
  <2>4. n \in Names
    BY <1>2, <2>1, <2>3, Zenon DEF Named
  <2>5. w \notin is_active
    <3>1. cursor \in About(n, Len(delta))
      BY <1>2, <2>1, <2>3, Zenon DEF About
    <3>2. delta[cursor] = Node("DELETE", w)
      <4>1. delta[cursor].type # "CREATE"
        BY <1>4, SMTT(120)
      <4> QED BY <1>2, <2>1, <3>1, <4>1, NodeIs, Zenon
    <3>3. Dead(w, Len(delta))
      BY <1>2, <3>2, SMTT(120) DEF Dead, DeadIn
    <3> QED BY <3>3, Zenon DEF HistoryInv
  <2>6. ASSUME NEW m \in Names \ {n} PROVE StatusOf(m)' = StatusOf(m)
    <3>1. (\E u \in heap' : wname'[u] = m /\ u \in is_active') <=>
          (\E u \in heap : wname[u] = m /\ u \in is_active)
      BY <2>1, <2>2, <2>5, Zenon
    <3>2. (\A u \in heap' : wname'[u] # m) <=> (\A u \in heap : wname[u] # m)
      BY <2>1, <2>2, <2>6, Zenon
    <3> QED BY <1>1, <3>1, <3>2, StatusIs, StatusIsNext, SMTT(120)
  <2>7. StatusOf(n)' = "active" <=> StatusOf(n) = "active"
    BY <1>1, <2>2, <2>5, StatusIs, StatusIsNext, Zenon
  <2>8. StatusOf(n) = "absent" => StatusOf(n)' = "absent"
    BY <1>1, <2>2, StatusIs, StatusIsNext, Zenon
  <2>9. StatusOf(n)' = StatusOf(n) \/ (StatusOf(n) = "doomed" /\ StatusOf(n)' = "absent")
    BY <2>7, <2>8, StatusIs, StatusIsNext, SMTT(120)
  <2> QED BY <1>1, <2>4, <2>6, <2>9, OneNameMoves, Zenon
<1> QED BY <1>3, <1>4, Zenon

\* Shutdown closes the registry.
LEMMA DestroyRefines ==
  ASSUME Destroy
  PROVE  Life!Close
<1>1. vpc # "destroyed" /\ vpc' = "destroyed"
  BY Zenon DEF Destroy, VGoto
<1>2. \A n \in Names : StatusOf(n)' = "absent"
  BY <1>1, StatusIsNext, Zenon
<1> QED BY <1>1, <1>2, ZenonT(60) DEF Life!Close

\* Every step of the manager is a step of Registry or leaves it alone.
LEMMA StepRefines == Inv /\ RegistryInv /\ [Next]_vars => [Life!Next]_(Life!vars)
<1> SUFFICES ASSUME Inv, RegistryInv, [Next]_vars PROVE [Life!Next]_(Life!vars)
  OBVIOUS
<1>1. /\ TypeInv /\ VsnInv /\ PhaseInv /\ HistoryInv /\ MemoryInv /\ HeapInv /\ AddInv
      /\ ClientTypeOK
  BY Zenon DEF Inv, RegistryInv, TypeInv, TypeOK
<1>2. CASE UNCHANGED vars
  BY <1>2, NoNameMoves, Zenon DEF vars, wrapVars, vacuum
<1>3. CASE vpc = "destroyed"
  BY <1>1, <1>2, <1>3, DestroyedStutters, Zenon
<1>4. ASSUME vpc # "destroyed", NEW c \in Clients, ClientAction(c)
      PROVE  [Life!Next]_(Life!vars)
  <2>1. vpc' = vpc
    BY <1>4, ClientFrame, Zenon DEF vacuum
  <2>2. CASE UNCHANGED <<heap, wname, is_active>>
    BY <2>1, <2>2, NoNameMoves, Zenon
  <2>3. ASSUME NEW w \in Wrappers, AddFilter(c, w) PROVE [Life!Next]_(Life!vars)
    BY <1>1, <1>4, <2>1, <2>3, AddRefines, Zenon
  <2>4. CASE Retires(c)
    BY <1>1, <1>4, <2>1, <2>4, RetireRefines, Zenon
  <2> QED BY <1>1, <1>4, <2>2, <2>3, <2>4, ActiveFrame, Zenon
<1>5. ASSUME vpc # "destroyed", VacuumStep PROVE [Life!Next]_(Life!vars)
  <2>1. UNCHANGED <<wname, is_active>>
    BY <1>5, VacuumFrame, Zenon
  <2>2. CASE Reap
    BY <1>1, <2>1, <2>2, ReapRefines, Zenon DEF Reap
  <2>3. CASE Destroy
    BY <2>3, DestroyRefines, Zenon DEF Life!Next
  <2>4. CASE UNCHANGED wrapVars /\ ~Destroy
    <3>1. vpc' # "destroyed"
      BY <1>5, <2>4, DestroyEnds, Zenon
    <3> QED BY <1>5, <2>1, <2>4, <3>1, NoNameMoves, Zenon DEF wrapVars
  <2> QED BY <1>5, <2>2, <2>3, <2>4, VacuumWrapperFrame, Zenon
<1>6. CASE Shutdown
  BY <1>6, NoNameMoves, Zenon DEF Shutdown, wrapVars, vacuum
<1> QED BY <1>2, <1>3, <1>4, <1>5, <1>6, NextCases, Zenon

\* What is loaded at start is active.
LEMMA InitRefines == Init => Life!Init
<1> SUFFICES ASSUME Init PROVE Life!Init
  OBVIOUS
<1>1. vpc # "destroyed"
  BY SMTT(120) DEF Init
<1>2. is_active = heap
  BY Zenon DEF Init, InitFrom
<1>3. \A n \in Names : StatusOf(n) \in {"absent", "active"}
  BY <1>1, <1>2, StatusIs, Zenon
<1> QED BY <1>1, <1>3, Zenon DEF Life!Init

\* The manager implements Registry: each name goes from absent to active to
\* doomed and back; create never opens the folder of a filter that the vacuum
\* has yet to delete, and the vacuum frees nothing that was not dropped.
THEOREM RegistryImplemented == Spec => ImplementsRegistry
BY InitRefines, StepRefines, RegistryAlways, PTL DEF Spec, ImplementsRegistry, Life!Spec

=============================================================================
