-------------------------- MODULE FilterManagerProofs -------------------------
(***************************************************************************)
(* Safe reclamation in the filter manager, for any number of threads,      *)
(* names and wrappers: no client reaches freed memory.  The inductive      *)
(* invariant is Inv, a conjunction of groups; each group has one lemma     *)
(* that says a step preserves it, from the groups it needs.                *)
(***************************************************************************)
EXTENDS FilterManagerRounds

\* The client stands on a node up to version k, or holds or may find a wrapper
\* that was deleted by then.
Holds(c, k) ==
  \/ pc[c] \in Holding /\ Dead(filt[c], k)
  \/ pc[c] \in Walking /\ cur[c] <= k
  \/ pc[c] = "search" /\ \E n \in Names : Dead(trees[tree[c]][n], k)

\* It holds, or its next step may take it to, what the current round frees.
Stale(c) == Holds(c, min_vsn) \/ (pc[c] = "next" /\ cur[c] <= min_vsn + 1)

ReclaimAt(c) ==
  /\ ~Holds(c, trimmed)
  /\ vpc = "blink" /\ pc[c] \in InCall \cup {"idle"} => client_vsn[c] < barrier_vsn
  /\ vpc = "blink" /\ pc[c] = "checkpoint" => reg[c] < barrier_vsn
  /\ phase = "barrier" /\ min_vsn > trimmed /\ Stale(c) =>
       vpc \in {"blink", "poll", "min", "clients", "scan"} /\ Awaited(c)

ReclaimInv == \A c \in Clients \ early : ReclaimAt(c)

Inv ==
  /\ TypeInv /\ LockInv /\ VsnInv /\ PhaseInv /\ PlanInv
  /\ AltInv /\ HistoryInv /\ MemoryInv /\ TreeInv /\ ReclaimInv

-----------------------------------------------------------------------------
(***************************************************************************)
(* The barrier keeps clients away from what is freed.                      *)
(***************************************************************************)

\* Holds(c, k) after a step, for a version k of now.
HoldsNext(c, k) ==
  \/ pc'[c] \in Holding /\ DeadIn(delta', filt'[c], k)
  \/ pc'[c] \in Walking /\ cur'[c] <= k
  \/ pc'[c] = "search" /\ \E n \in Names : DeadIn(delta', trees'[tree'[c]][n], k)

StaleNext(c, k) == HoldsNext(c, k) \/ (pc'[c] = "next" /\ cur'[c] <= k + 1)

\* A client that does not move holds what it held.
LEMMA HoldsSame ==
  ASSUME TypeInv, [Next]_vars, NEW c \in Clients, LocalsSame(c),
         NEW k \in Int, k <= Len(delta),
         pc[c] = "search" => trees'[tree[c]] = trees[tree[c]]
  PROVE  HoldsNext(c, k) <=> Holds(c, k)
<1>1. \A w : DeadIn(delta', w, k) <=> DeadIn(delta, w, k)
  BY DeadStep, Zenon
<1> QED BY <1>1, Zenon DEF HoldsNext, Holds, LocalsSame, Dead

\* A client in the middle of a call gets hold of nothing deleted by what is cut
\* off, and of nothing deleted by the plan of the round unless it held it
\* before or the barrier is not linked yet.
LEMMA MoveHolds ==
  ASSUME TypeInv, VsnInv, PhaseInv, PlanInv, HistoryInv, TreeInv, [Next]_vars,
         NEW c \in Clients, ClientAction(c), ~Holds(c, trimmed)
  PROVE  /\ ~HoldsNext(c, trimmed)
         /\ phase = "barrier" /\ StaleNext(c, min_vsn) /\ min_vsn > trimmed =>
              Stale(c) \/ (vpc = "blink" /\ pc[c] \in InCall)
<1> USE ConstantsAssumption
<1>1. /\ ClientTypeOK /\ ManagerTypeOK
  BY Zenon DEF TypeInv, TypeOK
<1>2. /\ Len(delta) \in Nat /\ trimmed \in Nat /\ trimmed <= Len(delta) /\ min_vsn \in Nat
      /\ min_vsn <= Len(delta) /\ primary_vsn \in Nat /\ filter_map \in 1..2
      /\ trees \in [1..2 -> [Names -> MaybeWrapper]] /\ barrier_vsn \in Nat
  BY SMTT(120) DEF TypeInv, TypeOK, ManagerTypeOK, VacuumTypeOK, PlanInv
<1>3. /\ pc \in [Clients -> ClientLabels] /\ filt \in [Clients -> MaybeWrapper]
      /\ cur \in [Clients -> Nat] /\ tree \in [Clients -> 0..2] /\ arg \in [Clients -> Names \cup {NULL}]
  BY <1>1, Zenon DEF ClientTypeOK
<1>4. \A w, k : k \in Int /\ k <= Len(delta) => (DeadIn(delta', w, k) <=> DeadIn(delta, w, k))
  BY DeadStep, Zenon
<1>5. UNCHANGED <<trees, trimmed>>
  BY <1>1, ClientFrame, Zenon DEF treeVars
<1>6. CASE pc'[c] \notin Holding \cup Walking \cup {"search"}
  BY <1>6, Zenon DEF HoldsNext, StaleNext, Walking
<1>7. CASE \A k \in {trimmed, min_vsn} : HoldsNext(c, k) => Holds(c, k)
  <2>1. CASE pc'[c] # "next"
    BY <1>7, <2>1, Zenon DEF StaleNext, Stale
  <2>2. CASE pc'[c] = "next"
    <3>1. WalkOn(c)
      BY <1>3, <2>2, Zenon
      DEF ClientAction, ClientStep, Call, CheckpointRead, Goto, Return, Missed,
          locals, CheckpointStore, Lock, LoadTree, Search, IterList, IterCold,
          ReadPrimaryVsn, CompareVsn, ReadDelta, WalkMatch, WalkNext, ListDone,
          Miss, CreatePending, Refuse, Take, UseKeys, UsePeek, UseUnmap,
          AddFails, DropFilter, ClearFilter, AddFilter, BumpVsn, LinkDelta
    <3>2. pc[c] = "walk" /\ cur'[c] = cur[c] /\ cur[c] # primary_vsn + 1 /\ cur[c] \in Nat
      BY <1>3, <2>2, <3>1, Zenon DEF WalkOn, Goto, Missed
    <3>3. phase = "barrier" => primary_vsn = min_vsn
      BY Zenon DEF PhaseInv
    <3>4. phase = "barrier" /\ cur'[c] <= min_vsn + 1 => Holds(c, min_vsn)
      BY <1>2, <3>2, <3>3, SMTT(120) DEF Holds, Walking
    <3> QED BY <1>7, <3>4, Zenon DEF StaleNext, Stale
  <2> QED BY <2>1, <2>2, Zenon
<1>8. CASE LoadTree(c)
  <2>1. pc'[c] = "search" /\ tree'[c] = filter_map
    BY <1>3, <1>8, Zenon DEF LoadTree, Goto
  <2>2. ASSUME NEW n \in Names
        PROVE  /\ ~DeadIn(delta, trees[filter_map][n], trimmed)
               /\ phase = "barrier" => ~DeadIn(delta, trees[filter_map][n], min_vsn)
    <3>1. filter_map # AltMap
      BY <1>2, SMTT(120) DEF AltMap
    <3>2. /\ Merged(filter_map) \in Int /\ trimmed <= Merged(filter_map)
          /\ phase = "barrier" => min_vsn <= Merged(filter_map)
      BY <1>2, <3>1, MergedValue, SMTT(120) DEF MergedFits, Planned
    <3>3. ~DeadIn(delta, trees[filter_map][n], Merged(filter_map))
      BY <1>2, Zenon DEF TreeInv, Dead
    <3> QED BY <1>2, <3>2, <3>3, DeadMonotone, SMTT(120)
  <2> QED BY <1>2, <1>4, <1>5, <2>1, <2>2, SMTT(120)
          DEF HoldsNext, StaleNext, Holding, Walking
<1>9. CASE ReadDelta(c)
  <2>1. CASE pc'[c] = "walk"
    <3>1. pc[c] = "head" /\ cur'[c] = Len(delta) /\ Len(delta) > trimmed
      BY <1>2, <1>3, <1>9, <2>1, Zenon DEF ReadDelta, Goto, Head0, Missed
    <3>2. phase = "barrier" => vpc = "blink" \/ min_vsn < Len(delta)
      BY <1>2, SMTT(120) DEF PhaseInv
    <3> QED BY <1>2, <2>1, <3>1, <3>2, SMTT(120)
            DEF HoldsNext, StaleNext, Holding, Walking, InCall
  <2>2. CASE pc'[c] # "walk"
    BY <1>3, <1>6, <1>9, <2>2, Zenon
    DEF ReadDelta, Goto, Missed, Holding, Walking
  <2> QED BY <2>1, <2>2, Zenon
<1>10. CASE WalkNext(c)
  <2>1. CASE pc'[c] = "walk"
    <3>1. pc[c] = "next" /\ cur'[c] = cur[c] - 1 /\ cur[c] - 1 > trimmed
      BY <1>2, <1>3, <1>10, <2>1, Zenon DEF WalkNext, Goto, NextNode, Missed
    <3> QED BY <1>2, <1>3, <2>1, <3>1, SMTT(120)
            DEF HoldsNext, StaleNext, Stale, Holding, Walking
  <2>2. CASE pc'[c] # "walk"
    BY <1>3, <1>6, <1>10, <2>2, Zenon
    DEF WalkNext, Goto, Missed, Holding, Walking
  <2> QED BY <2>1, <2>2, Zenon
<1>11. CASE Search(c)
  <2>1. CASE pc'[c] = "found"
    <3>1. pc[c] = "search" /\ filt'[c] = trees[tree[c]][arg[c]] /\ arg[c] \in Names
      BY <1>3, <1>11, <2>1, Zenon DEF Search, Goto, TypeInv, LocalsFit, InCall
    <3> QED BY <1>2, <1>4, <1>7, <2>1, <3>1, SMTT(120)
            DEF HoldsNext, Holds, Dead, Holding, Walking
  <2>2. CASE pc'[c] # "found"
    BY <1>3, <1>6, <1>11, <2>2, Zenon DEF Search, Goto, Holding, Walking
  <2> QED BY <2>1, <2>2, Zenon
<1>12. CASE WalkMatch(c)
  <2>1. /\ pc[c] = "walk" /\ pc'[c] = "found" /\ filt'[c] = delta[cur[c]].filter
        /\ cur[c] \in 1..Len(delta) /\ delta[cur[c]].type # "BARRIER"
    BY <1>3, <1>12, Zenon
    DEF WalkMatch, Goto, Matches, TypeInv, LocalsFit, Walking
  <2>2. ASSUME NEW k \in Int, DeadIn(delta, filt'[c], k) PROVE cur[c] <= k
    <3>1. PICK v \in 1..Len(delta) : v <= k /\ delta[v] = Node("DELETE", filt'[c])
      BY <2>2, Zenon DEF DeadIn
    <3>2. delta[v].type = "DELETE" /\ delta[v].filter = delta[cur[c]].filter
      BY <2>1, <3>1, SMTT(120) DEF Node
    <3>3. cur[c] <= v
      BY <2>1, <3>2, Zenon DEF HistoryInv
    <3> QED BY <1>2, <1>3, <3>1, <3>3, SMTT(120)
  <2> QED BY <1>2, <1>4, <1>7, <2>1, <2>2, SMTT(120)
          DEF HoldsNext, Holds, Holding, Walking
<1>13. CASE WalkOn(c)
  <2>1. pc[c] = "walk" /\ pc'[c] \notin Holding \cup {"search"} /\ (pc'[c] \in Walking => cur'[c] = cur[c])
    BY <1>3, <1>13, Zenon DEF WalkOn, Goto, Missed, Holding, Walking
  <2> QED BY <1>7, <2>1, Zenon DEF HoldsNext, Holds, Walking
<1>14. CASE Take(c) \/ DropFilter(c) \/ BumpVsn(c)
  <2>1. pc[c] \in Holding /\ pc'[c] \in Holding /\ filt'[c] = filt[c]
    BY <1>3, <1>14, Zenon DEF Take, DropFilter, BumpVsn, Goto, locals, Holding
  <2> QED BY <1>2, <1>4, <1>7, <2>1, SMTT(120)
          DEF HoldsNext, Holds, Dead, Holding, Walking
<1>15. CASE ClearFilter(c)
  <2>1. pc[c] \in Holding /\ (pc'[c] = "idle" \/ (pc'[c] \in Holding /\ filt'[c] = filt[c]))
    BY <1>3, <1>15, Zenon DEF ClearFilter, Return, Goto, locals, Holding
  <2>2. CASE pc'[c] = "idle"
    BY <1>6, <2>2, Zenon DEF Holding, Walking
  <2>3. CASE pc'[c] \in Holding /\ filt'[c] = filt[c]
    <3>1. ASSUME NEW k \in {trimmed, min_vsn}, HoldsNext(c, k) PROVE Holds(c, k)
      <4>1. DeadIn(delta', filt'[c], k)
        BY <2>3, <3>1, Zenon DEF HoldsNext, Holding, Walking
      <4> QED BY <1>2, <1>4, <2>1, <2>3, <4>1, SMTT(120) DEF Holds, Dead, Holding
    <3> QED BY <1>7, <3>1, Zenon
  <2> QED BY <2>1, <2>2, <2>3, Zenon
<1>16. CASE \E w \in Wrappers : AddFilter(c, w)
  <2>1. PICK w \in Wrappers : AddFilter(c, w)
    BY <1>16, Zenon
  <2>2. pc'[c] = "bump" /\ filt'[c] = w /\ wname[w] = NULL
    BY <1>3, <2>1, Zenon DEF AddFilter, Goto
  <2>3. \A k : ~DeadIn(delta, w, k)
    BY <2>2, UnnamedNotDead, Zenon DEF Dead
  <2>4. ASSUME NEW k \in {trimmed, min_vsn} PROVE ~HoldsNext(c, k)
    <3>1. ~DeadIn(delta', filt'[c], k)
      BY <1>2, <1>4, <2>2, <2>3, SMTT(120)
    <3> QED BY <2>2, <3>1, Zenon DEF HoldsNext, Walking
  <2> QED BY <1>7, <2>4, Zenon
<1>17. \/ pc'[c] \notin Holding \cup Walking \cup {"search"}
       \/ LoadTree(c) \/ ReadDelta(c) \/ WalkNext(c) \/ Search(c) \/ WalkMatch(c) \/ WalkOn(c)
       \/ Take(c) \/ DropFilter(c) \/ BumpVsn(c) \/ ClearFilter(c)
       \/ \E w \in Wrappers : AddFilter(c, w)
  BY <1>1, Arrivals, Zenon DEF Holding, Walking
<1> QED BY <1>6, <1>8, <1>9, <1>10, <1>11, <1>12, <1>13, <1>14, <1>15, <1>16,
           <1>17, Zenon

\* What ReclaimAt(c)' comes down to.
ReclaimNext(c) ==
  /\ ~HoldsNext(c, trimmed')
  /\ vpc' = "blink" /\ pc'[c] \in InCall \cup {"idle"} => client_vsn'[c] < barrier_vsn'
  /\ vpc' = "blink" /\ pc'[c] = "checkpoint" => reg'[c] < barrier_vsn'
  /\ phase' = "barrier" /\ min_vsn' > trimmed' /\ StaleNext(c, min_vsn') =>
       vpc' \in {"blink", "poll", "min", "clients", "scan"} /\ Awaited(c)'

\* A client that moves on while the vacuum waits is still waited for.
LEMMA ReclaimClient ==
  ASSUME TypeInv, VsnInv, PhaseInv, PlanInv, HistoryInv, TreeInv, ReclaimInv, [Next]_vars,
         NEW d \in Clients, ClientAction(d), NEW c \in Clients, c \notin early'
  PROVE  ReclaimNext(c)
<1> USE ConstantsAssumption
<1>1. ClientTypeOK /\ ManagerTypeOK
  BY Zenon DEF TypeInv, TypeOK
<1>2. /\ Len(delta) \in Nat /\ trimmed \in Nat /\ trimmed <= Len(delta) /\ min_vsn \in Nat
      /\ min_vsn <= Len(delta)
  BY SMTT(120) DEF TypeInv, TypeOK, ManagerTypeOK, VacuumTypeOK, PlanInv
<1>3. UNCHANGED <<vpc, phase, barrier_vsn, min_vsn, cmin, scan, trimmed, trees>>
  BY ClientFrame, Zenon DEF vacuum, roundVars, walkVars, treeVars
<1>4. clients \subseteq clients' /\ (c # d => client_vsn'[c] = client_vsn[c])
      /\ (~CheckpointStore(d) => client_vsn' = client_vsn)
  BY <1>1, ClientManagerFrame, Zenon
  DEF mgr, clientList, BumpVsn, LinkDelta, CheckpointStore, ManagerTypeOK
<1>5. CASE c # d
  <2>1. LocalsSame(c)
    BY <1>1, <1>5, OtherClients, Zenon
  <2>2. ReclaimAt(c)
    BY <2>1, Zenon DEF LocalsSame, ReclaimInv
  <2>3. /\ HoldsNext(c, trimmed) <=> Holds(c, trimmed)
        /\ HoldsNext(c, min_vsn) <=> Holds(c, min_vsn)
    BY <1>2, <1>3, <2>1, HoldsSame, SMTT(120)
  <2>4. StaleNext(c, min_vsn) <=> Stale(c)
    BY <2>1, <2>3, Zenon DEF StaleNext, Stale, LocalsSame
  <2> QED BY <1>3, <1>4, <1>5, <2>1, <2>2, <2>3, <2>4, Zenon
          DEF ReclaimAt, ReclaimNext, LocalsSame, Awaited
<1>6. CASE c = d
  <2>1. CASE CheckpointRead(c)
    <3>1. vpc # "blink" /\ pc'[c] = "checkpoint"
      BY <1>1, <2>1, Zenon DEF CheckpointRead, Goto, ClientTypeOK
    <3> QED BY <1>3, <3>1, Zenon
            DEF ReclaimNext, HoldsNext, StaleNext, Holding, Walking
  <2>2. CASE CheckpointStore(c)
    <3>1. pc[c] = "checkpoint" /\ pc'[c] = "idle" /\ client_vsn'[c] = reg[c] /\ c \notin early
      BY <1>1, <2>2, Zenon
      DEF CheckpointStore, Goto, ClientTypeOK, ManagerTypeOK
    <3>2. ReclaimAt(c)
      BY <3>1, Zenon DEF ReclaimInv
    <3> QED BY <1>3, <3>1, <3>2, Zenon
            DEF ReclaimNext, ReclaimAt, HoldsNext, StaleNext, Holding, Walking
  <2>3. CASE Lock(c) \/ (\E o \in Ops, n \in Names : Call(c, o, n)) \/ Moves(c) \/ Returns(c)
    <3>1. /\ c \notin early /\ pc[c] \in InCall \cup {"idle"} /\ pc'[c] \in InCall \cup {"idle"}
          /\ ~CheckpointStore(c)
      BY <1>1, <2>3, Zenon
      DEF Lock, Call, Moves, Returns, Return, Goto, ClientTypeOK, InCall,
          CheckpointStore
    <3>2. ReclaimAt(c) /\ client_vsn'[c] = client_vsn[c]
      BY <1>4, <1>6, <3>1, Zenon DEF ReclaimInv
    <3>3. pc'[c] # "checkpoint"
      BY <3>1, Zenon DEF InCall
    <3>4. /\ ~HoldsNext(c, trimmed)
          /\ phase = "barrier" /\ StaleNext(c, min_vsn) /\ min_vsn > trimmed =>
               Stale(c) \/ (vpc = "blink" /\ pc[c] \in InCall)
      BY <1>6, <3>2, MoveHolds, Zenon DEF ReclaimAt
    <3>5. vpc = "blink" /\ pc[c] \in InCall => Awaited(c)
      BY <3>2, Zenon DEF ReclaimAt, Awaited, VsnInv
    <3> QED BY <1>3, <1>4, <3>1, <3>2, <3>3, <3>4, <3>5, Zenon
            DEF ReclaimNext, ReclaimAt, Awaited
  <2> QED BY <1>1, <1>6, <2>1, <2>2, <2>3, ClientKinds, Zenon
<1> QED BY <1>5, <1>6, Zenon

\* The vacuum frees only after every client that was behind the barrier has
\* checkpointed.
LEMMA ReclaimVacuum ==
  ASSUME TypeInv, VsnInv, PhaseInv, PlanInv, AltInv, ReclaimInv, [Next]_vars,
         VacuumStep, NEW c \in Clients, c \notin early'
  PROVE  ReclaimNext(c)
<1> USE ConstantsAssumption
<1>1. /\ ManagerTypeOK /\ vpc \in VacuumLabels /\ phase \in {"plan", "barrier"}
      /\ vsn \in Nat /\ barrier_vsn \in Nat /\ cmin \in Nat /\ ClientTypeOK
      /\ client_vsn \in [Clients -> Nat]
  BY ZenonT(60) DEF TypeInv, TypeOK, ManagerTypeOK, VacuumTypeOK
<1>2. /\ Len(delta) \in Nat /\ trimmed \in Nat /\ trimmed <= Len(delta) /\ min_vsn \in Nat
      /\ min_vsn <= Len(delta) /\ AltMap \in 1..2
  BY SMTT(120) DEF TypeInv, TypeOK, ManagerTypeOK, VacuumTypeOK, PlanInv, AltMap
<1>3. UNCHANGED <<pc, op, arg, tree, cur, filt, reg, early, clients, client_vsn,
     should_run>>
  BY VacuumFrame, Zenon DEF clientSide, locals, clientList
<1>4. LocalsSame(c) /\ c \notin early /\ ReclaimAt(c)
  BY <1>3, Zenon DEF LocalsSame, ReclaimInv
<1>5. pc[c] = "search" => trees'[tree[c]] = trees[tree[c]]
  <2>1. CASE MergeApply
    <3>1. vpc = "apply" /\ trees' = [trees EXCEPT ![AltMap] = Applied(@, delta[cursor])]
      BY <2>1, Zenon DEF MergeApply
    <3>2. pc[c] = "search" => tree[c] # AltMap /\ tree[c] \in 1..2
      BY <3>1, Zenon DEF AltInv, WaitsFor, OnAlt, TypeInv, LocalsFit
    <3> QED BY <1>1, <1>2, <3>1, <3>2, Zenon DEF ManagerTypeOK
  <2>2. CASE ~MergeApply
    BY <2>2, VacuumTreeFrame, Zenon
    DEF treeVars, VacuumSpecial, MarkPending, SwapMaps, PublishVsn, ClearPending
  <2> QED BY <2>1, <2>2, Zenon
<1>6. /\ HoldsNext(c, trimmed) <=> Holds(c, trimmed)
      /\ HoldsNext(c, min_vsn) <=> Holds(c, min_vsn)
  BY <1>2, <1>4, <1>5, HoldsSame, SMTT(120)
<1>7. StaleNext(c, min_vsn) <=> Stale(c)
  BY <1>3, <1>6, Zenon DEF StaleNext, Stale
<1>8. Stale(c) => pc[c] \in InCall
  BY Zenon DEF Stale, Holds, Holding, Walking, InCall
<1>9. ~Holds(c, trimmed)
  BY <1>4, Zenon DEF ReclaimAt
<1>10. pc[c] \in InCall => c \in clients /\ client_vsn[c] <= vsn /\ should_run
  BY Zenon DEF VsnInv, InCall
<1>11. client_vsn[c] \in Nat
  BY <1>1, Zenon
<1> DEFINE Waits == vpc \in {"blink", "poll", "min", "clients", "scan"} /\ Awaited(c)
<1>12. phase = "barrier" /\ min_vsn > trimmed /\ Stale(c) => Waits
  BY <1>4, Zenon DEF ReclaimAt
<1> HIDE DEF Waits
<1>13. CASE /\ UNCHANGED <<phase, min_vsn, trimmed, barrier_vsn>> /\ vpc' # "blink"
            /\ phase = "barrier" /\ Stale(c) /\ Waits =>
                 vpc' \in {"blink", "poll", "min", "clients", "scan"} /\ Awaited(c)'
  BY <1>6, <1>7, <1>9, <1>12, <1>13, ZenonT(60) DEF ReclaimNext
<1>14. CASE BarrierBump
  <2>1. /\ vpc' = "blink" /\ phase' = "barrier" /\ barrier_vsn' = vsn + 1
        /\ UNCHANGED <<min_vsn, trimmed>>
    BY <1>14, Zenon DEF BarrierBump, VGoto, deltaVars
  <2>2. pc[c] \in InCall \cup {"idle"} => client_vsn[c] <= vsn /\ c \in clients
    BY Zenon DEF VsnInv
  <2>3. pc[c] = "checkpoint" => reg[c] <= vsn
    BY Zenon DEF VsnInv
  <2>4. reg[c] \in Nat
    BY <1>1, ZenonT(60) DEF ClientTypeOK
  <2>5. Stale(c) => Awaited(c)'
    BY <1>1, <1>3, <1>8, <1>11, <2>1, <2>2, SMTT(120) DEF Awaited
  <2> QED BY <1>1, <1>3, <1>6, <1>7, <1>9, <1>11, <2>1, <2>2, <2>3, <2>4, <2>5,
             SMTT(120)
          DEF ReclaimNext
<1>15. CASE BarrierLink \/ BarrierPoll \/ ClientMinVsn \/ ClientMinHead
  <2>1. UNCHANGED <<phase, min_vsn, trimmed, barrier_vsn>> /\ vpc' # "blink"
    BY <1>15, Zenon
    DEF BarrierLink, BarrierPoll, ClientMinVsn, ClientMinHead, VGoto, roundVars,
        mgr, deltaVars
  <2>2. Stale(c) => vpc' \in {"poll", "min", "clients", "scan"}
    BY <1>8, <1>10, <1>15, Zenon
    DEF BarrierLink, BarrierPoll, ClientMinVsn, ClientMinHead, VGoto
  <2>3. vpc' = "scan" => scan' = clients
    BY <1>15, Zenon
    DEF BarrierLink, BarrierPoll, ClientMinVsn, ClientMinHead, VGoto
  <2>4. Waits => Awaited(c)'
    BY <1>3, <2>1, <2>3, Zenon DEF Waits, Awaited
  <2> QED BY <1>13, <2>1, <2>2, <2>4, Zenon
<1>16. CASE \E d \in Clients : ClientMinScan(d)
  <2>1. PICK d \in Clients : ClientMinScan(d)
    BY <1>16, Zenon
  <2>2. /\ vpc = "scan" /\ vpc' = "scan" /\ scan' = scan \ {d} /\ cmin' = Least(cmin, client_vsn[d])
        /\ UNCHANGED <<phase, min_vsn, trimmed, barrier_vsn>>
    BY <2>1, Zenon DEF ClientMinScan, roundVars, mgr, deltaVars
  <2>3. cmin' <= cmin /\ cmin' <= client_vsn[d] /\ cmin' \in Nat /\ client_vsn[d] \in Nat
    BY <1>1, <2>2, SMTT(120) DEF Least
  <2>4. Waits => Awaited(c)'
    BY <1>1, <1>3, <2>2, <2>3, SMTT(120) DEF Waits, Awaited
  <2> QED BY <1>13, <2>2, <2>4, Zenon
<1>17. CASE PollDone
  <2>1. /\ vpc = "scan" /\ scan = {} /\ vpc' = (IF cmin < barrier_vsn THEN "poll" ELSE "merge")
        /\ UNCHANGED <<phase, min_vsn, trimmed, barrier_vsn>>
    BY <1>17, Zenon DEF PollDone, VGoto, roundVars, mgr, deltaVars
  <2>2. Waits => vpc' = "poll" /\ Awaited(c)'
    BY <1>3, <2>1, Zenon DEF Waits, Awaited
  <2> QED BY <1>13, <2>1, <2>2, Zenon
<1>18. CASE TrimDeltas
  <2>1. phase = "barrier" /\ vpc = "trim" /\ vpc' = "reap" /\ UNCHANGED <<min_vsn,
       phase>>
    BY <1>18, Zenon DEF TrimDeltas, PhaseInv, VGoto, roundVars
  <2>2. trimmed' = IF min_vsn > trimmed THEN min_vsn ELSE trimmed
    BY <1>2, <1>18, SMTT(120) DEF TrimDeltas, Least
  <2>3. min_vsn > trimmed => ~Stale(c)
    BY <1>12, <2>1, Zenon DEF Waits
  <2>4. ~HoldsNext(c, trimmed')
    BY <1>6, <1>9, <2>2, <2>3, Zenon DEF Stale
  <2>5. ~(min_vsn' > trimmed')
    BY <1>2, <2>1, <2>2, SMTT(120)
  <2> QED BY <2>1, <2>4, <2>5, Zenon DEF ReclaimNext
<1>19. CASE PlanDone \/ ClearPending
  <2>1. phase' = "plan" /\ vpc' # "blink" /\ trimmed' = trimmed
    BY <1>19, Zenon DEF PlanDone, ClearPending, VGoto, mgr, deltaVars
  <2> QED BY <1>6, <1>9, <2>1, Zenon DEF ReclaimNext
<1>20. CASE VacuumExit \/ VacuumTop \/ VacuumSpecial \/ MarkPending \/ SwapMaps \/ PublishVsn
            \/ MergeStart \/ MergeApply \/ MergeDone \/ Reap \/ Destroy
  <2>1. /\ vpc \notin {"blink", "poll", "min", "clients", "scan"} /\ vpc' # "blink"
        /\ UNCHANGED <<phase, min_vsn, trimmed, barrier_vsn>>
    BY <1>20, Zenon
    DEF VacuumExit, VacuumTop, VacuumSpecial, MarkPending, SwapMaps, PublishVsn,
        MergeStart, MergeApply, MergeDone, Reap, Destroy, VGoto, roundVars, mgr,
        deltaVars
  <2> QED BY <1>13, <2>1, Zenon DEF Waits
<1> QED BY <1>14, <1>15, <1>16, <1>17, <1>18, <1>19, <1>20, Zenon DEF VacuumStep

\* No client holds what is freed, or stands on it, at any step.
LEMMA ReclaimStep ==
  ASSUME TypeInv, VsnInv, PhaseInv, PlanInv, AltInv, HistoryInv, TreeInv, ReclaimInv, [Next]_vars
  PROVE  ReclaimInv'
<1>1. SUFFICES ASSUME NEW c \in Clients, c \notin early' PROVE ReclaimNext(c)
  BY Zenon
  DEF ReclaimInv, ReclaimAt, ReclaimNext, Holds, HoldsNext, Stale, StaleNext,
      Dead
<1>2. ASSUME NEW d \in Clients, ClientAction(d) PROVE ReclaimNext(c)
  BY <1>1, <1>2, ReclaimClient, Zenon
<1>3. ASSUME VacuumStep PROVE ReclaimNext(c)
  BY <1>1, <1>3, ReclaimVacuum, Zenon
<1>4. CASE Shutdown
  <2>1. pc'[c] = "gone"
    BY <1>4, Zenon DEF Shutdown
  <2> QED BY <2>1, Zenon
          DEF ReclaimNext, HoldsNext, StaleNext, Holding, Walking, InCall
<1>5. CASE UNCHANGED vars
  <2>1. ReclaimAt(c)
    BY <1>1, <1>5, Zenon DEF vars, clientSide, ReclaimInv
  <2>2. UNCHANGED <<pc, tree, cur, filt, reg, delta, trees, trimmed, vpc, phase,
       min_vsn, barrier_vsn,
                    clients, client_vsn, scan, cmin>>
    BY <1>5, Zenon
    DEF vars, clientSide, locals, mgr, treeVars, deltaVars, clientList, vacuum,
        roundVars, walkVars
  <2> QED BY <2>1, <2>2, Zenon
          DEF ReclaimAt, ReclaimNext, Holds, HoldsNext, Stale, StaleNext, Dead,
              Awaited
<1> QED BY <1>2, <1>3, <1>4, <1>5, NextCases, Zenon

-----------------------------------------------------------------------------
\* The manager starts in the invariant.
LEMMA InvInit == Init => Inv
<1> SUFFICES ASSUME Init PROVE Inv
  OBVIOUS
<1> USE ConstantsAssumption
<1>1. TypeInv
  BY TypeInit, Zenon
<1>2. delta = <<>> /\ Len(delta) = 0 /\ vpc = "top" /\ phase = "plan" /\ trimmed = 0
  BY Zenon DEF Init
<1>3. \A w, k : ~Dead(w, k)
  BY <1>2, SMTT(120) DEF Dead, DeadIn
<1>4. \A c \in Clients : pc[c] = "start" /\ client_vsn[c] = 0
  BY Zenon DEF Init
<1>5. LockInv
  BY <1>2, <1>4, Zenon DEF LockInv, Writing, InCall
<1>6. VsnInv
  BY <1>2, <1>4, SMTT(120) DEF Init, VsnInv, InCall
<1>7. PhaseInv /\ PlanInv
  BY <1>2, SMTT(120) DEF Init, PhaseInv, PlanInv
<1>8. AltInv
  BY <1>4, Zenon DEF AltInv, OnAlt
<1>9. HistoryInv
  BY <1>2, <1>3, <1>4, SMTT(120) DEF HistoryInv
<1>10. TreeInv
  BY <1>3, Zenon DEF TreeInv
<1>11. MemoryInv
  <2>1. PICK t \in LoadedTrees : InitFrom(t)
    BY Zenon DEF Init
  <2>2. \A w \in Wrappers : wname[w] # NULL => w \in heap
    BY <2>1, Zenon DEF InitFrom
  <2> QED BY <1>2, <2>2, SMTT(120) DEF MemoryInv
<1>12. ReclaimInv
  BY <1>2, <1>3, <1>4, Zenon
  DEF ReclaimInv, ReclaimAt, Holds, Holding, Walking, InCall
<1> QED BY <1>1, <1>5, <1>6, <1>7, <1>8, <1>9, <1>10, <1>11, <1>12, Zenon
        DEF Inv

\* Every step preserves the invariant.
LEMMA InvStep == Inv /\ [Next]_vars => Inv'
<1> SUFFICES ASSUME Inv, [Next]_vars PROVE Inv'
  OBVIOUS
<1>1. /\ TypeInv /\ LockInv /\ VsnInv /\ PhaseInv /\ PlanInv
      /\ AltInv /\ HistoryInv /\ MemoryInv /\ TreeInv /\ ReclaimInv
  BY Zenon DEF Inv
<1>2. TypeInv'
  BY <1>1, TypeStep, Zenon
<1>3. LockInv' /\ VsnInv'
  BY <1>1, LockStep, VsnStep, Zenon
<1>4. PhaseInv' /\ PlanInv' /\ AltInv'
  BY <1>1, <1>3, PhaseStep, PlanStep, AltStep, Zenon
<1>5. HistoryInv' /\ MemoryInv'
  BY <1>1, <1>2, <1>3, HistoryStep, MemoryStep, Zenon
<1>6. TreeInv' /\ ReclaimInv'
  BY <1>1, <1>2, <1>4, TreeStep, ReclaimStep, Zenon
<1> QED BY <1>2, <1>3, <1>4, <1>5, <1>6, Zenon DEF Inv

\* merge_old_versions never writes the tree that a client searches, however
\* many clients there are and whenever they checkpoint or join.
THEOREM AltTreeUnsharedAlways == Spec => []AltTreeUnshared
<1>1. Inv => AltTreeUnshared
  BY Zenon DEF Inv, AltInv, WaitsFor, OnAlt, AltTreeUnshared
<1> QED BY <1>1, InvInit, InvStep, PTL DEF Spec

\* What the invariant says of a client that did not checkpoint early.
LEMMA InvReachable ==
  ASSUME Inv, NEW c \in Clients, c \notin early
  PROVE  Reachable(c)
<1> USE ConstantsAssumption
<1>1. /\ TypeInv /\ HistoryInv /\ MemoryInv /\ VsnInv /\ PhaseInv /\ ReclaimAt(c)
  BY ZenonT(60) DEF Inv, ReclaimInv
<1>2. /\ ManagerTypeOK /\ LocalsFit(c) /\ Named /\ ~Holds(c, trimmed)
      /\ trimmed \in Nat /\ Len(delta) \in Nat
  BY <1>1, SMTT(120) DEF TypeInv, TypeOK, ManagerTypeOK, ReclaimAt
<1>3. CASE vpc = "destroyed"
  BY <1>1, <1>3, Zenon DEF VsnInv, PhaseInv, Reachable
<1>4. CASE vpc # "destroyed"
  <2>1. \A w \in Wrappers : wname[w] # NULL /\ ~Dead(w, trimmed) => w \in heap
    BY <1>1, <1>4, Zenon DEF MemoryInv
  <2>2. pc[c] \in Holding => filt[c] \in heap
    BY <1>2, <2>1, ZenonT(60) DEF LocalsFit, Holds
  <2>3. pc[c] \in Walking => cur[c] \in 1..Len(delta) /\ cur[c] > trimmed
    BY <1>2, SMTT(120) DEF LocalsFit, Holds
  <2>4. pc[c] \in Walking => cur[c] \in nodes
    BY <1>1, <1>4, <2>3, Zenon DEF MemoryInv
  <2>5. ASSUME pc[c] \in Walking PROVE delta[cur[c]].filter \in heap \cup {NULL}
    <3>1. CASE delta[cur[c]].type = "BARRIER"
      BY <1>1, <2>3, <2>5, <3>1, Zenon DEF HistoryInv
    <3>2. CASE delta[cur[c]].type # "BARRIER"
      <4> DEFINE w == delta[cur[c]].filter
      <4>1. w \in Wrappers /\ wname[w] # NULL
        BY <1>2, <2>3, <2>5, <3>2, NodeType, ZenonT(60) DEF Named
      <4>2. ASSUME Dead(w, trimmed) PROVE FALSE
        <5>1. PICK v \in 1..Len(delta) : v <= trimmed /\ delta[v] = Node("DELETE", w)
          BY <4>2, Zenon DEF Dead, DeadIn
        <5>2. delta[v].type = "DELETE" /\ delta[v].filter = delta[cur[c]].filter
          BY <5>1, SMTT(120) DEF Node
        <5>3. cur[c] <= v
          BY <1>1, <2>3, <2>5, <5>2, Zenon DEF HistoryInv
        <5> QED BY <1>2, <2>3, <2>5, <5>1, <5>3, SMTT(120)
      <4> QED BY <2>1, <4>1, <4>2, Zenon
    <3> QED BY <3>1, <3>2, Zenon
  <2>6. ASSUME pc[c] = "search", NEW n \in Names
        PROVE  trees[tree[c]][n] \in heap \cup {NULL}
    <3>1. tree[c] \in 1..2 /\ ~Dead(trees[tree[c]][n], trimmed)
      BY <1>2, <2>6, ZenonT(60) DEF LocalsFit, Holds
    <3>2. trees[tree[c]][n] # NULL => trees[tree[c]][n] \in Wrappers /\ wname[trees[tree[c]][n]] = n
      BY <1>2, <3>1, SMTT(120) DEF ManagerTypeOK, MaybeWrapper, Named
    <3> QED BY <2>1, <3>1, <3>2, Zenon
  <2> QED BY <2>2, <2>4, <2>5, <2>6, Zenon DEF Reachable, Holding, Walking
<1> QED BY <1>3, <1>4, Zenon

\* No client that checkpoints outside the window of version_barrier reaches a
\* wrapper or a delta node that the vacuum has freed.
THEOREM ReclamationIsSafe == Spec => []NoUseAfterFree
<1>1. Inv => NoUseAfterFree
  BY InvReachable, Zenon DEF NoUseAfterFree
<1> QED BY <1>1, InvInit, InvStep, PTL DEF Spec

=============================================================================
