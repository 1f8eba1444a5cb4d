------------------------- MODULE FilterManagerRounds --------------------------
(***************************************************************************)
(* The write lock, the versions and the phases of a vacuum round, why no   *)
(* client searches the tree that the second merge of a round changes, and  *)
(* what the delta list says of the wrappers: a delete is the last word     *)
(* about its wrapper, what is freed was deleted long enough ago, and a     *)
(* tree holds nothing that was deleted up to where it is merged.           *)
(***************************************************************************)
EXTENDS FilterManagerTypes

-----------------------------------------------------------------------------
(***************************************************************************)
(* Versions, the write lock and the phases of a round.                     *)
(***************************************************************************)

\* The client has taken the write lock for its call.
Writing(c) == op[c] \in WriteOps /\ pc[c] \in InCall \ {"lock"}

LockInv ==
  /\ \A c \in Clients : Writing(c) => write_lock = c
  /\ vpc = "blink" => write_lock = Vacuum

\* Versions count the linked deltas; one more while a node is being linked.
VsnInv ==
  /\ vsn = IF vpc = "blink" \/ \E c \in Clients : pc[c] = "link"
           THEN Len(delta) + 1 ELSE Len(delta)
  /\ \A c \in Clients :
       /\ client_vsn[c] <= vsn
       /\ pc[c] = "checkpoint" => reg[c] <= vsn
       /\ pc[c] = "link" => client_vsn[c] <= Len(delta)
       /\ pc[c] \in InCall \cup {"idle"} => c \in clients
       /\ ~should_run => pc[c] = "gone"

PhaseInv ==
  /\ vpc \in {"top", "special", "mark", "swap", "publish", "barrier", "exited"}
       => phase = "plan"
  /\ vpc \in {"blink", "poll", "trim", "reap"} => phase = "barrier"
  /\ vpc = "barrier" \/ phase = "barrier" => primary_vsn = min_vsn
  /\ phase = "barrier" => min_vsn < barrier_vsn /\ barrier_vsn <= vsn
  /\ vpc = "blink" => barrier_vsn = vsn
  /\ phase = "barrier" /\ vpc # "blink" => barrier_vsn <= Len(delta)
  /\ vpc \in {"exited", "destroyed"} => ~should_run

\* client_min_vsn never reaches a version whose node is not linked: the writer
\* that is about to link it has announced an older one.
PlanInv ==
  /\ min_vsn <= Len(delta)
  /\ vpc \in {"clients", "scan"} => cmin <= vsn
  /\ vpc \in {"clients", "scan"} /\ phase = "plan" /\ cmin > Len(delta) =>
       \E c \in Clients : pc[c] = "link" /\ (vpc = "scan" => c \in scan)
  /\ vpc = "apply" => last = min_vsn /\ cursor <= Len(delta) + 1
  /\ vpc = "reap" => min_vsn <= trimmed

-----------------------------------------------------------------------------
(***************************************************************************)
(* The barrier keeps clients away from the alternate tree.                 *)
(***************************************************************************)

\* The client searches the tree that is now the alternate one.
OnAlt(c) == pc[c] = "search" /\ tree[c] = AltMap

\* A client the barrier still has to wait for.
Awaited(c) ==
  /\ c \in clients
  /\ client_vsn[c] < barrier_vsn
  /\ vpc = "scan" => c \in scan \/ cmin < barrier_vsn

\* The round has swapped the trees and does not go on without the client.
WaitsFor(c) ==
  \/ vpc \in {"publish", "barrier"}
  \/ vpc \in {"blink", "poll", "min", "clients", "scan"} /\ phase = "barrier" /\ Awaited(c)

AltInv == \A c \in Clients : OnAlt(c) => WaitsFor(c)

-----------------------------------------------------------------------------
(***************************************************************************)
(* The lock, the versions and the phases.                                  *)
(***************************************************************************)

\* Client c goes on with its call.
Moves(c) ==
  /\ pc[c] \in InCall \ {"lock"} /\ pc'[c] \in InCall \ {"lock"}
  /\ op' = op /\ write_lock' = write_lock /\ early' = early

\* The call of client c is over.
Returns(c) ==
  /\ pc[c] \in InCall \ {"lock"} /\ Return(c) /\ early' = early

\* The kinds of steps a client takes.
LEMMA ClientKinds ==
  ASSUME ClientTypeOK, NEW c \in Clients, ClientAction(c)
  PROVE  \/ CheckpointRead(c) \/ CheckpointStore(c) \/ Lock(c)
         \/ \E o \in Ops, n \in Names : Call(c, o, n)
         \/ Moves(c) \/ Returns(c)
<1> USE DEF Moves, Returns, InCall, Goto, ClientTypeOK, locals
<1>1. CASE LoadTree(c) BY <1>1, SMTT(120) DEF LoadTree
<1>2. CASE Search(c) BY <1>2, SMTT(120) DEF Search
<1>3. CASE IterList(c) BY <1>3, SMTT(120) DEF IterList
<1>4. CASE IterCold(c) BY <1>4, SMTT(120) DEF IterCold
<1>5. CASE ReadPrimaryVsn(c) BY <1>5, SMTT(120) DEF ReadPrimaryVsn
<1>6. CASE CompareVsn(c) BY <1>6, SMTT(120) DEF CompareVsn, Missed
<1>7. CASE ReadDelta(c) BY <1>7, SMTT(120) DEF ReadDelta, Missed
<1>8. CASE WalkMatch(c) BY <1>8, SMTT(120) DEF WalkMatch
<1>9. CASE WalkOn(c) BY <1>9, SMTT(120) DEF WalkOn, Missed
<1>10. CASE WalkNext(c) BY <1>10, SMTT(120) DEF WalkNext, Missed
<1>11. CASE ListDone(c) BY <1>11, SMTT(120) DEF ListDone
<1>12. CASE Miss(c) BY <1>12, SMTT(120) DEF Miss
<1>13. CASE CreatePending(c) BY <1>13, SMTT(120) DEF CreatePending
<1>14. CASE Refuse(c) BY <1>14, SMTT(120) DEF Refuse
<1>15. CASE Take(c) BY <1>15, SMTT(120) DEF Take
<1>16. CASE UseKeys(c) BY <1>16, SMTT(120) DEF UseKeys
<1>17. CASE UsePeek(c) BY <1>17, SMTT(120) DEF UsePeek
<1>18. CASE UseUnmap(c) BY <1>18, SMTT(120) DEF UseUnmap
<1>19. CASE AddFails(c) BY <1>19, SMTT(120) DEF AddFails
<1>20. CASE \E w \in Wrappers : AddFilter(c, w) BY <1>20, SMTT(120) DEF AddFilter
<1>21. CASE DropFilter(c) BY <1>21, SMTT(120) DEF DropFilter
<1>22. CASE ClearFilter(c) BY <1>22, SMTT(120) DEF ClearFilter
<1>23. CASE BumpVsn(c) BY <1>23, SMTT(120) DEF BumpVsn
<1>24. CASE LinkDelta(c) BY <1>24, SMTT(120) DEF LinkDelta
<1> QED BY <1>1, <1>2, <1>3, <1>4, <1>5, <1>6, <1>7, <1>8, <1>9, <1>10, <1>11,
           <1>12, <1>13, <1>14, <1>15, <1>16, <1>17, <1>18, <1>19, <1>20, <1>21,
           <1>22, <1>23, <1>24, Zenon
        DEF ClientAction, ClientStep

\* Only BumpVsn enters the window in which a node is being linked, and only
\* LinkDelta leaves it.
LEMMA LinkWindow ==
  ASSUME ClientTypeOK, NEW c \in Clients, ClientAction(c)
  PROVE  \/ BumpVsn(c) \/ LinkDelta(c)
         \/ pc[c] # "link" /\ pc'[c] # "link"
BY Zenon
DEF ClientTypeOK, ClientAction, ClientStep, Call, CheckpointRead, Goto, Return,
    Missed, locals, CheckpointStore, Lock, LoadTree, Search, IterList, IterCold,
    ReadPrimaryVsn, CompareVsn, ReadDelta, WalkMatch, WalkOn, WalkNext,
    ListDone, Miss, CreatePending, Refuse, Take, UseKeys, UsePeek, UseUnmap,
    AddFails, DropFilter, ClearFilter, AddFilter

\* A call that writes holds the write lock to its end, and the vacuum holds it
\* while it links its barrier.
LEMMA LockStep ==
  ASSUME TypeInv, LockInv, [Next]_vars
  PROVE  LockInv'
<1> USE ConstantsAssumption
<1>1. ClientTypeOK /\ TypeOK
  BY Zenon DEF TypeInv, TypeOK
<1>2. ASSUME NEW c \in Clients, ClientAction(c) PROVE LockInv'
  <2>1. vpc' = "blink" => write_lock' = Vacuum
    BY <1>2, ClientFrame, ClientLock, Zenon DEF LockInv, vacuum
  <2>2. ASSUME NEW d \in Clients, d # c, Writing(d)' PROVE write_lock' = d
    <3>1. LocalsSame(d)
      BY <1>1, <1>2, <2>2, OtherClients, Zenon
    <3>2. write_lock = d
      BY <2>2, <3>1, Zenon DEF LockInv, Writing, LocalsSame
    <3> QED BY <1>2, <2>2, <3>2, ClientLock, Zenon
  <2>3. ASSUME Writing(c)' PROVE write_lock' = c
    <3>1. CASE CheckpointRead(c) \/ CheckpointStore(c) \/ Returns(c)
      BY <1>1, <2>3, <3>1, SMTT(120)
      DEF CheckpointRead, CheckpointStore, Returns, Return, Goto, ClientTypeOK,
          Writing, InCall
    <3>2. CASE \E o \in Ops, n \in Names : Call(c, o, n)
      BY <1>1, <2>3, <3>2, SMTT(120) DEF Call, Goto, ClientTypeOK, Writing
    <3>3. CASE Lock(c)
      BY <3>3, Zenon DEF Lock
    <3>4. CASE Moves(c)
      BY <2>3, <3>4, Zenon DEF Moves, Writing, LockInv
    <3> QED BY <1>1, <1>2, <3>1, <3>2, <3>3, <3>4, ClientKinds, Zenon
  <2> QED BY <2>1, <2>2, <2>3, Zenon DEF LockInv
<1>3. ASSUME VacuumStep PROVE LockInv'
  <2>1. \A d \in Clients : Writing(d)' = Writing(d)
    BY <1>3, VacuumFrame, Zenon DEF clientSide, locals, Writing
  <2>2. CASE BarrierBump
    BY <2>1, <2>2, Zenon DEF BarrierBump, LockInv
  <2>3. CASE BarrierLink
    BY <2>1, <2>3, Zenon DEF BarrierLink, VGoto, LockInv
  <2>4. CASE UNCHANGED write_lock /\ vpc' # "blink"
    BY <2>1, <2>4, Zenon DEF LockInv
  <2>5. BarrierBump \/ BarrierLink \/ (UNCHANGED write_lock /\ vpc' # "blink")
    BY <1>3, Zenon
    DEF VacuumStep, VGoto, VacuumExit, VacuumTop, VacuumSpecial, ClientMinVsn,
        ClientMinHead, ClientMinScan, PlanDone, MergeStart, MergeApply,
        MergeDone, MarkPending, SwapMaps, PublishVsn, BarrierPoll, PollDone,
        TrimDeltas, Reap, ClearPending, Destroy
  <2> QED BY <2>2, <2>3, <2>4, <2>5, Zenon
<1>4. CASE Shutdown
  BY <1>4, Zenon DEF Shutdown, LockInv, Writing, InCall, vacuum
<1>5. CASE UNCHANGED vars
  BY <1>5, Zenon DEF vars, clientSide, locals, vacuum, LockInv, Writing
<1> QED BY <1>2, <1>3, <1>4, <1>5, NextCases, Zenon

\* At most one thread is linking a node.
LEMMA OneLinker ==
  ASSUME TypeInv, LockInv
  PROVE  /\ \A c, d \in Clients :
              pc[c] \in {"add", "bump", "link"} /\ pc[d] \in {"add", "bump", "link"}
                => c = d
         /\ \A c \in Clients : pc[c] \in {"add", "bump", "link"} =>
              vpc # "blink" /\ write_lock # NULL
<1>1. \A c \in Clients : pc[c] \in {"add", "bump", "link"} => Writing(c)
  BY Zenon DEF TypeInv, LocalsFit, Writing, InCall, WriteOps
<1> QED BY <1>1, ConstantsAssumption, Zenon DEF LockInv

\* A version is raised by the holder of the write lock only, and linked before
\* the lock is given back; announced versions are never ahead.
LEMMA VsnStep ==
  ASSUME TypeInv, LockInv, VsnInv, [Next]_vars
  PROVE  VsnInv'
<1> USE ConstantsAssumption
<1>1. ClientTypeOK /\ ManagerTypeOK
  BY Zenon DEF TypeInv, TypeOK
<1>2. Len(delta) \in Nat /\ Len(delta') \in Nat /\ Len(delta) <= Len(delta')
  BY Grows, Zenon
<1>3. vsn \in Nat /\ client_vsn \in [Clients -> Nat]
  BY <1>1, Zenon DEF ManagerTypeOK
<1>4. ASSUME NEW c \in Clients, ClientAction(c) PROVE VsnInv'
  <2>1. \A d \in Clients : d # c => LocalsSame(d)
    BY <1>1, <1>4, OtherClients, Zenon
  <2>2. UNCHANGED <<vpc, should_run>>
    BY <1>4, ClientFrame, Zenon DEF vacuum
  <2>3. CASE BumpVsn(c)
    <3>1. /\ vpc # "blink" /\ \A d \in Clients : pc[d] # "link"
      BY <2>3, OneLinker, Zenon DEF BumpVsn
    <3>2. /\ vsn' = vsn + 1 /\ vsn = Len(delta) /\ pc'[c] = "link"
          /\ UNCHANGED <<delta, clients, client_vsn, reg, should_run>>
      BY <1>1, <2>3, <3>1, Zenon
      DEF BumpVsn, VsnInv, Goto, ClientTypeOK, deltaVars, clientList, locals
    <3>3. vsn' = Len(delta') + 1 /\ \E d \in Clients : pc'[d] = "link"
      BY <3>2, Zenon
    <3>4. pc[c] \in InCall /\ pc[c] # "gone" /\ pc'[c] # "checkpoint" /\ pc'[c] \in InCall
      BY <2>3, <3>2, Zenon DEF BumpVsn, InCall
    <3>5. reg \in [Clients -> Nat]
      BY <1>1, Zenon DEF ClientTypeOK
    <3>6. ASSUME NEW d \in Clients
          PROVE  /\ client_vsn'[d] <= vsn' /\ (pc'[d] = "checkpoint" => reg'[d] <= vsn')
                 /\ (pc'[d] = "link" => client_vsn'[d] <= Len(delta'))
                 /\ (pc'[d] \in InCall \cup {"idle"} => d \in clients')
                 /\ (~should_run' => pc'[d] = "gone")
      <4>1. client_vsn[d] \in Nat /\ reg[d] \in Nat /\ client_vsn[d] <= vsn
        BY <1>3, <3>5, Zenon DEF VsnInv
      <4>2. CASE d = c
        BY <1>2, <1>3, <3>2, <3>4, <4>1, <4>2, SMTT(120) DEF VsnInv
      <4>3. CASE d # c
        BY <1>2, <1>3, <2>1, <3>1, <3>2, <4>1, <4>3, SMTT(120)
        DEF VsnInv, LocalsSame
      <4> QED BY <4>2, <4>3, Zenon
    <3> QED BY <3>3, <3>6, Zenon DEF VsnInv
  <2>4. CASE LinkDelta(c)
    <3>1. /\ vpc # "blink" /\ \A d \in Clients : d # c => pc[d] # "link"
      BY <2>4, OneLinker, Zenon DEF LinkDelta
    <3>2. Len(delta') = Len(delta) + 1
      BY <2>4, LinkDeltaLinks, Zenon DEF Linked
    <3>3. /\ vsn' = vsn /\ vsn = Len(delta) + 1 /\ pc'[c] = "idle"
          /\ UNCHANGED <<clients, client_vsn, should_run>> /\ c \in clients
      BY <1>1, <2>4, Zenon
      DEF LinkDelta, Return, VsnInv, Goto, ClientTypeOK, clientList, InCall
    <3> QED BY <1>1, <1>2, <1>3, <2>1, <2>2, <2>4, <3>1, <3>2, <3>3, SMTT(120)
            DEF VsnInv, LocalsSame, LinkDelta
  <2>5. CASE pc[c] # "link" /\ pc'[c] # "link" /\ ~BumpVsn(c) /\ ~LinkDelta(c)
    <3>1. UNCHANGED <<vsn, delta>>
      BY <1>4, <2>5, ClientManagerFrame, Zenon
      DEF mgr, deltaVars, CheckpointStore
    <3>2. vsn' = IF vpc' = "blink" \/ \E d \in Clients : pc'[d] = "link"
                 THEN Len(delta') + 1 ELSE Len(delta')
      BY <2>1, <2>2, <2>5, <3>1, Zenon DEF VsnInv, LocalsSame
    <3>3. ASSUME NEW d \in Clients, d # c
          PROVE  /\ client_vsn'[d] = client_vsn[d] /\ (d \in clients' <=> d \in clients)
      BY <1>1, <1>4, <2>5, <3>3, ClientManagerFrame, Zenon
      DEF mgr, clientList, CheckpointStore, ManagerTypeOK
    <3>4. /\ client_vsn'[c] <= vsn' /\ (pc'[c] = "checkpoint" => reg'[c] <= vsn')
          /\ (pc'[c] \in InCall \cup {"idle"} => c \in clients')
          /\ pc[c] # "gone"
      <4>1. CASE CheckpointRead(c)
        BY <1>1, <1>3, <4>1, SMTT(120)
        DEF CheckpointRead, Goto, VsnInv, ClientTypeOK, InCall, mgr, clientList
      <4>2. CASE CheckpointStore(c)
        BY <1>1, <1>3, <4>2, Zenon
        DEF CheckpointStore, Goto, VsnInv, ClientTypeOK, InCall
      <4>3. UNCHANGED clientList \/ CheckpointStore(c)
        BY <1>4, <2>5, ClientManagerFrame, ZenonT(60) DEF mgr
      <4>4. CASE Lock(c) \/ (\E o \in Ops, n \in Names : Call(c, o, n))
        BY <1>1, <1>3, <4>4, SMTT(120)
        DEF Lock, Call, Goto, VsnInv, ClientTypeOK, InCall, mgr, clientList
      <4>5. CASE UNCHANGED clientList /\ (Moves(c) \/ Returns(c))
        BY <1>1, <1>3, <3>1, <4>5, Zenon
        DEF Moves, Returns, Return, Goto, VsnInv, ClientTypeOK, InCall,
            clientList
      <4> QED BY <1>1, <1>4, <4>1, <4>2, <4>3, <4>4, <4>5, ClientKinds, Zenon
    <3> QED BY <1>2, <2>1, <2>2, <2>5, <3>1, <3>2, <3>3, <3>4, Zenon
            DEF VsnInv, LocalsSame
  <2> QED BY <1>1, <1>4, <2>3, <2>4, <2>5, LinkWindow, Zenon
<1>5. ASSUME VacuumStep PROVE VsnInv'
  <2>1. UNCHANGED <<pc, reg, clients, client_vsn, should_run>>
    BY <1>5, VacuumFrame, Zenon DEF clientSide, locals, clientList
  <2>2. CASE BarrierBump
    <3>1. \A c \in Clients : pc[c] # "link"
      BY <2>2, OneLinker, Zenon DEF BarrierBump
    <3>2. vpc # "blink" /\ vpc' = "blink" /\ vsn' = vsn + 1 /\ delta' = delta
      BY <2>2, Zenon DEF BarrierBump, VGoto, deltaVars
    <3>3. vsn = Len(delta) /\ vsn' = Len(delta') + 1
      BY <1>2, <1>3, <3>1, <3>2, Zenon DEF VsnInv
    <3>4. ASSUME NEW d \in Clients
          PROVE  /\ client_vsn'[d] <= vsn' /\ (pc'[d] = "checkpoint" => reg'[d] <= vsn')
      <4>1. /\ client_vsn[d] \in Nat /\ client_vsn[d] <= vsn
            /\ pc[d] = "checkpoint" => reg[d] <= vsn
        BY <1>3, Zenon DEF VsnInv
      <4>2. reg[d] \in Nat
        BY <1>1, Zenon DEF ClientTypeOK
      <4> QED BY <1>3, <2>1, <3>2, <4>1, <4>2, SMTT(120)
    <3> QED BY <2>1, <3>1, <3>2, <3>3, <3>4, Zenon DEF VsnInv
  <2>3. CASE BarrierLink
    <3>1. \A c \in Clients : pc[c] # "link"
      BY <2>3, OneLinker, Zenon DEF BarrierLink
    <3>2. vpc = "blink" /\ vpc' = "poll" /\ vsn' = vsn /\ Len(delta') = Len(delta) + 1
      BY <2>3, BarrierLinkLinks, Zenon DEF BarrierLink, VGoto, Linked
    <3> QED BY <1>2, <1>3, <2>1, <3>1, <3>2, Zenon DEF VsnInv
  <2>4. CASE UNCHANGED <<vsn, delta>> /\ vpc # "blink" /\ vpc' # "blink"
    BY <2>1, <2>4, Zenon DEF VsnInv
  <2>5. \/ BarrierBump \/ BarrierLink
        \/ UNCHANGED <<vsn, delta>> /\ vpc # "blink" /\ vpc' # "blink"
    BY <1>5, Zenon
    DEF VacuumStep, VGoto, VacuumExit, VacuumTop, VacuumSpecial, ClientMinVsn,
        ClientMinHead, ClientMinScan, PlanDone, MergeStart, MergeApply,
        MergeDone, MarkPending, SwapMaps, PublishVsn, BarrierPoll, PollDone,
        TrimDeltas, Reap, ClearPending, Destroy, mgr, deltaVars
  <2> QED BY <2>2, <2>3, <2>4, <2>5, Zenon
<1>6. CASE Shutdown
  BY <1>1, <1>6, Zenon
  DEF Shutdown, VsnInv, InCall, deltaVars, clientList, vacuum
<1>7. CASE UNCHANGED vars
  BY <1>7, Zenon
  DEF vars, mgr, clientList, deltaVars, clientSide, locals, vacuum, VsnInv
<1> QED BY <1>4, <1>5, <1>6, <1>7, NextCases, Zenon

\* A round goes through its phases in order; the barrier is newer than what is
\* merged, and linked once the vacuum polls.
LEMMA PhaseStep ==
  ASSUME TypeInv, LockInv, VsnInv, VsnInv', PhaseInv, PlanInv, [Next]_vars
  PROVE  PhaseInv'
<1> USE ConstantsAssumption
<1>1. /\ vpc \in VacuumLabels /\ phase \in {"plan", "barrier"} /\ vsn \in Nat
      /\ min_vsn \in Nat /\ barrier_vsn \in Nat /\ ManagerTypeOK
  BY Zenon DEF TypeInv, TypeOK, ManagerTypeOK, VacuumTypeOK
<1>2. Len(delta) \in Nat /\ Len(delta') \in Nat /\ Len(delta) <= Len(delta')
  BY Grows, Zenon
<1>3. Len(delta) <= vsn /\ min_vsn <= Len(delta)
  BY <1>1, <1>2, SMTT(120) DEF VsnInv, PlanInv
<1>4. ASSUME NEW c \in Clients, ClientAction(c) PROVE PhaseInv'
  <2>1. UNCHANGED <<vpc, phase, min_vsn, barrier_vsn, primary_vsn, should_run>>
    BY <1>4, ClientFrame, ClientManagerFrame, Zenon
    DEF vacuum, roundVars, mgr, treeVars, BumpVsn, LinkDelta, CheckpointStore
  <2>2. vsn' = vsn \/ (vsn' = vsn + 1 /\ vpc # "blink")
    BY <1>4, ClientManagerFrame, OneLinker, Zenon
    DEF mgr, BumpVsn, LinkDelta, CheckpointStore
  <2> QED BY <1>1, <1>2, <2>1, <2>2, SMTT(120) DEF PhaseInv
<1>5. ASSUME VacuumStep PROVE PhaseInv'
  <2> should_run' = should_run
    BY <1>5, VacuumFrame, Zenon
  <2>1. CASE PublishVsn
    BY <2>1, Zenon DEF PublishVsn, PhaseInv, VGoto, roundVars
  <2>2. CASE BarrierBump
    BY <1>1, <1>2, <1>3, <2>2, SMTT(120)
    DEF BarrierBump, PhaseInv, VGoto, treeVars
  <2>3. CASE BarrierLink
    <3>1. vsn = Len(delta) + 1
      BY <2>3, Zenon DEF BarrierLink, VsnInv
    <3>2. Len(delta') = Len(delta) + 1
      BY <2>3, BarrierLinkLinks, Zenon DEF Linked
    <3> QED BY <1>1, <1>2, <2>3, <3>1, <3>2, Zenon
            DEF BarrierLink, PhaseInv, VGoto, treeVars, roundVars
  <2>4. CASE ClearPending
    BY <2>4, Zenon DEF ClearPending, PhaseInv, VGoto
  <2>5. CASE VacuumSpecial
    BY <2>5, Zenon DEF VacuumSpecial, PhaseInv, VGoto
  <2>6. CASE VacuumExit \/ VacuumTop \/ ClientMinVsn \/ ClientMinHead
    BY <2>6, Zenon
    DEF VacuumExit, VacuumTop, ClientMinVsn, ClientMinHead, PhaseInv, VGoto,
        roundVars, mgr, treeVars, deltaVars
  <2>7. CASE \E c \in Clients : ClientMinScan(c)
    BY <2>7, Zenon
    DEF ClientMinScan, PhaseInv, roundVars, mgr, treeVars, deltaVars
  <2>8. CASE PlanDone
    BY <2>8, Zenon DEF PlanDone, PhaseInv, VGoto, mgr
  <2>9. CASE MergeStart \/ MergeApply
    BY <2>9, Zenon
    DEF MergeStart, MergeApply, PhaseInv, VGoto, roundVars, mgr, treeVars,
        deltaVars
  <2>10. CASE MergeDone
    BY <1>1, <2>10, Zenon
    DEF MergeDone, PhaseInv, VGoto, roundVars, mgr, treeVars, deltaVars
  <2>11. CASE MarkPending \/ SwapMaps
    BY <2>11, Zenon
    DEF MarkPending, SwapMaps, PhaseInv, VGoto, roundVars, deltaVars
  <2>12. CASE BarrierPoll \/ PollDone
    BY <2>12, Zenon
    DEF BarrierPoll, PollDone, PhaseInv, VGoto, roundVars, mgr, treeVars,
        deltaVars
  <2>13. CASE TrimDeltas \/ Reap
    BY <2>13, Zenon DEF TrimDeltas, Reap, PhaseInv, VGoto, roundVars, treeVars
  <2>14. CASE Destroy
    BY <2>14, SMTT(120) DEF Destroy, PhaseInv, VGoto, roundVars, treeVars
  <2> QED BY <1>5, <2>1, <2>2, <2>3, <2>4, <2>5, <2>6, <2>7, <2>8, <2>9, <2>10,
             <2>11, <2>12, <2>13, <2>14, Zenon
          DEF VacuumStep
<1>6. CASE Shutdown
  BY <1>6, Zenon DEF Shutdown, PhaseInv, vacuum, roundVars, deltaVars, treeVars
<1>7. CASE UNCHANGED vars
  BY <1>7, Zenon DEF vars, mgr, deltaVars, treeVars, vacuum, roundVars, PhaseInv
<1> QED BY <1>4, <1>5, <1>6, <1>7, NextCases, Zenon

\* What is merged is linked: a version that is raised and not yet linked
\* belongs to a writer that client_min_vsn visits, and that is behind.
LEMMA PlanStep ==
  ASSUME TypeInv, LockInv, VsnInv, PhaseInv, PlanInv, [Next]_vars
  PROVE  PlanInv'
<1> USE ConstantsAssumption
<1>1. /\ vpc \in VacuumLabels /\ vsn \in Nat /\ min_vsn \in Nat /\ cmin \in Nat
      /\ ClientTypeOK /\ client_vsn \in [Clients -> Nat]
      /\ cursor \in Nat /\ last \in Nat /\ trimmed \in Nat /\ trimmed <= Len(delta)
  BY Zenon DEF TypeInv, TypeOK, ManagerTypeOK, VacuumTypeOK
<1>2. Len(delta) \in Nat /\ Len(delta') \in Nat /\ Len(delta) <= Len(delta')
  BY Grows, Zenon
<1>3. vsn <= Len(delta) + 1 /\ Len(delta) <= vsn
  BY <1>1, <1>2, SMTT(120) DEF VsnInv
<1>4. ASSUME NEW c \in Clients, ClientAction(c) PROVE PlanInv'
  <2>1. UNCHANGED <<vpc, phase, min_vsn, cmin, scan, last, cursor, trimmed>>
    BY <1>4, ClientFrame, Zenon DEF vacuum, roundVars, walkVars
  <2>2. CASE LinkDelta(c)
    <3>1. Len(delta') = Len(delta) + 1
      BY <2>2, LinkDeltaLinks, Zenon DEF Linked
    <3>2. vsn' = vsn
      BY <2>2, Zenon DEF LinkDelta
    <3> QED BY <1>1, <1>2, <1>3, <2>1, <3>1, <3>2, SMTT(120) DEF PlanInv
  <2>3. CASE ~LinkDelta(c)
    <3>1. delta' = delta
      BY <1>4, <2>3, ClientManagerFrame, Zenon
      DEF mgr, deltaVars, BumpVsn, CheckpointStore
    <3>2. vsn <= vsn' /\ vsn' \in Nat
      BY <1>1, <1>4, <2>3, ClientManagerFrame, SMTT(120)
      DEF mgr, deltaVars, BumpVsn, CheckpointStore
    <3>3. ASSUME NEW d \in Clients, pc[d] = "link" PROVE pc'[d] = "link"
      <4>1. CASE d = c
        BY <1>1, <1>4, <2>3, <3>3, <4>1, LinkWindow, Zenon DEF BumpVsn
      <4>2. CASE d # c
        BY <1>1, <1>4, <3>3, <4>2, OtherClients, Zenon DEF LocalsSame
      <4> QED BY <4>1, <4>2, Zenon
    <3> QED BY <1>1, <1>2, <2>1, <3>1, <3>2, <3>3, SMTT(120) DEF PlanInv
  <2> QED BY <2>2, <2>3, Zenon
<1>5. ASSUME VacuumStep PROVE PlanInv'
  <2>1. UNCHANGED <<pc, clients, client_vsn>>
    BY <1>5, VacuumFrame, Zenon DEF clientSide, clientList
  <2>2. CASE ClientMinVsn
    <3>1. vsn > Len(delta) => \E c \in Clients : pc[c] = "link"
      BY <1>1, <1>2, <2>2, SMTT(120) DEF VsnInv, ClientMinVsn
    <3> QED BY <1>1, <1>2, <2>1, <2>2, <3>1, SMTT(120)
            DEF ClientMinVsn, PlanInv, VGoto, roundVars, mgr, deltaVars
  <2>3. CASE ClientMinHead
    <3>1. \A c \in Clients : pc[c] = "link" => c \in clients
      BY Zenon DEF VsnInv, InCall
    <3> QED BY <1>1, <2>1, <2>3, <3>1, Zenon
            DEF ClientMinHead, PlanInv, VGoto, roundVars, mgr, deltaVars
  <2>4. CASE \E c \in Clients : ClientMinScan(c)
    <3>1. PICK c \in Clients : ClientMinScan(c)
      BY <2>4, Zenon
    <3>2. vpc = "scan" /\ vpc' = "scan" /\ scan' = scan \ {c} /\ cmin' = Least(cmin, client_vsn[c])
          /\ UNCHANGED <<delta, vsn, phase, min_vsn, last, cursor>>
      BY <3>1, Zenon DEF ClientMinScan, roundVars, mgr, deltaVars
    <3>3. cmin' <= cmin /\ cmin' <= client_vsn[c]
      BY <1>1, <3>2, SMTT(120) DEF Least
    <3>4. cmin' \in Nat /\ client_vsn[c] \in Nat
      BY <1>1, <3>2, Zenon DEF Least
    <3>5. pc[c] = "link" => cmin' <= Len(delta)
      BY <1>1, <1>2, <3>3, <3>4, SMTT(120) DEF VsnInv
    <3> QED BY <1>1, <1>2, <2>1, <3>2, <3>3, <3>4, <3>5, SMTT(120) DEF PlanInv
  <2>5. CASE PlanDone
    <3>1. cmin <= Len(delta)
      BY <1>1, <1>2, <2>5, SMTT(120) DEF PlanDone, PlanInv
    <3> QED BY <2>5, <3>1, Zenon DEF PlanDone, PlanInv, VGoto, mgr, deltaVars
  <2>6. CASE MergeStart
    <3>1. last' = min_vsn /\ cursor' <= Len(delta) + 1
      BY <1>1, <1>2, <2>6, SMTT(120) DEF MergeStart, PlanInv, Least
    <3> QED BY <2>6, <3>1, Zenon
            DEF MergeStart, PlanInv, VGoto, roundVars, mgr, deltaVars
  <2>7. CASE MergeApply
    <3>1. last <= Len(delta) /\ cursor <= last
      BY <2>7, Zenon DEF TypeInv, WalkFits, MergeApply
    <3> QED BY <1>1, <1>2, <2>7, <3>1, SMTT(120)
            DEF MergeApply, PlanInv, roundVars, deltaVars
  <2>8. CASE ClearPending
    BY <1>2, <2>8, SMTT(120) DEF ClearPending, PlanInv, VGoto, deltaVars
  <2>9. CASE /\ min_vsn' = min_vsn
             /\ vpc' \notin {"clients", "scan", "apply", "reap"}
    BY <1>1, <1>2, <2>9, SMTT(120) DEF PlanInv
  <2>10. CASE VacuumExit \/ VacuumTop \/ VacuumSpecial \/ MergeDone \/ MarkPending \/ SwapMaps
              \/ PublishVsn \/ BarrierBump \/ BarrierLink \/ BarrierPoll \/ PollDone
              \/ Destroy
    <3> QED BY <2>9, <2>10, Zenon
            DEF VacuumExit, VacuumTop, VacuumSpecial, MergeDone, MarkPending,
                SwapMaps, PublishVsn, BarrierBump, BarrierLink, BarrierPoll,
                PollDone, Destroy, VGoto, roundVars
  <2>11. CASE TrimDeltas
    <3>1. min_vsn <= trimmed'
      BY <1>1, <1>2, <2>11, SMTT(120) DEF TrimDeltas, PlanInv, Least
    <3> QED BY <2>11, <3>1, Zenon DEF TrimDeltas, PlanInv, VGoto, roundVars
  <2>12. CASE Reap
    BY <2>12, Zenon DEF Reap, PlanInv, roundVars
  <2> QED BY <1>5, <2>2, <2>3, <2>4, <2>5, <2>6, <2>7, <2>8, <2>10, <2>11, <2>12,
             Zenon
          DEF VacuumStep
<1>6. CASE Shutdown
  BY <1>6, Zenon DEF Shutdown, PlanInv, vacuum, roundVars, walkVars, deltaVars
<1>7. CASE UNCHANGED vars
  BY <1>7, Zenon
  DEF vars, mgr, deltaVars, vacuum, roundVars, walkVars, PlanInv, clientSide
<1> QED BY <1>4, <1>5, <1>6, <1>7, NextCases, Zenon

\* The round waits for a client as long as the client is in its call.
LEMMA WaitsStep ==
  ASSUME TypeInv, VsnInv, PhaseInv, [Next]_vars,
         NEW d \in Clients, pc[d] \in InCall, pc'[d] \in InCall, WaitsFor(d)
  PROVE  WaitsFor(d)'
<1> USE ConstantsAssumption
<1>1. /\ vpc \in VacuumLabels /\ phase \in {"plan", "barrier"} /\ ClientTypeOK
      /\ vsn \in Nat /\ barrier_vsn \in Nat /\ cmin \in Nat
      /\ client_vsn \in [Clients -> Nat] /\ scan \subseteq Clients
  BY Zenon DEF TypeInv, TypeOK, ManagerTypeOK, VacuumTypeOK
<1>2. \/ vpc \in {"publish", "barrier"}
      \/ vpc \in {"blink", "poll", "min", "clients", "scan"} /\ phase = "barrier" /\ Awaited(d)
  BY ZenonT(60) DEF WaitsFor
<1>3. d \in clients /\ client_vsn[d] <= vsn /\ client_vsn[d] \in Nat /\ should_run
  BY <1>1, SMTT(120) DEF VsnInv, InCall
<1>4. ASSUME NEW c \in Clients, ClientAction(c) PROVE WaitsFor(d)'
  <2>1. UNCHANGED <<vpc, phase, barrier_vsn, cmin, scan>>
    BY <1>4, ClientFrame, Zenon DEF vacuum, roundVars, walkVars
  <2>2. client_vsn'[d] = client_vsn[d] /\ (d \in clients => d \in clients')
    <3>1. CASE CheckpointStore(c)
      <4>1. d # c
        BY <1>1, <3>1, Zenon DEF CheckpointStore, Goto, ClientTypeOK, InCall
      <4> QED BY <1>1, <3>1, <4>1, Zenon DEF CheckpointStore
    <3>2. CASE UNCHANGED clientList
      BY <3>2, Zenon DEF clientList
    <3> QED BY <1>4, <3>1, <3>2, ClientManagerFrame, Zenon
            DEF mgr, BumpVsn, LinkDelta
  <2> QED BY <1>2, <2>1, <2>2, Zenon DEF WaitsFor, Awaited
<1>5. ASSUME VacuumStep PROVE WaitsFor(d)'
  <2> USE DEF WaitsFor
  <2>1. UNCHANGED <<clients, client_vsn>>
    BY <1>5, VacuumFrame, Zenon DEF clientList
  <2>2. CASE PublishVsn
    BY <2>2, Zenon DEF PublishVsn, VGoto
  <2>3. CASE BarrierBump
    BY <1>1, <1>3, <2>1, <2>3, SMTT(120) DEF BarrierBump, VGoto, Awaited
  <2>4. CASE BarrierLink
    BY <1>1, <1>2, <2>1, <2>4, Zenon DEF BarrierLink, VGoto, Awaited, roundVars
  <2>5. CASE BarrierPoll
    BY <1>1, <1>2, <1>3, <2>1, <2>5, Zenon DEF BarrierPoll, VGoto, Awaited, roundVars
  <2>6. CASE ClientMinVsn
    BY <1>1, <1>2, <2>1, <2>6, Zenon DEF ClientMinVsn, VGoto, Awaited, roundVars
  <2>7. CASE ClientMinHead
    BY <1>1, <1>2, <1>3, <2>1, <2>7, Zenon DEF ClientMinHead, VGoto, Awaited, roundVars
  <2>8. CASE \E c \in Clients : ClientMinScan(c)
    <3>1. PICK c \in Clients : ClientMinScan(c)
      BY <2>8, Zenon
    <3>2. vpc = "scan" /\ vpc' = "scan" /\ scan' = scan \ {c} /\ cmin' = Least(cmin, client_vsn[c])
          /\ UNCHANGED <<phase, barrier_vsn>>
      BY <3>1, Zenon DEF ClientMinScan, roundVars
    <3>3. cmin' <= cmin /\ cmin' <= client_vsn[c] /\ cmin' \in Nat /\ client_vsn[c] \in Nat
      BY <1>1, <3>2, SMTT(120) DEF Least
    <3> QED BY <1>1, <1>2, <1>3, <2>1, <3>2, <3>3, SMTT(120) DEF Awaited
  <2>9. CASE PollDone
    BY <1>1, <1>2, <2>1, <2>9, Zenon DEF PollDone, VGoto, Awaited, roundVars
  <2>10. PublishVsn \/ BarrierBump \/ BarrierLink \/ BarrierPoll \/ ClientMinVsn \/ ClientMinHead
         \/ (\E c \in Clients : ClientMinScan(c)) \/ PollDone
    BY <1>2, <1>5, Zenon
    DEF VacuumStep, VacuumExit, VacuumTop, VacuumSpecial, PlanDone, MergeStart,
        MergeApply, MergeDone, MarkPending, SwapMaps, TrimDeltas, Reap, ClearPending,
        Destroy
  <2> QED BY <2>2, <2>3, <2>4, <2>5, <2>6, <2>7, <2>8, <2>9, <2>10, Zenon
<1>6. CASE Shutdown
  BY <1>6, Zenon DEF Shutdown, InCall
<1>7. CASE UNCHANGED vars
  BY <1>2, <1>7, Zenon
  DEF vars, mgr, clientList, vacuum, roundVars, walkVars, Awaited, WaitsFor
<1> QED BY <1>4, <1>5, <1>6, <1>7, NextCases, Zenon

\* A client that still searches the alternate tree is one the barrier waits
\* for, so the second merge finds the tree free.
LEMMA AltStep ==
  ASSUME TypeInv, VsnInv, PhaseInv, AltInv, [Next]_vars
  PROVE  AltInv'
<1> USE ConstantsAssumption
<1>1. ClientTypeOK /\ filter_map \in 1..2
  BY Zenon DEF TypeInv, TypeOK, ManagerTypeOK
<1>2. SUFFICES ASSUME NEW d \in Clients, OnAlt(d)' PROVE WaitsFor(d)'
  BY Zenon DEF AltInv
<1>3. pc'[d] = "search" /\ tree'[d] = (3 - filter_map') /\ pc'[d] \in InCall
  BY <1>2, Zenon DEF OnAlt, AltMap, InCall
<1>4. ASSUME OnAlt(d) PROVE WaitsFor(d)'
  <2>1. WaitsFor(d) /\ pc[d] \in InCall
    BY <1>4, Zenon DEF AltInv, OnAlt, InCall
  <2> QED BY <1>3, <2>1, WaitsStep, Zenon
<1>5. ASSUME NEW c \in Clients, ClientAction(c) PROVE OnAlt(d)
  <2>1. filter_map' = filter_map
    BY <1>5, ClientFrame, Zenon DEF treeVars
  <2>2. CASE d # c
    BY <1>1, <1>3, <1>5, <2>1, <2>2, OtherClients, Zenon DEF LocalsSame, OnAlt, AltMap
  <2>3. CASE d = c
    <3>1. LoadTree(c)
      BY <1>1, <1>3, <1>5, <2>3, Arrivals, Zenon
    <3>2. tree'[c] = filter_map
      BY <1>1, <3>1, Zenon DEF LoadTree, ClientTypeOK
    <3> QED BY <1>1, <1>3, <2>1, <2>3, <3>2, SMTT(120)
  <2> QED BY <2>2, <2>3, Zenon
<1>6. ASSUME VacuumStep, ~SwapMaps PROVE OnAlt(d)
  <2>1. UNCHANGED <<pc, tree>>
    BY <1>6, VacuumFrame, Zenon DEF clientSide, locals
  <2>2. filter_map' = filter_map
    BY <1>6, VacuumTreeFrame, Zenon
    DEF treeVars, VacuumSpecial, MergeApply, MarkPending, PublishVsn, ClearPending
  <2> QED BY <1>3, <2>1, <2>2, Zenon DEF OnAlt, AltMap
<1>7. CASE SwapMaps
  BY <1>7, Zenon DEF SwapMaps, VGoto, WaitsFor
<1>8. CASE Shutdown
  BY <1>3, <1>8, Zenon DEF Shutdown
<1>9. CASE UNCHANGED vars
  BY <1>3, <1>4, <1>9, Zenon
  DEF vars, mgr, treeVars, OnAlt, AltMap, clientSide, locals
<1> QED BY <1>4, <1>5, <1>6, <1>7, <1>8, <1>9, NextCases, Zenon

-----------------------------------------------------------------------------
(***************************************************************************)
(* Deletes come last, and nothing that is held or reachable was deleted.   *)
(***************************************************************************)

\* List d deletes wrapper w at version k or before.
DeadIn(d, w, k) == \E v \in 1..Len(d) : v <= k /\ d[v] = Node("DELETE", w)

\* Wrapper w was deleted at version k or before.
Dead(w, k) == DeadIn(delta, w, k)

HistoryInv ==
  /\ \A v \in 1..Len(delta) : delta[v].type = "BARRIER" => delta[v].filter = NULL
  /\ \A u, v \in 1..Len(delta) :
       delta[v].type = "DELETE" /\ delta[u].filter = delta[v].filter => u <= v
  /\ \A w \in is_active : ~Dead(w, Len(delta))
  /\ \A c \in Clients : pc[c] \in {"bump", "link"} =>
       /\ ~Dead(filt[c], Len(delta))
       /\ op[c] # "create" => filt[c] \notin is_active

MemoryInv ==
  vpc # "destroyed" =>
    /\ \A w \in Wrappers : wname[w] # NULL /\ ~Dead(w, trimmed) => w \in heap
    /\ \A v \in 1..Len(delta) : trimmed < v => v \in nodes

TreeInv ==
  \A t \in 1..2, n \in Names : ~Dead(trees[t][n], Merged(t))

-----------------------------------------------------------------------------
(***************************************************************************)
(* Deletes and memory.                                                     *)
(***************************************************************************)

\* One more node at the head of list d.
OneMore(d, e, type, w) ==
  /\ Len(d) \in Nat /\ Len(e) = Len(d) + 1
  /\ \A v \in 1..Len(d) : e[v] = d[v]
  /\ e[Len(d) + 1] = Node(type, w)

LEMMA OneMoreAt ==
  ASSUME NEW d, NEW e, NEW type, NEW w, OneMore(d, e, type, w), NEW v \in 1..Len(e)
  PROVE  \/ v \in 1..Len(d) /\ e[v] = d[v]
         \/ v = Len(d) + 1 /\ e[v].type = type /\ e[v].filter = w
<1>1. PICK n \in Nat : n = Len(d)
  BY Zenon DEF OneMore
<1>2. Len(e) = n + 1 /\ e[n + 1] = Node(type, w) /\ \A u \in 1..n : e[u] = d[u]
  BY <1>1, Zenon DEF OneMore
<1>3. v \in 1..(n + 1)
  BY <1>2, Zenon
<1>4. v \in 1..n \/ v = n + 1
  BY <1>3, SMTT(120)
<1>5. Node(type, w).type = type /\ Node(type, w).filter = w
  BY SMTT(120) DEF Node
<1> QED BY <1>1, <1>2, <1>4, <1>5, Zenon

\* A wrapper deleted by version k was deleted by any later one.
LEMMA DeadMonotone ==
  ASSUME NEW d, NEW w, NEW j \in Int, NEW k \in Int, j <= k, DeadIn(d, w, j),
         Len(d) \in Nat
  PROVE  DeadIn(d, w, k)
BY SMTT(120) DEF DeadIn

\* What a new node adds to the deleted wrappers.
LEMMA DeadAppend ==
  ASSUME NEW d, NEW e, NEW type, NEW x, OneMore(d, e, type, x), NEW w, NEW k \in Int
  PROVE  DeadIn(e, w, k) <=> \/ DeadIn(d, w, k)
                             \/ Len(d) + 1 <= k /\ type = "DELETE" /\ w = x
<1> USE DEF OneMore
<1>1. ASSUME DeadIn(e, w, k)
      PROVE  \/ DeadIn(d, w, k)
             \/ Len(d) + 1 <= k /\ type = "DELETE" /\ w = x
  <2>1. PICK v \in 1..Len(e) : v <= k /\ e[v] = Node("DELETE", w)
    BY <1>1, Zenon DEF DeadIn
  <2>2. CASE v \in 1..Len(d)
    BY <2>1, <2>2, Zenon DEF DeadIn
  <2>3. CASE v = Len(d) + 1
    BY <2>1, <2>3, SMTT(120) DEF Node
  <2> QED BY <2>2, <2>3, SMTT(120)
<1>2. ASSUME DeadIn(d, w, k) PROVE DeadIn(e, w, k)
  BY <1>2, SMTT(120) DEF DeadIn
<1>3. ASSUME Len(d) + 1 <= k, type = "DELETE", w = x PROVE DeadIn(e, w, k)
  BY <1>3, SMTT(120) DEF DeadIn
<1> QED BY <1>1, <1>2, <1>3, Zenon

\* The list stays, or a client or the vacuum adds a node.
LEMMA DeltaCases ==
  ASSUME TypeInv, [Next]_vars
  PROVE  \/ delta' = delta
         \/ \E c \in Clients : LinkDelta(c) /\ OneMore(delta, delta', LinkedType(c), filt[c])
         \/ BarrierLink /\ OneMore(delta, delta', "BARRIER", NULL)
<1>1. ASSUME NEW c \in Clients, ClientAction(c)
      PROVE  delta' = delta \/ (LinkDelta(c) /\ OneMore(delta, delta', LinkedType(c), filt[c]))
  BY <1>1, ClientManagerFrame, LinkDeltaLinks, Zenon
  DEF mgr, deltaVars, CheckpointStore, BumpVsn, Linked, OneMore
<1>2. ASSUME VacuumStep
      PROVE  delta' = delta \/ (BarrierLink /\ OneMore(delta, delta', "BARRIER", NULL))
  BY <1>2, VacuumDeltaFrame, BarrierLinkLinks, Zenon
  DEF deltaVars, BarrierBump, TrimDeltas, Reap, Destroy, Linked, OneMore
<1> QED BY <1>1, <1>2, NextCases, Zenon DEF Shutdown, vars, mgr, deltaVars

\* Two places of a sequence of length m, neither after the other.
LEMMA SamePlace ==
  ASSUME NEW m \in Nat
  PROVE  \A u, v \in 1..m : u <= v /\ v <= u => u = v
  OBVIOUS

\* A step never revives a wrapper or kills one at a version already linked.
LEMMA DeadStep ==
  ASSUME TypeInv, [Next]_vars, NEW w, NEW k \in Int, k <= Len(delta)
  PROVE  DeadIn(delta', w, k) <=> DeadIn(delta, w, k)
<1>1. ASSUME NEW type, NEW x, OneMore(delta, delta', type, x)
      PROVE  DeadIn(delta', w, k) <=> DeadIn(delta, w, k)
  <2>1. ~(Len(delta) + 1 <= k)
    BY <1>1, SMTT(120) DEF OneMore
  <2> QED BY <1>1, <2>1, DeadAppend, Zenon
<1> QED BY <1>1, DeltaCases, Zenon

\* A wrapper without a name was not deleted, and neither was NULL.
LEMMA UnnamedNotDead ==
  ASSUME TypeInv, NEW w, w = NULL \/ (w \in Wrappers /\ wname[w] = NULL), NEW k
  PROVE  ~Dead(w, k)
<1> SUFFICES ASSUME Dead(w, k) PROVE FALSE
  OBVIOUS
<1>1. PICK v \in 1..Len(delta) : delta[v] = Node("DELETE", w)
  BY Zenon DEF Dead, DeadIn
<1>2. delta[v].type = "DELETE" /\ delta[v].filter = w
  BY <1>1, SMTT(120) DEF Node
<1>3. w # NULL /\ wname[w] \in Names
  BY <1>2, Zenon DEF TypeInv, TypeOK, ManagerTypeOK, Named
<1> QED BY <1>3, ConstantsAssumption, Zenon

\* Nobody deletes a wrapper that is active or that a writer holds, and a
\* delete is the last word on its wrapper.
LEMMA HistoryStep ==
  ASSUME TypeInv, TypeInv', LockInv, LockInv', HistoryInv, [Next]_vars
  PROVE  HistoryInv'
<1> USE ConstantsAssumption
<1>1. ClientTypeOK /\ ManagerTypeOK /\ Len(delta) \in Nat /\ Len(delta') \in Nat
      /\ Len(delta) <= Len(delta')
  BY Grows, Zenon DEF TypeInv, TypeOK
<1>2. CASE delta' = delta
  <2>1. /\ \A v \in 1..Len(delta') : delta'[v].type = "BARRIER" => delta'[v].filter = NULL
        /\ \A u, v \in 1..Len(delta') :
             delta'[v].type = "DELETE" /\ delta'[u].filter = delta'[v].filter => u <= v
    BY <1>2, Zenon DEF HistoryInv
  <2>2. ASSUME NEW c \in Clients, ClientAction(c) PROVE HistoryInv'
    <3>1. \A d \in Clients : d # c => LocalsSame(d)
      BY <1>1, <2>2, OtherClients, Zenon
    <3>2. CASE \E w \in Wrappers : AddFilter(c, w)
      <4>1. PICK w \in Wrappers : AddFilter(c, w)
        BY <3>2, Zenon
      <4>2. /\ pc[c] = "add" /\ wname[w] = NULL /\ is_active' = is_active \cup {w}
            /\ filt'[c] = w /\ pc'[c] = "bump" /\ op' = op
        BY <1>1, <4>1, Zenon DEF AddFilter, Goto, ClientTypeOK
      <4>3. op[c] = "create"
        BY <4>2, Zenon DEF TypeInv, LocalsFit
      <4>4. ~Dead(w, Len(delta))
        BY <4>2, UnnamedNotDead, Zenon
      <4>5. \A d \in Clients : d # c => pc[d] \notin {"bump", "link"}
        BY <4>2, OneLinker, Zenon
      <4> QED BY <1>2, <2>1, <3>1, <4>2, <4>3, <4>4, <4>5, Zenon
              DEF HistoryInv, LocalsSame, Dead
    <3>3. CASE DropFilter(c) \/ ClearFilter(c)
      <4>1. /\ pc[c] = "found" /\ filt[c] \in is_active /\ is_active' \subseteq is_active
            /\ (pc'[c] \in {"bump", "link"} => filt'[c] = filt[c] /\ filt[c] \notin is_active')
        BY <1>1, <3>3, Zenon
        DEF DropFilter, ClearFilter, Goto, Return, locals, ClientTypeOK
      <4>2. \A w \in is_active : ~Dead(w, Len(delta))
        BY Zenon DEF HistoryInv
      <4>3. \A w \in is_active' : ~Dead(w, Len(delta))
        BY <4>1, <4>2, Zenon
      <4>4. ~Dead(filt[c], Len(delta))
        BY <4>1, <4>2, Zenon
      <4>5. ASSUME NEW d \in Clients, pc'[d] \in {"bump", "link"}
            PROVE  /\ ~Dead(filt'[d], Len(delta))
                   /\ op'[d] # "create" => filt'[d] \notin is_active'
        <5>1. CASE d = c
          BY <4>1, <4>4, <4>5, <5>1, Zenon
        <5>2. CASE d # c
          BY <3>1, <4>1, <4>5, <5>2, Zenon DEF LocalsSame, HistoryInv
        <5> QED BY <5>1, <5>2, Zenon
      <4> QED BY <1>2, <2>1, <4>3, <4>5, Zenon DEF HistoryInv, Dead
    <3>4. CASE UNCHANGED is_active /\ (~\E w \in Wrappers : AddFilter(c, w))
               /\ ~DropFilter(c) /\ ~ClearFilter(c)
      <4>1. pc'[c] \in {"bump", "link"} => BumpVsn(c)
        BY <1>1, <2>2, <3>4, Arrivals, Zenon
      <4>2. pc'[c] \in {"bump", "link"} =>
              pc[c] = "bump" /\ filt'[c] = filt[c] /\ op'[c] = op[c]
        BY <4>1, Zenon DEF BumpVsn, locals
      <4>3. ASSUME NEW d \in Clients, pc'[d] \in {"bump", "link"}
            PROVE  pc[d] \in {"bump", "link"} /\ filt'[d] = filt[d] /\ op'[d] = op[d]
        BY <3>1, <4>2, <4>3, Zenon DEF LocalsSame
      <4> QED BY <1>2, <2>1, <3>4, <4>3, Zenon DEF HistoryInv, Dead
    <3> QED BY <2>2, <3>2, <3>3, <3>4, ClientWrapperFrame, Zenon
            DEF wrapVars, IterCold, UseKeys, UseUnmap, AddFails
  <2>3. ASSUME VacuumStep PROVE HistoryInv'
    BY <1>2, <2>1, <2>3, VacuumFrame, Zenon
    DEF clientSide, locals, HistoryInv, Dead
  <2>4. CASE Shutdown
    BY <1>2, <2>1, <2>4, Zenon DEF Shutdown, wrapVars, HistoryInv, Dead
  <2>5. CASE UNCHANGED vars
    BY <1>2, <2>1, <2>5, Zenon
    DEF vars, wrapVars, clientSide, locals, HistoryInv, Dead
  <2> QED BY <2>2, <2>3, <2>4, <2>5, NextCases, Zenon
<1>3. ASSUME NEW c \in Clients, LinkDelta(c), OneMore(delta, delta', LinkedType(c), filt[c])
      PROVE  HistoryInv'
  <2>1. /\ pc[c] = "link" /\ is_active' = is_active /\ pc'[c] = "idle"
        /\ filt[c] \in Wrappers /\ filt[c] # NULL
    <3>1. pc[c] = "link" /\ is_active' = is_active
      BY <1>3, Zenon DEF LinkDelta, wrapVars
    <3>2. pc' = [pc EXCEPT ![c] = "idle"] /\ pc \in [Clients -> ClientLabels]
      BY <1>3, Zenon DEF LinkDelta, Return, Goto, TypeInv, TypeOK, ClientTypeOK
    <3>3. filt[c] \in Wrappers
      BY <3>1, Zenon DEF TypeInv, LocalsFit, Holding
    <3> QED BY <3>1, <3>2, <3>3, Zenon
  <2>2. /\ ~Dead(filt[c], Len(delta))
        /\ op[c] # "create" => filt[c] \notin is_active
    BY <2>1, Zenon DEF HistoryInv
  <2>3. \A d \in Clients : pc'[d] \notin {"bump", "link"}
    <3>1. \A d \in Clients : d # c => pc[d] \notin {"bump", "link"}
      BY <2>1, OneLinker, Zenon
    <3>2. \A d \in Clients : d # c => LocalsSame(d)
      BY <1>1, <1>3, OtherClients, Zenon DEF ClientAction, ClientStep
    <3> QED BY <2>1, <3>1, <3>2, Zenon DEF LocalsSame
  <2>4. LinkedType(c) \in {"CREATE", "DELETE"} /\ (LinkedType(c) = "DELETE" => op[c] # "create")
    BY Zenon DEF LinkedType
  <2>5. \A v \in 1..Len(delta') : delta'[v].type = "BARRIER" => delta'[v].filter = NULL
    <3>1. \A v \in 1..Len(delta') :
            \/ v \in 1..Len(delta) /\ delta'[v] = delta[v]
            \/ delta'[v].type = LinkedType(c) /\ delta'[v].filter = filt[c]
      BY <1>3, OneMoreAt, SMTT(120)
    <3>2. LinkedType(c) # "BARRIER"
      BY <2>4, SMTT(120)
    <3> QED BY <3>1, <3>2, ZenonT(60) DEF HistoryInv
  <2>6. ASSUME NEW u \in 1..Len(delta'), NEW v \in 1..Len(delta'),
               delta'[v].type = "DELETE", delta'[u].filter = delta'[v].filter
        PROVE  u <= v
    <3>1. CASE u \in 1..Len(delta) /\ v \in 1..Len(delta)
      BY <1>3, <2>6, <3>1, Zenon DEF OneMore, HistoryInv
    <3>2. CASE v = Len(delta) + 1
      BY <1>1, <1>3, <2>6, <3>2, SMTT(120) DEF OneMore
    <3>3. CASE u = Len(delta) + 1 /\ v \in 1..Len(delta)
      <4>1. delta[v].type = "DELETE" /\ delta[v].filter = filt[c]
        BY <1>3, <2>6, <3>3, SMTT(120) DEF OneMore, Node
      <4>2. delta[v] = Node("DELETE", filt[c])
        BY <1>1, <3>3, <4>1, NodeType, Zenon DEF Node
      <4> QED BY <1>1, <2>2, <3>3, <4>2, SMTT(120) DEF Dead, DeadIn
    <3> QED BY <1>3, <3>1, <3>2, <3>3, OneMoreAt, Zenon
  <2>7. ASSUME NEW w \in is_active PROVE ~DeadIn(delta', w, Len(delta'))
    <3>1. ~DeadIn(delta, w, Len(delta))
      BY <2>7, Zenon DEF HistoryInv, Dead
    <3>2. ~DeadIn(delta, w, Len(delta'))
      BY <1>1, <3>1, SMTT(120) DEF DeadIn
    <3>3. ~(LinkedType(c) = "DELETE" /\ w = filt[c])
      BY <2>2, <2>4, <2>7, Zenon
    <3> QED BY <1>1, <1>3, <3>2, <3>3, DeadAppend, SMTT(120)
  <2> QED BY <2>1, <2>3, <2>5, <2>6, <2>7, Zenon DEF HistoryInv, Dead
<1>4. ASSUME BarrierLink, OneMore(delta, delta', "BARRIER", NULL)
      PROVE  HistoryInv'
  <2>1. UNCHANGED <<pc, op, filt, is_active>>
    BY <1>4, Zenon DEF BarrierLink, clientSide, locals, wrapVars
  <2>2. \A v \in 1..Len(delta') : delta'[v].type = "BARRIER" => delta'[v].filter = NULL
    <3>1. \A v \in 1..Len(delta') :
            \/ v \in 1..Len(delta) /\ delta'[v] = delta[v]
            \/ delta'[v].type = "BARRIER" /\ delta'[v].filter = NULL
      BY <1>4, OneMoreAt, SMTT(120)
    <3> QED BY <3>1, Zenon DEF HistoryInv
  <2>3. ASSUME NEW u \in 1..Len(delta'), NEW v \in 1..Len(delta'),
               delta'[v].type = "DELETE", delta'[u].filter = delta'[v].filter
        PROVE  u <= v
    <3>1. CASE u \in 1..Len(delta) /\ v \in 1..Len(delta)
      BY <1>4, <2>3, <3>1, Zenon DEF OneMore, HistoryInv
    <3>2. CASE v = Len(delta) + 1
      BY <1>1, <1>4, <2>3, <3>2, SMTT(120) DEF OneMore
    <3>3. CASE u = Len(delta) + 1 /\ v \in 1..Len(delta)
      <4>1. delta'[u] = Node("BARRIER", NULL) /\ delta'[v] = delta[v]
        BY <1>4, <3>3, Zenon DEF OneMore
      <4>2. Node("BARRIER", NULL).filter = NULL /\ "DELETE" # "BARRIER"
        BY SMTT(120) DEF Node
      <4>3. delta[v].type = "DELETE" /\ delta[v].filter = NULL
        BY <2>3, <4>1, <4>2, Zenon
      <4> QED BY <1>1, <3>3, <4>2, <4>3, Zenon DEF ManagerTypeOK
    <3> QED BY <1>4, <3>1, <3>2, <3>3, OneMoreAt, Zenon
  <2>4. ASSUME NEW w, ~DeadIn(delta, w, Len(delta)) PROVE ~DeadIn(delta', w, Len(delta'))
    <3>1. ~DeadIn(delta, w, Len(delta'))
      BY <1>1, <2>4, SMTT(120) DEF DeadIn
    <3> QED BY <1>1, <1>4, <3>1, DeadAppend, SMTT(120)
  <2> QED BY <2>1, <2>2, <2>3, <2>4, Zenon DEF HistoryInv, Dead
<1> QED BY <1>2, <1>3, <1>4, DeltaCases, Zenon

\* Only what was deleted at a version that is cut off is freed.
LEMMA MemoryStep ==
  ASSUME TypeInv, TypeInv', MemoryInv, [Next]_vars
  PROVE  MemoryInv'
<1> USE ConstantsAssumption
<1>1. /\ ManagerTypeOK /\ VacuumTypeOK /\ WrapperTypeOK /\ Len(delta) \in Nat
      /\ trimmed \in Nat /\ trimmed <= Len(delta)
  BY SMTT(120) DEF TypeInv, TypeOK, ManagerTypeOK
<1>2. \A w : DeadIn(delta', w, trimmed) <=> DeadIn(delta, w, trimmed)
  BY <1>1, DeadStep, SMTT(120)
<1>3. ASSUME NEW c \in Clients, ClientAction(c) PROVE MemoryInv'
  <2>1. UNCHANGED <<vpc, trimmed>>
    BY <1>3, ClientFrame, Zenon DEF vacuum
  <2>2. /\ heap \subseteq heap'
        /\ \A w \in Wrappers : wname'[w] # wname[w] => w \in heap'
    <3>1. CASE \E w \in Wrappers : AddFilter(c, w)
      BY <1>1, <3>1, ZenonT(60) DEF AddFilter, WrapperTypeOK
    <3>2. CASE UNCHANGED <<heap, wname>>
      BY <3>2, Zenon
    <3> QED BY <1>3, <3>1, <3>2, ClientWrapperFrame, Zenon
            DEF wrapVars, IterCold, UseKeys, UseUnmap, AddFails, DropFilter,
                ClearFilter
  <2>3. vpc # "destroyed" => \A v \in 1..Len(delta') : trimmed < v => v \in nodes'
    <3>1. CASE UNCHANGED <<delta, nodes>>
      BY <3>1, Zenon DEF MemoryInv
    <3>2. CASE LinkDelta(c)
      <4>1. Len(delta') = Len(delta) + 1 /\ nodes' = nodes \cup {Len(delta) + 1}
        BY <3>2, LinkDeltaLinks, Zenon DEF Linked, LinkDelta, LinkNode
      <4> QED BY <1>1, <4>1, SMTT(120) DEF MemoryInv
    <3> QED BY <1>3, <3>1, <3>2, ClientManagerFrame, Zenon
            DEF mgr, deltaVars, CheckpointStore, BumpVsn
  <2> QED BY <1>2, <2>1, <2>2, <2>3, Zenon DEF MemoryInv, Dead
<1>4. ASSUME VacuumStep PROVE MemoryInv'
  <2>1. wname' = wname
    BY <1>4, VacuumFrame, Zenon
  <2>2. CASE TrimDeltas
    <3>1. trimmed' \in Nat /\ trimmed <= trimmed' /\ UNCHANGED <<delta, nodes, heap>>
          /\ vpc # "destroyed"
      BY <1>1, <2>2, SMTT(120) DEF TrimDeltas, Least, VacuumTypeOK, wrapVars
    <3>2. \A w : DeadIn(delta, w, trimmed) => DeadIn(delta, w, trimmed')
      BY <1>1, <3>1, DeadMonotone, SMTT(120)
    <3> QED BY <1>1, <2>1, <3>1, <3>2, SMTT(120) DEF MemoryInv, Dead
  <2>3. CASE Reap
    <3>1. cursor \in 1..Len(delta) /\ cursor <= trimmed /\ cursor > last
      BY <1>1, <2>3, SMTT(120) DEF Reap, TypeInv, WalkFits, VacuumTypeOK
    <3>2. UNCHANGED <<delta, trimmed,
         vpc>> /\ nodes' = nodes \ {cursor} /\ vpc # "destroyed"
      BY <2>3, Zenon DEF Reap
    <3>3. ASSUME NEW w \in heap, w \notin heap' PROVE DeadIn(delta, w, trimmed)
      <4>1. delta[cursor].type = "DELETE" /\ delta[cursor].filter = w
        BY <2>3, <3>3, Zenon DEF Reap
      <4>2. delta[cursor] = Node("DELETE", w)
        BY <1>1, <3>1, <4>1, NodeType, Zenon DEF Node
      <4> QED BY <3>1, <4>2, Zenon DEF DeadIn
    <3> QED BY <1>1, <2>1, <3>1, <3>2, <3>3, SMTT(120) DEF MemoryInv, Dead
  <2>4. CASE BarrierLink
    <3>1. Len(delta') = Len(delta) + 1 /\ nodes' = nodes \cup {Len(delta) + 1}
      BY <2>4, BarrierLinkLinks, Zenon DEF Linked, BarrierLink, LinkNode
    <3>2. UNCHANGED <<trimmed, heap>> /\ vpc # "destroyed"
      BY <2>4, Zenon DEF BarrierLink, wrapVars
    <3> QED BY <1>1, <1>2, <2>1, <3>1, <3>2, SMTT(120) DEF MemoryInv, Dead
  <2>5. CASE Destroy
    BY <2>5, Zenon DEF Destroy, VGoto, MemoryInv
  <2>6. CASE UNCHANGED <<deltaVars,
       wrapVars>> /\ (vpc = "destroyed" => vpc' = "destroyed")
    BY <2>6, Zenon DEF deltaVars, wrapVars, MemoryInv, Dead
  <2>7. vpc # "destroyed"
    BY <1>4, Zenon
    DEF VacuumStep, VGoto, VacuumExit, VacuumTop, VacuumSpecial, ClientMinVsn,
        ClientMinHead, ClientMinScan, PlanDone, MergeStart, MergeApply,
        MergeDone, MarkPending, SwapMaps, PublishVsn, BarrierBump, BarrierLink,
        BarrierPoll, PollDone, TrimDeltas, Reap, ClearPending, Destroy
  <2> QED BY <1>4, <2>2, <2>3, <2>4, <2>5, <2>6, <2>7, VacuumDeltaFrame,
             VacuumWrapperFrame, Zenon
          DEF BarrierBump
<1>5. CASE Shutdown
  BY <1>5, Zenon DEF Shutdown, vacuum, deltaVars, wrapVars, MemoryInv, Dead
<1>6. CASE UNCHANGED vars
  BY <1>6, ZenonT(60) DEF vars, mgr, deltaVars, wrapVars, vacuum, MemoryInv, Dead
<1> QED BY <1>3, <1>4, <1>5, <1>6, NextCases, ZenonT(60)

-----------------------------------------------------------------------------
(***************************************************************************)
(* The trees hold nothing that was deleted up to where they are merged.    *)
(***************************************************************************)

\* The version that a round merges and cuts off up to.
Planned == IF min_vsn > trimmed THEN min_vsn ELSE trimmed

\* How far each tree is merged, in terms of the round.
MergedFits ==
  \A t \in 1..2 :
    /\ Merged(t) = IF t = AltMap
                   THEN IF vpc = "apply" THEN cursor - 1
                        ELSE IF vpc \in {"mark", "swap", "trim"} THEN Planned
                        ELSE trimmed
                   ELSE IF phase = "barrier" \/ vpc \in {"publish", "barrier"}
                        THEN Planned ELSE trimmed
    /\ Merged(t) \in Int /\ Merged(t) <= Len(delta)

\* The minimum of a round never runs ahead of the list.
LEMMA MergedValue == TypeInv /\ PlanInv => MergedFits
<1> SUFFICES ASSUME TypeInv, PlanInv PROVE MergedFits
  OBVIOUS
<1>1. /\ Len(delta) \in Nat /\ trimmed \in Nat /\ trimmed <= Len(delta)
      /\ cursor \in Nat /\ min_vsn \in Nat /\ min_vsn <= Len(delta)
      /\ (vpc = "apply" => cursor <= Len(delta) + 1)
  BY SMTT(120) DEF TypeInv, TypeOK, ManagerTypeOK, VacuumTypeOK, PlanInv
<1>2. Least(Len(delta), min_vsn) = min_vsn
  BY <1>1, SMTT(120) DEF Least
<1>3. Planned \in Int /\ Planned <= Len(delta)
  BY <1>1, SMTT(120) DEF Planned
<1> QED BY <1>1, <1>2, <1>3, SMTT(120) DEF Merged, Planned, MergedFits

\* Only a merge moves a tree forward.
LEMMA MergedStep ==
  ASSUME TypeInv, TypeInv', PlanInv, PlanInv', PhaseInv, [Next]_vars, ~MergeApply
  PROVE  trees' = trees /\ \A t \in 1..2 : Merged(t)' = Merged(t)
<1> USE ConstantsAssumption
<1>1. /\ trimmed \in Nat /\ cursor \in Nat /\ last \in Nat /\ min_vsn \in Nat
      /\ vpc \in VacuumLabels /\ phase \in {"plan", "barrier"} /\ filter_map \in 1..2
      /\ Len(delta) \in Nat
  BY SMTT(120) DEF TypeInv, TypeOK, ManagerTypeOK, VacuumTypeOK
<1>2. /\ trimmed' \in Nat /\ cursor' \in Nat /\ min_vsn' \in Nat
  BY Zenon DEF TypeInv, TypeOK, ManagerTypeOK, VacuumTypeOK
<1>3. SUFFICES ASSUME NEW t \in 1..2 PROVE trees' = trees /\ Merged(t)' = Merged(t)
  BY 1 \in 1..2, Zenon
<1>4. Merged(t) = IF t = AltMap
                  THEN IF vpc = "apply" THEN cursor - 1
                       ELSE IF vpc \in {"mark", "swap", "trim"} THEN Planned ELSE trimmed
                  ELSE IF phase = "barrier" \/ vpc \in {"publish", "barrier"}
                       THEN Planned ELSE trimmed
  BY MergedValue, Zenon DEF MergedFits
<1>5. MergedFits'
  BY MergedValue, PTL
<1>6. /\ Merged(t)' = IF t = 3 - filter_map'
                     THEN IF vpc' = "apply" THEN cursor' - 1
                          ELSE IF vpc' \in {"mark", "swap", "trim"} THEN Planned' ELSE trimmed'
                     ELSE IF phase' = "barrier" \/ vpc' \in {"publish", "barrier"}
                          THEN Planned' ELSE trimmed'
  BY <1>5, Zenon DEF AltMap, MergedFits
<1>7. /\ Planned' = IF min_vsn' > trimmed' THEN min_vsn' ELSE trimmed'
      /\ Planned = IF min_vsn > trimmed THEN min_vsn ELSE trimmed
  BY Zenon DEF Planned
<1>8. CASE UNCHANGED <<treeVars, vpc, phase, cursor, min_vsn, trimmed>>
  BY <1>1, <1>4, <1>6, <1>7, <1>8, SMTT(120) DEF AltMap, treeVars
<1>9. ASSUME VacuumStep PROVE trees' = trees /\ Merged(t)' = Merged(t)
  <2>1. CASE MergeStart
    BY <1>1, <1>4, <1>6, <2>1, SMTT(120)
    DEF MergeStart, mgr, treeVars, deltaVars, VGoto, AltMap, roundVars, Planned
  <2>2. CASE MergeDone
    <3>1. /\ last = min_vsn /\ trimmed < cursor /\ cursor > last /\ vpc = "apply"
          /\ cursor <= last + 1 \/ cursor = trimmed + 1
      BY <2>2, ZenonT(60) DEF MergeDone, PlanInv, TypeInv, WalkFits
    <3> QED BY <1>1, <1>4, <1>6, <1>7, <2>2, <3>1, SMTT(120)
            DEF MergeDone, mgr, treeVars, deltaVars, VGoto, AltMap, roundVars
  <2>3. CASE SwapMaps
    <3>1. phase = "plan" /\ vpc = "swap"
      BY <2>3, ZenonT(60) DEF SwapMaps, PhaseInv
    <3> QED BY <1>1, <1>4, <1>6, <1>7, <2>3, <3>1, SMTT(120)
            DEF SwapMaps, deltaVars, VGoto, AltMap, roundVars, walkVars
  <2>4. CASE TrimDeltas
    <3>1. phase = "barrier" /\ vpc = "trim" /\ min_vsn <= Len(delta)
      BY <2>4, ZenonT(60) DEF TrimDeltas, PhaseInv, PlanInv
    <3>2. trimmed' = Planned /\ trimmed <= Planned
      BY <1>1, <2>4, <3>1, SMTT(120) DEF TrimDeltas, Planned, Least
    <3> QED BY <1>1, <1>4, <1>6, <1>7, <2>4, <3>1, <3>2, SMTT(120)
            DEF TrimDeltas, VGoto, AltMap, roundVars, treeVars
  <2>5. CASE ClearPending
    <3>1. phase = "barrier" /\ vpc = "reap" /\ min_vsn <= trimmed
      BY <2>5, ZenonT(60) DEF ClearPending, PhaseInv, PlanInv
    <3> QED BY <1>1, <1>4, <1>6, <1>7, <2>5, <3>1, SMTT(120)
            DEF ClearPending, VGoto, AltMap, deltaVars
  <2>6. CASE PlanDone
    BY <1>1, <1>4, <1>6, <2>6, SMTT(120)
    DEF PlanDone, VGoto, AltMap, mgr, treeVars, deltaVars
  <2>7. CASE MarkPending \/ PublishVsn
    <3>1. phase = "plan"
      BY <2>7, ZenonT(60) DEF MarkPending, PublishVsn, PhaseInv
    <3> QED BY <1>1, <1>4, <1>6, <1>7, <2>7, <3>1, SMTT(120)
            DEF MarkPending, PublishVsn, VGoto, AltMap, deltaVars, roundVars,
                walkVars
  <2>8. CASE BarrierBump \/ BarrierLink \/ BarrierPoll \/ PollDone
    <3>1. /\ UNCHANGED <<trees, filter_map, trimmed, min_vsn>> /\ phase' = "barrier"
          /\ vpc \in {"barrier", "blink", "poll", "scan"}
          /\ vpc' \in {"blink", "poll", "min", "merge"}
          /\ (phase = "barrier" \/ vpc = "barrier")
      BY <2>8, ZenonT(60)
      DEF BarrierBump, BarrierLink, BarrierPoll, PollDone, PhaseInv, VGoto, mgr,
          treeVars, deltaVars, roundVars
    <3> QED BY <1>1, <1>4, <1>6, <1>7, <3>1, SMTT(120) DEF AltMap
  <2>9. CASE VacuumExit \/ VacuumTop \/ VacuumSpecial \/ ClientMinVsn \/ ClientMinHead
    <3>1. /\ UNCHANGED <<trees, filter_map, trimmed, min_vsn, phase>>
          /\ vpc \in {"top", "special", "min", "clients"}
          /\ vpc' \in {"top", "special", "min", "clients", "scan", "exited"}
      BY <2>9, ZenonT(60)
      DEF VacuumExit, VacuumTop, VacuumSpecial, ClientMinVsn, ClientMinHead,
          VGoto, mgr, treeVars, deltaVars, roundVars
    <3> QED BY <1>1, <1>4, <1>6, <1>7, <3>1, SMTT(120) DEF AltMap
  <2>10. CASE Reap \/ Destroy
    <3>1. /\ UNCHANGED <<trees, filter_map, trimmed, min_vsn, phase>>
          /\ vpc \in {"reap", "exited"} /\ vpc' \in {"reap", "destroyed"}
      BY <2>10, Zenon DEF Reap, Destroy, VGoto, treeVars, roundVars
    <3> QED BY <1>1, <1>4, <1>6, <1>7, <3>1, SMTT(120) DEF AltMap
  <2>11. CASE \E c \in Clients : ClientMinScan(c)
    BY <1>8, <2>11, Zenon DEF ClientMinScan, mgr, deltaVars, roundVars
  <2> QED BY <1>9, <2>1, <2>2, <2>3, <2>4, <2>5, <2>6, <2>7, <2>8, <2>9, <2>10,
             <2>11, ZenonT(60)
          DEF VacuumStep
<1>10. ASSUME NEW c \in Clients, ClientAction(c) PROVE trees' = trees /\ Merged(t)' = Merged(t)
  BY <1>8, <1>10, ClientFrame, Zenon DEF vacuum, roundVars, walkVars
<1>11. CASE Shutdown
  BY <1>8, <1>11, Zenon DEF Shutdown, vacuum, roundVars, walkVars, deltaVars
<1>12. CASE UNCHANGED vars
  BY <1>8, <1>12, Zenon DEF vars, mgr, vacuum, roundVars, walkVars, deltaVars
<1> QED BY <1>9, <1>10, <1>11, <1>12, NextCases, ZenonT(60)

\* merge_old_versions removes what a delta deletes, and what a delta creates
\* is deleted by a later one only.
LEMMA TreeStep ==
  ASSUME TypeInv, TypeInv', PlanInv, PlanInv', PhaseInv, HistoryInv, TreeInv, [Next]_vars
  PROVE  TreeInv'
<1> USE ConstantsAssumption
<1>1. ManagerTypeOK
  BY ZenonT(60) DEF TypeInv, TypeOK
<1>2. MergedFits /\ Len(delta) \in Nat
  BY <1>1, MergedValue, SMTT(120) DEF ManagerTypeOK
<1>3. MergedFits'
  BY MergedValue, PTL
<1>4. SUFFICES ASSUME NEW t \in 1..2, NEW n \in Names
               PROVE  ~DeadIn(delta', trees'[t][n], Merged(t)')
  BY Zenon DEF TreeInv, Dead
<1>5. ~DeadIn(delta, trees[t][n], Merged(t)) /\ Merged(t) \in Int /\ Merged(t)' \in Int
      /\ Merged(t) <= Len(delta)
  BY <1>2, <1>3, Zenon DEF TreeInv, Dead, MergedFits
<1>6. CASE ~MergeApply
  <2>1. trees' = trees /\ Merged(t)' = Merged(t)
    BY <1>6, MergedStep, Zenon
  <2>2. ~DeadIn(delta, trees[t][n], Merged(t)')
    BY <1>1, <1>2, <1>5, <2>1, DeadMonotone, ZenonT(60)
  <2>3. Merged(t)' <= Len(delta)
    BY <1>1, <1>2, <1>5, <2>1, SMTT(120)
  <2> QED BY <1>5, <2>1, <2>2, <2>3, DeadStep, Zenon
<1>7. CASE MergeApply
  <2>1. /\ delta' = delta /\ vpc = "apply" /\ vpc' = "apply" /\ cursor' = cursor + 1
        /\ UNCHANGED <<filter_map, phase, trimmed, min_vsn>>
        /\ trees' = [trees EXCEPT ![AltMap] = Applied(@, delta[cursor])]
        /\ cursor \in 1..Len(delta)
    <3>1. last <= Len(delta) /\ cursor <= last /\ cursor \in Nat /\ last \in Nat /\ trimmed < cursor
          /\ trimmed \in Nat
      BY <1>7, Zenon
      DEF MergeApply, TypeInv, WalkFits, TypeOK, VacuumTypeOK, ManagerTypeOK
    <3>2. cursor \in 1..Len(delta)
      BY <1>2, <3>1, SMTT(120)
    <3> QED BY <1>7, <3>2, Zenon DEF MergeApply, deltaVars, roundVars
  <2>2. AltMap \in 1..2 /\ AltMap' = AltMap /\ trees \in [1..2 -> [Names -> MaybeWrapper]]
    <3>1. filter_map \in 1..2 /\ trees \in [1..2 -> [Names -> MaybeWrapper]]
      BY <1>1, Zenon DEF ManagerTypeOK
    <3>2. AltMap \in 1..2
      BY <3>1, SMTT(120) DEF AltMap
    <3> QED BY <2>1, <3>1, <3>2, Zenon DEF AltMap
  <2>3. CASE t # AltMap
    <3>1. trees'[t] = trees[t]
      BY <2>1, <2>2, <2>3, Zenon
    <3>2. Merged(t)' = Merged(t)
      BY <2>1, <2>2, <2>3, Zenon DEF Merged
    <3> QED BY <1>5, <2>1, <3>1, <3>2, Zenon
  <2>4. CASE t = AltMap
    <3>1. Merged(t) = cursor - 1 /\ Merged(t)' = cursor
      BY <2>1, <2>2, <2>4, SMTT(120) DEF Merged
    <3>2. trees'[t] = Applied(trees[t], delta[cursor])
      BY <2>1, <2>2, <2>4, Zenon
    <3>3. delta[cursor].type \in Types /\ (delta[cursor].type # "BARRIER" => delta[cursor].filter \in Wrappers)
      BY <1>1, <1>2, <2>1, NodeType, Zenon
    <3>4. SUFFICES ASSUME DeadIn(delta, trees'[t][n], cursor) PROVE FALSE
      BY <2>1, <3>1, Zenon
    <3>5. PICK v \in 1..Len(delta) : v <= cursor /\ delta[v] = Node("DELETE", trees'[t][n])
      BY <3>4, ZenonT(60) DEF DeadIn
    <3>6. delta[v].type = "DELETE" /\ delta[v].filter = trees'[t][n] /\ trees'[t][n] # NULL
      BY <1>1, <1>2, <3>5, SMTT(120) DEF Node, ManagerTypeOK
    <3>7. CASE delta[cursor].type # "BARRIER" /\ n = wname[delta[cursor].filter]
      <4>1. trees'[t][n] = IF delta[cursor].type = "CREATE" THEN delta[cursor].filter ELSE NULL
        BY <2>2, <3>2, <3>7, Zenon DEF Applied
      <4>2. delta[cursor].type = "CREATE" /\ trees'[t][n] = delta[cursor].filter
        BY <3>6, <4>1, Zenon
      <4>3. cursor <= v
        BY <2>1, <3>6, <4>2, Zenon DEF HistoryInv
      <4>4. v = cursor
        BY <1>2, <2>1, <3>5, <4>3, SamePlace, Zenon
      <4>5. "DELETE" # "CREATE"
        BY SMTT(120)
      <4> QED BY <3>6, <4>2, <4>4, <4>5, Zenon
    <3>8. CASE delta[cursor].type = "BARRIER" \/ n # wname[delta[cursor].filter]
      <4>1. trees'[t][n] = trees[t][n]
        BY <2>2, <3>2, <3>8, Zenon DEF Applied
      <4>2. wname[trees[t][n]] = n
        BY <3>6, <4>1, Zenon DEF TypeInv, Named
      <4>3. v # cursor
        BY <3>6, <3>8, <4>1, <4>2, Zenon
      <4> QED BY <1>1, <1>2, <1>5, <2>1, <3>1, <3>5, <4>1, <4>3, SMTT(120)
              DEF DeadIn
    <3> QED BY <3>7, <3>8, ZenonT(60)
  <2> QED BY <2>3, <2>4, Zenon
<1> QED BY <1>6, <1>7, Zenon

===============================================================================
