-------------------------- MODULE FilterManagerTypes --------------------------
(***************************************************************************)
(* What a step of the filter manager may change, for any number of         *)
(* threads, names and wrappers: the frame lemmas, how the delta list       *)
(* grows, and type correctness.  TypeOK alone is not inductive: TypeInv    *)
(* adds that each local is set where it is used and that every wrapper in  *)
(* reach has its name.                                                     *)
(***************************************************************************)
EXTENDS FilterManager, TLAPS

\* A call of the public interface is under way.
InCall ==
  {"lock", "load", "search", "compare", "compare2", "head", "walk", "next",
   "listed", "miss", "found", "use", "add", "bump", "link"}

Walking == {"walk", "next"}
Holding == {"found", "use", "bump", "link"}

-----------------------------------------------------------------------------
(***************************************************************************)
(* What makes TypeOK inductive: each local is set where it is used, and    *)
(* every wrapper that can be reached has its name.                         *)
(***************************************************************************)

\* The locals of client c fit the place it is at.
LocalsFit(c) ==
  /\ pc[c] = "search" => tree[c] \in 1..2
  /\ pc[c] \in Walking => cur[c] \in 1..Len(delta)
  /\ pc[c] \in InCall => op[c] # "none"
  /\ pc[c] \in InCall /\ op[c] \notin ListOps => arg[c] \in Names
  /\ pc[c] \in {"compare", "compare2", "head"} \cup Walking => op[c] # "cold"
  /\ pc[c] \in {"miss", "add"} \cup Holding => op[c] \notin ListOps
  /\ pc[c] = "add" => op[c] = "create"
  /\ pc[c] \in {"lock", "bump", "link"} => op[c] \in WriteOps
  /\ pc[c] \in Holding => filt[c] \in Wrappers /\ wname[filt[c]] \in Names

\* A wrapper is filed under its own name, and a delta is about a named one.
Named ==
  /\ \A t \in 1..2, n \in Names : trees[t][n] # NULL => wname[trees[t][n]] = n
  /\ \A v \in 1..Len(delta) :
       delta[v].type # "BARRIER" => wname[delta[v].filter] \in Names

\* The vacuum's walks stay inside the list.
WalkFits ==
  /\ vpc = "apply" => /\ trimmed < cursor /\ last <= Len(delta)
                      /\ cursor <= last + 1 \/ cursor = trimmed + 1
  /\ vpc = "reap" => last <= cursor /\ cursor <= trimmed

TypeInv ==
  /\ TypeOK
  /\ \A c \in Clients : LocalsFit(c)
  /\ Named
  /\ WalkFits

-----------------------------------------------------------------------------
(***************************************************************************)
(* Frame lemmas.                                                           *)
(***************************************************************************)

\* Any step of client c.
ClientAction(c) ==
  \/ ClientStep(c)
  \/ CheckpointRead(c)
  \/ \E o \in Ops, n \in Names : Call(c, o, n)

\* Every step is one of a client or of the vacuum, the shutdown or a stutter.
LEMMA NextCases ==
  ASSUME [Next]_vars
  PROVE  \/ \E c \in Clients : ClientAction(c)
         \/ VacuumStep
         \/ Shutdown
         \/ UNCHANGED vars
BY Zenon DEF Next, ClientAction, Terminated

\* A client changes no tree, cuts nothing off the list and does not touch the
\* locals of the vacuum.
LEMMA ClientFrame ==
  ASSUME NEW c \in Clients, ClientAction(c)
  PROVE  UNCHANGED <<vacuum, should_run, treeVars, trimmed>>
BY Zenon
DEF ClientAction, Call, CheckpointRead, ClientStep, Return, mgr, clientList,
    treeVars, deltaVars, wrapVars, locals, clientSide, roundVars, walkVars,
    vacuum, vars, CheckpointStore, Lock, LoadTree, Search, IterList, IterCold,
    ReadPrimaryVsn, CompareVsn, ReadDelta, WalkMatch, WalkOn, WalkNext,
    ListDone, Miss, CreatePending, Refuse, Take, UseKeys, UsePeek, UseUnmap,
    AddFails, DropFilter, ClearFilter, BumpVsn, LinkDelta, AddFilter

\* Only three client actions change other fields of the manager.
LEMMA ClientManagerFrame ==
  ASSUME NEW c \in Clients, ClientAction(c)
  PROVE  \/ UNCHANGED mgr
         \/ CheckpointStore(c)
         \/ BumpVsn(c)
         \/ LinkDelta(c)
BY Zenon
DEF ClientAction, Call, CheckpointRead, ClientStep, mgr, clientList, treeVars,
    deltaVars, wrapVars, locals, clientSide, roundVars, walkVars, vacuum, vars,
    Lock, LoadTree, Search, IterList, IterCold, ReadPrimaryVsn, CompareVsn,
    ReadDelta, WalkMatch, WalkOn, WalkNext, ListDone, Miss, CreatePending,
    Refuse, Take, UseKeys, UsePeek, UseUnmap, AddFails, DropFilter, ClearFilter,
    AddFilter

\* The client actions that change a wrapper or a folder.
LEMMA ClientWrapperFrame ==
  ASSUME NEW c \in Clients, ClientAction(c)
  PROVE  \/ UNCHANGED wrapVars
         \/ IterCold(c) \/ UseKeys(c) \/ UseUnmap(c) \/ AddFails(c)
         \/ DropFilter(c) \/ ClearFilter(c)
         \/ \E w \in Wrappers : AddFilter(c, w)
BY ZenonT(60)
DEF ClientAction, Call, CheckpointRead, ClientStep, mgr, clientList, treeVars,
    deltaVars, wrapVars, locals, clientSide, roundVars, walkVars, vacuum, vars,
    CheckpointStore, Lock, LoadTree, Search, IterList, ReadPrimaryVsn,
    CompareVsn, ReadDelta, WalkMatch, WalkOn, WalkNext, ListDone, Miss,
    CreatePending, Refuse, Take, UsePeek, BumpVsn, LinkDelta

\* The vacuum changes no client, no name and no flag but should_delete.
LEMMA VacuumFrame ==
  ASSUME VacuumStep
  PROVE  UNCHANGED <<clientSide, should_run, clientList, wname, is_active, is_hot>>
BY Zenon
DEF VacuumStep, mgr, clientList, treeVars, deltaVars, wrapVars, locals,
    clientSide, roundVars, walkVars, vacuum, vars, VacuumExit, VacuumTop,
    VacuumSpecial, ClientMinVsn, ClientMinHead, PlanDone, MergeStart,
    MergeApply, MergeDone, MarkPending, SwapMaps, PublishVsn, BarrierBump,
    BarrierLink, BarrierPoll, PollDone, TrimDeltas, Reap, ClearPending, Destroy,
    ClientMinScan

\* The vacuum actions that change a wrapper or a folder.
LEMMA VacuumWrapperFrame ==
  ASSUME VacuumStep
  PROVE  UNCHANGED wrapVars \/ Reap \/ Destroy
BY Zenon
DEF VacuumStep, mgr, clientList, treeVars, deltaVars, wrapVars, locals,
    clientSide, roundVars, walkVars, vacuum, vars, VacuumExit, VacuumTop,
    VacuumSpecial, ClientMinVsn, ClientMinHead, PlanDone, MergeStart,
    MergeApply, MergeDone, MarkPending, SwapMaps, PublishVsn, BarrierBump,
    BarrierLink, BarrierPoll, PollDone, TrimDeltas, ClearPending, ClientMinScan

\* The vacuum actions that change the trees or what is said of them.
LEMMA VacuumTreeFrame ==
  ASSUME VacuumStep
  PROVE  \/ UNCHANGED treeVars
         \/ VacuumSpecial \/ MergeApply \/ MarkPending \/ SwapMaps \/ PublishVsn
         \/ ClearPending
BY Zenon
DEF VacuumStep, mgr, clientList, treeVars, deltaVars, wrapVars, locals,
    clientSide, roundVars, walkVars, vacuum, vars, VacuumExit, VacuumTop,
    ClientMinVsn, ClientMinHead, PlanDone, MergeStart, MergeDone, BarrierBump,
    BarrierLink, BarrierPoll, PollDone, TrimDeltas, Reap, Destroy, ClientMinScan

\* The vacuum actions that change the delta list, the version or the lock.
LEMMA VacuumDeltaFrame ==
  ASSUME VacuumStep
  PROVE  \/ UNCHANGED <<deltaVars, vsn, write_lock>>
         \/ BarrierBump \/ BarrierLink \/ TrimDeltas \/ Reap \/ Destroy
BY Zenon
DEF VacuumStep, mgr, clientList, treeVars, deltaVars, wrapVars, locals,
    clientSide, roundVars, walkVars, vacuum, vars, VacuumExit, VacuumTop,
    VacuumSpecial, ClientMinVsn, ClientMinHead, PlanDone, MergeStart,
    MergeApply, MergeDone, MarkPending, SwapMaps, PublishVsn, BarrierPoll,
    PollDone, ClearPending, ClientMinScan

\* A client takes the free lock, gives back its own, or leaves it alone.
LEMMA ClientLock ==
  ASSUME NEW c \in Clients, ClientAction(c)
  PROVE  \/ write_lock' = write_lock
         \/ write_lock = NULL /\ write_lock' = c
         \/ write_lock = c /\ write_lock' = NULL
<1>1. CASE Lock(c)
  BY <1>1, Zenon DEF Lock
<1>2. CASE Return(c)
  BY <1>2, Zenon DEF Return
<1>3. CASE UNCHANGED write_lock
  BY <1>3, Zenon
<1> QED BY <1>1, <1>2, <1>3, Zenon
        DEF ClientAction, Call, CheckpointRead, ClientStep, CheckpointStore,
            LoadTree, Search, IterList, IterCold, ReadPrimaryVsn, CompareVsn,
            ReadDelta, WalkMatch, WalkOn, WalkNext, ListDone, Miss,
            CreatePending, Refuse, Take, UseKeys, UsePeek, UseUnmap, AddFails,
            DropFilter, ClearFilter, BumpVsn, LinkDelta, AddFilter

\* How a client gets to the places at which it holds something.
LEMMA Arrivals ==
  ASSUME ClientTypeOK, NEW c \in Clients, ClientAction(c)
  PROVE  /\ pc'[c] = "search" => LoadTree(c)
         /\ pc'[c] = "walk" => ReadDelta(c) \/ WalkNext(c)
         /\ pc'[c] = "next" => WalkOn(c)
         /\ pc'[c] = "found" => Search(c) \/ WalkMatch(c)
         /\ pc'[c] = "use" => Take(c)
         /\ pc'[c] = "bump" => DropFilter(c) \/ ClearFilter(c) \/ \E w \in Wrappers : AddFilter(c, w)
         /\ pc'[c] = "link" => BumpVsn(c)
<1>1. pc'[c] = "search" => LoadTree(c)
  BY Zenon
  DEF ClientTypeOK, ClientAction, ClientStep, Call, CheckpointRead, Goto,
      Return, Missed, locals, CheckpointStore, Lock, Search, IterList, IterCold,
      ReadPrimaryVsn, CompareVsn, ReadDelta, WalkMatch, WalkOn, WalkNext,
      ListDone, Miss, CreatePending, Refuse, Take, UseKeys, UsePeek, UseUnmap,
      AddFails, DropFilter, ClearFilter, AddFilter, BumpVsn, LinkDelta
<1>2. pc'[c] = "walk" => ReadDelta(c) \/ WalkNext(c)
  BY Zenon
  DEF ClientTypeOK, ClientAction, ClientStep, Call, CheckpointRead, Goto,
      Return, Missed, locals, CheckpointStore, Lock, LoadTree, Search, IterList,
      IterCold, ReadPrimaryVsn, CompareVsn, WalkMatch, WalkOn, ListDone, Miss,
      CreatePending, Refuse, Take, UseKeys, UsePeek, UseUnmap, AddFails,
      DropFilter, ClearFilter, AddFilter, BumpVsn, LinkDelta
<1>3. pc'[c] = "next" => WalkOn(c)
  BY ZenonT(60)
  DEF ClientTypeOK, ClientAction, ClientStep, Call, CheckpointRead, Goto,
      Return, Missed, locals, CheckpointStore, Lock, LoadTree, Search, IterList,
      IterCold, ReadPrimaryVsn, CompareVsn, ReadDelta, WalkMatch, WalkNext,
      ListDone, Miss, CreatePending, Refuse, Take, UseKeys, UsePeek, UseUnmap,
      AddFails, DropFilter, ClearFilter, AddFilter, BumpVsn, LinkDelta
<1>4. pc'[c] = "found" => Search(c) \/ WalkMatch(c)
  BY Zenon
  DEF ClientTypeOK, ClientAction, ClientStep, Call, CheckpointRead, Goto,
      Return, Missed, locals, CheckpointStore, Lock, LoadTree, IterList,
      IterCold, ReadPrimaryVsn, CompareVsn, ReadDelta, WalkOn, WalkNext,
      ListDone, Miss, CreatePending, Refuse, Take, UseKeys, UsePeek, UseUnmap,
      AddFails, DropFilter, ClearFilter, AddFilter, BumpVsn, LinkDelta
<1>5. pc'[c] = "use" => Take(c)
  BY Zenon
  DEF ClientTypeOK, ClientAction, ClientStep, Call, CheckpointRead, Goto,
      Return, Missed, locals, CheckpointStore, Lock, LoadTree, Search, IterList,
      IterCold, ReadPrimaryVsn, CompareVsn, ReadDelta, WalkMatch, WalkOn,
      WalkNext, ListDone, Miss, CreatePending, Refuse, UseKeys, UsePeek,
      UseUnmap, AddFails, DropFilter, ClearFilter, AddFilter, BumpVsn, LinkDelta
<1>6. pc'[c] = "bump" => DropFilter(c) \/ ClearFilter(c) \/ \E w \in Wrappers : AddFilter(c, w)
  BY Zenon
  DEF ClientTypeOK, ClientAction, ClientStep, Call, CheckpointRead, Goto,
      Return, Missed, locals, CheckpointStore, Lock, LoadTree, Search, IterList,
      IterCold, ReadPrimaryVsn, CompareVsn, ReadDelta, WalkMatch, WalkOn,
      WalkNext, ListDone, Miss, CreatePending, Refuse, Take, UseKeys, UsePeek,
      UseUnmap, AddFails, BumpVsn, LinkDelta
<1>7. pc'[c] = "link" => BumpVsn(c)
  BY Zenon
  DEF ClientTypeOK, ClientAction, ClientStep, Call, CheckpointRead, Goto,
      Return, Missed, locals, CheckpointStore, Lock, LoadTree, Search, IterList,
      IterCold, ReadPrimaryVsn, CompareVsn, ReadDelta, WalkMatch, WalkOn,
      WalkNext, ListDone, Miss, CreatePending, Refuse, Take, UseKeys, UsePeek,
      UseUnmap, AddFails, DropFilter, ClearFilter, AddFilter, LinkDelta
<1> QED BY <1>1, <1>2, <1>3, <1>4, <1>5, <1>6, <1>7, Zenon

\* The locals of client d stay as they are.
LocalsSame(d) ==
  /\ pc'[d] = pc[d] /\ op'[d] = op[d] /\ arg'[d] = arg[d]
  /\ tree'[d] = tree[d] /\ cur'[d] = cur[d] /\ filt'[d] = filt[d]
  /\ reg'[d] = reg[d] /\ (d \in early' <=> d \in early)

\* A step of one client leaves the locals of another alone.
LEMMA OtherClients ==
  ASSUME ClientTypeOK, NEW c \in Clients, ClientAction(c),
         NEW d \in Clients, d # c
  PROVE  LocalsSame(d)
<1> USE DEF LocalsSame, ClientTypeOK, Return, Goto, locals
<1>1. CASE CheckpointRead(c) BY <1>1, SMTT(120) DEF CheckpointRead
<1>2. CASE CheckpointStore(c) BY <1>2, SMTT(120) DEF CheckpointStore
<1>3. CASE Lock(c) BY <1>3, SMTT(120) DEF Lock
<1>4. CASE LoadTree(c) BY <1>4, SMTT(120) DEF LoadTree
<1>5. CASE Search(c) BY <1>5, SMTT(120) DEF Search
<1>6. CASE IterList(c) BY <1>6, SMTT(120) DEF IterList
<1>7. CASE IterCold(c) BY <1>7, SMTT(120) DEF IterCold
<1>8. CASE ReadPrimaryVsn(c) BY <1>8, SMTT(120) DEF ReadPrimaryVsn
<1>9. CASE CompareVsn(c) BY <1>9, SMTT(120) DEF CompareVsn
<1>10. CASE ReadDelta(c) BY <1>10, SMTT(120) DEF ReadDelta
<1>11. CASE WalkMatch(c) BY <1>11, SMTT(120) DEF WalkMatch
<1>12. CASE WalkOn(c) BY <1>12, SMTT(120) DEF WalkOn
<1>13. CASE WalkNext(c) BY <1>13, SMTT(120) DEF WalkNext
<1>14. CASE ListDone(c) BY <1>14, SMTT(120) DEF ListDone
<1>15. CASE Miss(c) BY <1>15, SMTT(120) DEF Miss
<1>16. CASE CreatePending(c) BY <1>16, SMTT(120) DEF CreatePending
<1>17. CASE Refuse(c) BY <1>17, SMTT(120) DEF Refuse
<1>18. CASE Take(c) BY <1>18, SMTT(120) DEF Take
<1>19. CASE UseKeys(c) BY <1>19, SMTT(120) DEF UseKeys
<1>20. CASE UsePeek(c) BY <1>20, SMTT(120) DEF UsePeek
<1>21. CASE UseUnmap(c) BY <1>21, SMTT(120) DEF UseUnmap
<1>22. CASE AddFails(c) BY <1>22, SMTT(120) DEF AddFails
<1>23. CASE DropFilter(c) BY <1>23, SMTT(120) DEF DropFilter
<1>24. CASE ClearFilter(c) BY <1>24, SMTT(120) DEF ClearFilter
<1>25. CASE BumpVsn(c) BY <1>25, SMTT(120) DEF BumpVsn
<1>26. CASE LinkDelta(c) BY <1>26, SMTT(120) DEF LinkDelta
<1>27. CASE \E w \in Wrappers : AddFilter(c, w) BY <1>27, SMTT(120) DEF AddFilter
<1>28. CASE \E o \in Ops, n \in Names : Call(c, o, n) BY <1>28, SMTT(120) DEF Call
<1> QED BY <1>1, <1>2, <1>3, <1>4, <1>5, <1>6, <1>7, <1>8, <1>9, <1>10, <1>11,
           <1>12, <1>13, <1>14, <1>15, <1>16, <1>17, <1>18, <1>19, <1>20, <1>21,
           <1>22, <1>23, <1>24, <1>25, <1>26, <1>27, <1>28, Zenon
        DEF ClientAction, ClientStep

-----------------------------------------------------------------------------
(***************************************************************************)
(* The delta list.                                                         *)
(***************************************************************************)

\* What Append does to a sequence.
LEMMA AppendProps ==
  ASSUME NEW S, NEW s \in Seq(S), NEW e \in S
  PROVE  /\ Append(s, e) \in Seq(S)
         /\ Len(Append(s, e)) = Len(s) + 1
         /\ \A i \in 1..Len(s) : Append(s, e)[i] = s[i]
         /\ Append(s, e)[Len(s) + 1] = e
OBVIOUS

\* The elements of a sequence are those of its range.
LEMMA ElementProp ==
  ASSUME NEW S, NEW s \in Seq(S), NEW i \in 1..Len(s)
  PROVE  s[i] \in S
OBVIOUS

\* A list has a length.
LEMMA DeltaLength ==
  ASSUME ManagerTypeOK PROVE Len(delta) \in Nat
<1>1. delta \in Seq([type : Types, filter : MaybeWrapper])
  BY Zenon DEF ManagerTypeOK
<1> QED BY <1>1, SMTT(120)

\* What a delta node is.
LEMMA NodeType ==
  ASSUME ManagerTypeOK, NEW v \in 1..Len(delta)
  PROVE  /\ delta[v] \in [type : Types, filter : MaybeWrapper]
         /\ delta[v].type \in Types
         /\ delta[v].filter \in MaybeWrapper
         /\ delta[v].type # "BARRIER" => delta[v].filter \in Wrappers
<1>1. delta \in Seq([type : Types, filter : MaybeWrapper])
  BY Zenon DEF ManagerTypeOK
<1>2. delta[v] \in [type : Types, filter : MaybeWrapper]
  BY <1>1, ElementProp, Zenon
<1> QED BY <1>2, Zenon DEF ManagerTypeOK, MaybeWrapper

\* What LinkNode does to the list.
LEMMA LinkType ==
  ASSUME ManagerTypeOK, NEW type \in Types, NEW w \in MaybeWrapper,
         type # "BARRIER" => w # NULL, LinkNode(type, w)
  PROVE  /\ delta' \in Seq([type : Types, filter : MaybeWrapper])
         /\ Len(delta') = Len(delta) + 1
         /\ \A v \in 1..Len(delta) : delta'[v] = delta[v]
         /\ delta'[Len(delta) + 1] = Node(type, w)
         /\ \A v \in 1..Len(delta') :
              delta'[v].type # "BARRIER" => delta'[v].filter # NULL
         /\ nodes' \subseteq 1..Len(delta')
<1>1. Node(type, w) \in [type : Types, filter : MaybeWrapper]
  BY Zenon DEF Node
<1>2. /\ delta' \in Seq([type : Types, filter : MaybeWrapper])
      /\ Len(delta') = Len(delta) + 1
      /\ \A v \in 1..Len(delta) : delta'[v] = delta[v]
      /\ delta'[Len(delta) + 1] = Node(type, w)
  BY <1>1, AppendProps, SMTT(120) DEF ManagerTypeOK, LinkNode
<1>3. \A v \in 1..Len(delta') : delta'[v].type # "BARRIER" => delta'[v].filter # NULL
  BY <1>2, SMTT(120) DEF ManagerTypeOK, Node
<1>4. nodes' \subseteq 1..Len(delta')
  <2>1. Len(delta) \in Nat /\ nodes \subseteq 1..Len(delta)
    BY SMTT(120) DEF ManagerTypeOK
  <2>2. nodes' = nodes \cup {Len(delta) + 1}
    BY Zenon DEF LinkNode
  <2>3. ASSUME NEW v \in nodes' PROVE v \in 1..Len(delta')
    <3>1. v \in 1..Len(delta) \/ v = Len(delta) + 1
      BY <2>1, <2>2, Zenon
    <3>2. Len(delta') = Len(delta) + 1
      BY <1>2, Zenon
    <3> QED BY <2>1, <3>1, <3>2, SMTT(120)
  <2> QED BY <2>3, Zenon
<1> QED BY <1>2, <1>3, <1>4, Zenon

\* The list after a step: the same, or longer by one node.
Linked(type, w) ==
  /\ type \in Types /\ w \in MaybeWrapper
  /\ delta' \in Seq([type : Types, filter : MaybeWrapper])
  /\ Len(delta) \in Nat /\ Len(delta') = Len(delta) + 1
  /\ \A v \in 1..Len(delta) : delta'[v] = delta[v]
  /\ delta'[Len(delta) + 1] = Node(type, w)
  /\ \A v \in 1..Len(delta') :
       delta'[v].type # "BARRIER" => delta'[v].filter # NULL
  /\ nodes' \subseteq 1..Len(delta')

\* The type of the node that a client links.
LinkedType(c) == IF op[c] = "create" THEN "CREATE" ELSE "DELETE"

\* create_delta_update links a node about the wrapper of the call.
LEMMA LinkDeltaLinks ==
  ASSUME TypeInv, NEW c \in Clients, LinkDelta(c)
  PROVE  Linked(LinkedType(c), filt[c])
<1>1. filt[c] \in MaybeWrapper /\ filt[c] # NULL
  BY ConstantsAssumption, Zenon
  DEF TypeInv, LinkDelta, LocalsFit, Holding, MaybeWrapper
<1>2. LinkedType(c) \in Types /\ LinkNode(LinkedType(c), filt[c])
  BY Zenon DEF LinkDelta, Types, LinkedType
<1>3. ManagerTypeOK /\ Len(delta) \in Nat
  BY DeltaLength, Zenon DEF TypeInv, TypeOK
<1> QED BY <1>1, <1>2, <1>3, LinkType, Zenon DEF Linked

\* version_barrier links a node about no wrapper.
LEMMA BarrierLinkLinks ==
  ASSUME TypeInv, BarrierLink
  PROVE  Linked("BARRIER", NULL)
<1>1. "BARRIER" \in Types /\ NULL \in MaybeWrapper /\ LinkNode("BARRIER", NULL)
  BY Zenon DEF BarrierLink, Types, MaybeWrapper
<1>2. ManagerTypeOK /\ Len(delta) \in Nat
  BY DeltaLength, Zenon DEF TypeInv, TypeOK
<1> QED BY <1>1, <1>2, LinkType, Zenon DEF Linked

\* The list only grows at its head, and a wrapper keeps its name.
LEMMA Grows ==
  ASSUME TypeInv, [Next]_vars
  PROVE  /\ Len(delta) \in Nat /\ Len(delta') \in Nat /\ Len(delta) <= Len(delta')
         /\ \A v \in 1..Len(delta) : delta'[v] = delta[v]
         /\ \A w \in Wrappers : wname[w] # NULL => wname'[w] = wname[w]
<1>1. Len(delta) \in Nat
  BY DeltaLength, Zenon DEF TypeInv, TypeOK
<1>2. /\ Len(delta') \in Nat /\ Len(delta) <= Len(delta')
      /\ \A v \in 1..Len(delta) : delta'[v] = delta[v]
  <2>1. CASE UNCHANGED delta
    BY <1>1, <2>1, SMTT(120)
  <2>2. ASSUME NEW type, NEW w, Linked(type, w)
        PROVE  /\ Len(delta') \in Nat /\ Len(delta) <= Len(delta')
               /\ \A v \in 1..Len(delta) : delta'[v] = delta[v]
    BY <2>2, SMTT(120) DEF Linked
  <2>3. CASE \E c \in Clients : LinkDelta(c)
    BY <2>2, <2>3, LinkDeltaLinks, Zenon
  <2>4. CASE BarrierLink
    BY <2>2, <2>4, BarrierLinkLinks, Zenon
  <2>5. ASSUME NEW c \in Clients, ClientAction(c) PROVE UNCHANGED delta \/ LinkDelta(c)
    BY <2>5, ClientManagerFrame, Zenon
    DEF mgr, deltaVars, CheckpointStore, BumpVsn
  <2>6. ASSUME VacuumStep PROVE UNCHANGED delta \/ BarrierLink
    BY <2>6, VacuumDeltaFrame, Zenon
    DEF deltaVars, BarrierBump, TrimDeltas, Reap, Destroy
  <2> QED BY <2>1, <2>3, <2>4, <2>5, <2>6, NextCases, Zenon
          DEF Shutdown, vars, mgr, deltaVars
<1>3. \A w \in Wrappers : wname[w] # NULL => wname'[w] = wname[w]
  <2>1. CASE UNCHANGED wname
    BY <2>1, Zenon
  <2>2. ASSUME NEW c \in Clients, ClientAction(c)
        PROVE  UNCHANGED wname \/ \E w \in Wrappers : AddFilter(c, w)
    BY <2>2, ClientWrapperFrame, Zenon
    DEF wrapVars, IterCold, UseKeys, UseUnmap, AddFails, DropFilter, ClearFilter
  <2>3. ASSUME NEW c \in Clients, NEW u \in Wrappers, AddFilter(c, u)
        PROVE  \A w \in Wrappers : wname[w] # NULL => wname'[w] = wname[w]
    BY <2>3, Zenon DEF AddFilter, TypeInv, TypeOK, WrapperTypeOK
  <2>4. CASE VacuumStep
    BY <2>1, <2>4, VacuumFrame, Zenon
  <2>5. CASE Shutdown \/ UNCHANGED vars
    BY <2>1, <2>5, Zenon DEF Shutdown, vars, wrapVars
  <2> QED BY <2>1, <2>2, <2>3, <2>4, <2>5, NextCases, Zenon
<1> QED BY <1>1, <1>2, <1>3, Zenon

-----------------------------------------------------------------------------
(***************************************************************************)
(* The types of what the threads share.                                    *)
(***************************************************************************)

\* Every step keeps the types of struct bloom_filtmgr.
LEMMA ManagerTypeStep == TypeInv /\ [Next]_vars => ManagerTypeOK'
<1> SUFFICES ASSUME TypeInv, [Next]_vars PROVE ManagerTypeOK'
  OBVIOUS
<1>0. ManagerTypeOK /\ ClientTypeOK /\ VacuumTypeOK /\ Named /\ WalkFits
  BY Zenon DEF TypeInv, TypeOK
<1> USE DEF mgr, clientList, treeVars, deltaVars
<1>1. ASSUME NEW c \in Clients, ClientAction(c) PROVE ManagerTypeOK'
  <2>1. write_lock' \in Clients \cup {Vacuum, NULL}
    BY <1>0, <1>1, ClientLock, Zenon DEF ManagerTypeOK
  <2>2. CASE UNCHANGED mgr
    BY <1>0, <2>1, <2>2, Zenon DEF ManagerTypeOK
  <2>3. CASE CheckpointStore(c)
    BY <1>0, <2>1, <2>3, Zenon DEF CheckpointStore, ManagerTypeOK, ClientTypeOK
  <2>4. CASE BumpVsn(c)
    BY <1>0, <2>1, <2>4, SMTT(120) DEF BumpVsn, ManagerTypeOK
  <2>5. CASE LinkDelta(c)
    <3>1. Linked(LinkedType(c), filt[c])
      BY <2>5, LinkDeltaLinks, Zenon
    <3>2. /\ UNCHANGED <<should_run, clientList, vsn, trimmed, treeVars>>
          /\ trimmed \in Nat /\ trimmed <= Len(delta)
      BY <1>0, <2>5, Zenon DEF LinkDelta, ManagerTypeOK
    <3> QED BY <1>0, <2>1, <3>1, <3>2, SMTT(120) DEF Linked, ManagerTypeOK
  <2> QED BY <1>1, <2>2, <2>3, <2>4, <2>5, ClientManagerFrame, Zenon
<1>2. ASSUME VacuumStep PROVE ManagerTypeOK'
  <2>0. UNCHANGED <<should_run, clients, client_vsn>>
    BY <1>2, VacuumFrame, Zenon
  <2>1. CASE UNCHANGED treeVars /\ UNCHANGED <<deltaVars, vsn, write_lock>>
    BY <1>0, <2>0, <2>1, Zenon DEF ManagerTypeOK
  <2>2. CASE VacuumSpecial
    BY <1>0, <2>2, Zenon DEF VacuumSpecial, ManagerTypeOK, VacuumTypeOK
  <2>3. CASE MergeApply
    <3>1. cursor \in 1..Len(delta) /\ AltMap \in 1..2
      <4>1. trimmed < cursor /\ cursor <= last /\ last <= Len(delta)
        BY <1>0, <2>3, Zenon DEF MergeApply, WalkFits
      <4>2. /\ trimmed \in Nat /\ cursor \in Nat /\ last \in Nat
            /\ Len(delta) \in Nat /\ filter_map \in 1..2
        BY <1>0, DeltaLength, Zenon DEF ManagerTypeOK, VacuumTypeOK
      <4> QED BY <4>1, <4>2, SMTT(120) DEF AltMap
    <3>2. delta[cursor].filter \in MaybeWrapper
      BY <1>0, <3>1, NodeType, Zenon
    <3>3. Applied(trees[AltMap], delta[cursor]) \in [Names -> MaybeWrapper]
      BY <1>0, <3>1, <3>2, Zenon DEF ManagerTypeOK, Applied, MaybeWrapper
    <3>4. trees' \in [1..2 -> [Names -> MaybeWrapper]]
      BY <1>0, <2>3, <3>3, Zenon DEF MergeApply, ManagerTypeOK
    <3> QED BY <1>0, <2>3, <3>4, Zenon DEF MergeApply, ManagerTypeOK
  <2>4. CASE MarkPending
    <3>1. trimmed \in Nat /\ Len(delta) \in Nat /\ min_vsn \in Nat
      BY <1>0, DeltaLength, Zenon DEF ManagerTypeOK, VacuumTypeOK
    <3>2. \A v \in trimmed + 1 .. Least(Len(delta), min_vsn) : v \in 1..Len(delta)
      BY <3>1, SMTT(120) DEF Least
    <3>3. pending_deletes' \subseteq Names
      BY <1>0, <2>4, <3>2, Zenon DEF MarkPending, Named
    <3>4. UNCHANGED <<should_run, clients, client_vsn, vsn, trees, filter_map,
                      primary_vsn, delta, trimmed, nodes, write_lock>>
      BY <2>4, Zenon DEF MarkPending
    <3> QED BY <1>0, <3>3, <3>4, Zenon DEF ManagerTypeOK
  <2>5. CASE SwapMaps
    <3>1. filter_map' \in 1..2
      BY <1>0, <2>5, SMTT(120) DEF SwapMaps, AltMap, ManagerTypeOK
    <3>2. UNCHANGED <<should_run, clients, client_vsn, vsn, trees, pending_deletes,
                      primary_vsn, delta, trimmed, nodes, write_lock>>
      BY <2>5, Zenon DEF SwapMaps
    <3> QED BY <1>0, <3>1, <3>2, Zenon DEF ManagerTypeOK
  <2>6. CASE PublishVsn
    BY <1>0, <2>6, Zenon DEF PublishVsn, ManagerTypeOK, VacuumTypeOK
  <2>7. CASE ClearPending
    BY <1>0, <2>7, Zenon DEF ClearPending, ManagerTypeOK
  <2>8. CASE BarrierBump
    BY <1>0, <2>8, SMTT(120) DEF BarrierBump, ManagerTypeOK
  <2>9. CASE BarrierLink
    <3>1. Linked("BARRIER", NULL)
      BY <2>9, BarrierLinkLinks, Zenon
    <3>2. /\ UNCHANGED <<should_run, clientList, vsn, trimmed, treeVars>>
          /\ write_lock' = NULL /\ trimmed \in Nat /\ trimmed <= Len(delta)
      BY <1>0, <2>9, Zenon DEF BarrierLink, ManagerTypeOK
    <3> QED BY <1>0, <3>1, <3>2, SMTT(120) DEF Linked, ManagerTypeOK
  <2>10. CASE TrimDeltas
    BY <1>0, <2>10, SMTT(120) DEF TrimDeltas, Least, ManagerTypeOK, VacuumTypeOK
  <2>11. CASE Reap
    BY <1>0, <2>11, Zenon DEF Reap, ManagerTypeOK
  <2>12. CASE Destroy
    BY <1>0, <2>12, Zenon DEF Destroy, ManagerTypeOK
  <2> QED BY <1>2, <2>1, <2>2, <2>3, <2>4, <2>5, <2>6, <2>7, <2>8, <2>9, <2>10,
             <2>11, <2>12, VacuumTreeFrame, VacuumDeltaFrame, Zenon
<1>3. CASE Shutdown
  BY <1>0, <1>3, Zenon DEF Shutdown, ManagerTypeOK
<1>4. CASE UNCHANGED vars
  BY <1>0, <1>4, Zenon DEF vars, ManagerTypeOK
<1> QED BY <1>1, <1>2, <1>3, <1>4, NextCases, Zenon

\* Every step keeps the types of the wrappers and of the folders.
LEMMA WrapperTypeStep == TypeInv /\ [Next]_vars => WrapperTypeOK'
<1> SUFFICES ASSUME TypeInv, [Next]_vars PROVE WrapperTypeOK'
  OBVIOUS
<1>0. WrapperTypeOK /\ ClientTypeOK /\ \A c \in Clients : LocalsFit(c)
  BY Zenon DEF TypeInv, TypeOK
<1> USE DEF WrapperTypeOK, wrapVars
<1>1. ASSUME NEW c \in Clients, ClientAction(c) PROVE WrapperTypeOK'
  <2>0. /\ pc[c] \in Holding => filt[c] \in Wrappers
        /\ pc[c] = "add" => arg[c] \in Names
    BY <1>0, Zenon DEF LocalsFit, InCall, ListOps
  <2>1. CASE UNCHANGED wrapVars
    BY <1>0, <2>1, Zenon
  <2>2. CASE IterCold(c)
    BY <1>0, <2>2, Zenon DEF IterCold
  <2>3. CASE UseKeys(c)
    BY <1>0, <2>0, <2>3, Zenon DEF UseKeys, Holding
  <2>4. CASE UseUnmap(c)
    BY <1>0, <2>0, <2>4, Zenon DEF UseUnmap, Holding
  <2>5. CASE AddFails(c)
    BY <1>0, <2>0, <2>5, Zenon DEF AddFails
  <2>6. CASE DropFilter(c)
    BY <1>0, <2>0, <2>6, Zenon DEF DropFilter, Holding
  <2>7. CASE ClearFilter(c)
    BY <1>0, <2>0, <2>7, Zenon DEF ClearFilter, Holding
  <2>8. ASSUME NEW w \in Wrappers, AddFilter(c, w) PROVE WrapperTypeOK'
    BY <1>0, <2>0, <2>8, Zenon DEF AddFilter
  <2> QED BY <1>1, <2>1, <2>2, <2>3, <2>4, <2>5, <2>6, <2>7, <2>8,
             ClientWrapperFrame, Zenon
<1>2. ASSUME VacuumStep PROVE WrapperTypeOK'
  <2>1. CASE UNCHANGED wrapVars
    BY <1>0, <2>1, Zenon
  <2>2. CASE Reap
    BY <1>0, <2>2, Zenon DEF Reap
  <2>3. CASE Destroy
    BY <1>0, <2>3, Zenon DEF Destroy
  <2> QED BY <1>2, <2>1, <2>2, <2>3, VacuumWrapperFrame, Zenon
<1>3. CASE Shutdown
  BY <1>0, <1>3, Zenon DEF Shutdown
<1>4. CASE UNCHANGED vars
  BY <1>0, <1>4, Zenon DEF vars
<1> QED BY <1>1, <1>2, <1>3, <1>4, NextCases, Zenon

-----------------------------------------------------------------------------
(***************************************************************************)
(* The locals of the clients and of the vacuum, what makes TypeOK          *)
(* inductive, and the theorem.                                             *)
(***************************************************************************)

\* A call that returns leaves well typed locals.
LEMMA ReturnType ==
  ASSUME ClientTypeOK, NEW c \in Clients, Return(c), early' = early
  PROVE  ClientTypeOK'
BY SMTT(120)
DEF ClientTypeOK, Return, Goto, ClientLabels, NoneListed, MaybeWrapper

\* A call moves on and changes no other local.
LEMMA GotoType ==
  ASSUME ClientTypeOK, NEW c \in Clients, NEW label \in ClientLabels,
         Goto(c, label), UNCHANGED <<locals, early>>
  PROVE  ClientTypeOK'
BY Zenon DEF ClientTypeOK, Goto, locals

\* Every step keeps the types of the locals of the client threads.
LEMMA ClientTypeStep == TypeInv /\ [Next]_vars => ClientTypeOK'
<1> SUFFICES ASSUME TypeInv, [Next]_vars PROVE ClientTypeOK'
  OBVIOUS
<1>0. ClientTypeOK /\ ManagerTypeOK /\ Named /\ \A c \in Clients : LocalsFit(c)
  BY Zenon DEF TypeInv, TypeOK
<1> USE <1>0, ConstantsAssumption
<1>1. ASSUME NEW c \in Clients, ClientAction(c) PROVE ClientTypeOK'
  <2> USE DEF Goto, ClientLabels
  <2>1. CASE CheckpointRead(c)
    BY <2>1, Zenon DEF CheckpointRead, ClientTypeOK, ManagerTypeOK
  <2>2. CASE CheckpointStore(c)
    BY <2>2, Zenon DEF CheckpointStore, ClientTypeOK
  <2>3. ASSUME NEW o \in Ops, NEW n \in Names, Call(c, o, n) PROVE ClientTypeOK'
    BY <2>3, Zenon DEF Call, ClientTypeOK
  <2>4. CASE Lock(c)
    BY <2>4, GotoType, Zenon DEF Lock
  <2>5. CASE LoadTree(c)
    BY <2>5, SMTT(120) DEF LoadTree, ClientTypeOK, ManagerTypeOK
  <2>6. CASE Search(c)
    <3>1. trees[tree[c]][arg[c]] \in MaybeWrapper
      BY <2>6, SMTT(120) DEF Search, LocalsFit, InCall, ManagerTypeOK
    <3> QED BY <2>6, <3>1, SMTT(120) DEF Search, ClientTypeOK
  <2>7. CASE IterList(c)
    BY <2>7, SMTT(120) DEF IterList, ClientTypeOK
  <2>8. CASE IterCold(c)
    BY <2>8, SMTT(120) DEF IterCold, ClientTypeOK
  <2>9. CASE ReadPrimaryVsn(c)
    BY <2>9, Zenon DEF ReadPrimaryVsn, ClientTypeOK, ManagerTypeOK
  <2>10. CASE CompareVsn(c)
    BY <2>10, Zenon DEF CompareVsn, Missed, ClientTypeOK
  <2>11. CASE ReadDelta(c)
    <3>1. Head0 \in Nat
      BY SMTT(120) DEF Head0, ManagerTypeOK
    <3> QED BY <2>11, <3>1, ZenonT(60) DEF ReadDelta, Missed, ClientTypeOK
  <2>12. CASE WalkMatch(c)
    <3>1. delta[cur[c]].filter \in MaybeWrapper
      BY <2>12, NodeType, Zenon DEF WalkMatch, LocalsFit, Walking
    <3> QED BY <2>12, <3>1, Zenon DEF WalkMatch, ClientTypeOK
  <2>13. CASE WalkOn(c)
    <3> DEFINE x == wname[delta[cur[c]].filter]
    <3>1. listed' # listed => x \in Names /\ listed' = [listed EXCEPT ![c][x] = @ + 1]
      BY <2>13, Zenon DEF WalkOn, LocalsFit, Walking, Named
    <3>2. ASSUME x \in Names
          PROVE  [listed EXCEPT ![c][x] = @ + 1] \in [Clients -> [Names -> Nat]]
      BY <3>2, SMTT(120) DEF ClientTypeOK
    <3>3. listed' \in [Clients -> [Names -> Nat]]
      BY <3>1, <3>2, Zenon DEF ClientTypeOK
    <3>4. cur' \in [Clients -> Nat] /\ pc' \in [Clients -> ClientLabels]
      <4>1. \/ cur' = [cur EXCEPT ![c] = 0] /\ pc' = [pc EXCEPT ![c] = Missed(c)]
            \/ cur' = cur /\ pc' = [pc EXCEPT ![c] = "next"]
        BY <2>13, Zenon DEF WalkOn
      <4>2. Missed(c) \in ClientLabels
        BY Zenon DEF Missed
      <4>3. pc \in [Clients -> ClientLabels] /\ cur \in [Clients -> Nat]
        BY Zenon DEF ClientTypeOK
      <4>4. CASE cur' = [cur EXCEPT ![c] = 0] /\ pc' = [pc EXCEPT ![c] = Missed(c)]
        BY <4>2, <4>3, <4>4, Zenon
      <4>5. CASE cur' = cur /\ pc' = [pc EXCEPT ![c] = "next"]
        BY <4>3, <4>5, Zenon
      <4> QED BY <4>1, <4>4, <4>5, Zenon
    <3>5. UNCHANGED <<op, arg, tree, filt, reg, early>>
      BY <2>13, Zenon DEF WalkOn
    <3> QED BY <3>3, <3>4, <3>5, Zenon DEF ClientTypeOK
  <2>14. CASE WalkNext(c)
    <3>1. NextNode(cur[c]) \in Nat
      BY SMTT(120) DEF NextNode, ManagerTypeOK, ClientTypeOK
    <3> QED BY <2>14, <3>1, Zenon DEF WalkNext, Missed, ClientTypeOK
  <2>15. CASE ListDone(c)
    BY <2>15, ReturnType, Zenon DEF ListDone
  <2>16. CASE Miss(c)
    BY <2>16, ReturnType, Zenon DEF Miss
  <2>17. CASE CreatePending(c)
    BY <2>17, ReturnType, GotoType, Zenon DEF CreatePending
  <2>18. CASE Refuse(c)
    BY <2>18, ReturnType, Zenon DEF Refuse
  <2>19. CASE Take(c)
    BY <2>19, GotoType, Zenon DEF Take
  <2>20. CASE UseKeys(c) \/ UsePeek(c) \/ UseUnmap(c) \/ AddFails(c)
    BY <2>20, ReturnType, Zenon DEF UseKeys, UsePeek, UseUnmap, AddFails
  <2>21. ASSUME NEW w \in Wrappers, AddFilter(c, w) PROVE ClientTypeOK'
    BY <2>21, Zenon DEF AddFilter, ClientTypeOK, MaybeWrapper
  <2>22. CASE DropFilter(c)
    BY <2>22, GotoType, Zenon DEF DropFilter
  <2>23. CASE ClearFilter(c)
    BY <2>23, ReturnType, GotoType, Zenon DEF ClearFilter
  <2>24. CASE BumpVsn(c)
    BY <2>24, GotoType, Zenon DEF BumpVsn
  <2>25. CASE LinkDelta(c)
    BY <2>25, ReturnType, Zenon DEF LinkDelta
  <2> QED BY <1>1, <2>1, <2>2, <2>3, <2>4, <2>5, <2>6, <2>7, <2>8, <2>9, <2>10,
             <2>11, <2>12, <2>13, <2>14, <2>15, <2>16, <2>17, <2>18, <2>19,
             <2>20, <2>21, <2>22, <2>23, <2>24, <2>25, Zenon
          DEF ClientAction, ClientStep
<1>2. CASE VacuumStep
  BY <1>2, VacuumFrame, Zenon DEF ClientTypeOK, clientSide, locals
<1>3. CASE Shutdown
  BY <1>3, Zenon DEF Shutdown, ClientTypeOK, locals, ClientLabels
<1>4. CASE UNCHANGED vars
  BY <1>4, Zenon DEF vars, ClientTypeOK, clientSide, locals
<1> QED BY <1>1, <1>2, <1>3, <1>4, NextCases, Zenon

\* Every step keeps the types of the locals of the vacuum thread.
LEMMA VacuumTypeStep == TypeInv /\ [Next]_vars => VacuumTypeOK'
<1> SUFFICES ASSUME TypeInv, [Next]_vars PROVE VacuumTypeOK'
  OBVIOUS
<1>0. ManagerTypeOK /\ VacuumTypeOK
  BY Zenon DEF TypeInv, TypeOK
<1> USE <1>0 DEF VacuumTypeOK, vacuum, roundVars, walkVars
<1>1. ASSUME NEW c \in Clients, ClientAction(c) PROVE VacuumTypeOK'
  BY <1>1, ClientFrame, Zenon
<1>2. ASSUME VacuumStep PROVE VacuumTypeOK'
  <2> USE DEF VGoto, VacuumLabels
  <2>1. CASE VacuumExit \/ BarrierPoll
    BY <2>1, Zenon DEF VacuumExit, BarrierPoll
  <2>2. CASE VacuumTop
    BY <2>2, Zenon DEF VacuumTop, ManagerTypeOK
  <2>3. CASE VacuumSpecial
    BY <2>3, Zenon DEF VacuumSpecial
  <2>4. CASE ClientMinVsn \/ ClientMinHead
    BY <2>4, Zenon DEF ClientMinVsn, ClientMinHead, ManagerTypeOK
  <2>5. ASSUME NEW c \in Clients, ClientMinScan(c) PROVE VacuumTypeOK'
    BY <2>5, Zenon DEF ClientMinScan, Least, ManagerTypeOK
  <2>6. CASE PlanDone \/ PollDone
    BY <2>6, SMTT(120) DEF PlanDone, PollDone
  <2>7. CASE MergeStart
    BY <2>7, SMTT(120) DEF MergeStart, Least, ManagerTypeOK
  <2>8. CASE MergeApply \/ MergeDone
    BY <2>8, SMTT(120) DEF MergeApply, MergeDone
  <2>9. CASE MarkPending \/ SwapMaps \/ PublishVsn
    BY <2>9, Zenon DEF MarkPending, SwapMaps, PublishVsn
  <2>10. CASE BarrierBump
    BY <2>10, SMTT(120) DEF BarrierBump, ManagerTypeOK
  <2>11. CASE BarrierLink
    BY <2>11, Zenon DEF BarrierLink
  <2>12. CASE TrimDeltas
    BY <2>12, SMTT(120) DEF TrimDeltas, Least, ManagerTypeOK
  <2>13. CASE Reap
    BY <2>13, SMTT(120) DEF Reap
  <2>14. CASE ClearPending \/ Destroy
    BY <2>14, SMTT(120) DEF ClearPending, Destroy
  <2> QED BY <1>2, <2>1, <2>2, <2>3, <2>4, <2>5, <2>6, <2>7, <2>8, <2>9, <2>10,
             <2>11, <2>12, <2>13, <2>14, Zenon
          DEF VacuumStep
<1>3. CASE Shutdown
  BY <1>3, Zenon DEF Shutdown
<1>4. CASE UNCHANGED vars
  BY <1>4, Zenon DEF vars
<1> QED BY <1>1, <1>2, <1>3, <1>4, NextCases, Zenon

\* Every step leaves the locals of each client fit for its place.
LEMMA LocalsStep ==
  ASSUME TypeInv, [Next]_vars, NEW d \in Clients
  PROVE  LocalsFit(d)'
<1> USE ConstantsAssumption
<1>1. ClientTypeOK /\ WrapperTypeOK /\ ManagerTypeOK /\ LocalsFit(d) /\ Named
  BY Zenon DEF TypeInv, TypeOK
<1>2. /\ Len(delta) \in Nat /\ Len(delta') \in Nat /\ Len(delta) <= Len(delta')
      /\ \A v \in 1..Len(delta) : delta'[v] = delta[v]
      /\ \A w \in Wrappers : wname[w] # NULL => wname'[w] = wname[w]
  BY Grows, ZenonT(60)
<1>3. ASSUME LocalsSame(d) PROVE LocalsFit(d)'
  BY <1>1, <1>2, <1>3, SMTT(120) DEF LocalsFit, LocalsSame
<1>4. ASSUME NEW c \in Clients, ClientAction(c), c # d PROVE LocalsFit(d)'
  BY <1>1, <1>3, <1>4, OtherClients, Zenon
<1>5. ASSUME ClientAction(d) PROVE LocalsFit(d)'
  <2> USE DEF LocalsFit, ClientTypeOK, Goto, InCall, Walking, Holding, AllOps,
          ListOps, WriteOps
  <2>1. CASE Return(d)
    BY <1>1, <2>1, ZenonT(60) DEF Return
  <2>2. CASE CheckpointRead(d) \/ CheckpointStore(d)
    BY <1>1, <2>2, SMTT(120) DEF CheckpointRead, CheckpointStore
  <2>3. ASSUME NEW o \in Ops, NEW n \in Names, Call(d, o, n) PROVE LocalsFit(d)'
    BY <1>1, <2>3, Zenon DEF Call
  <2>4. CASE Lock(d)
    BY <1>1, <2>4, Zenon DEF Lock, locals
  <2>5. CASE LoadTree(d)
    BY <1>1, <2>5, Zenon DEF LoadTree, ManagerTypeOK
  <2>6. CASE Search(d)
    <3> DEFINE w == trees[tree[d]][arg[d]]
    <3>1. /\ filt'[d] = w /\ pc'[d] = IF w # NULL THEN "found" ELSE "compare"
          /\ op'[d] = op[d] /\ arg'[d] = arg[d] /\ wname' = wname
      BY <1>1, <2>6, Zenon DEF Search, wrapVars
    <3>2. op[d] # "none" /\ op[d] \notin ListOps /\ arg[d] \in Names /\ tree[d] \in 1..2
      BY <1>1, <2>6, ZenonT(60) DEF Search
    <3>3. w # NULL => w \in Wrappers /\ wname[w] \in Names
      BY <1>1, <3>2, SMTT(120) DEF Named, ManagerTypeOK, MaybeWrapper
    <3> QED BY <3>1, <3>2, <3>3, Zenon
  <2>7. CASE IterList(d)
    BY <1>1, <2>7, Zenon DEF IterList
  <2>8. CASE IterCold(d)
    BY <1>1, <2>8, ZenonT(60) DEF IterCold
  <2>9. CASE ReadPrimaryVsn(d) \/ CompareVsn(d)
    BY <1>1, <2>9, SMTT(120) DEF ReadPrimaryVsn, CompareVsn, Missed
  <2>10. CASE ReadDelta(d)
    BY <1>1, <1>2, <2>10, SMTT(120)
    DEF ReadDelta, Missed, Head0, mgr, deltaVars, ManagerTypeOK
  <2>11. CASE WalkMatch(d)
    <3>1. delta[cur[d]].filter \in Wrappers /\ wname[delta[cur[d]].filter] \in Names
      BY <1>1, <2>11, NodeType, Zenon DEF WalkMatch, Matches, Named
    <3>2. /\ filt'[d] = delta[cur[d]].filter /\ pc'[d] = "found"
          /\ op'[d] = op[d] /\ arg'[d] = arg[d] /\ wname' = wname
      BY <1>1, <2>11, Zenon DEF WalkMatch, wrapVars
    <3>3. op[d] # "none" /\ op[d] \notin ListOps /\ arg[d] \in Names
      BY <1>1, <2>11, ZenonT(60) DEF WalkMatch, Matches
    <3> QED BY <3>1, <3>2, <3>3, Zenon
  <2>12. CASE WalkOn(d)
    BY <1>1, <2>12, SMTT(120) DEF WalkOn, Missed, mgr, deltaVars, wrapVars
  <2>13. CASE WalkNext(d)
    BY <1>1, <1>2, <2>13, SMTT(120)
    DEF WalkNext, NextNode, Missed, mgr, deltaVars, ManagerTypeOK
  <2>14. CASE CreatePending(d)
    BY <1>1, <2>1, <2>14, Zenon DEF CreatePending, locals
  <2>15. CASE Take(d)
    BY <1>1, <2>15, Zenon DEF Take, locals, wrapVars
  <2>16. ASSUME NEW w \in Wrappers, AddFilter(d, w) PROVE LocalsFit(d)'
    BY <1>1, <2>16, Zenon DEF AddFilter, WrapperTypeOK
  <2>17. CASE DropFilter(d)
    BY <1>1, <2>17, Zenon DEF DropFilter, locals
  <2>18. CASE ClearFilter(d)
    BY <1>1, <2>1, <2>18, Zenon DEF ClearFilter, locals
  <2>19. CASE BumpVsn(d)
    BY <1>1, <2>19, Zenon DEF BumpVsn, locals, wrapVars
  <2> QED BY <1>5, <2>1, <2>2, <2>3, <2>4, <2>5, <2>6, <2>7, <2>8, <2>9, <2>10,
             <2>11, <2>12, <2>13, <2>14, <2>15, <2>16, <2>17, <2>18, <2>19,
             Zenon
          DEF ClientAction, ClientStep, ListDone, Miss, Refuse, UseKeys,
              UsePeek, UseUnmap, AddFails, LinkDelta
<1>6. CASE VacuumStep
  BY <1>3, <1>6, VacuumFrame, Zenon DEF clientSide, locals, LocalsSame
<1>7. CASE Shutdown
  <2>1. pc'[d] = "gone"
    BY <1>7, Zenon DEF Shutdown
  <2> QED BY <2>1, Zenon DEF LocalsFit, InCall, Walking, Holding
<1>8. CASE UNCHANGED vars
  BY <1>3, <1>8, Zenon DEF vars, clientSide, locals, LocalsSame
<1> QED BY <1>4, <1>5, <1>6, <1>7, <1>8, NextCases, Zenon

\* The nodes of the list after a link: the old ones and the new one.
LEMMA LinkedAt ==
  ASSUME NEW type, NEW w, Linked(type, w), NEW v \in 1..Len(delta')
  PROVE  \/ v \in 1..Len(delta) /\ delta'[v] = delta[v]
         \/ delta'[v].type = type /\ delta'[v].filter = w
<1>1. PICK n \in Nat : n = Len(delta)
  BY Zenon DEF Linked
<1>2. Len(delta') = n + 1 /\ delta'[n + 1] = Node(type, w)
  BY <1>1, Zenon DEF Linked
<1>3. v \in 1..(n + 1)
  BY <1>2, Zenon
<1>4. v \in 1..n \/ v = n + 1
  BY <1>3, SMTT(120)
<1>5. Node(type, w).type = type /\ Node(type, w).filter = w
  BY SMTT(120) DEF Node
<1>6. \A u \in 1..n : delta'[u] = delta[u]
  BY <1>1, Zenon DEF Linked
<1> QED BY <1>1, <1>2, <1>4, <1>5, <1>6, Zenon

\* Every step files wrappers under their own names.
LEMMA NamedStep ==
  ASSUME TypeInv, [Next]_vars
  PROVE  Named'
<1>0. /\ ManagerTypeOK /\ WrapperTypeOK /\ VacuumTypeOK /\ ClientTypeOK
      /\ Named /\ WalkFits /\ \A c \in Clients : LocalsFit(c)
  BY Zenon DEF TypeInv, TypeOK
<1> USE <1>0, ConstantsAssumption
<1>1. /\ \A v \in 1..Len(delta) : delta'[v] = delta[v]
      /\ \A w \in Wrappers : wname[w] # NULL => wname'[w] = wname[w]
  BY Grows, Zenon
<1>2. \A v \in 1..Len(delta') :
        delta'[v].type # "BARRIER" => wname'[delta'[v].filter] \in Names
  <2>1. \A v \in 1..Len(delta) : delta[v].type # "BARRIER" =>
           delta[v].filter \in Wrappers /\ wname[delta[v].filter] \in Names
    BY NodeType, Zenon DEF Named
  <2>2. CASE UNCHANGED delta
    BY <1>1, <2>1, <2>2, Zenon
  <2>3. ASSUME NEW c \in Clients, LinkDelta(c)
        PROVE  \A v \in 1..Len(delta') :
                 delta'[v].type # "BARRIER" => wname'[delta'[v].filter] \in Names
    <3>1. Linked(LinkedType(c), filt[c])
      BY <2>3, LinkDeltaLinks, Zenon
    <3>2. filt[c] \in Wrappers /\ wname[filt[c]] \in Names
      BY <2>3, Zenon DEF LinkDelta, LocalsFit, Holding
    <3>3. filt[c] # NULL /\ wname'[filt[c]] = wname[filt[c]]
      BY <1>1, <3>2, Zenon
    <3>4. \A v \in 1..Len(delta) : delta[v].type # "BARRIER" => wname'[delta[v].filter] \in Names
      BY <1>1, <2>1, Zenon
    <3>5. \A v \in 1..Len(delta') :
            \/ v \in 1..Len(delta) /\ delta'[v] = delta[v]
            \/ delta'[v].type = LinkedType(c) /\ delta'[v].filter = filt[c]
      BY <3>1, LinkedAt, Zenon
    <3> QED BY <3>2, <3>3, <3>4, <3>5, Zenon
  <2>4. CASE BarrierLink
    <3>1. Linked("BARRIER", NULL)
      BY <2>4, BarrierLinkLinks, Zenon
    <3>2. \A v \in 1..Len(delta) : delta[v].type # "BARRIER" => wname'[delta[v].filter] \in Names
      BY <1>1, <2>1, Zenon
    <3>3. \A v \in 1..Len(delta') :
            \/ v \in 1..Len(delta) /\ delta'[v] = delta[v]
            \/ delta'[v].type = "BARRIER" /\ delta'[v].filter = NULL
      BY <3>1, LinkedAt, Zenon
    <3> QED BY <3>2, <3>3, Zenon
  <2>5. ASSUME NEW c \in Clients, ClientAction(c) PROVE UNCHANGED delta \/ LinkDelta(c)
    BY <2>5, ClientManagerFrame, Zenon
    DEF mgr, deltaVars, CheckpointStore, BumpVsn
  <2>6. ASSUME VacuumStep PROVE UNCHANGED delta \/ BarrierLink
    BY <2>6, VacuumDeltaFrame, Zenon
    DEF deltaVars, BarrierBump, TrimDeltas, Reap, Destroy
  <2> QED BY <2>2, <2>3, <2>4, <2>5, <2>6, NextCases, Zenon
          DEF Shutdown, vars, mgr, deltaVars
<1>3. \A t \in 1..2, n \in Names : trees'[t][n] # NULL => wname'[trees'[t][n]] = n
  <2>1. CASE UNCHANGED trees
    <3> SUFFICES ASSUME NEW t \in 1..2, NEW n \in Names, trees[t][n] # NULL
                 PROVE  wname'[trees[t][n]] = n
      BY <2>1, ZenonT(60)
    <3>1. trees[t][n] \in Wrappers
      BY SMTT(120) DEF ManagerTypeOK, MaybeWrapper
    <3>2. wname[trees[t][n]] = n /\ n # NULL
      BY Zenon DEF Named
    <3> QED BY <1>1, <3>1, <3>2, Zenon
  <2>2. CASE MergeApply
    <3>1. cursor \in 1..Len(delta) /\ AltMap \in 1..2
      <4>1. trimmed < cursor /\ cursor <= last /\ last <= Len(delta)
        BY <2>2, Zenon DEF MergeApply, WalkFits
      <4>2. /\ trimmed \in Nat /\ cursor \in Nat /\ last \in Nat
            /\ Len(delta) \in Nat /\ filter_map \in 1..2
        BY DeltaLength, Zenon DEF ManagerTypeOK, VacuumTypeOK
      <4> QED BY <4>1, <4>2, SMTT(120) DEF AltMap
    <3> DEFINE node == delta[cursor]
    <3>2. node.type # "BARRIER" => node.filter \in Wrappers /\ wname[node.filter] \in Names
      BY <3>1, NodeType, ZenonT(60) DEF Named
    <3>3. \A n \in Names : Applied(trees[AltMap], node)[n] # NULL =>
             wname[Applied(trees[AltMap], node)[n]] = n
      BY <3>1, <3>2, SMTT(120) DEF Applied, Named, ManagerTypeOK
    <3>4. trees' = [trees EXCEPT ![AltMap] = Applied(@, node)] /\ wname' = wname
      BY <2>2, Zenon DEF MergeApply, wrapVars
    <3> QED BY <3>1, <3>3, <3>4, Zenon DEF Named, ManagerTypeOK
  <2>3. ASSUME VacuumStep PROVE UNCHANGED trees \/ MergeApply
    BY <2>3, VacuumTreeFrame, Zenon
    DEF treeVars, VacuumSpecial, MarkPending, SwapMaps, PublishVsn, ClearPending
  <2> QED BY <2>1, <2>2, <2>3, NextCases, ClientFrame, Zenon
          DEF treeVars, Shutdown, vars, mgr
<1> QED BY <1>2, <1>3, Zenon DEF Named

\* Every step keeps the vacuum's walks inside the list.
LEMMA WalkFitsStep ==
  ASSUME TypeInv, [Next]_vars
  PROVE  WalkFits'
<1> USE DEF WalkFits, vacuum, walkVars
<1>0. /\ WalkFits /\ should_run \in BOOLEAN
      /\ trimmed \in Nat /\ trimmed <= Len(delta) /\ min_vsn \in Nat
      /\ cursor \in Nat /\ last \in Nat /\ vpc \in VacuumLabels
  BY Zenon DEF TypeInv, TypeOK, ManagerTypeOK, VacuumTypeOK
<1>1. Len(delta) \in Nat /\ Len(delta') \in Nat /\ Len(delta) <= Len(delta')
  BY Grows, Zenon
<1>2. ASSUME NEW c \in Clients, ClientAction(c) PROVE WalkFits'
  BY <1>0, <1>1, <1>2, ClientFrame, SMTT(120)
<1>3. ASSUME VacuumStep PROVE WalkFits'
  <2> USE DEF VGoto, deltaVars, mgr
  <2>1. CASE MergeStart
    BY <1>0, <1>1, <2>1, SMTT(120) DEF MergeStart, Least
  <2>2. CASE MergeApply
    BY <1>0, <1>1, <2>2, SMTT(120) DEF MergeApply
  <2>3. CASE TrimDeltas
    BY <1>0, <1>1, <2>3, SMTT(120) DEF TrimDeltas, Least
  <2>4. CASE Reap
    BY <1>0, <1>1, <2>4, SMTT(120) DEF Reap
  <2>5. CASE VacuumExit \/ VacuumTop \/ VacuumSpecial \/ ClientMinVsn \/ ClientMinHead
    BY <1>0, <2>5, Zenon
    DEF VacuumExit, VacuumTop, VacuumSpecial, ClientMinVsn, ClientMinHead
  <2>6. CASE PlanDone \/ PollDone \/ MergeDone \/ MarkPending \/ SwapMaps \/ PublishVsn
    BY <1>0, <2>6, Zenon
    DEF PlanDone, PollDone, MergeDone, MarkPending, SwapMaps, PublishVsn
  <2>7. CASE BarrierBump \/ BarrierLink \/ BarrierPoll \/ ClearPending \/ Destroy
    BY <1>0, <2>7, Zenon
    DEF BarrierBump, BarrierLink, BarrierPoll, ClearPending, Destroy
  <2>8. CASE \E c \in Clients : ClientMinScan(c)
    BY <1>0, <2>8, Zenon DEF ClientMinScan
  <2> QED BY <1>3, <2>1, <2>2, <2>3, <2>4, <2>5, <2>6, <2>7, <2>8, Zenon
          DEF VacuumStep
<1>4. CASE Shutdown
  BY <1>0, <1>1, <1>4, Zenon DEF Shutdown, deltaVars
<1>5. CASE UNCHANGED vars
  BY <1>0, <1>5, Zenon DEF vars, mgr, deltaVars
<1> QED BY <1>2, <1>3, <1>4, <1>5, NextCases, Zenon

\* A step preserves the inductive type invariant.
LEMMA TypeStep == TypeInv /\ [Next]_vars => TypeInv'
BY ManagerTypeStep, WrapperTypeStep, ClientTypeStep, VacuumTypeStep, LocalsStep,
   NamedStep, WalkFitsStep, Zenon
DEF TypeInv, TypeOK

\* init_filter_manager establishes it, whatever folders it finds.
LEMMA TypeInit == Init => TypeInv
<1> SUFFICES ASSUME Init PROVE TypeInv
  OBVIOUS
<1> USE ConstantsAssumption
<1>1. PICK t \in LoadedTrees : InitFrom(t)
  BY Zenon DEF Init
<1> DEFINE loaded == {t[n] : n \in Names} \ {NULL}
<1>2. /\ t \in [Names -> Wrappers \cup {NULL}] /\ loaded \subseteq Wrappers
      /\ \A m, n \in Names : m # n /\ t[m] # NULL => t[m] # t[n]
  BY Zenon DEF LoadedTrees
<1>3. \A w \in loaded : (CHOOSE n \in Names : t[n] = w) \in Names
  BY <1>2, Zenon
<1>4. wname \in [Wrappers -> Names \cup {NULL}]
  BY <1>1, <1>3, Zenon DEF InitFrom
<1>5. \A n \in Names : t[n] # NULL => wname[t[n]] = n
  <2> SUFFICES ASSUME NEW n \in Names, t[n] # NULL PROVE wname[t[n]] = n
    OBVIOUS
  <2>1. t[n] \in loaded /\ t[n] \in Wrappers
    BY <1>2, Zenon
  <2>2. wname[t[n]] = CHOOSE m \in Names : t[m] = t[n]
    BY <1>1, <2>1, Zenon DEF InitFrom
  <2> QED BY <1>2, <2>2, Zenon
<1>6. trees = [i \in 1..2 |-> t] /\ delta = <<>> /\ Len(delta) = 0
  BY <1>1, Zenon DEF InitFrom, Init
<1>7. ManagerTypeOK
  BY <1>2, <1>6, SMTT(120) DEF Init, ManagerTypeOK, MaybeWrapper
<1>8. WrapperTypeOK
  BY <1>1, <1>2, <1>4, Zenon DEF Init, InitFrom, WrapperTypeOK
<1>9. ClientTypeOK /\ VacuumTypeOK
  BY SMTT(120)
  DEF Init, ClientTypeOK, VacuumTypeOK, ClientLabels, VacuumLabels, NoneListed,
      MaybeWrapper
<1>10. \A c \in Clients : LocalsFit(c)
  BY Zenon DEF Init, LocalsFit, InCall, Walking, Holding
<1>11. Named
  <2>1. 1..Len(delta) = {}
    BY <1>6, SMTT(120)
  <2>2. \A i \in 1..2 : trees[i] = t
    BY <1>6, Zenon
  <2> QED BY <1>5, <2>1, <2>2, Zenon DEF Named
<1>12. WalkFits
  BY Zenon DEF Init, WalkFits
<1> QED BY <1>7, <1>8, <1>9, <1>10, <1>11, <1>12, Zenon DEF TypeInv, TypeOK

\* The types that filter_manager.c declares are kept by every interleaving of
\* its client threads and its vacuum thread.
THEOREM TypeCorrect == Spec => []TypeOK
<1>1. TypeInv => TypeOK
  BY Zenon DEF TypeInv
<1> QED BY <1>1, TypeInit, TypeStep, PTL DEF Spec

===============================================================================
