------------------------- MODULE ThreadBarrierProofs -------------------------
(***************************************************************************)
(* For any number of threads nobody gets past a barrier that somebody has  *)
(* not reached.  The invariant names the cycle n that is being filled:     *)
(* every thread is before it, waits in it, or is still to be told that the *)
(* cycle before is over.  The flag cycle tells the last two apart.         *)
(***************************************************************************)
EXTENDS ThreadBarrier, Integers, FiniteSetTheorems, TLAPS

(* The threads that have entered cycle n.                                  *)
InCycle(n) == {t \in Threads : entered[t] = n + 1}

Before(t, n) == bpc[t] = "out" /\ entered[t] = n /\ passed[t] = n
Within(t, n) == /\ bpc[t] \in {"wait", "woken"} /\ my_cycle[t] = cycle
                /\ entered[t] = n + 1 /\ passed[t] = n
Behind(t, n) == /\ bpc[t] = "woken" /\ my_cycle[t] # cycle
                /\ entered[t] = n /\ passed[t] = n - 1

Cycle(n) == /\ counter = threshold - Cardinality(InCycle(n))
            /\ \A t \in Threads : Before(t, n) \/ Within(t, n) \/ Behind(t, n)

BarrierInv == BarrierTypeOK /\ \E n \in Nat : Cycle(n)

(* There is at least one thread to wait for.                               *)
LEMMA ThresholdPositive == threshold \in Nat /\ threshold >= 1
  BY BarrierAssumption, FS_CardinalityType, FS_EmptySet, SMTT(120) DEF threshold

(* In a cycle that only one thread has not entered, every other one waits. *)
LEMMA OthersWait ==
  ASSUME NEW n \in Nat, NEW t \in Threads, BarrierTypeOK, Cycle(n),
         counter = 1, bpc[t] = "out"
  PROVE  \A u \in Threads \ {t} : Within(u, n)
  <1>1. t \notin InCycle(n)
    BY SMTT(120) DEF Cycle, Before, Within, Behind, InCycle
  <1>2. InCycle(n) \subseteq Threads \ {t}
    BY <1>1, SMTT(120) DEF InCycle
  <1>3. /\ IsFiniteSet(Threads \ {t})
        /\ Cardinality(Threads \ {t}) = threshold - 1
    BY BarrierAssumption, FS_RemoveElement, SMTT(120) DEF threshold
  <1>4. IsFiniteSet(InCycle(n)) /\ Cardinality(InCycle(n)) \in Nat
    BY <1>2, <1>3, FS_Subset, FS_CardinalityType, SMTT(120)
  <1>5. Cardinality(InCycle(n)) = threshold - 1
    BY <1>4, ThresholdPositive, SMTT(120) DEF Cycle
  <1>6. InCycle(n) = Threads \ {t}
    BY <1>2, <1>3, <1>5, FS_Subset, SMTT(120)
  <1>7. ASSUME NEW u \in Threads \ {t} PROVE Within(u, n)
    <2>1. entered[u] = n + 1
      BY <1>6, SMTT(120) DEF InCycle
    <2> QED BY <2>1, SMTT(120) DEF Cycle, Before, Behind
  <1> QED BY <1>7, SMTT(120)

LEMMA EnterLastKeeps ==
  ASSUME BarrierInv, NEW t \in Threads, EnterLast(t)
  PROVE  BarrierInv'
  <1> PICK n \in Nat : Cycle(n)
    BY SMTT(120) DEF BarrierInv
  <1>0. BarrierTypeOK
    BY SMTT(120) DEF BarrierInv
  <1>1. \A u \in Threads \ {t} : Within(u, n)
    BY <1>0, OthersWait, SMTT(120) DEF EnterLast
  <1>2. Before(t, n)
    BY SMTT(120) DEF Cycle, Within, Behind, EnterLast
  <1>3. Before(t, n + 1)'
    <2>1. bpc'[t] = "out" /\ entered'[t] = entered[t] + 1
          /\ passed'[t] = passed[t] + 1
      BY <1>0, <1>2, SMTT(120) DEF EnterLast, BarrierTypeOK, Before
    <2> QED BY <1>2, <2>1, SMTT(120) DEF Before
  <1>4. ASSUME NEW u \in Threads \ {t} PROVE Behind(u, n + 1)'
    <2>1. Within(u, n)
      BY <1>1, SMTT(120)
    <2>2. bpc'[u] = "woken" /\ entered'[u] = entered[u]
          /\ passed'[u] = passed[u] /\ my_cycle'[u] = my_cycle[u]
      BY <1>0, <2>1, SMTT(120) DEF EnterLast, BarrierTypeOK, Within
    <2>3. my_cycle[u] # cycle'
      BY <1>0, <2>1, SMTT(120) DEF EnterLast, BarrierTypeOK, Within
    <2> QED BY <2>1, <2>2, <2>3, SMTT(120) DEF Behind, Within
  <1>5. InCycle(n + 1)' = {}
    BY <1>3, <1>4, SMTT(120) DEF InCycle, Before, Behind
  <1>6. counter' = threshold - Cardinality(InCycle(n + 1)')
    BY <1>5, FS_EmptySet, ThresholdPositive, SMTT(120) DEF EnterLast
  <1>7. Cycle(n + 1)'
    BY <1>3, <1>4, <1>6, SMTT(120) DEF Cycle, threshold
  <1>8. BarrierTypeOK'
    BY <1>0, ThresholdPositive, SMTT(120) DEF BarrierTypeOK, EnterLast, threshold
  <1> QED BY <1>7, <1>8, SMTT(120) DEF BarrierInv

LEMMA EnterWaitKeeps ==
  ASSUME BarrierInv, NEW t \in Threads, EnterWait(t)
  PROVE  BarrierInv'
  <1> PICK n \in Nat : Cycle(n)
    BY SMTT(120) DEF BarrierInv
  <1>0. BarrierTypeOK
    BY SMTT(120) DEF BarrierInv
  <1>1. Before(t, n)
    BY SMTT(120) DEF Cycle, Within, Behind, EnterWait
  <1>2. Within(t, n)'
    BY <1>0, <1>1, SMTT(120) DEF EnterWait, BarrierTypeOK, Before, Within
  <1>3. ASSUME NEW u \in Threads \ {t}
        PROVE  Before(u, n)' \/ Within(u, n)' \/ Behind(u, n)'
    <2>1. bpc'[u] = bpc[u] /\ entered'[u] = entered[u]
          /\ my_cycle'[u] = my_cycle[u] /\ passed' = passed /\ cycle' = cycle
      BY <1>0, SMTT(120) DEF EnterWait, BarrierTypeOK
    <2> QED BY <2>1, SMTT(120) DEF Cycle, Before, Within, Behind
  <1>4. t \notin InCycle(n) /\ InCycle(n)' = InCycle(n) \cup {t}
    BY <1>0, <1>1, SMTT(120) DEF InCycle, Before, EnterWait, BarrierTypeOK
  <1>5. IsFiniteSet(InCycle(n)) /\ Cardinality(InCycle(n)) \in Nat
    BY BarrierAssumption, FS_Subset, FS_CardinalityType, SMTT(120) DEF InCycle
  <1>6. Cardinality(InCycle(n)') = Cardinality(InCycle(n)) + 1
    BY <1>4, <1>5, FS_AddElement, SMTT(120)
  <1>7. counter' = threshold - Cardinality(InCycle(n)')
    BY <1>5, <1>6, ThresholdPositive, SMTT(120) DEF Cycle, EnterWait
  <1>8. Cycle(n)'
    BY <1>2, <1>3, <1>7, SMTT(120) DEF Cycle, threshold
  <1>9. BarrierTypeOK'
    BY <1>0, ThresholdPositive, SMTT(120) DEF BarrierTypeOK, EnterWait, threshold
  <1> QED BY <1>8, <1>9, SMTT(120) DEF BarrierInv

(* A step of a waiting thread leaves counter, cycle and entered alone.     *)
LEMMA WaitingKeeps ==
  ASSUME BarrierInv, NEW t \in Threads,
         SpuriousWake(t) \/ WaitAgain(t) \/ Leave(t)
  PROVE  BarrierInv'
  <1> PICK n \in Nat : Cycle(n)
    BY SMTT(120) DEF BarrierInv
  <1>0. BarrierTypeOK
    BY SMTT(120) DEF BarrierInv
  <1>1. /\ counter' = counter /\ cycle' = cycle /\ entered' = entered
        /\ my_cycle' = my_cycle
    BY SMTT(120) DEF SpuriousWake, WaitAgain, Leave
  <1>2. ASSUME NEW u \in Threads \ {t}
        PROVE  Before(u, n)' \/ Within(u, n)' \/ Behind(u, n)'
    <2>1. bpc'[u] = bpc[u] /\ passed'[u] = passed[u]
      BY <1>0, SMTT(120) DEF SpuriousWake, WaitAgain, Leave, BarrierTypeOK
    <2> QED BY <1>1, <2>1, SMTT(120) DEF Cycle, Before, Within, Behind
  <1>3. Before(t, n)' \/ Within(t, n)' \/ Behind(t, n)'
    <2>1. CASE SpuriousWake(t)
      BY <1>0, <1>1, <2>1, SMTT(120)
         DEF Cycle, Before, Within, Behind, SpuriousWake, BarrierTypeOK
    <2>2. CASE WaitAgain(t)
      BY <1>0, <1>1, <2>2, SMTT(120)
         DEF Cycle, Before, Within, Behind, WaitAgain, BarrierTypeOK
    <2>3. CASE Leave(t)
      BY <1>0, <1>1, <2>3, SMTT(120)
         DEF Cycle, Before, Within, Behind, Leave, BarrierTypeOK
    <2> QED BY <2>1, <2>2, <2>3, SMTT(120)
  <1>4. InCycle(n)' = InCycle(n)
    BY <1>1, SMTT(120) DEF InCycle
  <1>5. Cycle(n)'
    BY <1>1, <1>2, <1>3, <1>4, SMTT(120) DEF Cycle, threshold
  <1>6. BarrierTypeOK'
    BY <1>0, SMTT(120) DEF BarrierTypeOK, SpuriousWake, WaitAgain, Leave, threshold
  <1> QED BY <1>5, <1>6, SMTT(120) DEF BarrierInv

LEMMA BarrierInitInv == BarrierInit => BarrierInv
  <1> SUFFICES ASSUME BarrierInit PROVE BarrierInv
    OBVIOUS
  <1>1. \A t \in Threads : Before(t, 0)
    BY SMTT(120) DEF BarrierInit, Before
  <1>2. InCycle(0) = {}
    BY SMTT(120) DEF InCycle, BarrierInit
  <1>3. Cycle(0)
    BY <1>1, <1>2, FS_EmptySet, ThresholdPositive, SMTT(120) DEF Cycle, BarrierInit
  <1>4. BarrierTypeOK
    <2>1. cycle \in BOOLEAN /\ my_cycle \in [Threads -> BOOLEAN]
      BY Zenon DEF BarrierInit
    <2>2. counter \in 1..threshold
      BY ThresholdPositive, SMTT(120) DEF BarrierInit
    <2>3. /\ bpc \in [Threads -> {"out", "wait", "woken"}]
          /\ entered \in [Threads -> Nat] /\ passed \in [Threads -> Nat]
      BY SMTT(120) DEF BarrierInit
    <2> QED BY <2>1, <2>2, <2>3, Zenon DEF BarrierTypeOK
  <1> QED BY <1>3, <1>4, SMTT(120) DEF BarrierInv

LEMMA InvNobodyAhead == BarrierInv => NobodyAhead
  <1> SUFFICES ASSUME BarrierInv, NEW t \in Threads, NEW u \in Threads
               PROVE  passed[t] <= entered[u]
    BY SMTT(120) DEF NobodyAhead
  <1> PICK n \in Nat : Cycle(n)
    BY SMTT(120) DEF BarrierInv
  <1> QED BY SMTT(120) DEF Cycle, Before, Within, Behind

(* Whatever the number of threads and however often they meet: nobody      *)
(* returns from barrier_wait before everybody has called it as often.      *)
THEOREM BarrierHolds == BarrierSpec => []NobodyAhead
  <1>1. BarrierInv /\ [BarrierNext]_barrier => BarrierInv'
    <2> SUFFICES ASSUME BarrierInv, [BarrierNext]_barrier
                 PROVE  BarrierInv'
      OBVIOUS
    <2>1. CASE UNCHANGED barrier
      BY <2>1, Zenon DEF barrier, BarrierInv, BarrierTypeOK, Cycle, InCycle, Before,
                  Within, Behind, threshold
    <2>2. ASSUME NEW t \in Threads, BarrierStep(t) PROVE BarrierInv'
      BY <2>2, EnterLastKeeps, EnterWaitKeeps, WaitingKeeps, SMTT(120)
         DEF BarrierStep, Enter, Waiting
    <2> QED BY <2>1, <2>2, SMTT(120) DEF BarrierNext, BarrierDone
  <1> QED BY <1>1, BarrierInitInv, InvNobodyAhead, PTL DEF BarrierSpec
=============================================================================
