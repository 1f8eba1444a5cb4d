---------------------------- MODULE ThreadBarrier ----------------------------
(***************************************************************************)
(* barrier_wait of barrier.c.  What a thread does while it holds the mutex *)
(* is one step.  pthread_cond_wait gives the mutex up; a waiting thread is *)
(* woken by the broadcast or for no reason, and then looks at the cycle.   *)
(***************************************************************************)
EXTENDS Naturals, FiniteSets

CONSTANTS Threads,   \* the threads that meet at the barrier
          MaxWaits   \* bound: how often each of them calls barrier_wait

ASSUME BarrierAssumption == IsFiniteSet(Threads) /\ Threads # {}
                            /\ MaxWaits \in Nat

VARIABLES
  counter, cycle,   \* of barrier_t
  bpc,              \* "out", "wait" (on the condition variable) or "woken"
  my_cycle,         \* the local variable cycle
  entered, passed   \* history: calls of barrier_wait begun and ended

barrier == <<counter, cycle, bpc, my_cycle, entered, passed>>

threshold == Cardinality(Threads)

(* barrier_init.                                                           *)
BarrierInit ==
  /\ counter = threshold /\ cycle = FALSE
  /\ bpc = [t \in Threads |-> "out"]
  /\ my_cycle = [t \in Threads |-> FALSE]
  /\ entered = [t \in Threads |-> 0] /\ passed = [t \in Threads |-> 0]

(* The last thread starts a new cycle, wakes the others and goes on.       *)
EnterLast(t) ==
  /\ bpc[t] = "out" /\ counter = 1
  /\ cycle' = ~cycle
  /\ counter' = threshold
  /\ bpc' = [u \in Threads |-> IF bpc[u] = "wait" THEN "woken" ELSE bpc[u]]
  /\ entered' = [entered EXCEPT ![t] = @ + 1]
  /\ passed' = [passed EXCEPT ![t] = @ + 1]
  /\ UNCHANGED my_cycle

(* Any other thread remembers the cycle and waits.                         *)
EnterWait(t) ==
  /\ bpc[t] = "out" /\ counter # 1
  /\ counter' = counter - 1
  /\ my_cycle' = [my_cycle EXCEPT ![t] = cycle]
  /\ bpc' = [bpc EXCEPT ![t] = "wait"]
  /\ entered' = [entered EXCEPT ![t] = @ + 1]
  /\ UNCHANGED <<cycle, passed>>

(* pthread_cond_wait returns without a broadcast.                          *)
SpuriousWake(t) ==
  /\ bpc[t] = "wait"
  /\ bpc' = [bpc EXCEPT ![t] = "woken"]
  /\ UNCHANGED <<counter, cycle, my_cycle, entered, passed>>

WaitAgain(t) ==
  /\ bpc[t] = "woken" /\ my_cycle[t] = cycle
  /\ bpc' = [bpc EXCEPT ![t] = "wait"]
  /\ UNCHANGED <<counter, cycle, my_cycle, entered, passed>>

\* Slip: "if" instead of "while": the cycle is not looked at again.
LeaveSlip(t) ==
  /\ bpc[t] = "woken"
  /\ bpc' = [bpc EXCEPT ![t] = "out"]
  /\ passed' = [passed EXCEPT ![t] = @ + 1]
  /\ UNCHANGED <<counter, cycle, my_cycle, entered>>

Leave(t) ==
  /\ bpc[t] = "woken" /\ my_cycle[t] # cycle
  /\ bpc' = [bpc EXCEPT ![t] = "out"]
  /\ passed' = [passed EXCEPT ![t] = @ + 1]
  /\ UNCHANGED <<counter, cycle, my_cycle, entered>>

Enter(t) == EnterLast(t) \/ EnterWait(t)
Waiting(t) == WaitAgain(t) \/ Leave(t)

-----------------------------------------------------------------------------
(* The threads meet again and again.                                       *)

BarrierStep(t) == \/ entered[t] < MaxWaits /\ Enter(t)
                  \/ SpuriousWake(t) \/ Waiting(t)

BarrierDone == /\ \A t \in Threads : passed[t] = MaxWaits
               /\ UNCHANGED barrier

BarrierNext == (\E t \in Threads : BarrierStep(t)) \/ BarrierDone

BarrierSpec == BarrierInit /\ [][BarrierNext]_barrier

-----------------------------------------------------------------------------
BarrierTypeOK ==
  /\ counter \in 1..threshold /\ cycle \in BOOLEAN
  /\ bpc \in [Threads -> {"out", "wait", "woken"}]
  /\ my_cycle \in [Threads -> BOOLEAN]
  /\ entered \in [Threads -> Nat] /\ passed \in [Threads -> Nat]

(* What the header of barrier.c promises: nobody gets past a barrier that  *)
(* somebody has not reached, also when a fast thread is at the barrier     *)
(* again before the slow ones have left it.                                *)
NobodyAhead == \A t, u \in Threads : passed[t] <= entered[u]
=============================================================================
