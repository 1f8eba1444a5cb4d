---------------------------- MODULE ServerProofs ----------------------------
(***************************************************************************)
(* For any number of workers, connections and background threads: the      *)
(* server uses the thread barrier as it is meant to be used, the filter    *)
(* manager outlives its users, and a connection that was freed is out of   *)
(* reach of every event loop.                                              *)
(*                                                                         *)
(* The last needs to know who owns a connection at each moment: main while *)
(* it sends it, one pipe, at one place, and then the worker that read it.  *)
(***************************************************************************)
EXTENDS Server, TLAPS

MainPlaces == {"create", "barrier", "test", "ev_run", "send", "quit", "join",
               "destroy", "done"}
WorkerPlaces == {"none", "start", "barrier1", "barrier2", "test", "ev_run",
                 "callbacks", "pointer", "gone"}
Messages == Conns \cup {"a", "q"}
AllEvents == (Conns \X {"read", "write"}) \cup (Workers \X {"pipe"})

TypeInv ==
  /\ should_run \in BOOLEAN /\ mgr_alive \in BOOLEAN
  /\ mpc \in MainPlaces /\ i \in 0..worker_threads
  /\ last_assign \in Nat /\ next_thread \in Workers
  /\ wpc \in [Workers -> WorkerPlaces]
  /\ pipe \in [Workers -> Seq(Messages)]
  /\ run \in [Workers -> BOOLEAN]
  /\ ready \in [Workers -> SUBSET AllEvents]
  /\ inactive \in [Workers -> Seq(Conns)]
  /\ cstate \in [Conns -> {"none", "sent", "open", "freed"}]
  /\ active \in [Conns -> BOOLEAN]
  /\ thread_ev \in [Conns -> Workers \cup {NULL}]
  /\ writing \subseteq Conns
  /\ bpcs \in [Background -> {"test", "work", "gone"}]

(* How far main is tells which workers exist and which have ended.         *)
PhaseInv ==
  /\ mpc \in {"quit", "join"} => i \in Workers
  /\ mpc = "create" => \A w \in Workers : w >= i => wpc[w] = "none"
  /\ mpc = "join" => \A w \in Workers : w < i => wpc[w] = "gone"
  /\ mpc \in {"destroy", "done"} => \A w \in Workers : wpc[w] = "gone"
  /\ ~mgr_alive => mpc = "done" /\ \A b \in Background : bpcs[b] = "gone"

Sending(w) == mpc = "send" /\ next_thread = w

(* In a pipe every "a" is followed by a connection, which is sent once;    *)
(* only of the last "a" main may still owe the connection.                 *)
Wire(w) ==
  /\ pipe[w] = <<>> => (wpc[w] = "pointer" <=> Sending(w))
  /\ \A k \in 1..Len(pipe[w]) :
       /\ pipe[w][k] \in Conns => cstate[pipe[w][k]] = "sent"
       /\ k = 1 => (pipe[w][k] \in Conns <=> wpc[w] = "pointer")
       /\ k < Len(pipe[w]) => (pipe[w][k + 1] \in Conns <=> pipe[w][k] = "a")
       /\ k = Len(pipe[w]) => (Sending(w) <=> pipe[w][k] = "a")

SentOnce ==
  \A v, w \in Workers : \A j \in 1..Len(pipe[v]), k \in 1..Len(pipe[w]) :
    pipe[v][j] \in Conns /\ pipe[v][j] = pipe[w][k] => v = w /\ j = k

StillToSend ==
  mpc = "send" => /\ conn \in Conns /\ cstate[conn] = "sent"
                  /\ \A w \in Workers : \A k \in 1..Len(pipe[w]) :
                        pipe[w][k] # conn

PipeInv == (\A w \in Workers : Wire(w)) /\ SentOnce /\ StillToSend

Owned(c, w) == c \in Conns /\ cstate[c] = "open" /\ thread_ev[c] = w

(* What a loop watches, is about to call back or has listed is its own.    *)
ReadyInv(w) ==
  /\ \A c \in Conns : <<c, "read">> \in ready[w] => Owned(c, w)
  /\ \A c \in Conns : <<c, "write">> \in ready[w] => Owned(c, w)
  /\ \A v \in Workers : <<v, "pipe">> \in ready[w] =>
        v = w /\ pipe[w] # <<>> /\ wpc[w] # "pointer"

InactiveInv(w) ==
  /\ \A k \in 1..Len(inactive[w]) :
        Owned(inactive[w][k], w) /\ ~active[inactive[w][k]]
  /\ \A j, k \in 1..Len(inactive[w]) :
        inactive[w][j] = inactive[w][k] => j = k

LoopInv == /\ \A c \in writing : cstate[c] = "open"
           /\ \A w \in Workers : ReadyInv(w) /\ InactiveInv(w)

Inv == TypeInv /\ PhaseInv /\ PipeInv /\ LoopInv

-----------------------------------------------------------------------------
(* The barrier: every step of the server is a step of the barrier or leaves *)
(* it alone.                                                                *)
LEMMA BarrierStepOrStutter == Next => [BarrierNext]_barrier
  <1> SUFFICES ASSUME Next PROVE BarrierNext \/ UNCHANGED barrier
    OBVIOUS
  <1>0. Main \in Threads /\ Workers \subseteq Threads /\ MaxWaits = 2
    BY ServerAssumption, SMTT(120) DEF Main, Workers
  <1>1. CASE MainBarrier
    BY <1>0, <1>1, SMTT(120) DEF MainBarrier, BarrierNext, BarrierStep
  <1>2. CASE \E w \in Workers : WorkerBarrier(w)
    <2> PICK w \in Workers : WorkerBarrier(w)
      BY <1>2, SMTT(120)
    <2>1. entered[w] < MaxWaits /\ Enter(w)
      BY <1>0, SMTT(120) DEF WorkerBarrier
    <2> QED BY <1>0, <2>1, SMTT(120) DEF BarrierNext, BarrierStep
  <1>3. CASE \E t \in Threads : AtBarrier(t)
    BY <1>3, SMTT(120) DEF AtBarrier, BarrierNext, BarrierStep
  <1>4. CASE MainLoop /\ ~MainBarrier
    BY <1>4, SMTT(120) DEF MainLoop, EnterMainLoop, MainPassed, TestShouldRun, SendConn,
       CreateWorker, SendQuit, JoinWorker, DestroyManager
  <1>5. CASE Signal \/ AcceptNothing \/ Terminated \/ \E c \in Conns : AcceptClient(c)
    BY <1>5, SMTT(120) DEF Signal, AcceptNothing, Terminated, AcceptClient, vars
  <1>6. CASE \E w \in Workers : (Work(w) /\ ~WorkerBarrier(w)) \/ Poll(w)
    BY <1>6, Zenon DEF Work, Poll, StartWorker, Register, WorkerPassed, WorkerTest,
       Notified, ReadPointer, CloseConn, EndIteration, InvokeEventHandler,
       HandleClientWritebuf, Called
  <1>7. CASE \E b \in Background : BackgroundStep(b)
    BY <1>7, SMTT(120) DEF BackgroundStep, BackgroundTest, BackgroundWork
  <1> QED BY <1>1, <1>2, <1>3, <1>4, <1>5, <1>6, <1>7, SMTT(120) DEF Next

(* The server implements the barrier's specification: main and the workers  *)
(* call barrier_wait twice each and touch the barrier nowhere else          *)
(* (networking.c:610-625, 663-667).  With ThreadBarrierProofs!BarrierHolds   *)
(* nobody in the server gets past a barrier that somebody has not reached.  *)
THEOREM ServerUsesBarrier == Spec => BarrierIsUsed
  <1>1. Init => BarrierInit
    BY SMTT(120) DEF Init
  <1>2. UNCHANGED vars => UNCHANGED barrier
    BY SMTT(120) DEF vars
  <1>3. [Next]_vars => [BarrierNext]_barrier
    BY <1>2, BarrierStepOrStutter, SMTT(120)
  <1> QED BY <1>1, <1>3, PTL DEF Spec, BarrierSpec, BarrierIsUsed

-----------------------------------------------------------------------------
(* The connections: types.                                                  *)
LEMMA NextThreadIsWorker ==
  ASSUME TypeInv PROVE NextThread \in Workers
  BY ServerAssumption, SMTT(120) DEF TypeInv, NextThread, Workers

LEMMA TypeKeeps == TypeInv /\ PhaseInv /\ PipeInv /\ LoopInv /\ Next => TypeInv'
  <1> SUFFICES ASSUME TypeInv, PhaseInv, PipeInv, LoopInv, Next PROVE TypeInv'
    OBVIOUS
  <1> USE DEF MainPlaces, WorkerPlaces
  <1>1. CASE CreateWorker
    <2>1. i \in Workers /\ i + 1 \in 0..worker_threads
      BY <1>1, ServerAssumption, SMTT(120) DEF CreateWorker, TypeInv, Workers
    <2> QED BY <1>1, <2>1, SMTT(120) DEF CreateWorker, TypeInv, assign, conns
  <1>2. CASE EnterMainLoop \/ MainPassed \/ AcceptNothing
    BY <1>2, SMTT(120) DEF EnterMainLoop, MainPassed, AcceptNothing, TypeInv, assign,
       worker, conns
  <1>17. CASE Signal
    <2>1. mpc' \in MainPlaces
      BY <1>17, SMTT(120) DEF Signal, TypeInv
    <2> QED BY <1>17, <2>1, Zenon DEF Signal, TypeInv, assign, worker, conns
  <1>3. CASE MainBarrier \/ (\E w \in Workers : WorkerBarrier(w))
             \/ (\E t \in Threads : AtBarrier(t))
    BY <1>3, SMTT(120) DEF MainBarrier, WorkerBarrier, AtBarrier, TypeInv, main, assign,
       worker, conns
  <1>4. CASE TestShouldRun \/ DestroyManager
    <2>1. i' \in 0..worker_threads
      BY <1>4, ServerAssumption, SMTT(120) DEF TestShouldRun, DestroyManager, TypeInv
    <2>2. mpc' \in MainPlaces
      BY <1>4, SMTT(120) DEF TestShouldRun, DestroyManager
    <2>3. mgr_alive' \in BOOLEAN
      BY <1>4, Zenon DEF TestShouldRun, DestroyManager, TypeInv
    <2> QED BY <1>4, <2>1, <2>2, <2>3, Zenon
            DEF TestShouldRun, DestroyManager, TypeInv, assign, worker, conns
  <1>5. ASSUME NEW c \in Conns, AcceptClient(c) PROVE TypeInv'
    <2>1. pipe' \in [Workers -> Seq(Messages)]
      BY <1>5, NextThreadIsWorker, SMTT(120) DEF AcceptClient, TypeInv, Messages
    <2>2. next_thread' \in Workers /\ last_assign' \in Nat
      BY <1>5, NextThreadIsWorker, SMTT(120) DEF AcceptClient, TypeInv
    <2> QED BY <1>5, <2>1, <2>2, SMTT(120) DEF AcceptClient, TypeInv
  <1>6. CASE SendConn
    <2>1. pipe' \in [Workers -> Seq(Messages)]
      BY <1>6, SMTT(120) DEF SendConn, TypeInv, Messages, PipeInv, StillToSend
    <2> QED BY <1>6, <2>1, SMTT(120) DEF SendConn, TypeInv, assign, conns
  <1>7. CASE SendQuit
    <2>1. pipe' \in [Workers -> Seq(Messages)]
      BY <1>7, SMTT(120) DEF SendQuit, TypeInv, PhaseInv, Messages
    <2>2. i' \in 0..worker_threads /\ mpc' \in MainPlaces
      BY <1>7, ServerAssumption, SMTT(120) DEF SendQuit, TypeInv
    <2> QED BY <1>7, <2>1, <2>2, SMTT(120) DEF SendQuit, TypeInv, assign, conns
  <1>8. CASE JoinWorker
    BY <1>8, ServerAssumption, SMTT(120) DEF JoinWorker, TypeInv, assign, worker, conns
  <1>9. ASSUME NEW w \in Workers,
               StartWorker(w) \/ Register(w) \/ WorkerPassed(w) \/ WorkerTest(w)
               \/ EndIteration(w)
        PROVE  TypeInv'
    BY <1>9, Zenon DEF StartWorker, Register, WorkerPassed, WorkerTest, EndIteration,
       TypeInv, main, assign, conns
  <1>10. ASSUME NEW w \in Workers, Poll(w) PROVE TypeInv'
    <2>1. Events(w) \subseteq AllEvents
      BY SMTT(120) DEF Events, AllEvents, TypeInv
    <2>2. ready' \in [Workers -> SUBSET AllEvents]
      BY <1>10, <2>1, SMTT(120) DEF Poll, TypeInv
    <2> QED BY <1>10, <2>2, SMTT(120) DEF Poll, TypeInv, main, assign, conns
  <1>11. ASSUME NEW w \in Workers, Notified(w) PROVE TypeInv'
    <2>1. pipe[w] # <<>>
      BY <1>11, SMTT(120) DEF Notified, LoopInv, ReadyInv
    <2>2. pipe' \in [Workers -> Seq(Messages)]
      BY <1>11, <2>1, SMTT(120) DEF Notified, TypeInv
    <2>3. ready' \in [Workers -> SUBSET AllEvents]
      BY <1>11, SMTT(120) DEF Notified, TypeInv
    <2>4. run' \in [Workers -> BOOLEAN]
      BY <1>11, Zenon DEF Notified, TypeInv
    <2>5. wpc' \in [Workers -> WorkerPlaces]
      BY <1>11, ZenonT(60) DEF Notified, TypeInv
    <2> QED BY <1>11, <2>2, <2>3, <2>4, <2>5, SMTT(120) DEF Notified, TypeInv, main, assign, conns
  <1>12. ASSUME NEW w \in Workers, ReadPointer(w) PROVE TypeInv'
    <2>1. pipe' \in [Workers -> Seq(Messages)]
      BY <1>12, SMTT(120) DEF ReadPointer, TypeInv
    <2> QED BY <1>12, <2>1, Zenon DEF ReadPointer, TypeInv, main, assign
  <1>13. ASSUME NEW w \in Workers, NEW c \in Conns,
                InvokeEventHandler(w, c) \/ HandleClientWritebuf(w, c)
         PROVE  TypeInv'
    <2>1. ready' \in [Workers -> SUBSET AllEvents]
      BY <1>13, Zenon DEF InvokeEventHandler, HandleClientWritebuf, TypeInv
    <2>2. inactive' \in [Workers -> Seq(Conns)]
      <3>1. inactive' = inactive \/ inactive' = [inactive EXCEPT ![w] = <<c>> \o @]
        BY <1>13, SMTT(120) DEF InvokeEventHandler, HandleClientWritebuf, Deactivate
      <3>2. inactive[w] \in Seq(Conns) => <<c>> \o inactive[w] \in Seq(Conns)
        OBVIOUS
      <3> QED BY <3>1, <3>2, Zenon DEF TypeInv
    <2>3. active' \in [Conns -> BOOLEAN]
      BY <1>13, Zenon DEF InvokeEventHandler, HandleClientWritebuf, Deactivate, TypeInv
    <2>4. writing' \subseteq Conns
      BY <1>13, SMTT(120) DEF InvokeEventHandler, HandleClientWritebuf, TypeInv
    <2>5. UNCHANGED <<should_run, main, workers, wpc, pipe, run, cstate,
                      thread_ev, bpcs>>
      BY <1>13, SMTT(120) DEF InvokeEventHandler, HandleClientWritebuf, Called
    <2> QED BY <2>1, <2>2, <2>3, <2>4, <2>5, Zenon DEF TypeInv, main, assign
  <1>14. ASSUME NEW w \in Workers, CloseConn(w) PROVE TypeInv'
    <2>1. inactive' \in [Workers -> Seq(Conns)]
      BY <1>14, SMTT(120) DEF CloseConn, TypeInv
    <2> QED BY <1>14, <2>1, SMTT(120) DEF CloseConn, TypeInv, main, assign
  <1>15. ASSUME NEW b \in Background, BackgroundStep(b) PROVE TypeInv'
    BY <1>15, Zenon DEF BackgroundStep, BackgroundTest, BackgroundWork, TypeInv, main,
       assign, worker, conns
  <1>16. CASE Terminated
    BY <1>16, SMTT(120) DEF Terminated, TypeInv, vars, main, assign, worker, conns
  <1> QED BY <1>1, <1>2, <1>3, <1>4, <1>5, <1>6, <1>7, <1>8, <1>9, <1>10,
             <1>11, <1>12, <1>13, <1>14, <1>15, <1>16, <1>17, Zenon DEF Next, MainLoop, Work

(* Types hold, so that main's place in the loops tells who runs.            *)
LEMMA PhaseKeeps == TypeInv /\ PhaseInv /\ Next => PhaseInv'
  <1> SUFFICES ASSUME TypeInv, PhaseInv, Next PROVE PhaseInv'
    OBVIOUS
  <1>1. CASE CreateWorker
    <2>1. \A w \in Workers : w >= i + 1 => w >= i /\ w # i
      BY ServerAssumption, SMTT(120) DEF TypeInv, Workers
    <2> QED BY <1>1, <2>1, SMTT(120) DEF CreateWorker, TypeInv, PhaseInv, assign
  <1>2. CASE EnterMainLoop \/ MainPassed \/ AcceptNothing \/ SendConn
    BY <1>2, SMTT(120) DEF EnterMainLoop, MainPassed, AcceptNothing, SendConn, PhaseInv,
       worker
  <1>11. ASSUME NEW c \in Conns, AcceptClient(c) PROVE PhaseInv'
    <2>1. mpc = "ev_run" /\ mpc' = "send" /\ UNCHANGED <<i, wpc, bpcs, mgr_alive>>
      BY <1>11, Zenon DEF AcceptClient
    <2> QED BY <2>1, Zenon DEF PhaseInv
  <1>12. CASE Signal
    <2>1. mpc' = mpc \/ (mpc = "ev_run" /\ mpc' = "test")
      BY <1>12, SMTT(120) DEF Signal
    <2> QED BY <1>12, <2>1, SMTT(120) DEF Signal, PhaseInv, worker
  <1>3. CASE MainBarrier \/ (\E w \in Workers : WorkerBarrier(w))
             \/ (\E t \in Threads : AtBarrier(t))
    BY <1>3, SMTT(120) DEF MainBarrier, WorkerBarrier, AtBarrier, PhaseInv, main, worker
  <1>4. CASE TestShouldRun
    BY <1>4, ServerAssumption, SMTT(120) DEF TestShouldRun, PhaseInv, worker, Workers
  <1>5. CASE SendQuit
    <2>1. \/ i' = i + 1 /\ i + 1 < worker_threads /\ mpc' = "quit"
          \/ i' = 0 /\ mpc' = "join"
      BY <1>5, SMTT(120) DEF SendQuit
    <2>2. i' \in Workers /\ (i' = 0 => \A w \in Workers : ~(w < i'))
      BY <2>1, ServerAssumption, SMTT(120) DEF TypeInv, Workers
    <2>3. mgr_alive /\ mgr_alive' = mgr_alive /\ wpc' = wpc
      BY <1>5, Zenon DEF SendQuit, PhaseInv
    <2> QED BY <2>1, <2>2, <2>3, SMTT(120) DEF PhaseInv
  <1>6. CASE JoinWorker
    <2>1. \A w \in Workers : w < i + 1 => w < i \/ w = i
      BY ServerAssumption, SMTT(120) DEF TypeInv, Workers
    <2>2. i + 1 < worker_threads => i + 1 \in Workers
      BY ServerAssumption, SMTT(120) DEF TypeInv, Workers
    <2>3. i + 1 >= worker_threads => \A w \in Workers : w < i + 1
      BY ServerAssumption, SMTT(120) DEF TypeInv, Workers
    <2>4. \A w \in Workers : w < i + 1 => wpc[w] = "gone"
      BY <1>6, <2>1, SMTT(120) DEF JoinWorker, PhaseInv
    <2>5. CASE i + 1 < worker_threads
      BY <1>6, <2>2, <2>4, <2>5, SMTT(120) DEF JoinWorker, PhaseInv, worker
    <2>6. CASE ~(i + 1 < worker_threads)
      <3>1. \A w \in Workers : wpc[w] = "gone"
        BY <2>3, <2>4, <2>6, ServerAssumption, SMTT(120) DEF TypeInv
      <3> QED BY <1>6, <2>6, <3>1, SMTT(120) DEF JoinWorker, PhaseInv, worker
    <2> QED BY <2>5, <2>6, SMTT(120)
  <1>7. CASE DestroyManager
    BY <1>7, SMTT(120) DEF DestroyManager, PhaseInv, worker
  <1>8. ASSUME NEW w \in Workers, Work(w) \/ Poll(w), ~WorkerBarrier(w)
        PROVE  PhaseInv'
    <2>1. /\ wpc[w] \notin {"none", "gone"}
          /\ \A v \in Workers : v # w => wpc'[v] = wpc[v]
          /\ UNCHANGED <<main, bpcs>>
      <3>1. CASE \E c \in Conns : InvokeEventHandler(w, c)
                               \/ HandleClientWritebuf(w, c)
        BY <3>1, SMTT(120) DEF InvokeEventHandler, HandleClientWritebuf, Called
      <3>2. CASE StartWorker(w) \/ Register(w) \/ WorkerPassed(w) \/ WorkerTest(w)
                 \/ Notified(w)
        BY <3>2, SMTT(120) DEF StartWorker, Register, WorkerPassed, WorkerTest, Notified,
           TypeInv
      <3>3. CASE ReadPointer(w) \/ CloseConn(w) \/ EndIteration(w) \/ Poll(w)
        BY <3>3, SMTT(120) DEF ReadPointer, CloseConn, EndIteration, Poll, TypeInv
      <3> QED BY <1>8, <3>1, <3>2, <3>3, SMTT(120) DEF Work
    <2> QED BY <2>1, SMTT(120) DEF PhaseInv, main, assign
  <1>9. ASSUME NEW b \in Background, BackgroundStep(b) PROVE PhaseInv'
    <2>1. bpcs[b] # "gone"
      BY <1>9, SMTT(120) DEF BackgroundStep, BackgroundTest, BackgroundWork
    <2> QED BY <1>9, <2>1, SMTT(120) DEF BackgroundStep, BackgroundTest, BackgroundWork,
               PhaseInv, main, worker
  <1>10. CASE Terminated
    BY <1>10, SMTT(120) DEF Terminated, PhaseInv, vars, main, worker
  <1> QED BY <1>1, <1>2, <1>3, <1>4, <1>5, <1>6, <1>7, <1>8, <1>9, <1>10,
             <1>11, <1>12, Zenon DEF Next, MainLoop, Work

-----------------------------------------------------------------------------
(* The pipes.                                                               *)

(* A step that neither sends nor reads leaves the pipes in order.           *)
LEMMA PipeFrame ==
  ASSUME PipeInv, UNCHANGED <<pipe, next_thread, conn>>,
         mpc' = "send" <=> mpc = "send",
         \A w \in Workers : wpc'[w] = "pointer" <=> wpc[w] = "pointer",
         \A c \in Conns : cstate[c] = "sent" => cstate'[c] = "sent"
  PROVE  PipeInv'
  <1>1. \A w \in Workers : Wire(w)'
    BY SMTT(120) DEF PipeInv, Wire, Sending
  <1> QED BY <1>1, SMTT(120) DEF PipeInv, SentOnce, StillToSend

(* Something is added at the end of the pipe of w: the command when main is *)
(* between connections, the connection when the command is before it.       *)
LEMMA WireGrows ==
  ASSUME TypeInv, NEW w \in Workers, Wire(w), NEW m \in Messages,
         pipe' = [pipe EXCEPT ![w] = Append(@, m)],
         wpc' = wpc,
         m \in Conns <=> Sending(w),
         Sending(w)' <=> m = "a",
         m \in Conns => cstate'[m] = "sent",
         \A c \in Conns : cstate[c] = "sent" => cstate'[c] = "sent"
  PROVE  Wire(w)'
  <1> DEFINE s == pipe[w]
             r == Append(s, m)
  <1>1. s \in Seq(Messages) /\ pipe'[w] = r
    BY SMTT(120) DEF TypeInv
  <1>2. /\ r # <<>> /\ Len(r) = Len(s) + 1 /\ Len(s) \in Nat
        /\ r[Len(s) + 1] = m
        /\ \A k \in 1..Len(s) : r[k] = s[k]
    BY <1>1, SMTT(120)
  <1>3. s = <<>> <=> Len(s) = 0
    BY <1>1, SMTT(120)
  <1> SUFFICES ASSUME NEW k \in 1..Len(r)
               PROVE  /\ r[k] \in Conns => cstate'[r[k]] = "sent"
                      /\ k = 1 => (r[k] \in Conns <=> wpc[w] = "pointer")
                      /\ k < Len(r) => (r[k + 1] \in Conns <=> r[k] = "a")
                      /\ k = Len(r) => (Sending(w)' <=> r[k] = "a")
    BY <1>1, <1>2, SMTT(120) DEF Wire
  <1> HIDE DEF r
  <1>4. CASE k = Len(s) + 1
    BY <1>2, <1>3, <1>4, SMTT(120) DEF Wire
  <1>5. CASE k \in 1..Len(s) /\ k = Len(s)
    BY <1>2, <1>3, <1>5, SMTT(120) DEF Wire
  <1>6. CASE k \in 1..Len(s) /\ k # Len(s)
    <2>1. k + 1 \in 1..Len(s) /\ k < Len(s) /\ k < Len(r) /\ k # Len(r)
      BY <1>2, <1>6, SMTT(120)
    <2>2. r[k] = s[k] /\ r[k + 1] = s[k + 1]
      BY <1>2, <1>6, <2>1, SMTT(120)
    <2> QED BY <1>6, <2>1, <2>2, SMTT(120) DEF Wire
  <1> QED BY <1>2, <1>4, <1>5, <1>6, SMTT(120)

(* The other pipes are not touched.                                         *)
LEMMA WireStays ==
  ASSUME NEW w \in Workers, Wire(w), pipe'[w] = pipe[w],
         wpc'[w] = wpc[w], Sending(w)' <=> Sending(w),
         \A k \in 1..Len(pipe[w]) : pipe[w][k] \in Conns /\ cstate[pipe[w][k]] = "sent"
                                  => cstate'[pipe[w][k]] = "sent"
  PROVE  Wire(w)'
  BY SMTT(120) DEF Wire

LEMMA NoneIsEmpty ==
  ASSUME NEW S, NEW s \in Seq(S)
  PROVE  s = <<>> <=> Len(s) = 0
  OBVIOUS

LEMMA TailFacts ==
  ASSUME NEW S, NEW s \in Seq(S), s # <<>>
  PROVE  /\ Tail(s) \in Seq(S) /\ Len(Tail(s)) = Len(s) - 1 /\ Head(s) \in S
         /\ Len(s) \in Nat \ {0} /\ Head(s) = s[1]
         /\ \A k \in 1..Len(Tail(s)) : Tail(s)[k] = s[k + 1]
         /\ Tail(s) = <<>> <=> Len(Tail(s)) = 0
  <1>1. Len(s) \in Nat \ {0}
    OBVIOUS
  <1>2. Tail(s) \in Seq(S) /\ Len(Tail(s)) = Len(s) - 1
    BY <1>1, SMTT(120)
  <1>3. \A k \in 1..Len(Tail(s)) : Tail(s)[k] = s[k + 1]
    BY <1>1, <1>2, SMTT(120)
  <1>4. Tail(s) = <<>> <=> Len(Tail(s)) = 0
    BY <1>2, NoneIsEmpty, Zenon
  <1>5. Head(s) = s[1] /\ Head(s) \in S
    BY <1>1, SMTT(120)
  <1> QED BY <1>1, <1>2, <1>3, <1>4, <1>5, SMTT(120)

(* The first entry of the pipe of w is read.                                *)
LEMMA WireShrinks ==
  ASSUME TypeInv, NEW w \in Workers, Wire(w), pipe[w] # <<>>,
         pipe'[w] = Tail(pipe[w]),
         wpc'[w] = "pointer" <=> Head(pipe[w]) = "a",
         Sending(w)' <=> Sending(w),
         \A k \in 2..Len(pipe[w]) : pipe[w][k] \in Conns /\ cstate[pipe[w][k]] = "sent"
                                  => cstate'[pipe[w][k]] = "sent"
  PROVE  Wire(w)'
  <1> DEFINE s == pipe[w]
             r == Tail(s)
  <1>1. s \in Seq(Messages) /\ pipe'[w] = r
    BY SMTT(120) DEF TypeInv
  <1>2. /\ Len(r) = Len(s) - 1 /\ Len(s) \in Nat \ {0} /\ Head(s) = s[1]
        /\ \A k \in 1..Len(r) : r[k] = s[k + 1]
        /\ r = <<>> <=> Len(r) = 0
    BY <1>1, TailFacts, SMTT(120)
  <1> HIDE DEF r
  <1>3. r = <<>> => (wpc'[w] = "pointer" <=> Sending(w)')
    BY <1>2, SMTT(120) DEF Wire
  <1>4. ASSUME NEW k \in 1..Len(r)
        PROVE  /\ r[k] \in Conns => cstate'[r[k]] = "sent"
               /\ k = 1 => (r[k] \in Conns <=> wpc'[w] = "pointer")
               /\ k < Len(r) => (r[k + 1] \in Conns <=> r[k] = "a")
               /\ k = Len(r) => (Sending(w)' <=> r[k] = "a")
    <2>1. /\ k + 1 \in 2..Len(s) /\ k + 1 \in 1..Len(s) /\ 1 \in 1..Len(s)
          /\ k = 1 => 1 < Len(s)
      BY <1>2, SMTT(120)
    <2>2. r[k] = s[k + 1]
      BY <1>2, SMTT(120)
    <2>3. r[k] \in Conns => cstate'[r[k]] = "sent"
      BY <2>1, <2>2, SMTT(120) DEF Wire
    <2>4. k = 1 => (r[k] \in Conns <=> wpc'[w] = "pointer")
      <3>1. k = 1 => r[k] = s[1 + 1]
        BY <2>2, SMTT(120)
      <3>2. 1 < Len(s) => (s[1 + 1] \in Conns <=> s[1] = "a")
        BY <2>1, SMTT(120) DEF Wire
      <3>3. wpc'[w] = "pointer" <=> s[1] = "a"
        BY <1>2, SMTT(120)
      <3> QED BY <2>1, <3>1, <3>2, <3>3, SMTT(120)
    <2>5. k < Len(r) => (r[k + 1] \in Conns <=> r[k] = "a")
      <3> HAVE k < Len(r)
      <3>1. k + 1 \in 1..Len(r) /\ k + 1 < Len(s)
        BY <1>2, SMTT(120)
      <3>2. r[k + 1] = s[(k + 1) + 1]
        BY <1>2, <3>1, SMTT(120)
      <3> QED BY <2>1, <2>2, <3>1, <3>2, SMTT(120) DEF Wire
    <2>6. k = Len(r) => (Sending(w)' <=> r[k] = "a")
      BY <1>2, <2>1, <2>2, SMTT(120) DEF Wire
    <2> QED BY <2>3, <2>4, <2>5, <2>6, SMTT(120)
  <1> QED BY <1>1, <1>3, <1>4, ZenonT(60) DEF Wire

(* Entries that move up in their pipes, by m[v] in that of v, stay apart.   *)
Shifted(m) ==
  \A v \in Workers : \A k \in 1..Len(pipe'[v]) :
     \E l \in 1..Len(pipe[v]) : l = k + m[v] /\ pipe[v][l] = pipe'[v][k]

LEMMA OnceShift ==
  ASSUME SentOnce, NEW m \in [Workers -> Nat], Shifted(m)
  PROVE  SentOnce'
  <1> SUFFICES ASSUME NEW u \in Workers, NEW v \in Workers,
                      NEW j \in 1..Len(pipe'[u]), NEW k \in 1..Len(pipe'[v]),
                      pipe'[u][j] \in Conns, pipe'[u][j] = pipe'[v][k]
               PROVE  u = v /\ j = k
    BY SMTT(120) DEF SentOnce
  <1>1. PICK jj \in 1..Len(pipe[u]) : jj = j + m[u] /\ pipe[u][jj] = pipe'[u][j]
    BY Zenon DEF Shifted
  <1>2. PICK kk \in 1..Len(pipe[v]) : kk = k + m[v] /\ pipe[v][kk] = pipe'[v][k]
    BY Zenon DEF Shifted
  <1>3. pipe[u][jj] \in Conns /\ pipe[u][jj] = pipe[v][kk]
    BY <1>1, <1>2, SMTT(120)
  <1>4. u = v /\ jj = kk
    BY <1>3, SMTT(120) DEF SentOnce
  <1>5. j \in Int /\ k \in Int /\ m[u] \in Nat
    OBVIOUS
  <1> QED BY <1>1, <1>2, <1>4, <1>5, SMTT(120)

(* Reading the first entry keeps all pipes in order, whether it was a       *)
(* command or a connection, which then is in no pipe.                       *)
LEMMA PipeRead ==
  ASSUME TypeInv, PipeInv, NEW w \in Workers, pipe[w] # <<>>,
         pipe'[w] = Tail(pipe[w]),
         \A v \in Workers : v # w => pipe'[v] = pipe[v] /\ wpc'[v] = wpc[v],
         wpc'[w] = "pointer" <=> Head(pipe[w]) = "a",
         UNCHANGED <<next_thread, conn, mpc>>,
         \A d \in Conns : d # Head(pipe[w]) /\ cstate[d] = "sent"
                         => cstate'[d] = "sent"
  PROVE  PipeInv'
  <1>1. \A v \in Workers : Sending(v)' <=> Sending(v)
    BY SMTT(120) DEF Sending
  <1>2. /\ pipe[w] \in Seq(Messages) /\ Len(pipe[w]) \in Nat \ {0}
        /\ Head(pipe[w]) = pipe[w][1] /\ Len(pipe'[w]) = Len(pipe[w]) - 1
        /\ \A k \in 1..Len(pipe'[w]) : pipe'[w][k] = pipe[w][k + 1]
    BY TailFacts, SMTT(120) DEF TypeInv
  <1>3. ASSUME NEW v \in Workers, NEW k \in 1..Len(pipe[v]),
               pipe[v][k] \in Conns, v # w \/ k # 1
        PROVE  pipe[v][k] # Head(pipe[w])
    BY <1>2, <1>3, SMTT(120) DEF PipeInv, SentOnce
  <1>4. Wire(w)'
    <2>1. \A k \in 2..Len(pipe[w]) : pipe[w][k] \in Conns /\ cstate[pipe[w][k]] = "sent"
                                   => cstate'[pipe[w][k]] = "sent"
      BY <1>2, <1>3, SMTT(120)
    <2> QED BY <1>1, <2>1, WireShrinks, SMTT(120) DEF PipeInv
  <1>5. ASSUME NEW v \in Workers, v # w PROVE Wire(v)'
    BY <1>1, <1>3, <1>5, WireStays, SMTT(120) DEF PipeInv
  <1>6. ASSUME NEW v \in Workers, NEW k \in 1..Len(pipe'[v])
        PROVE  \/ v # w /\ k \in 1..Len(pipe[v]) /\ pipe'[v][k] = pipe[v][k]
               \/ v = w /\ k + 1 \in 1..Len(pipe[v]) /\ pipe'[v][k] = pipe[v][k + 1]
    <2>1. CASE v = w
      <3>1. k \in 1..Len(pipe'[w])
        BY <2>1, Zenon
      <3>2. k + 1 \in 1..Len(pipe[w]) /\ pipe'[w][k] = pipe[w][k + 1]
        BY <1>2, <3>1, SMTT(120)
      <3> QED BY <2>1, <3>2, Zenon
    <2>2. CASE v # w
      BY <2>2, SMTT(120)
    <2> QED BY <2>1, <2>2, SMTT(120)
  <1>7. SentOnce'
    <2> DEFINE m == [v \in Workers |-> IF v = w THEN 1 ELSE 0]
    <2>1. m \in [Workers -> Nat]
      BY SMTT(120)
    <2>2. ASSUME NEW v \in Workers, NEW k \in 1..Len(pipe'[v])
          PROVE  \E l \in 1..Len(pipe[v]) : l = k + m[v] /\ pipe[v][l] = pipe'[v][k]
      <3>1. CASE v = w
        <4>1. m[v] = 1
          BY <3>1, SMTT(120)
        <4> QED BY <1>6, <3>1, <4>1, Zenon
      <3>2. CASE v # w
        <4>1. k = k + m[v]
          BY <3>2, SMTT(120)
        <4>2. k \in 1..Len(pipe[v]) /\ pipe[v][k] = pipe'[v][k]
          BY <3>2, SMTT(120)
        <4> QED BY <4>1, <4>2, Zenon
      <3> QED BY <3>1, <3>2, SMTT(120)
    <2> HIDE DEF m
    <2> QED BY <2>1, <2>2, OnceShift, Zenon DEF Shifted, PipeInv
  <1>8. StillToSend'
    <2> SUFFICES ASSUME mpc = "send"
                 PROVE  /\ conn \in Conns /\ cstate'[conn] = "sent"
                        /\ \A v \in Workers : \A k \in 1..Len(pipe'[v]) :
                              pipe'[v][k] # conn
      BY SMTT(120) DEF StillToSend
    <2>1. conn # Head(pipe[w])
      BY <1>2, SMTT(120) DEF PipeInv, StillToSend
    <2>2. conn \in Conns /\ cstate[conn] = "sent"
      BY SMTT(120) DEF PipeInv, StillToSend
    <2>3. ASSUME NEW v \in Workers, NEW k \in 1..Len(pipe'[v])
          PROVE  pipe'[v][k] # conn
      <3>1. PICK kk \in 1..Len(pipe[v]) : pipe'[v][k] = pipe[v][kk]
        BY <1>6, SMTT(120)
      <3> QED BY <3>1, SMTT(120) DEF PipeInv, StillToSend
    <2> QED BY <2>1, <2>2, <2>3, SMTT(120)
  <1> QED BY <1>4, <1>5, <1>7, <1>8, SMTT(120) DEF PipeInv

LEMMA PipeKeeps == Inv /\ Next => PipeInv'
  <1> SUFFICES ASSUME Inv, Next PROVE PipeInv'
    OBVIOUS
  <1> USE DEF Inv
  <1>0. UNCHANGED <<pipe, next_thread, conn, mpc, wpc, cstate>> => PipeInv'
    BY PipeFrame, Zenon
  <1>1. CASE CreateWorker
    <2>1. i \in Workers /\ wpc[i] = "none" /\ wpc'[i] = "start"
      BY <1>1, ServerAssumption, SMTT(120) DEF CreateWorker, TypeInv, PhaseInv, Workers
    <2>2. \A w \in Workers : wpc'[w] = "pointer" <=> wpc[w] = "pointer"
      BY <1>1, <2>1, SMTT(120) DEF CreateWorker, TypeInv
    <2>3. UNCHANGED <<pipe, next_thread, conn, mpc, cstate>>
      BY <1>1, SMTT(120) DEF CreateWorker, assign, conns
    <2> QED BY <2>2, <2>3, PipeFrame, Zenon
  <1>2. CASE EnterMainLoop \/ MainPassed \/ AcceptNothing \/ TestShouldRun \/ Signal
             \/ JoinWorker \/ DestroyManager
    <2>1. mpc' = "send" <=> mpc = "send"
      BY <1>2, SMTT(120) DEF EnterMainLoop, MainPassed, AcceptNothing, TestShouldRun,
         Signal, JoinWorker, DestroyManager
    <2>2. UNCHANGED <<pipe, next_thread, conn, wpc, cstate>>
      BY <1>2, Zenon DEF EnterMainLoop, MainPassed, AcceptNothing, TestShouldRun,
         Signal, JoinWorker, DestroyManager, assign, worker, conns
    <2> QED BY <2>1, <2>2, PipeFrame, Zenon
  <1>3. CASE MainBarrier \/ (\E w \in Workers : WorkerBarrier(w))
             \/ (\E t \in Threads : AtBarrier(t)) \/ Terminated
             \/ (\E b \in Background : BackgroundStep(b))
    BY <1>0, <1>3, Zenon DEF MainBarrier, WorkerBarrier, AtBarrier, Terminated, vars,
       BackgroundStep, BackgroundTest, BackgroundWork, main, assign, worker, conns
  <1>4. ASSUME NEW c \in Conns, AcceptClient(c) PROVE PipeInv'
    <2> PICK n \in Workers : n = NextThread
      BY NextThreadIsWorker, SMTT(120)
    <2>1. /\ next_thread' = n /\ conn' = c /\ wpc' = wpc
          /\ mpc = "ev_run" /\ mpc' = "send" /\ cstate[c] = "none"
          /\ cstate' = [cstate EXCEPT ![c] = "sent"]
          /\ pipe' = [pipe EXCEPT ![n] = Append(@, "a")]
      BY <1>4, SMTT(120) DEF AcceptClient
    <2>2. "a" \in Messages /\ "a" \notin Conns
      BY ServerAssumption, SMTT(120) DEF Messages
    <2>3. \A d \in Conns : cstate[d] = "sent" => cstate'[d] = "sent"
      BY <2>1, SMTT(120) DEF TypeInv
    <2>4. \A w \in Workers : ~Sending(w) /\ (Sending(w)' <=> w = n)
      BY <2>1, SMTT(120) DEF Sending
    <2>5. Wire(n)'
      BY <2>1, <2>2, <2>3, <2>4, WireGrows, Zenon DEF PipeInv
    <2>6. ASSUME NEW w \in Workers, w # n PROVE Wire(w)'
      <3>1. pipe'[w] = pipe[w]
        BY <2>1, <2>6, SMTT(120) DEF TypeInv
      <3> QED BY <2>1, <2>3, <2>4, <2>6, <3>1, WireStays, SMTT(120) DEF PipeInv
    <2>7. \A w \in Workers : \A k \in 1..Len(pipe'[w]) :
             pipe'[w][k] \in Conns => k \in 1..Len(pipe[w]) /\ pipe'[w][k] = pipe[w][k]
      BY <2>1, <2>2, SMTT(120) DEF TypeInv
    <2>8. SentOnce'
      BY <2>7, SMTT(120) DEF SentOnce, PipeInv
    <2>9. StillToSend'
      <3>1. cstate'[c] = "sent"
        BY <2>1, SMTT(120) DEF TypeInv
      <3>2. ASSUME NEW w \in Workers, NEW k \in 1..Len(pipe'[w])
            PROVE  pipe'[w][k] # c
        BY <2>1, <2>7, SMTT(120) DEF PipeInv, Wire
      <3> QED BY <2>1, <3>1, <3>2, Zenon DEF StillToSend
    <2> QED BY <2>5, <2>6, <2>8, <2>9, SMTT(120) DEF PipeInv
  <1>5. CASE SendConn
    <2> PICK n \in Workers : n = next_thread
      BY SMTT(120) DEF TypeInv
    <2>1. /\ next_thread = n /\ next_thread' = n /\ wpc' = wpc
          /\ mpc = "send" /\ mpc' = "test" /\ cstate' = cstate
          /\ pipe' = [pipe EXCEPT ![n] = Append(@, conn)]
          /\ conn \in Conns /\ cstate[conn] = "sent"
          /\ \A w \in Workers : \A k \in 1..Len(pipe[w]) : pipe[w][k] # conn
      BY <1>5, SMTT(120) DEF SendConn, TypeInv, assign, conns, PipeInv, StillToSend
    <2>2. \A w \in Workers : (Sending(w) <=> w = n) /\ ~Sending(w)'
      BY <2>1, SMTT(120) DEF Sending
    <2>3. conn # "a" /\ conn \in Messages
      BY <2>1, ServerAssumption, SMTT(120) DEF Messages
    <2>4. Wire(n)'
      BY <2>1, <2>2, <2>3, WireGrows, ZenonT(60) DEF PipeInv
    <2>5. ASSUME NEW w \in Workers, w # n PROVE Wire(w)'
      <3>1. pipe'[w] = pipe[w]
        BY <2>1, <2>5, SMTT(120) DEF TypeInv
      <3> QED BY <2>1, <2>2, <2>5, <3>1, WireStays, SMTT(120) DEF PipeInv
    <2>6. \A w \in Workers : \A k \in 1..Len(pipe'[w]) :
             \/ k \in 1..Len(pipe[w]) /\ pipe'[w][k] = pipe[w][k]
             \/ w = n /\ k = Len(pipe[n]) + 1 /\ pipe'[w][k] = conn
      BY <2>1, SMTT(120) DEF TypeInv
    <2>7. SentOnce'
      BY <2>1, <2>6, SMTT(120) DEF SentOnce, PipeInv
    <2>8. StillToSend'
      BY <2>1, SMTT(120) DEF StillToSend
    <2> QED BY <2>4, <2>5, <2>7, <2>8, SMTT(120) DEF PipeInv
  <1>6. CASE SendQuit
    <2> PICK n \in Workers : n = i
      BY <1>6, SMTT(120) DEF SendQuit, PhaseInv
    <2>1. /\ wpc' = wpc /\ mpc = "quit" /\ mpc' # "send"
          /\ cstate' = cstate /\ pipe' = [pipe EXCEPT ![n] = Append(@, "q")]
      BY <1>6, SMTT(120) DEF SendQuit, conns
    <2>2. "q" \in Messages /\ "q" \notin Conns /\ "q" # "a"
      BY ServerAssumption, SMTT(120) DEF Messages
    <2>3. \A w \in Workers : ~Sending(w) /\ ~Sending(w)'
      BY <2>1, SMTT(120) DEF Sending
    <2>4. Wire(n)
      BY SMTT(120) DEF PipeInv
    <2>5. Wire(n)'
      BY <2>1, <2>2, <2>3, <2>4, WireGrows, ZenonT(60)
    <2>6. ASSUME NEW w \in Workers, w # n PROVE Wire(w)'
      <3>1. pipe'[w] = pipe[w]
        BY <2>1, <2>6, SMTT(120) DEF TypeInv
      <3> QED BY <2>1, <2>3, <2>6, <3>1, WireStays, SMTT(120) DEF PipeInv
    <2>7. \A w \in Workers : \A k \in 1..Len(pipe'[w]) :
             pipe'[w][k] \in Conns => k \in 1..Len(pipe[w]) /\ pipe'[w][k] = pipe[w][k]
      BY <2>1, <2>2, SMTT(120) DEF TypeInv
    <2>8. SentOnce'
      BY <2>7, SMTT(120) DEF SentOnce, PipeInv
    <2> QED BY <2>1, <2>5, <2>6, <2>8, SMTT(120) DEF PipeInv, StillToSend
  <1>7. ASSUME NEW w \in Workers,
               StartWorker(w) \/ Register(w) \/ WorkerPassed(w) \/ WorkerTest(w)
               \/ EndIteration(w) \/ Poll(w)
        PROVE  PipeInv'
    <2>1. \A v \in Workers : wpc'[v] = "pointer" <=> wpc[v] = "pointer"
      BY <1>7, SMTT(120) DEF StartWorker, Register, WorkerPassed, WorkerTest, EndIteration,
         Poll, TypeInv
    <2>2. UNCHANGED <<pipe, next_thread, conn, mpc, cstate>>
      BY <1>7, SMTT(120) DEF StartWorker, Register, WorkerPassed, WorkerTest, EndIteration,
         Poll, main, assign, conns
    <2> QED BY <2>1, <2>2, PipeFrame, Zenon
  <1>8. ASSUME NEW w \in Workers, NEW c \in Conns,
               InvokeEventHandler(w, c) \/ HandleClientWritebuf(w, c)
        PROVE  PipeInv'
    BY <1>0, <1>8, Zenon DEF InvokeEventHandler, HandleClientWritebuf, Called, main, assign
  <1>9. ASSUME NEW w \in Workers, Notified(w) PROVE PipeInv'
    <2>1. pipe[w] # <<>> /\ wpc[w] = "callbacks"
      BY <1>9, SMTT(120) DEF Notified, LoopInv, ReadyInv
    <2>2. /\ pipe' = [pipe EXCEPT ![w] = Tail(@)]
          /\ UNCHANGED <<next_thread, conn, mpc, cstate>>
      BY <1>9, SMTT(120) DEF Notified, main, assign, conns
    <2>3. pipe[w] \in Seq(Messages) /\ Head(pipe[w]) = pipe[w][1] /\ 1 \in 1..Len(pipe[w])
      BY <2>1, TailFacts, SMTT(120) DEF TypeInv
    <2>4. Head(pipe[w]) \in {"a", "q"}
      BY <2>1, <2>3, SMTT(120) DEF PipeInv, Wire, Messages
    <2>5. /\ wpc'[w] = "pointer" <=> Head(pipe[w]) = "a"
          /\ \A v \in Workers : v # w => wpc'[v] = wpc[v]
      BY <1>9, <2>1, <2>4, SMTT(120) DEF Notified, TypeInv
    <2>6. pipe'[w] = Tail(pipe[w]) /\ \A v \in Workers : v # w => pipe'[v] = pipe[v]
      BY <2>2, SMTT(120) DEF TypeInv
    <2> QED BY <2>1, <2>2, <2>5, <2>6, PipeRead, Zenon
  <1>10. ASSUME NEW w \in Workers, ReadPointer(w) PROVE PipeInv'
    <2> DEFINE c == Head(pipe[w])
    <2>1. /\ pipe[w] # <<>> /\ wpc[w] = "pointer"
          /\ pipe' = [pipe EXCEPT ![w] = Tail(@)]
          /\ wpc' = [wpc EXCEPT ![w] = "callbacks"]
          /\ cstate' = [cstate EXCEPT ![c] = "open"]
          /\ UNCHANGED <<next_thread, conn, mpc>>
      BY <1>10, SMTT(120) DEF ReadPointer, main, assign
    <2>2. pipe[w] \in Seq(Messages) /\ c = pipe[w][1] /\ 1 \in 1..Len(pipe[w])
      BY <2>1, TailFacts, SMTT(120) DEF TypeInv
    <2>3. c \in Conns
      BY <2>1, <2>2, SMTT(120) DEF PipeInv, Wire
    <2>4. c # "a"
      BY <2>3, ServerAssumption, SMTT(120)
    <2>5. /\ wpc'[w] = "pointer" <=> c = "a"
          /\ \A v \in Workers : v # w => wpc'[v] = wpc[v]
      BY <2>1, <2>4, SMTT(120) DEF TypeInv
    <2>6. pipe'[w] = Tail(pipe[w]) /\ \A v \in Workers : v # w => pipe'[v] = pipe[v]
      BY <2>1, SMTT(120) DEF TypeInv
    <2>7. \A d \in Conns : d # c /\ cstate[d] = "sent" => cstate'[d] = "sent"
      BY <2>1, SMTT(120) DEF TypeInv
    <2> HIDE DEF c
    <2> QED BY <2>1, <2>2, <2>5, <2>6, <2>7, PipeRead, SMTT(120) DEF c
  <1>11. ASSUME NEW w \in Workers, CloseConn(w) PROVE PipeInv'
    <2>1. /\ cstate' = [cstate EXCEPT ![Head(inactive[w])] = "freed"]
          /\ UNCHANGED <<pipe, next_thread, conn, mpc, wpc>>
      BY <1>11, SMTT(120) DEF CloseConn, main, assign
    <2>2. Head(inactive[w]) = inactive[w][1] /\ 1 \in 1..Len(inactive[w])
      BY <1>11, TailFacts, SMTT(120) DEF CloseConn, TypeInv
    <2>3. cstate[Head(inactive[w])] = "open"
      BY <2>2, SMTT(120) DEF LoopInv, InactiveInv, Owned
    <2>4. \A c \in Conns : cstate[c] = "sent" => cstate'[c] = "sent"
      BY <2>1, <2>3, SMTT(120) DEF TypeInv
    <2> QED BY <2>1, <2>4, PipeFrame, ZenonT(60)
  <1> QED BY <1>1, <1>2, <1>3, <1>4, <1>5, <1>6, <1>7, <1>8, <1>9, <1>10,
             <1>11, Zenon DEF Next, MainLoop, Work

-----------------------------------------------------------------------------
(* The event loops.                                                         *)

(* Events only go away, and the connections stay what they are.             *)
LEMMA ReadyStays ==
  ASSUME NEW w \in Workers, ReadyInv(w), ready'[w] \subseteq ready[w],
         <<w, "pipe">> \in ready'[w] => pipe'[w] # <<>> /\ wpc'[w] # "pointer",
         \A c \in Conns : Owned(c, w) /\ (<<c, "read">> \in ready'[w]
                                        \/ <<c, "write">> \in ready'[w])
                         => Owned(c, w)'
  PROVE  ReadyInv(w)'
  BY ZenonT(60) DEF ReadyInv

LEMMA InactiveStays ==
  ASSUME NEW w \in Workers, InactiveInv(w), inactive'[w] = inactive[w],
         \A c \in Conns : Owned(c, w) /\ ~active[c] => Owned(c, w)' /\ ~active'[c]
  PROVE  InactiveInv(w)'
  <1>1. \A k \in 1..Len(inactive[w]) : inactive[w][k] \in Conns
    BY SMTT(120) DEF InactiveInv, Owned
  <1> QED BY <1>1, SMTT(120) DEF InactiveInv

(* A connection is listed by deactivate_client_connection.                  *)
LEMMA InactiveGrows ==
  ASSUME NEW w \in Workers, NEW c \in Conns, InactiveInv(w),
         inactive[w] \in Seq(Conns), inactive'[w] = <<c>> \o inactive[w],
         ~active'[c], Owned(c, w)',
         \A d \in Conns : Owned(d, w) /\ ~active[d] =>
                         Owned(d, w)' /\ ~active'[d] /\ d # c
  PROVE  InactiveInv(w)'
  <1> DEFINE s == inactive[w]
             r == <<c>> \o s
             Good(d) == /\ d \in Conns /\ cstate'[d] = "open"
                        /\ thread_ev'[d] = w /\ ~active'[d]
  <1>1. /\ Len(s) \in Nat /\ Len(r) = Len(s) + 1 /\ r[1] = c
        /\ \A k \in 1..Len(s) : s[k] \in Conns
        /\ \A k \in 2..Len(r) : k - 1 \in 1..Len(s) /\ r[k] = s[k - 1]
    OBVIOUS
  <1> HIDE DEF r
  <1>2. ASSUME NEW k \in 2..Len(r) PROVE Good(r[k]) /\ r[k] # c
    <2>1. /\ s[k - 1] \in Conns /\ Owned(s[k - 1], w) /\ ~active[s[k - 1]]
          /\ r[k] = s[k - 1]
      BY <1>1, Zenon DEF InactiveInv
    <2> QED BY <2>1, Zenon DEF Owned
  <1>3. ASSUME NEW k \in 1..Len(r) PROVE Good(r[k])
    <2>1. k = 1 \/ k \in 2..Len(r)
      BY <1>1, SMTT(120)
    <2> QED BY <1>1, <1>2, <2>1, Zenon DEF Owned
  <1>4. ASSUME NEW j \in 1..Len(r), NEW k \in 1..Len(r), r[j] = r[k] PROVE j = k
    <2>1. (j = 1 \/ j \in 2..Len(r)) /\ (k = 1 \/ k \in 2..Len(r))
      BY <1>1, SMTT(120)
    <2>2. CASE j = 1 \/ k = 1
      BY <1>1, <1>2, <1>4, <2>1, <2>2, SMTT(120)
    <2>3. CASE j \in 2..Len(r) /\ k \in 2..Len(r)
      <3>1. /\ j - 1 \in 1..Len(s) /\ k - 1 \in 1..Len(s)
            /\ s[j - 1] = s[k - 1]
        BY <1>1, <1>4, <2>3, SMTT(120)
      <3>2. j - 1 = k - 1
        BY <3>1, SMTT(120) DEF InactiveInv
      <3> QED BY <1>1, <2>3, <3>2, SMTT(120)
    <2> QED BY <2>1, <2>2, <2>3, SMTT(120)
  <1> QED BY <1>3, <1>4, SMTT(120) DEF InactiveInv, Owned, r

(* The first one listed is closed.                                          *)
LEMMA InactiveShrinks ==
  ASSUME NEW w \in Workers, InactiveInv(w),
         inactive[w] \in Seq(Conns), inactive[w] # <<>>,
         inactive'[w] = Tail(inactive[w]),
         \A d \in Conns : Owned(d, w) /\ ~active[d] /\ d # Head(inactive[w])
                         => Owned(d, w)' /\ ~active'[d]
  PROVE  InactiveInv(w)'
  <1> DEFINE s == inactive[w]
             r == Tail(s)
             Good(d) == /\ d \in Conns /\ cstate'[d] = "open"
                        /\ thread_ev'[d] = w /\ ~active'[d]
  <1>1. /\ Len(s) \in Nat \ {0} /\ Len(r) = Len(s) - 1 /\ Head(s) = s[1]
        /\ \A k \in 1..Len(s) : s[k] \in Conns
    BY TailFacts, SMTT(120)
  <1>2. \A k \in 1..Len(r) : r[k] = s[k + 1]
    BY TailFacts, SMTT(120)
  <1> HIDE DEF r
  <1>3. \A k \in 1..Len(r) : k + 1 \in 1..Len(s) /\ k + 1 # 1 /\ 1 \in 1..Len(s)
    BY <1>1, SMTT(120)
  <1>4. ASSUME NEW k \in 1..Len(r) PROVE Good(r[k])
    <2>1. s[k + 1] \in Conns /\ Owned(s[k + 1], w) /\ ~active[s[k + 1]]
      BY <1>1, <1>3, SMTT(120) DEF InactiveInv
    <2>2. s[k + 1] # Head(s)
      BY <1>1, <1>3, SMTT(120) DEF InactiveInv
    <2> QED BY <1>2, <2>1, <2>2, SMTT(120) DEF Owned
  <1>5. ASSUME NEW j \in 1..Len(r), NEW k \in 1..Len(r), r[j] = r[k] PROVE j = k
    <2>1. j + 1 = k + 1
      BY <1>2, <1>3, <1>5, SMTT(120) DEF InactiveInv
    <2> QED BY <1>1, <2>1, SMTT(120)
  <1> QED BY <1>4, <1>5, Zenon DEF InactiveInv, Owned, r

LEMMA LoopMoves ==
  ASSUME LoopInv, UNCHANGED inactive,
         writing' \subseteq writing \cap Conns,
         \A w \in Workers : ready'[w] \subseteq ready[w],
         \A w \in Workers : <<w, "pipe">> \in ready'[w] =>
                             pipe'[w] # <<>> /\ wpc'[w] # "pointer",
         \A c \in Conns : cstate[c] = "open" => cstate'[c] = "open"
                                              /\ thread_ev'[c] = thread_ev[c]
                                              /\ (active'[c] <=> active[c])
  PROVE  LoopInv'
  <1>1. \A c \in Conns, w \in Workers : Owned(c, w) =>
           Owned(c, w)' /\ (active'[c] <=> active[c])
    BY SMTT(120) DEF Owned
  <1>2. \A w \in Workers : ReadyInv(w)'
    BY <1>1, ReadyStays, ZenonT(60) DEF LoopInv
  <1>3. \A w \in Workers : InactiveInv(w)'
    BY <1>1, InactiveStays, SMTT(120) DEF LoopInv
  <1>4. \A c \in writing' : cstate'[c] = "open"
    BY SMTT(120) DEF LoopInv
  <1> QED BY <1>2, <1>3, <1>4, SMTT(120) DEF LoopInv

(* A step that leaves the connections and the events alone.                 *)
LEMMA LoopFrame ==
  ASSUME LoopInv, UNCHANGED <<writing, cstate, thread_ev, ready, inactive, active>>,
         \A w \in Workers : pipe[w] # <<>> => pipe'[w] # <<>>,
         \A w \in Workers : wpc'[w] = "pointer" => wpc[w] = "pointer"
  PROVE  LoopInv'
  BY SMTT(120) DEF LoopInv, ReadyInv, InactiveInv, Owned

LEMMA LoopKeeps == Inv /\ Next => LoopInv'
  <1> SUFFICES ASSUME Inv, Next PROVE LoopInv'
    OBVIOUS
  <1> USE DEF Inv
  <1>0. UNCHANGED <<writing, cstate, thread_ev, ready, inactive, active, pipe, wpc>>
        => LoopInv'
    BY LoopFrame, Zenon
  <1>1. CASE CreateWorker
    <2>1. i \in Workers /\ wpc'[i] = "start"
      BY <1>1, ServerAssumption, SMTT(120) DEF CreateWorker, TypeInv, Workers
    <2>2. \A w \in Workers : wpc'[w] = "pointer" => wpc[w] = "pointer"
      BY <1>1, <2>1, SMTT(120) DEF CreateWorker, TypeInv
    <2>3. UNCHANGED <<writing, cstate, thread_ev, ready, inactive, active, pipe>>
      BY <1>1, SMTT(120) DEF CreateWorker, conns
    <2> QED BY <2>2, <2>3, LoopFrame, ZenonT(60)
  <1>2. CASE EnterMainLoop \/ MainPassed \/ AcceptNothing \/ TestShouldRun \/ Signal
             \/ JoinWorker \/ DestroyManager \/ MainBarrier \/ Terminated
    BY <1>0, <1>2, Zenon DEF EnterMainLoop, MainPassed, AcceptNothing, TestShouldRun,
       Signal, JoinWorker, DestroyManager, MainBarrier, Terminated, vars,
       worker, conns
  <1>3. CASE (\E w \in Workers : WorkerBarrier(w)) \/ (\E t \in Threads : AtBarrier(t))
             \/ (\E b \in Background : BackgroundStep(b))
    BY <1>0, <1>3, Zenon DEF WorkerBarrier, AtBarrier, BackgroundStep, BackgroundTest,
       BackgroundWork, worker, conns
  <1>4. CASE SendConn \/ SendQuit
    <2>1. \A w \in Workers : pipe[w] # <<>> => pipe'[w] # <<>>
      BY <1>4, SMTT(120) DEF SendConn, SendQuit, TypeInv
    <2>2. UNCHANGED <<writing, cstate, thread_ev, ready, inactive, active, wpc>>
      BY <1>4, SMTT(120) DEF SendConn, SendQuit, conns
    <2> QED BY <2>1, <2>2, LoopFrame, Zenon
  <1>5. ASSUME NEW c \in Conns, AcceptClient(c) PROVE LoopInv'
    <2>1. /\ UNCHANGED <<writing, thread_ev, ready, inactive, wpc>>
          /\ active' = [active EXCEPT ![c] = TRUE]
          /\ cstate[c] = "none" /\ cstate' = [cstate EXCEPT ![c] = "sent"]
      BY <1>5, SMTT(120) DEF AcceptClient
    <2>2. \A w \in Workers : pipe[w] # <<>> => pipe'[w] # <<>>
      <3> PICK n \in Workers : n = NextThread
        BY NextThreadIsWorker, SMTT(120)
      <3>1. pipe' = [pipe EXCEPT ![n] = Append(@, "a")]
        BY <1>5, SMTT(120) DEF AcceptClient
      <3>2. Append(pipe[n], "a") # <<>>
        <4>1. pipe[n] \in Seq(Messages) /\ "a" \in Messages
          BY SMTT(120) DEF TypeInv, Messages
        <4> QED BY <4>1, SMTT(120)
      <3> QED BY <3>1, <3>2, SMTT(120) DEF TypeInv
    <2>3. \A d \in Conns : cstate[d] = "open" =>
             cstate'[d] = "open" /\ thread_ev'[d] = thread_ev[d]
             /\ (active'[d] <=> active[d])
      BY <2>1, SMTT(120) DEF TypeInv
    <2>4. /\ \A w \in Workers : ready'[w] \subseteq ready[w]
          /\ writing' \subseteq writing \cap Conns
      BY <2>1, SMTT(120) DEF TypeInv
    <2>5. \A w \in Workers : <<w, "pipe">> \in ready'[w] =>
             pipe'[w] # <<>> /\ wpc'[w] # "pointer"
      BY <2>1, <2>2, SMTT(120) DEF LoopInv, ReadyInv
    <2>6. inactive' = inactive
      BY <2>1, SMTT(120)
    <2> QED BY <2>3, <2>4, <2>5, <2>6, LoopMoves, SMTT(120)
  <1>6. ASSUME NEW w \in Workers,
               StartWorker(w) \/ Register(w) \/ WorkerPassed(w) \/ WorkerTest(w)
               \/ EndIteration(w)
        PROVE  LoopInv'
    <2>1. \A v \in Workers : wpc'[v] = "pointer" => wpc[v] = "pointer"
      BY <1>6, SMTT(120) DEF StartWorker, Register, WorkerPassed, WorkerTest, EndIteration,
         TypeInv
    <2>2. UNCHANGED <<writing, cstate, thread_ev, ready, inactive, active, pipe>>
      BY <1>6, Zenon DEF StartWorker, Register, WorkerPassed, WorkerTest, EndIteration,
         conns
    <2> QED BY <2>1, <2>2, LoopFrame, ZenonT(60)
  <1>7. ASSUME NEW w \in Workers, Poll(w) PROVE LoopInv'
    <2>1. /\ wpc[w] = "ev_run" /\ wpc' = [wpc EXCEPT ![w] = "callbacks"]
          /\ UNCHANGED <<pipe, inactive, cstate, active, thread_ev, writing>>
      BY <1>7, SMTT(120) DEF Poll, conns
    <2>2. PICK S \in SUBSET Events(w) : ready' = [ready EXCEPT ![w] = S]
      BY <1>7, Zenon DEF Poll
    <2>3. /\ ready'[w] = S /\ wpc'[w] = "callbacks"
          /\ \A v \in Workers : v # w => ready'[v] = ready[v] /\ wpc'[v] = wpc[v]
      BY <2>1, <2>2, SMTT(120) DEF TypeInv
    <2>4. \A c \in Conns : (<<c, "read">> \in S \/ <<c, "write">> \in S) => Owned(c, w)
      <3> SUFFICES ASSUME NEW c \in Conns,
                          <<c, "read">> \in Events(w) \/ <<c, "write">> \in Events(w)
                   PROVE  Owned(c, w)
        BY SMTT(120)
      <3>1. c # w /\ "read" # "pipe" /\ "write" # "pipe" /\ "read" # "write"
        BY ServerAssumption, SMTT(120) DEF Workers
      <3>2. \/ cstate[c] = "open" /\ thread_ev[c] = w
            \/ c \in writing /\ thread_ev[c] = w
        BY <3>1, SMTT(120) DEF Events
      <3> QED BY <3>2, SMTT(120) DEF LoopInv, Owned
    <2>5. \A v \in Workers : <<v, "pipe">> \in S => v = w /\ pipe[w] # <<>>
      <3> SUFFICES ASSUME NEW v \in Workers, <<v, "pipe">> \in Events(w)
                   PROVE  v = w /\ pipe[w] # <<>>
        OBVIOUS
      <3>1. v \notin Conns
        BY ServerAssumption, SMTT(120) DEF Workers
      <3> QED BY <3>1, SMTT(120) DEF Events, TypeInv
    <2>6. ReadyInv(w)'
      BY <2>1, <2>3, <2>4, <2>5, ZenonT(60) DEF ReadyInv, Owned
    <2>7. ASSUME NEW v \in Workers, v # w PROVE ReadyInv(v)'
      BY <2>1, <2>3, <2>7, SMTT(120) DEF LoopInv, ReadyInv, Owned
    <2>8. \A v \in Workers : InactiveInv(v)'
      BY <2>1, Zenon DEF LoopInv, InactiveInv, Owned
    <2> QED BY <2>1, <2>6, <2>7, <2>8, SMTT(120) DEF LoopInv
  <1>8. ASSUME NEW w \in Workers, Notified(w) PROVE LoopInv'
    <2>1. /\ ready' = [ready EXCEPT ![w] = @ \ {<<w, "pipe">>}]
          /\ pipe' = [pipe EXCEPT ![w] = Tail(@)]
          /\ UNCHANGED <<inactive, cstate, active, thread_ev, writing>>
      BY <1>8, SMTT(120) DEF Notified, conns
    <2>2. /\ <<w, "pipe">> \notin ready'[w] /\ ready'[w] \subseteq ready[w]
          /\ \A v \in Workers : v # w =>
                ready'[v] = ready[v] /\ pipe'[v] = pipe[v] /\ wpc'[v] = wpc[v]
      BY <1>8, <2>1, SMTT(120) DEF Notified, TypeInv
    <2>3. \A v \in Workers : ready'[v] \subseteq ready[v]
      BY <2>2, SMTT(120)
    <2>4. \A v \in Workers : <<v, "pipe">> \in ready'[v] =>
             pipe'[v] # <<>> /\ wpc'[v] # "pointer"
      BY <2>2, Zenon DEF LoopInv, ReadyInv
    <2>5. writing' \subseteq writing \cap Conns
      BY <2>1, SMTT(120) DEF TypeInv
    <2>6. \A c \in Conns : cstate[c] = "open" =>
             cstate'[c] = "open" /\ thread_ev'[c] = thread_ev[c]
             /\ (active'[c] <=> active[c])
      BY <2>1, Zenon
    <2>7. inactive' = inactive
      BY <2>1, SMTT(120)
    <2> QED BY <2>3, <2>4, <2>5, <2>6, <2>7, LoopMoves, Zenon
  <1>9. ASSUME NEW w \in Workers, ReadPointer(w) PROVE LoopInv'
    <2> DEFINE c == Head(pipe[w])
    <2>1. /\ pipe[w] # <<>> /\ wpc[w] = "pointer"
          /\ pipe' = [pipe EXCEPT ![w] = Tail(@)]
          /\ wpc' = [wpc EXCEPT ![w] = "callbacks"]
          /\ cstate' = [cstate EXCEPT ![c] = "open"]
          /\ thread_ev' = [thread_ev EXCEPT ![c] = w]
          /\ UNCHANGED <<ready, inactive, active, writing>>
      BY <1>9, SMTT(120) DEF ReadPointer
    <2>2. pipe[w] \in Seq(Messages) /\ c = pipe[w][1] /\ 1 \in 1..Len(pipe[w])
      BY <2>1, TailFacts, SMTT(120) DEF TypeInv
    <2>3. cstate[c] = "sent"
      BY <2>1, <2>2, SMTT(120) DEF PipeInv, Wire
    <2> HIDE DEF c
    <2>4. \A d \in Conns : cstate[d] = "open" =>
             cstate'[d] = "open" /\ thread_ev'[d] = thread_ev[d]
             /\ (active'[d] <=> active[d])
      BY <2>1, <2>3, SMTT(120) DEF TypeInv
    <2>5. /\ <<w, "pipe">> \notin ready'[w]
          /\ \A v \in Workers : v # w => pipe'[v] = pipe[v] /\ wpc'[v] = wpc[v]
      BY <2>1, SMTT(120) DEF LoopInv, ReadyInv, TypeInv
    <2>6. \A v \in Workers : <<v, "pipe">> \in ready'[v] =>
             pipe'[v] # <<>> /\ wpc'[v] # "pointer"
      BY <2>1, <2>5, Zenon DEF LoopInv, ReadyInv
    <2>7. writing' \subseteq writing \cap Conns /\ inactive' = inactive
          /\ \A v \in Workers : ready'[v] \subseteq ready[v]
      BY <2>1, SMTT(120) DEF TypeInv
    <2> QED BY <2>4, <2>6, <2>7, LoopMoves, SMTT(120)
  <1>10. ASSUME NEW w \in Workers, NEW c \in Conns,
                InvokeEventHandler(w, c) \/ HandleClientWritebuf(w, c)
         PROVE  LoopInv'
    <2>1. Owned(c, w)
      BY <1>10, Zenon DEF InvokeEventHandler, HandleClientWritebuf, Called, LoopInv,
         ReadyInv
    <2>2. /\ UNCHANGED <<cstate, thread_ev, pipe, wpc>>
          /\ writing' \subseteq writing \cup {c}
          /\ \A v \in Workers : ready'[v] \subseteq ready[v]
      BY <1>10, Zenon DEF InvokeEventHandler, HandleClientWritebuf, Called, TypeInv
    <2>3. \/ UNCHANGED <<active, inactive>>
          \/ /\ active[c] /\ active' = [active EXCEPT ![c] = FALSE]
             /\ inactive' = [inactive EXCEPT ![w] = <<c>> \o @]
      BY <1>10, SMTT(120) DEF InvokeEventHandler, HandleClientWritebuf, Deactivate
    <2>4. ASSUME NEW v \in Workers PROVE ReadyInv(v)'
      <3>1. \A d \in Conns : Owned(d, v) => Owned(d, v)'
        BY <2>2, SMTT(120) DEF Owned
      <3>2. <<v, "pipe">> \in ready'[v] => pipe'[v] # <<>> /\ wpc'[v] # "pointer"
        BY <2>2, Zenon DEF LoopInv, ReadyInv
      <3> QED BY <2>2, <3>1, <3>2, ReadyStays, Zenon DEF LoopInv
    <2>5. \A d \in writing' : cstate'[d] = "open"
      BY <2>1, <2>2, SMTT(120) DEF LoopInv, Owned
    <2>6. \A v \in Workers : InactiveInv(v)'
      <3>1. CASE UNCHANGED <<active, inactive>>
        BY <2>2, <3>1, Zenon DEF LoopInv, InactiveInv, Owned
      <3>2. CASE /\ active[c] /\ active' = [active EXCEPT ![c] = FALSE]
                 /\ inactive' = [inactive EXCEPT ![w] = <<c>> \o @]
        <4>1. \A d \in Conns : ~active[d] => ~active'[d]
          BY <3>2, Zenon DEF TypeInv
        <4>2. ASSUME NEW v \in Workers, v # w PROVE InactiveInv(v)'
          <5>1. inactive'[v] = inactive[v]
            BY <3>2, <4>2, SMTT(120) DEF TypeInv
          <5>2. \A d \in Conns : Owned(d, v) /\ ~active[d] => Owned(d, v)' /\ ~active'[d]
            BY <2>2, <4>1, Zenon DEF Owned
          <5> QED BY <5>1, <5>2, InactiveStays, Zenon DEF LoopInv
        <4>3. InactiveInv(w)'
          <5>1. inactive'[w] = <<c>> \o inactive[w] /\ inactive[w] \in Seq(Conns)
            BY <3>2, SMTT(120) DEF TypeInv
          <5>2. ~active'[c] /\ Owned(c, w)'
            BY <2>1, <2>2, <3>2, Zenon DEF Owned, TypeInv
          <5>3. \A d \in Conns : Owned(d, w) /\ ~active[d] =>
                   Owned(d, w)' /\ ~active'[d] /\ d # c
            BY <2>2, <3>2, <4>1, Zenon DEF Owned
          <5> QED BY <5>1, <5>2, <5>3, InactiveGrows, Zenon DEF LoopInv
        <4> QED BY <4>2, <4>3, SMTT(120)
      <3> QED BY <2>3, <3>1, <3>2, SMTT(120)
    <2> QED BY <2>4, <2>5, <2>6, SMTT(120) DEF LoopInv
  <1>11. ASSUME NEW w \in Workers, CloseConn(w) PROVE LoopInv'
    <2> PICK c \in Conns : c = Head(inactive[w])
      BY <1>11, TailFacts, SMTT(120) DEF CloseConn, TypeInv
    <2>1. /\ ready[w] = {} /\ inactive[w] # <<>>
          /\ cstate' = [cstate EXCEPT ![c] = "freed"]
          /\ writing' = writing \ {c}
          /\ inactive' = [inactive EXCEPT ![w] = Tail(@)]
          /\ UNCHANGED <<thread_ev, pipe, wpc, ready, active>>
      BY <1>11, SMTT(120) DEF CloseConn
    <2>2. inactive[w] \in Seq(Conns) /\ c = inactive[w][1] /\ 1 \in 1..Len(inactive[w])
      BY <2>1, TailFacts, SMTT(120) DEF TypeInv
    <2>3. Owned(c, w)
      <3>1. InactiveInv(w)
        BY SMTT(120) DEF LoopInv
      <3>2. Owned(inactive[w][1], w)
        BY <2>2, <3>1, SMTT(120) DEF InactiveInv
      <3> QED BY <2>2, <3>2, SMTT(120)
    <2>4. \A v \in Workers, d \in Conns : Owned(d, v) /\ d # c => Owned(d, v)'
      BY <2>1, SMTT(120) DEF Owned, TypeInv
    <2>5. \A v \in Workers, d \in Conns : Owned(d, v) /\ v # w => d # c
      BY <2>3, SMTT(120) DEF Owned
    <2>6. ASSUME NEW v \in Workers PROVE ReadyInv(v)'
      <3>1. CASE v = w
        BY <2>1, <3>1, Zenon DEF ReadyInv
      <3>2. CASE v # w
        <4>1. \A d \in Conns : Owned(d, v) => Owned(d, v)'
          BY <2>4, <2>5, <3>2, SMTT(120)
        <4> QED BY <2>1, <4>1, Zenon DEF LoopInv, ReadyInv
      <3> QED BY <3>1, <3>2, SMTT(120)
    <2>7. ASSUME NEW v \in Workers PROVE InactiveInv(v)'
      <3>1. CASE v = w
        <4>1. inactive'[w] = Tail(inactive[w])
          BY <2>1, SMTT(120) DEF TypeInv
        <4>2. \A d \in Conns : Owned(d, w) /\ ~active[d] /\ d # Head(inactive[w])
                 => Owned(d, w)' /\ ~active'[d]
          BY <2>1, <2>4, Zenon
        <4> QED BY <2>1, <2>2, <3>1, <4>1, <4>2, InactiveShrinks, Zenon DEF LoopInv
      <3>2. CASE v # w
        <4>1. inactive'[v] = inactive[v]
          BY <2>1, <3>2, SMTT(120) DEF TypeInv
        <4>2. \A d \in Conns : Owned(d, v) /\ ~active[d] => Owned(d, v)' /\ ~active'[d]
          BY <2>1, <2>4, <2>5, <3>2, SMTT(120)
        <4> QED BY <4>1, <4>2, InactiveStays, ZenonT(60) DEF LoopInv
      <3> QED BY <3>1, <3>2, SMTT(120)
    <2>8. \A d \in writing' : cstate'[d] = "open"
      BY <2>1, SMTT(120) DEF LoopInv, TypeInv
    <2> QED BY <2>6, <2>7, <2>8, SMTT(120) DEF LoopInv
  <1> QED BY <1>1, <1>2, <1>3, <1>4, <1>5, <1>6, <1>7, <1>8, <1>9, <1>10,
             <1>11, Zenon DEF Next, MainLoop, Work

-----------------------------------------------------------------------------
LEMMA InitInv == Init => Inv
  <1> SUFFICES ASSUME Init PROVE Inv
    OBVIOUS
  <1>0. 0 \in Workers /\ 0 \in 0..worker_threads
    BY ServerAssumption, SMTT(120) DEF Workers
  <1>1. TypeInv
    BY <1>0, SMTT(120) DEF Init, TypeInv, MainPlaces, WorkerPlaces, Messages, AllEvents
  <1>2. PhaseInv
    BY SMTT(120) DEF Init, PhaseInv
  <1>3. PipeInv
    BY SMTT(120) DEF Init, PipeInv, Wire, Sending, SentOnce, StillToSend
  <1>4. LoopInv
    BY SMTT(120) DEF Init, LoopInv, ReadyInv, InactiveInv
  <1> QED BY <1>1, <1>2, <1>3, <1>4, SMTT(120) DEF Inv

LEMMA InvKeeps == Inv /\ [Next]_vars => Inv'
  <1> SUFFICES ASSUME Inv, [Next]_vars PROVE Inv'
    OBVIOUS
  <1>1. CASE Next
    BY <1>1, TypeKeeps, PhaseKeeps, PipeKeeps, LoopKeeps, SMTT(120) DEF Inv
  <1>2. CASE UNCHANGED vars
    <2>1. UNCHANGED <<should_run, mgr_alive, mpc, i, last_assign, next_thread, conn,
                      wpc, pipe, run, ready, inactive, cstate, active, thread_ev,
                      writing, bpcs>>
      BY <1>2, SMTT(120) DEF vars, main, assign, worker, conns
    <2>2. TypeInv'
      BY <2>1, Zenon DEF Inv, TypeInv
    <2>3. PhaseInv'
      BY <2>1, Zenon DEF Inv, PhaseInv
    <2>4. PipeInv'
      BY <2>1, PipeFrame, Zenon DEF Inv
    <2>5. LoopInv'
      BY <2>1, LoopFrame, ZenonT(60) DEF Inv
    <2> QED BY <2>2, <2>3, <2>4, <2>5, Zenon DEF Inv
  <1> QED BY <1>1, <1>2, SMTT(120)

LEMMA InvFreed == Inv => FreedIsUnreachable
  <1> SUFFICES ASSUME Inv PROVE FreedIsUnreachable
    BY SMTT(120)
  <1> USE DEF Inv
  <1>1. ASSUME NEW w \in Workers, NEW c \in Conns, cstate[c] = "freed"
        PROVE  /\ c \notin writing
               /\ \A e \in ready[w] : e[1] # c
               /\ \A k \in 1..Len(inactive[w]) : inactive[w][k] # c
               /\ \A k \in 1..Len(pipe[w]) : pipe[w][k] # c
    <2>1. c \notin writing
      BY <1>1, SMTT(120) DEF LoopInv
    <2>2. ASSUME NEW e \in ready[w] PROVE e[1] # c
      <3>1. e \in AllEvents
        BY SMTT(120) DEF TypeInv
      <3>2. CASE e \in Conns \X {"read", "write"}
        <4>1. PICK d \in Conns, kind \in {"read", "write"} : e = <<d, kind>>
          BY <3>2, SMTT(120)
        <4>2. cstate[d] = "open"
          BY <4>1, SMTT(120) DEF LoopInv, ReadyInv, Owned
        <4> QED BY <1>1, <4>1, <4>2, SMTT(120)
      <3>3. CASE e \in Workers \X {"pipe"}
        BY <3>3, ServerAssumption, SMTT(120) DEF Workers
      <3> QED BY <3>1, <3>2, <3>3, SMTT(120) DEF AllEvents
    <2>3. \A k \in 1..Len(inactive[w]) : inactive[w][k] # c
      BY <1>1, SMTT(120) DEF LoopInv, InactiveInv, Owned
    <2>4. \A k \in 1..Len(pipe[w]) : pipe[w][k] # c
      BY <1>1, SMTT(120) DEF PipeInv, Wire
    <2> QED BY <2>1, <2>2, <2>3, <2>4, SMTT(120)
  <1>2. \A w \in Workers : \A j, k \in 1..Len(inactive[w]) :
           inactive[w][j] = inactive[w][k] => j = k
    BY SMTT(120) DEF LoopInv, InactiveInv
  <1> QED BY <1>1, <1>2, SMTT(120) DEF FreedIsUnreachable

(* However many workers and connections there are and in whatever order the *)
(* loops call back: a connection that close_client_connection has freed is  *)
(* in no pipe, no list and no loop, and is freed only once.                 *)
THEOREM FreedStaysAway == Spec => []FreedIsUnreachable
  BY InitInv, InvKeeps, InvFreed, PTL DEF Spec

LEMMA InvOutlives == Inv => ManagerOutlivesUsers
  BY SMTT(120) DEF Inv, PhaseInv, ManagerOutlivesUsers

(* The order of shutdown in bloomd.c holds for any number of threads: the   *)
(* filter manager is destroyed when no thread uses it any more.             *)
THEOREM ManagerLast == Spec => []ManagerOutlivesUsers
  BY InitInv, InvKeeps, InvOutlives, PTL DEF Spec
=============================================================================
