------------------------------- MODULE Server -------------------------------
(***************************************************************************)
(* The threads of bloomd (bloomd.c, networking.c, background.c): start-up  *)
(* over the thread barrier, the accepting main thread, the event loops of  *)
(* the workers with the life of their connections, signals and shutdown.   *)
(* What a connection reads and writes is in Connection, what a command     *)
(* does to the filters in FilterManager.                                   *)
(*                                                                         *)
(* ev_run of a worker collects the events that are ready and then calls    *)
(* their callbacks one by one, in any order.  A callback is one step,      *)
(* except that the two reads of a notification are two.                    *)
(***************************************************************************)
EXTENDS Integers, Sequences, FiniteSets, ThreadBarrier

CONSTANTS
  worker_threads,   \* of the configuration
  Background,       \* the flush and the unmap thread, as configured
  NULL,
  Conns             \* conn_info structs, each allocated once

Workers == 0..(worker_threads - 1)
Main == worker_threads

ASSUME ServerAssumption ==
  /\ worker_threads \in Nat \ {0}
  /\ Threads = 0..worker_threads
  /\ MaxWaits = 2
  /\ {"a", "q", NULL} \cap Conns = {} /\ Threads \cap (Conns \cup {NULL}) = {}

VARIABLES
  should_run,     \* SHOULD_RUN of bloomd.c
  mpc, i,         \* where the main thread is, and its loop index
  threads_set,    \* netconf->threads is not NULL
  last_assign,    \* connections assigned so far
  conn, next_thread,  \* locals of handle_new_client
  mgr_alive,      \* the filter manager exists
  workers,        \* workers registered in netconf->workers
  wpc, pipe, run, \* of a worker: place, its pipe, data.should_run
  ready,          \* events whose callbacks are still to be called
  inactive,       \* data.inactive, as a sequence
  cstate,         \* "none", "sent" (in a pipe), "open" or "freed"
  active, thread_ev,
  writing,        \* connections whose write watcher is started
  bpcs            \* where a background thread is

assign == <<last_assign, conn, next_thread>>
main == <<mpc, i, threads_set, assign, mgr_alive>>
worker == <<workers, wpc, pipe, run, ready, inactive>>
conns == <<cstate, active, thread_ev, writing>>
vars == <<should_run, main, worker, conns, bpcs, barrier>>

Events(w) ==
  {<<c, "read">> : c \in {d \in Conns : cstate[d] = "open" /\ thread_ev[d] = w}}
  \cup {<<c, "write">> : c \in {d \in writing : thread_ev[d] = w}}
  \cup (IF pipe[w] = <<>> THEN {} ELSE {<<w, "pipe">>})

Init ==
  /\ should_run = TRUE
  /\ mpc = "create" /\ i = 0 /\ threads_set = FALSE /\ workers = {}
  /\ last_assign = 0 /\ conn = NULL /\ next_thread = 0 /\ mgr_alive = TRUE
  /\ wpc = [w \in Workers |-> "none"]
  /\ pipe = [w \in Workers |-> <<>>]
  /\ run = [w \in Workers |-> TRUE]
  /\ ready = [w \in Workers |-> {}]
  /\ inactive = [w \in Workers |-> <<>>]
  /\ cstate = [c \in Conns |-> "none"]
  /\ active = [c \in Conns |-> FALSE]
  /\ thread_ev = [c \in Conns |-> NULL]
  /\ writing = {}
  /\ bpcs = [b \in Background |-> "test"]
  /\ BarrierInit

-----------------------------------------------------------------------------
(* The main thread.                                                        *)

CreateWorker ==
  /\ mpc = "create" /\ i < worker_threads
  /\ wpc' = [wpc EXCEPT ![i] = "start"]
  /\ i' = i + 1
  /\ UNCHANGED <<should_run, mpc, threads_set, assign, mgr_alive, workers, pipe,
                 run, ready, inactive, conns, bpcs, barrier>>

(* enter_main_loop, up to the second barrier.                              *)
EnterMainLoop ==
  /\ mpc = "create" /\ i = worker_threads
  /\ threads_set' = TRUE
  /\ mpc' = "barrier"
  /\ UNCHANGED <<should_run, i, assign, mgr_alive, worker, conns, bpcs, barrier>>

MainBarrier ==
  /\ mpc = "barrier" /\ entered[Main] < 2
  /\ Enter(Main)
  /\ UNCHANGED <<should_run, main, worker, conns, bpcs>>

MainPassed ==
  /\ mpc = "barrier" /\ passed[Main] = 2
  /\ mpc' = "test"
  /\ UNCHANGED <<should_run, i, threads_set, assign, mgr_alive, worker, conns,
                 bpcs, barrier>>

TestShouldRun ==
  /\ mpc = "test"
  /\ IF should_run THEN mpc' = "ev_run" /\ UNCHANGED i
                   ELSE mpc' = "quit" /\ i' = 0
  /\ UNCHANGED <<should_run, threads_set, assign, mgr_alive, worker, conns,
                 bpcs, barrier>>

(* handle_new_client gives up on an error, or the event was a UDP message. *)
AcceptNothing ==
  /\ mpc = "ev_run"
  /\ mpc' = "test"
  /\ UNCHANGED <<should_run, i, threads_set, assign, mgr_alive, worker, conns,
                 bpcs, barrier>>

NextThread == last_assign % worker_threads

(* handle_new_client writes the command and then the pointer to the pipe   *)
(* of the next worker.                                                     *)
AcceptClient(c) ==
  /\ mpc = "ev_run" /\ cstate[c] = "none"
  /\ cstate' = [cstate EXCEPT ![c] = "sent"]
  /\ active' = [active EXCEPT ![c] = TRUE]
  /\ conn' = c
  /\ next_thread' = NextThread
  /\ last_assign' = last_assign + 1
  /\ pipe' = [pipe EXCEPT ![next_thread'] = Append(@, "a")]
  /\ mpc' = "send"
  /\ UNCHANGED <<should_run, i, threads_set, mgr_alive, workers, wpc, run,
                 ready, inactive, thread_ev, writing, bpcs, barrier>>

SendConn ==
  /\ mpc = "send"
  /\ pipe' = [pipe EXCEPT ![next_thread] = Append(@, conn)]
  /\ mpc' = "test"
  /\ UNCHANGED <<should_run, i, threads_set, assign, mgr_alive, workers, wpc,
                 run, ready, inactive, conns, bpcs, barrier>>

(* shutdown_networking: every worker is told to quit, then joined.         *)
\* Slip: the last worker is forgotten.
SendQuitSlip ==
  /\ mpc = "quit"
  /\ pipe' = [pipe EXCEPT ![i] = Append(@, "q")]
  /\ IF i + 2 < worker_threads THEN i' = i + 1 /\ UNCHANGED mpc
                               ELSE i' = 0 /\ mpc' = "join"
  /\ UNCHANGED <<should_run, threads_set, assign, mgr_alive, workers, wpc, run,
                 ready, inactive, conns, bpcs, barrier>>

SendQuit ==
  /\ mpc = "quit"
  /\ pipe' = [pipe EXCEPT ![i] = Append(@, "q")]
  /\ IF i + 1 < worker_threads THEN i' = i + 1 /\ UNCHANGED mpc
                               ELSE i' = 0 /\ mpc' = "join"
  /\ UNCHANGED <<should_run, threads_set, assign, mgr_alive, workers, wpc, run,
                 ready, inactive, conns, bpcs, barrier>>

JoinWorker ==
  /\ mpc = "join" /\ wpc[i] = "gone"
  /\ IF i + 1 < worker_threads THEN i' = i + 1 /\ UNCHANGED mpc
                               ELSE mpc' = "destroy" /\ UNCHANGED i
  /\ UNCHANGED <<should_run, threads_set, assign, mgr_alive, worker, conns,
                 bpcs, barrier>>

\* Slip: the background threads are not waited for.
DestroyManagerSlip ==
  /\ mpc = "destroy"
  /\ mgr_alive' = FALSE
  /\ mpc' = "done"
  /\ UNCHANGED <<should_run, i, threads_set, assign, worker, conns, bpcs,
                 barrier>>

(* The background threads are joined, then the manager is destroyed.       *)
DestroyManager ==
  /\ mpc = "destroy" /\ \A b \in Background : bpcs[b] = "gone"
  /\ mgr_alive' = FALSE
  /\ mpc' = "done"
  /\ UNCHANGED <<should_run, i, threads_set, assign, worker, conns, bpcs,
                 barrier>>

(* signal_handler runs in any thread.  ev_run returns if it interrupts the *)
(* main thread while that is blocked; it does not if another thread gets   *)
(* the signal, or main before it blocks.                                   *)
Signal ==
  /\ mpc \notin {"create", "done"}
  /\ should_run' = FALSE
  /\ mpc' \in {mpc, IF mpc = "ev_run" THEN "test" ELSE mpc}
  /\ UNCHANGED <<i, threads_set, assign, mgr_alive, worker, conns, bpcs,
                 barrier>>

-----------------------------------------------------------------------------
(* A worker: start_networking_worker.                                      *)

(* Pipe, event loop and watchers are made.  (A worker that cannot make     *)
(* them returns, and all others wait at the barrier for good.)             *)
StartWorker(w) ==
  /\ wpc[w] = "start"
  /\ wpc' = [wpc EXCEPT ![w] = "barrier1"]
  /\ UNCHANGED <<should_run, main, workers, pipe, run, ready, inactive, conns,
                 bpcs, barrier>>

\* Slip: the second barrier_wait may be called twice.
WorkerBarrierAgain(w) ==
  /\ \/ wpc[w] = "barrier1" /\ entered[w] = 0
     \/ wpc[w] = "barrier2" /\ entered[w] \in 1..2
  /\ Enter(w)
  /\ UNCHANGED <<should_run, main, worker, conns, bpcs>>

\* Slip: a worker runs its loop without the second barrier.
WorkerBarrierSlip(w) ==
  /\ wpc[w] = "barrier1" /\ entered[w] = 0
  /\ Enter(w)
  /\ UNCHANGED <<should_run, main, worker, conns, bpcs>>

WorkerBarrier(w) ==
  /\ \/ wpc[w] = "barrier1" /\ entered[w] = 0
     \/ wpc[w] = "barrier2" /\ entered[w] = 1
  /\ Enter(w)
  /\ UNCHANGED <<should_run, main, worker, conns, bpcs>>

Register(w) ==
  /\ wpc[w] = "barrier1" /\ passed[w] = 1
  /\ workers' = workers \cup {w}
  /\ wpc' = [wpc EXCEPT ![w] = "barrier2"]
  /\ UNCHANGED <<should_run, main, pipe, run, ready, inactive, conns, bpcs,
                 barrier>>

WorkerPassed(w) ==
  /\ wpc[w] = "barrier2" /\ passed[w] = 2
  /\ wpc' = [wpc EXCEPT ![w] = "test"]
  /\ UNCHANGED <<should_run, main, workers, pipe, run, ready, inactive, conns,
                 bpcs, barrier>>

AtBarrier(t) ==
  /\ SpuriousWake(t) \/ Waiting(t)
  /\ UNCHANGED <<should_run, main, worker, conns, bpcs>>

(* The loop goes on, or pipe and loop are destroyed and the thread ends.   *)
WorkerTest(w) ==
  /\ wpc[w] = "test"
  /\ wpc' = [wpc EXCEPT ![w] = IF run[w] THEN "ev_run" ELSE "gone"]
  /\ UNCHANGED <<should_run, main, workers, pipe, run, ready, inactive, conns,
                 bpcs, barrier>>

(* Some events are ready, or none but the periodic timer.                  *)
Poll(w) ==
  /\ wpc[w] = "ev_run"
  /\ \E S \in SUBSET Events(w) : ready' = [ready EXCEPT ![w] = S]
  /\ wpc' = [wpc EXCEPT ![w] = "callbacks"]
  /\ UNCHANGED <<should_run, main, workers, pipe, run, inactive, conns, bpcs,
                 barrier>>

(* handle_worker_notification reads one command.                           *)
Notified(w) ==
  /\ wpc[w] = "callbacks" /\ <<w, "pipe">> \in ready[w]
  /\ ready' = [ready EXCEPT ![w] = @ \ {<<w, "pipe">>}]
  /\ pipe' = [pipe EXCEPT ![w] = Tail(@)]
  /\ IF Head(pipe[w]) = "q"
     THEN run' = [run EXCEPT ![w] = FALSE] /\ UNCHANGED wpc
     ELSE wpc' = [wpc EXCEPT ![w] = "pointer"] /\ UNCHANGED run
  /\ UNCHANGED <<should_run, main, workers, inactive, conns, bpcs, barrier>>

(* It blocks until the pointer is there, and starts the read watcher.      *)
ReadPointer(w) ==
  /\ wpc[w] = "pointer" /\ pipe[w] # <<>>
  /\ pipe' = [pipe EXCEPT ![w] = Tail(@)]
  /\ cstate' = [cstate EXCEPT ![Head(pipe[w])] = "open"]
  /\ thread_ev' = [thread_ev EXCEPT ![Head(pipe[w])] = w]
  /\ wpc' = [wpc EXCEPT ![w] = "callbacks"]
  /\ UNCHANGED <<should_run, main, workers, run, ready, inactive, active,
                 writing, bpcs, barrier>>

Called(w, c, kind) ==
  /\ wpc[w] = "callbacks" /\ <<c, kind>> \in ready[w]
  /\ UNCHANGED <<should_run, main, workers, wpc, pipe, run, cstate, thread_ev,
                 bpcs, barrier>>

(* deactivate_client_connection.                                           *)
Deactivate(w, c) ==
  IF active[c]
  THEN /\ active' = [active EXCEPT ![c] = FALSE]
       /\ inactive' = [inactive EXCEPT ![w] = <<c>> \o @]
  ELSE UNCHANGED <<active, inactive>>

(* invoke_event_handler: nothing for an inactive connection; otherwise     *)
(* commands are handled, a response may turn the write watcher on, and     *)
(* the read or a response may fail.                                        *)
InvokeEventHandler(w, c) ==
  /\ Called(w, c, "read")
  /\ ready' = [ready EXCEPT ![w] = @ \ {<<c, "read">>}]
  /\ \/ UNCHANGED <<active, inactive, writing>>
     \/ /\ active[c] /\ Deactivate(w, c)
        /\ writing' \in {writing, writing \cup {c}}
     \/ /\ active[c] /\ writing' = writing \cup {c}
        /\ UNCHANGED <<active, inactive>>

\* Slip: the connection is closed at once, in the middle of the iteration.
HandleClientWritebufSlip(w, c) ==
  /\ wpc[w] = "callbacks" /\ <<c, "write">> \in ready[w]
  /\ ready' = [ready EXCEPT ![w] = @ \ {<<c, "write">>}]
  /\ active' = [active EXCEPT ![c] = FALSE]
  /\ cstate' = [cstate EXCEPT ![c] = "freed"]
  /\ writing' = writing \ {c}
  /\ UNCHANGED <<should_run, main, workers, wpc, pipe, run, inactive, thread_ev,
                 bpcs, barrier>>

(* handle_client_writebuf: ev_io_stop also takes back a pending event.     *)
HandleClientWritebuf(w, c) ==
  /\ Called(w, c, "write")
  /\ ready' = [ready EXCEPT ![w] = @ \ {<<c, "write">>}]
  /\ \/ UNCHANGED <<active, inactive, writing>>
     \/ active[c] /\ Deactivate(w, c) /\ UNCHANGED writing
     \/ /\ active[c] /\ writing' = writing \ {c}
        /\ UNCHANGED <<active, inactive>>

(* After the callbacks, close_client_connection for the inactive ones.     *)
CloseConn(w) ==
  /\ wpc[w] = "callbacks" /\ ready[w] = {} /\ inactive[w] # <<>>
  /\ LET c == Head(inactive[w]) IN
     /\ cstate' = [cstate EXCEPT ![c] = "freed"]
     /\ writing' = writing \ {c}
  /\ inactive' = [inactive EXCEPT ![w] = Tail(@)]
  /\ UNCHANGED <<should_run, main, workers, wpc, pipe, run, ready, active,
                 thread_ev, bpcs, barrier>>

\* Slip: the list is dropped, not closed.
EndIterationSlip(w) ==
  /\ wpc[w] = "callbacks" /\ ready[w] = {}
  /\ inactive' = [inactive EXCEPT ![w] = <<>>]
  /\ wpc' = [wpc EXCEPT ![w] = "test"]
  /\ UNCHANGED <<should_run, main, workers, pipe, run, ready, conns, bpcs,
                 barrier>>

EndIteration(w) ==
  /\ wpc[w] = "callbacks" /\ ready[w] = {} /\ inactive[w] = <<>>
  /\ wpc' = [wpc EXCEPT ![w] = "test"]
  /\ UNCHANGED <<should_run, main, workers, pipe, run, ready, inactive, conns,
                 bpcs, barrier>>

-----------------------------------------------------------------------------
(* A background thread: it sleeps, then works with the filter manager.     *)

BackgroundTest(b) ==
  /\ bpcs[b] = "test"
  /\ bpcs' = [bpcs EXCEPT ![b] = IF should_run THEN "work" ELSE "gone"]
  /\ UNCHANGED <<should_run, main, worker, conns, barrier>>

BackgroundWork(b) ==
  /\ bpcs[b] = "work"
  /\ bpcs' = [bpcs EXCEPT ![b] = "test"]
  /\ UNCHANGED <<should_run, main, worker, conns, barrier>>

Terminated == mpc = "done" /\ UNCHANGED vars

MainLoop == \/ EnterMainLoop \/ MainBarrier \/ MainPassed
            \/ TestShouldRun \/ SendConn \/ CreateWorker \/ SendQuit
            \/ JoinWorker \/ DestroyManager

Work(w) == \/ StartWorker(w) \/ WorkerBarrier(w) \/ Register(w)
           \/ WorkerPassed(w) \/ WorkerTest(w) \/ Notified(w) \/ ReadPointer(w)
           \/ CloseConn(w) \/ EndIteration(w)
           \/ \E c \in Conns : InvokeEventHandler(w, c)
                            \/ HandleClientWritebuf(w, c)

BackgroundStep(b) == BackgroundTest(b) \/ BackgroundWork(b)

Next == \/ MainLoop \/ Signal \/ AcceptNothing \/ Terminated
        \/ \E c \in Conns : AcceptClient(c)
        \/ \E w \in Workers : Work(w) \/ Poll(w)
        \/ \E t \in Threads : AtBarrier(t)
        \/ \E b \in Background : BackgroundStep(b)

Spec == Init /\ [][Next]_vars

(* No thread stops on its own, at the barrier or elsewhere, and a worker's *)
(* event loop reports a pipe that can be read.  Clients and signals are    *)
(* not fair.                                                               *)
LeaveBarrier(t) == Leave(t) /\ AtBarrier(t)

FairSpec ==
  /\ Spec
  /\ WF_vars(MainLoop \/ LeaveBarrier(Main))
  /\ \A w \in Workers :
        /\ WF_vars(Work(w) \/ Poll(w) \/ LeaveBarrier(w))
        /\ SF_vars(Poll(w) /\ <<w, "pipe">> \in ready'[w])
  /\ \A b \in Background : WF_vars(BackgroundStep(b))
-----------------------------------------------------------------------------
(* Properties.                                                             *)

(* A freed connection is out of reach: no event loop watches it or is      *)
(* about to call its callbacks, no list of inactive connections and no     *)
(* pipe holds it, and none is listed twice (close_client_connection frees).*)
FreedIsUnreachable ==
  \A w \in Workers :
    /\ \A c \in Conns : cstate[c] = "freed" =>
          /\ c \notin writing
          /\ \A e \in ready[w] : e[1] # c
          /\ \A k \in 1..Len(inactive[w]) : inactive[w][k] # c
          /\ \A k \in 1..Len(pipe[w]) : pipe[w][k] # c
    /\ \A j, k \in 1..Len(inactive[w]) :
          inactive[w][j] = inactive[w][k] => j = k

(* The filter manager outlives every thread that uses it.                  *)
ManagerOutlivesUsers ==
  ~mgr_alive => /\ \A w \in Workers : wpc[w] = "gone"
                /\ \A b \in Background : bpcs[b] = "gone"

(* The server starts: main gets to its loop, whoever is slow.             *)
StartupCompletes == <>(mpc \notin {"create", "barrier"})

(* A connection that was deactivated is closed: again and again none is    *)
(* left open, and none is ever opened or activated a second time.          *)
InactiveIsClosed ==
  []<>(\A c \in Conns : cstate[c] = "open" => active[c])

(* After a signal the process ends ("loop until we are signaled to quit",   *)
(* bloomd.c:183), unless main waits in ev_run: signal_handler only clears   *)
(* SHOULD_RUN, so a signal that another thread handles, or main itself just *)
(* before it blocks, is noticed at the next event.                          *)
SignalEnds == (~should_run /\ mpc # "ev_run") ~> (mpc = "done")

(* The server uses the barrier as barrier.c means it to be used: each step  *)
(* is one of the threads' barrier_wait or leaves the barrier alone, and     *)
(* nobody calls it a third time (networking.c:610-625, 663-667).  What is   *)
(* proved of BarrierSpec so holds of the server.                            *)
BarrierIsUsed == BarrierSpec
=============================================================================
