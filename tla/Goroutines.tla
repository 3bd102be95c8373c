------------------------------- MODULE Goroutines -------------------------------
(***************************************************************************)
(* The two pieces of machinery that every transfer of mc is built on, each *)
(* used by several commands: the worker pool (ParallelManager) and the     *)
(* pipe of events (PipeChan).  `machine' tells which of them is at work;   *)
(* the other one keeps its initial state.                                  *)
(***************************************************************************)
EXTENDS ParallelManager, PipeQueue

VARIABLE machine  \* "pool" or "pipe"

MachineInit == machine \in {"pool", "pipe"} /\ Init /\ PipeInit

MachineNext ==
  /\ UNCHANGED machine
  /\ \/ machine = "pool" /\ Next /\ UNCHANGED pipeVars
     \/ machine = "pipe" /\ PipeNext /\ UNCHANGED vars

(***************************************************************************)
(* Go runs every goroutine that can run.  In the pool lock queues and      *)
(* channel queues are first-in first-out, so that a producer waiting in    *)
(* them is served (strong fairness of what it waits for), a task's         *)
(* function returns and the receiver of resultCh keeps draining it;        *)
(* producers need not queue or quit, and the ticker need not tick.  The    *)
(* receiver of the pipe keeps receiving; nobody need send or close.        *)
(***************************************************************************)
PoolFairness ==
  /\ \A p \in Producers : SF_vars(machine = "pool" /\ ProducerWaits(p))
  /\ \A w \in Workers : /\ WF_vars(machine = "pool" /\ Return(w))
                        /\ WF_vars(machine = "pool" /\ Deliver(w))
                        /\ WF_vars(machine = "pool" /\ Unlock(w))
                        /\ WF_vars(machine = "pool" /\ Exit(w))
  /\ WF_vars(machine = "pool" /\ ((\E w \in Workers : AddWorker(w)) \/ AddWorkerAtCap))
  /\ WF_vars(machine = "pool" /\ StartMonitor)
  /\ WF_vars(machine = "pool" /\ MonitorStop)
  /\ WF_vars(machine = "pool" /\ (\/ CloseQueue \/ Wait \/ WaitReturns
                                  \/ StopMonitor \/ CloseResults))

PipeFairness ==
  /\ WF_pipeVars(machine = "pipe" /\ Feeder)
  /\ WF_pipeVars(machine = "pipe" /\ Copier)
  /\ WF_pipeVars(machine = "pipe" /\ Receiver)

MachineSpec ==
  /\ MachineInit /\ [][MachineNext]_<<machine, vars, pipeVars>>
  /\ PoolFairness /\ PipeFairness

===============================================================================
