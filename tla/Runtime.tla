------------------------------ MODULE Runtime ------------------------------
(***************************************************************************)
(* The runtime of one party: the main thread divides each operation into   *)
(* one task per worker, enqueues the tasks under each worker's mutex, and  *)
(* meets the workers at a barrier; a worker executes its task batch by     *)
(* batch and returns to the barrier.  Tasks capture references into the    *)
(* main thread's frame, so the main thread may not return from an          *)
(* operation while one of its tasks is queued or running.                  *)
(*                                                                         *)
(* A step is a critical section or an access outside of one.  The barrier  *)
(* is a std::barrier: a participant that arrives takes the phase as its    *)
(* ticket, and leaves when the phase is another.                           *)
(***************************************************************************)
EXTENDS Batches, Sequences, FiniteSets

CONSTANTS
    Main,         \* the main thread
    Ops,          \* operations the program may ask for: [kind, size, agg]
    BatchSizes,   \* the -b argument
    MaxOps        \* bound: operations in a behaviour

ASSUME MainAssumption == Main \notin Int
ASSUME MaxOpsAssumption == MaxOps \in Nat

(* getThreadBatchBoundaries divides by it: -b 0 ends the program.          *)
ASSUME BatchSizesAssumption == BatchSizes \subseteq Int \ {0}

VARIABLES
    mpc,          \* where the main thread is
    next,         \* the worker its loop is at
    op,           \* the running operation
    opsDone,      \* operations returned from
    batch_size,   \* RunTime::batch_size, and what it was before an aggregation
    old_batch_size,
    wpc,          \* where each worker is
    q_,           \* each worker's queue
    task,         \* the task it executes and the batch it has reached
    terminate_,   \* each worker's flag
    m_,           \* who holds each worker's mutex
    arrived,      \* the barrier: arrivals in this phase, the phase,
    phase,        \*   and the phase at which each participant arrived
    ticket,
    calls,        \* batches each worker executed for the running operation
    written       \* times each element of the result was computed

mainVars    == <<mpc, next, op, opsDone, batch_size, old_batch_size>>
barrierVars == <<arrived, phase, ticket>>
resultVars  == <<calls, written>>
vars == <<mainVars, wpc, q_, task, terminate_, m_, barrierVars, resultVars>>

Participants == Threads \cup {Main}
Free == "free"
NoOp == [kind |-> "none", size |-> 0, agg |-> 1]
ASSUME OpsAssumption == NoOp \notin Ops   \* NoOp stands for no operation

(* An operation has a kind, a length, and groups of some size, that        *)
(* eval_protocol_aggregator_2arg asserts to divide the length.             *)
ASSUME KindsAssumption == \A o \in Ops :
    /\ o.kind \in {"batched", "aggregate", "single", "triples", "oprf", "permutations"}
    /\ o.size \in Nat /\ o.agg \in Nat \ {0}
    /\ o.kind = "aggregate" => o.size % o.agg = 0
NoTask == [start |-> 0, end |-> 0, step |-> 1, at |-> 0]

-----------------------------------------------------------------------------
(* Plausible slips, used to show what each property excludes.              *)

BarrierWithoutMain == NumThreads
EveryWaiterSleepsOn(t) == {}
-----------------------------------------------------------------------------
(* The division of an operation.                                           *)

RangeFor(o, batch, t) ==
    CASE o.kind \in {"batched", "aggregate"} -> Boundaries(o.size, batch)[t]
      [] o.kind = "single"       -> Boundaries(o.size, 1)[t]
      [] o.kind = "triples"      -> Boundaries(o.size, -1)[t]
      [] o.kind = "oprf"         -> Boundaries(o.size, OprfChunk(o.size))[t]
      [] o.kind = "permutations" -> PermutationRange(o.size, t)

(* Which workers get a task: evaluate_oprf leaves out an empty range.      *)
HasTask(o, batch, t) ==
    o.kind = "oprf" => RangeFor(o, batch, t).start < RangeFor(o, batch, t).end

(* Operations other than the batched ones give a worker a single batch; a  *)
(* worker with no permutation to generate is called on none of them.       *)
TaskFor(o, batch, t) ==
    LET range == RangeFor(o, batch, t)
        sized == IF o.kind \in {"batched", "aggregate"} THEN MakeTask(range, batch)
                 ELSE MakeTask(range, range.end - range.start)
    IN  [start |-> sized.start, end |-> sized.end, step |-> sized.step, at |-> sized.start]

ResultSize(o) == o.size \div o.agg

-----------------------------------------------------------------------------

Init ==
    /\ mpc = "setup" /\ next = 0 /\ op = NoOp /\ opsDone = 0
    /\ batch_size \in BatchSizes /\ old_batch_size = batch_size
    /\ wpc = [t \in Threads |-> "new"]
    /\ q_ = [t \in Threads |-> << >>]
    /\ task = [t \in Threads |-> NoTask]
    /\ terminate_ = [t \in Threads |-> FALSE]
    /\ m_ = [t \in Threads |-> Free]
    /\ arrived = 0 /\ phase = 0 /\ ticket = [p \in Participants |-> 0]
    /\ calls = [t \in Threads |-> 0]
    /\ written = << >>

-----------------------------------------------------------------------------
(* The barrier of the workers and the main thread.                         *)

BarrierSize == NumThreads + 1

Arrive(p) ==
    /\ ticket' = [ticket EXCEPT ![p] = phase]
    /\ IF arrived + 1 = BarrierSize
       THEN arrived' = 0 /\ phase' = phase + 1
       ELSE arrived' = arrived + 1 /\ phase' = phase

Released(p) == phase # ticket[p]

-----------------------------------------------------------------------------
(* The main thread.                                                        *)

(* setup_workers: create and start the workers, then meet them.            *)
StartWorker ==
    /\ mpc = "setup" /\ next < NumThreads
    /\ wpc' = [wpc EXCEPT ![next] = "top"]
    /\ next' = next + 1
    /\ UNCHANGED <<mpc, op, opsDone, batch_size, old_batch_size, q_, task, terminate_, m_,
                   barrierVars, resultVars>>

WorkersStarted ==
    /\ mpc = "setup" /\ next = NumThreads
    /\ mpc' = "arrive"
    /\ UNCHANGED <<next, op, opsDone, batch_size, old_batch_size, wpc, q_, task, terminate_, m_,
                   barrierVars, resultVars>>

(* The program asks for an operation.  An aggregation first makes the      *)
(* batch size divisible by the size of its groups.                         *)
Begin(o) ==
    /\ mpc = "idle" /\ opsDone < MaxOps
    /\ op' = o
    /\ mpc' = "assign" /\ next' = 0
    /\ old_batch_size' = batch_size
    /\ batch_size' = IF o.kind = "aggregate" THEN DivisibleBatch(batch_size, o.size, o.agg)
                     ELSE batch_size
    /\ calls' = [t \in Threads |-> 0]
    /\ written' = [i \in 1 .. ResultSize(o) |-> 0]
    /\ UNCHANGED <<opsDone, wpc, q_, task, terminate_, m_, barrierVars>>

(* addTask for the next worker: lock, push and unlock, notify.             *)
AddLock ==
    /\ mpc = "assign" /\ next < NumThreads
    /\ HasTask(op, batch_size, next)
    /\ m_[next] = Free
    /\ m_' = [m_ EXCEPT ![next] = "main"]
    /\ mpc' = "push"
    /\ UNCHANGED <<next, op, opsDone, batch_size, old_batch_size, wpc, q_, task, terminate_,
                   barrierVars, resultVars>>

AddPush ==
    /\ mpc = "push"
    /\ q_' = [q_ EXCEPT ![next] = Append(@, TaskFor(op, batch_size, next))]
    /\ m_' = [m_ EXCEPT ![next] = Free]
    /\ mpc' = "notify"
    /\ UNCHANGED <<next, op, opsDone, batch_size, old_batch_size, wpc, task, terminate_,
                   barrierVars, resultVars>>

(* notify_all reaches the worker if it sleeps on its condition variable.   *)
Sleepers(t) == {w \in {t} : wpc[w] = "asleep"}

AddNotify ==
    /\ mpc = "notify"
    /\ wpc' = [w \in Threads |-> IF w \in Sleepers(next) THEN "lock" ELSE wpc[w]]
    /\ next' = next + 1
    /\ mpc' = "assign"
    /\ UNCHANGED <<op, opsDone, batch_size, old_batch_size, q_, task, terminate_, m_,
                   barrierVars, resultVars>>

SkipWorker ==
    /\ mpc = "assign" /\ next < NumThreads
    /\ ~HasTask(op, batch_size, next)
    /\ next' = next + 1
    /\ UNCHANGED <<mpc, op, opsDone, batch_size, old_batch_size, wpc, q_, task, terminate_, m_,
                   barrierVars, resultVars>>

(* All workers have their tasks; an aggregation restores the batch size.   *)
Assigned ==
    /\ mpc = "assign" /\ next = NumThreads
    /\ batch_size' = IF op.kind = "aggregate" THEN old_batch_size ELSE batch_size
    /\ mpc' = "arrive"
    /\ UNCHANGED <<next, op, opsDone, old_batch_size, wpc, q_, task, terminate_, m_,
                   barrierVars, resultVars>>

(* main_thread_wait, and the return to the program.                        *)
MainArrive ==
    /\ mpc = "arrive"
    /\ Arrive(Main)
    /\ mpc' = "wait"
    /\ UNCHANGED <<next, op, opsDone, batch_size, old_batch_size, wpc, q_, task, terminate_, m_,
                   resultVars>>

MainReturn ==
    /\ mpc = "wait" /\ Released(Main)
    /\ mpc' = "idle"
    /\ opsDone' = IF op = NoOp THEN opsDone ELSE opsDone + 1
    /\ op' = NoOp
    /\ UNCHANGED <<next, batch_size, old_batch_size, wpc, q_, task, terminate_, m_,
                   barrierVars, resultVars>>

(* The program ends and the runtime destroys its workers, one by one:      *)
(* stop() sets the flag under the mutex and notifies, then join().         *)
Destroy ==
    /\ mpc = "idle"
    /\ mpc' = "stop" /\ next' = 0
    /\ UNCHANGED <<op, opsDone, batch_size, old_batch_size, wpc, q_, task, terminate_, m_,
                   barrierVars, resultVars>>

StopLock ==
    /\ mpc = "stop" /\ next < NumThreads
    /\ m_[next] = Free
    /\ m_' = [m_ EXCEPT ![next] = "main"]
    /\ mpc' = "flag"
    /\ UNCHANGED <<next, op, opsDone, batch_size, old_batch_size, wpc, q_, task, terminate_,
                   barrierVars, resultVars>>

StopFlag ==
    /\ mpc = "flag"
    /\ terminate_' = [terminate_ EXCEPT ![next] = TRUE]
    /\ m_' = [m_ EXCEPT ![next] = Free]
    /\ mpc' = "wake"
    /\ UNCHANGED <<next, op, opsDone, batch_size, old_batch_size, wpc, q_, task,
                   barrierVars, resultVars>>

StopNotify ==
    /\ mpc = "wake"
    /\ wpc' = [w \in Threads |-> IF w \in Sleepers(next) THEN "lock" ELSE wpc[w]]
    /\ mpc' = "join"
    /\ UNCHANGED <<next, op, opsDone, batch_size, old_batch_size, q_, task, terminate_, m_,
                   barrierVars, resultVars>>

Join ==
    /\ mpc = "join" /\ wpc[next] = "exited"
    /\ next' = next + 1
    /\ mpc' = IF next + 1 = NumThreads THEN "ended" ELSE "stop"
    /\ UNCHANGED <<op, opsDone, batch_size, old_batch_size, wpc, q_, task, terminate_, m_,
                   barrierVars, resultVars>>

MainStep ==
    \/ StartWorker \/ WorkersStarted
    \/ \E o \in Ops : Begin(o)
    \/ AddLock \/ AddPush \/ AddNotify \/ SkipWorker \/ Assigned
    \/ MainArrive \/ MainReturn
    \/ Destroy \/ StopLock \/ StopFlag \/ StopNotify \/ Join

-----------------------------------------------------------------------------
(* A worker: Worker::run.                                                  *)

Moves(t, pc) == wpc' = [wpc EXCEPT ![t] = pc]

(* The flag is read here without the mutex.                                *)
Top(t) ==
    /\ wpc[t] = "top"
    /\ Moves(t, IF terminate_[t] THEN "exited" ELSE "arrive")
    /\ UNCHANGED <<mainVars, q_, task, terminate_, m_, barrierVars, resultVars>>

WorkerArrive(t) ==
    /\ wpc[t] = "arrive"
    /\ Arrive(t)
    /\ Moves(t, "barrier")
    /\ UNCHANGED <<mainVars, q_, task, terminate_, m_, resultVars>>

WorkerLeave(t) ==
    /\ wpc[t] = "barrier" /\ Released(t)
    /\ Moves(t, "lock")
    /\ UNCHANGED <<mainVars, q_, task, terminate_, m_, barrierVars, resultVars>>

Lock(t) ==
    /\ wpc[t] = "lock" /\ m_[t] = Free
    /\ m_' = [m_ EXCEPT ![t] = "worker"]
    /\ Moves(t, "check")
    /\ UNCHANGED <<mainVars, q_, task, terminate_, barrierVars, resultVars>>

(* wait: with nothing to do, release the mutex and sleep in one step.      *)
Sleep(t) ==
    /\ wpc[t] = "check" /\ q_[t] = << >> /\ ~terminate_[t]
    /\ m_' = [m_ EXCEPT ![t] = Free]
    /\ Moves(t, "asleep")
    /\ UNCHANGED <<mainVars, q_, task, terminate_, barrierVars, resultVars>>

(* A condition variable may wake by itself; it then looks again.           *)
SpuriousWake(t) ==
    /\ wpc[t] = "asleep"
    /\ Moves(t, "lock")
    /\ UNCHANGED <<mainVars, q_, task, terminate_, m_, barrierVars, resultVars>>

Take(t) ==
    /\ wpc[t] = "check" /\ q_[t] # << >> /\ ~terminate_[t]
    /\ task' = [task EXCEPT ![t] = Head(q_[t])]
    /\ q_' = [q_ EXCEPT ![t] = Tail(@)]
    /\ m_' = [m_ EXCEPT ![t] = Free]
    /\ Moves(t, "exec")
    /\ UNCHANGED <<mainVars, terminate_, barrierVars, resultVars>>

Exit(t) ==
    /\ wpc[t] = "check" /\ terminate_[t]
    /\ m_' = [m_ EXCEPT ![t] = Free]
    /\ Moves(t, "exited")
    /\ UNCHANGED <<mainVars, q_, task, terminate_, barrierVars, resultVars>>

(* One iteration of Task::execute: sub_execute on a batch.  In an          *)
(* aggregation each group of agg inputs gives one element of the result.   *)
ExecBatch(t) ==
    LET from == task[t].at
        to   == BatchEnd(task[t], from)
    IN  /\ wpc[t] = "exec" /\ from < task[t].end
        /\ written' = [i \in DOMAIN written |->
                          IF i \in from \div op.agg + 1 .. to \div op.agg
                          THEN written[i] + 1 ELSE written[i]]
        /\ calls' = [calls EXCEPT ![t] = @ + 1]
        /\ task' = [task EXCEPT ![t].at = from + task[t].step]
        /\ UNCHANGED <<mainVars, wpc, q_, terminate_, m_, barrierVars>>

ExecDone(t) ==
    /\ wpc[t] = "exec" /\ task[t].at >= task[t].end
    /\ task' = [task EXCEPT ![t] = NoTask]
    /\ Moves(t, "top")
    /\ UNCHANGED <<mainVars, q_, terminate_, m_, barrierVars, resultVars>>

WorkerStep(t) ==
    \/ Top(t) \/ WorkerArrive(t) \/ WorkerLeave(t)
    \/ Lock(t) \/ Sleep(t) \/ Take(t) \/ Exit(t)
    \/ ExecBatch(t) \/ ExecDone(t)

-----------------------------------------------------------------------------

Next == MainStep \/ \E t \in Threads : WorkerStep(t) \/ SpuriousWake(t)

Spec == Init /\ [][Next]_vars

(* Every thread is scheduled, and the main thread does not lose the race   *)
(* for a mutex for ever to a worker that wakes spuriously again and again. *)
Fairness ==
    /\ WF_vars(MainStep)
    /\ SF_vars(AddLock) /\ SF_vars(StopLock)
    /\ \A t \in Threads : WF_vars(WorkerStep(t))

FairSpec == Spec /\ Fairness

-----------------------------------------------------------------------------
(* Properties.                                                             *)

TypeOK ==
    /\ mpc \in {"setup", "idle", "assign", "push", "notify", "arrive", "wait",
                "stop", "flag", "wake", "join", "ended"}
    /\ next \in 0 .. NumThreads /\ op \in Ops \cup {NoOp} /\ opsDone \in 0 .. MaxOps
    /\ batch_size \in Int /\ old_batch_size \in Int
    /\ wpc \in [Threads -> {"new", "top", "arrive", "barrier", "lock", "check", "asleep",
                            "exec", "exited"}]
    /\ \A t \in Threads : Len(q_[t]) <= 1
    /\ terminate_ \in [Threads -> BOOLEAN]
    /\ m_ \in [Threads -> {Free, "main", "worker"}]
    /\ arrived \in 0 .. NumThreads /\ phase \in Nat /\ ticket \in [Participants -> Nat]
    /\ calls \in [Threads -> Nat]

(* When the barrier lets the main thread go, every element of the result   *)
(* has been computed, exactly once.                                        *)
ResultComplete ==
    mpc = "wait" /\ Released(Main) => \A i \in DOMAIN written : written[i] = 1

(* No task, and so no reference into the frame of an operation, outlives   *)
(* the operation.                                                          *)
NoTaskOutlivesItsOp ==
    mpc \in {"setup", "idle", "stop", "flag", "wake", "join", "ended"} =>
        \A t \in Threads : q_[t] = << >> /\ wpc[t] # "exec"

(* stop() never writes the flag while a worker may read it unlocked.       *)
FlagNotRaced == mpc = "flag" => wpc[next] # "top"

(* The batches of an aggregation hold whole groups, so that no group is    *)
(* split between two workers or two batches.                               *)
GroupsNotSplit ==
    op.kind = "aggregate" =>
        \A t \in Threads : wpc[t] = "exec" /\ task[t].at < task[t].end =>
            /\ task[t].at % op.agg = 0
            /\ BatchEnd(task[t], task[t].at) % op.agg = 0

(* makeBatchSizeDivisibleBy leaves a batch size to divide the input by.    *)
BatchSizeUsable == mpc = "assign" /\ op.kind = "aggregate" => batch_size > 0

(* The runtime implements the fork and join of an operation.               *)
Stage ==
    CASE mpc \in {"assign", "push", "notify"} -> "forked"
      [] mpc \in {"arrive", "wait"} /\ op # NoOp -> "forked"
      [] mpc \in {"stop", "flag", "wake", "join", "ended"} -> "ended"
      [] OTHER -> "idle"

ToAssign(t) ==
    /\ \/ mpc \in {"assign", "push"} /\ t >= next
       \/ mpc = "notify" /\ t > next
    /\ HasTask(op, batch_size, t)

Todo == {t \in Threads : ToAssign(t) \/ q_[t] # << >> \/ wpc[t] = "exec"}

Abstract == INSTANCE ForkJoin WITH Workers <- Threads, stage <- Stage, todo <- Todo
ImplementsForkJoin == Abstract!Spec

(* Every operation returns to the program.                                 *)
OpsReturn == (mpc = "assign") ~> (mpc = "idle")

(* A program that stops asking comes to an end, every worker joined.       *)
ShutdownCompletes == (mpc = "stop") ~> (mpc = "ended")
=============================================================================
