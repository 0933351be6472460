--------------------------- MODULE Runtime_proofs ---------------------------
(***************************************************************************)
(* Proofs about the runtime of a party, for any number of workers, any     *)
(* operations and any batch size: no task outlives its operation, stop()   *)
(* does not race a worker for its flag, an operation returns when, and     *)
(* only when, its tasks are done, and by then each element of its result   *)
(* has been computed exactly once.                                         *)
(***************************************************************************)
EXTENDS Runtime, TLAPS, FiniteSetTheorems, WellFoundedInduction

(* Where a worker can be in its round.  It is released until it has taken  *)
(* its task, and done from its task on until the barrier opens.            *)
PastBarrier(t) ==
    wpc[t] \in {"lock", "check", "asleep"} \/ (wpc[t] = "barrier" /\ ticket[t] # phase)
Fresh(t) == q_[t] = << >> /\ PastBarrier(t)
Queued(t) == (\E k : q_[t] = <<k>>) /\ PastBarrier(t)
Executing(t) == q_[t] = << >> /\ wpc[t] = "exec"
Through(t) ==
    /\ q_[t] = << >>
    /\ wpc[t] \in {"top", "arrive"} \/ (wpc[t] = "barrier" /\ ticket[t] = phase)
Somewhere(t) == Fresh(t) \/ Queued(t) \/ Executing(t) \/ Through(t)
NotStarted(t) == q_[t] = << >> /\ wpc[t] = "new"
Leaving(t) == q_[t] = << >> /\ (PastBarrier(t) \/ wpc[t] = "exited")

Assigning == {"assign", "push", "notify"}
Ending == {"stop", "flag", "wake", "join", "ended"}

(* Who has arrived at the barrier in this phase.                           *)
Waiting ==
    {p \in Participants :
        /\ ticket[p] = phase
        /\ IF p = Main THEN mpc = "wait" ELSE wpc[p] = "barrier"}

(* What the proofs need of types.                                          *)
Types ==
    /\ mpc \in {"setup", "idle", "arrive", "wait"} \cup Assigning \cup Ending
    /\ next \in Nat /\ next <= NumThreads
    /\ DOMAIN wpc = Threads /\ DOMAIN q_ = Threads /\ DOMAIN terminate_ = Threads
    /\ DOMAIN ticket = Participants
    /\ phase \in Nat /\ \A p \in Participants : ticket[p] \in Nat /\ ticket[p] <= phase

Counted == arrived = Cardinality(Waiting) /\ arrived <= NumThreads

(* Where the workers are while the main thread is at each of its steps.    *)
Starting ==
    mpc = "setup" =>
        /\ op = NoOp
        /\ \A t \in Threads : IF t < next THEN Through(t) ELSE NotStarted(t)
Dealing ==
    mpc \in Assigning =>
        /\ op # NoOp
        /\ mpc # "assign" => next < NumThreads
        /\ mpc = "push" => HasTask(op, batch_size, next)
        /\ \A t \in Threads :
               IF t < next \/ (t = next /\ mpc = "notify") THEN Somewhere(t) ELSE Fresh(t)
Awaiting ==
    mpc = "arrive" \/ (mpc = "wait" /\ ticket[Main] = phase) =>
        \A t \in Threads : Somewhere(t) /\ (op = NoOp => Through(t))
Returning ==
    mpc = "idle" \/ (mpc = "wait" /\ ticket[Main] # phase) => \A t \in Threads : Fresh(t)
Stopping ==
    /\ mpc \in Ending => \A t \in Threads : Leaving(t)
    /\ mpc \in {"flag", "wake", "join"} => next < NumThreads
    /\ \A t \in Threads : terminate_[t] => mpc \in Ending

Stages == Starting /\ Dealing /\ Awaiting /\ Returning /\ Stopping
IInv == Types /\ Counted /\ Stages

-----------------------------------------------------------------------------

(* Workers are numbers, and the main thread is none of them.               *)
LEMMA WorkersAre ==
    /\ Threads \subseteq Nat /\ \A t \in Threads : t < NumThreads
    /\ Main \notin Threads /\ Participants = Threads \cup {Main}
    /\ NumThreads \in Nat \ {0}
    /\ IsFiniteSet(Participants) /\ Cardinality(Participants) = NumThreads + 1
<1>1. NumThreads \in Nat \ {0}
  BY NumThreadsAssumption
<1>2. Threads \subseteq Nat /\ \A t \in Threads : t < NumThreads
  BY <1>1 DEF Threads
<1>3. Main \notin Threads
  <2>1. \A t \in Threads : t \in Int
    BY <1>2
  <2> QED
    BY <2>1, MainAssumption, Zenon
<1>4. IsFiniteSet(Threads) /\ Cardinality(Threads) = NumThreads
  BY <1>1, FS_Interval DEF Threads
<1>5. IsFiniteSet(Threads \cup {Main}) /\ Cardinality(Threads \cup {Main}) = NumThreads + 1
  BY <1>3, <1>4, FS_AddElement
<1> QED
  BY <1>1, <1>2, <1>3, <1>5 DEF Participants

(* Nobody has started and nobody has arrived.                              *)
LEMMA Begins == Init => IInv
<1> SUFFICES ASSUME Init PROVE IInv
  OBVIOUS
<1>1. Types
  BY WorkersAre DEF Init, Types
<1>2. Waiting = {}
  BY WorkersAre DEF Init, Waiting
<1>3. Counted
  BY <1>2, WorkersAre, FS_EmptySet DEF Init, Counted
<1>4. Stages
  BY WorkersAre
     DEF Init, Stages, Starting, Dealing, Awaiting, Returning, Stopping, NotStarted,
         Assigning, Ending
<1> QED
  BY <1>1, <1>3, <1>4 DEF IInv

(* The barrier: the last to arrive finds all the others waiting.           *)
LEMMA LastArrives ==
    ASSUME Types, Counted, NEW p \in Participants, p \notin Waiting, arrived + 1 = BarrierSize
    PROVE  Participants \ {p} \subseteq Waiting
<1>1. Waiting \subseteq Participants \ {p}
  BY DEF Waiting
<1>2. /\ IsFiniteSet(Participants \ {p})
      /\ Cardinality(Participants \ {p}) = NumThreads
  BY WorkersAre, FS_RemoveElement
<1>3. Cardinality(Waiting) = NumThreads
  <2>1. Cardinality(Waiting) \in Nat
    BY <1>1, <1>2, FS_Subset, FS_CardinalityType
  <2> QED
    BY <2>1, WorkersAre DEF Counted, BarrierSize
<1> QED
  BY <1>1, <1>2, <1>3, FS_Subset

(* A step of a thread that is not at the barrier keeps the count.          *)
LEMMA SameCount ==
    ASSUME Types, Counted, UNCHANGED barrierVars, Waiting' = Waiting
    PROVE  Counted'
BY DEF Counted, barrierVars

(* Someone arrives.                                                        *)
LEMMA ArrivalCounts ==
    ASSUME Types, Counted, NEW p \in Participants, p \notin Waiting, Arrive(p),
           Waiting' = {o \in Waiting \cup {p} : phase' = phase}
    PROVE  Counted'
<1>1. IsFiniteSet(Waiting) /\ Cardinality(Waiting) \in Nat
  <2>1. Waiting \subseteq Participants
    BY DEF Waiting
  <2> QED
    BY <2>1, WorkersAre, FS_Subset, FS_CardinalityType
<1>2. Cardinality(Waiting \cup {p}) = Cardinality(Waiting) + 1
  BY <1>1, FS_AddElement
<1>3. CASE arrived + 1 = BarrierSize
  <2>1. phase' # phase /\ arrived' = 0
    BY <1>3 DEF Arrive, Types
  <2>2. Waiting' = {}
    BY <2>1
  <2> QED
    BY <2>1, <2>2, WorkersAre, FS_EmptySet DEF Counted
<1>4. CASE arrived + 1 # BarrierSize
  <2>1. phase' = phase /\ arrived' = arrived + 1
    BY <1>4 DEF Arrive
  <2>2. Waiting' = Waiting \cup {p}
    BY <2>1
  <2> QED
    BY <1>1, <1>2, <1>4, <2>1, <2>2, WorkersAre DEF Counted, BarrierSize
<1> QED
  BY <1>3, <1>4

-----------------------------------------------------------------------------
(* Nobody comes to the barrier or goes in a step of neither kind.          *)
LEMMA SameWaiting ==
    ASSUME UNCHANGED <<phase, ticket>>,
           \A t \in Threads : wpc[t] = "barrier" <=> wpc'[t] = "barrier",
           mpc = "wait" <=> mpc' = "wait"
    PROVE  Waiting' = Waiting
BY WorkersAre DEF Waiting

(* The steps of the main thread other than its arrival.                    *)
LEMMA MainKeeps ==
    ASSUME IInv, MainStep, ~MainArrive
    PROVE  IInv'
<1> USE WorkersAre
<1> USE DEF IInv, Types, Stages, Starting, Dealing, Awaiting, Returning, Stopping, Assigning,
            Ending, Fresh, Queued, Executing, Through, Somewhere, NotStarted, Leaving,
            PastBarrier, mainVars, barrierVars, resultVars
<1>1. CASE StartWorker
  <2>1. Types' /\ Stages'
    BY <1>1 DEF StartWorker
  <2>2. Counted'
    BY <1>1, SameWaiting, SameCount DEF StartWorker
  <2> QED
    BY <2>1, <2>2
<1>2. CASE WorkersStarted
  <2>1. Types' /\ Stages'
    BY <1>2 DEF WorkersStarted
  <2>2. Counted'
    BY <1>2, SameWaiting, SameCount DEF WorkersStarted
  <2> QED
    BY <2>1, <2>2
<1>3. ASSUME NEW o \in Ops, Begin(o) PROVE IInv'
  <2>1. Types' /\ Stages'
    BY <1>3, OpsAssumption DEF Begin
  <2>2. Counted'
    BY <1>3, SameWaiting, SameCount DEF Begin
  <2> QED
    BY <2>1, <2>2
<1>4. CASE AddLock
  <2>1. Types' /\ Stages'
    BY <1>4 DEF AddLock
  <2>2. Counted'
    BY <1>4, SameWaiting, SameCount DEF AddLock
  <2> QED
    BY <2>1, <2>2
<1>5. CASE AddPush
  <2>1. Types' /\ Stages'
    BY <1>5 DEF AddPush
  <2>2. Counted'
    BY <1>5, SameWaiting, SameCount DEF AddPush
  <2> QED
    BY <2>1, <2>2
<1>6. CASE AddNotify
  <2>1. Types' /\ Stages'
    BY <1>6 DEF AddNotify, Sleepers
  <2>2. Counted'
    BY <1>6, SameWaiting, SameCount DEF AddNotify, Sleepers
  <2> QED
    BY <2>1, <2>2
<1>7. CASE SkipWorker
  <2>1. Types' /\ Stages'
    BY <1>7 DEF SkipWorker
  <2>2. Counted'
    BY <1>7, SameWaiting, SameCount DEF SkipWorker
  <2> QED
    BY <2>1, <2>2
<1>8. CASE Assigned
  <2>1. Types' /\ Stages'
    BY <1>8 DEF Assigned
  <2>2. Counted'
    BY <1>8, SameWaiting, SameCount DEF Assigned
  <2> QED
    BY <2>1, <2>2
<1>9. CASE MainReturn
  <2>1. Types' /\ Stages'
    BY <1>9 DEF MainReturn, Released
  <2>2. Waiting' = Waiting
    BY <1>9 DEF MainReturn, Released, Waiting
  <2> QED
    BY <1>9, <2>1, <2>2, SameCount DEF MainReturn
<1>10. CASE Destroy
  <2>1. Types' /\ Stages'
    BY <1>10 DEF Destroy
  <2>2. Counted'
    BY <1>10, SameWaiting, SameCount DEF Destroy
  <2> QED
    BY <2>1, <2>2
<1>11. CASE StopLock
  <2>1. Types' /\ Stages'
    BY <1>11 DEF StopLock
  <2>2. Counted'
    BY <1>11, SameWaiting, SameCount DEF StopLock
  <2> QED
    BY <2>1, <2>2
<1>12. CASE StopFlag
  <2>1. Types' /\ Stages'
    BY <1>12 DEF StopFlag
  <2>2. Counted'
    BY <1>12, SameWaiting, SameCount DEF StopFlag
  <2> QED
    BY <2>1, <2>2
<1>13. CASE StopNotify
  <2>1. Types' /\ Stages'
    BY <1>13 DEF StopNotify, Sleepers
  <2>2. Counted'
    BY <1>13, SameWaiting, SameCount DEF StopNotify, Sleepers
  <2> QED
    BY <2>1, <2>2
<1>14. CASE Join
  <2>1. Types' /\ Stages'
    BY <1>14 DEF Join
  <2>2. Counted'
    BY <1>14, SameWaiting, SameCount DEF Join
  <2> QED
    BY <2>1, <2>2
<1> QED
  BY <1>1, <1>2, <1>3, <1>4, <1>5, <1>6, <1>7, <1>8, <1>9, <1>10, <1>11, <1>12, <1>13, <1>14
     DEF MainStep

-----------------------------------------------------------------------------
(* A step that leaves the main thread, its flags and the barrier alone, in *)
(* which every worker goes on within its place.                            *)
LEMMA WithinPlace ==
    ASSUME IInv, UNCHANGED <<mainVars, terminate_, phase, ticket>>,
           \A t \in Threads :
               /\ Fresh(t) => Fresh(t)'
               /\ Through(t) => Through(t)'
               /\ Somewhere(t) => Somewhere(t)'
               /\ NotStarted(t) => NotStarted(t)'
               /\ mpc \in Ending /\ Leaving(t) => Leaving(t)'
    PROVE  Stages'
BY DEF IInv, Stages, Starting, Dealing, Awaiting, Returning, Stopping, mainVars, HasTask, RangeFor

(* The steps of a worker away from the barrier.                            *)
LEMMA WorkerKeeps ==
    ASSUME IInv, NEW t \in Threads,
           \/ Top(t) \/ WorkerLeave(t) \/ Lock(t) \/ Sleep(t) \/ Take(t) \/ Exit(t)
           \/ ExecBatch(t) \/ ExecDone(t) \/ SpuriousWake(t)
    PROVE  IInv'
<1> DEFINE Others ==
               \A u \in Threads \ {t} : wpc'[u] = wpc[u] /\ q_'[u] = q_[u]
           Kept ==
               \A u \in Threads :
                   /\ Fresh(u) => Fresh(u)'
                   /\ Through(u) => Through(u)'
                   /\ Somewhere(u) => Somewhere(u)'
                   /\ NotStarted(u) => NotStarted(u)'
                   /\ mpc \in Ending /\ Leaving(u) => Leaving(u)'
<1> USE DEF Fresh, Queued, Executing, Through, Somewhere, NotStarted, Leaving, PastBarrier, Moves
<1>0. Types
  BY DEF IInv
<1>1. /\ UNCHANGED <<mainVars, terminate_, barrierVars>>
      /\ DOMAIN wpc' = Threads /\ DOMAIN q_' = Threads
      /\ Others
  BY <1>0 DEF Types, Top, WorkerLeave, Lock, Sleep, Take, Exit, ExecBatch, ExecDone, SpuriousWake
<1>2. UNCHANGED <<mainVars, terminate_, phase, ticket>>
  BY <1>1 DEF barrierVars
<1>3. wpc[t] # "barrier" \/ ticket[t] # phase
  BY DEF Top, WorkerLeave, Lock, Sleep, Take, Exit, ExecBatch, ExecDone, SpuriousWake, Released
<1>4. wpc'[t] # "barrier"
  BY <1>0, <1>3
     DEF Types, Top, WorkerLeave, Lock, Sleep, Take, Exit, ExecBatch, ExecDone, SpuriousWake
<1>5. Waiting' = Waiting
  BY <1>1, <1>2, <1>3, <1>4, WorkersAre DEF Waiting, mainVars
<1>6. Types' /\ Counted'
  BY <1>1, <1>2, <1>5, SameCount DEF IInv, Types, mainVars
<1>7. CASE Top(t)
  <2>1. mpc \notin Ending
    BY <1>7 DEF Top, IInv, Stages, Stopping
  <2>2. ~terminate_[t]
    BY <2>1 DEF IInv, Stages, Stopping
  <2>3. Kept
    BY <1>0, <1>1, <1>2, <1>7, <2>1, <2>2 DEF Top, Types
  <2> QED
    BY <1>2, <1>6, <2>3, WithinPlace DEF IInv
<1>8. CASE WorkerLeave(t)
  <2>1. Kept
    BY <1>0, <1>1, <1>2, <1>8 DEF WorkerLeave, Types, Released
  <2> QED
    BY <1>2, <1>6, <2>1, WithinPlace DEF IInv
<1>9. CASE Lock(t) \/ Sleep(t) \/ SpuriousWake(t)
  <2>1. Kept
    BY <1>0, <1>1, <1>2, <1>9 DEF Lock, Sleep, SpuriousWake, Types
  <2> QED
    BY <1>2, <1>6, <2>1, WithinPlace DEF IInv
<1>10. CASE Take(t)
  <2>0. \A k : Tail(<<k>>) = << >>
    OBVIOUS
  <2>1. q_[t] # << >> /\ wpc[t] = "check" /\ q_'[t] = Tail(q_[t]) /\ wpc'[t] = "exec"
    BY <1>0, <1>10 DEF Take, Types
  <2>2. Kept
    BY <1>1, <1>2, <2>0, <2>1
  <2> QED
    BY <1>2, <1>6, <2>2, WithinPlace DEF IInv
<1>11. CASE Exit(t)
  <2>1. mpc \in Ending
    BY <1>11 DEF Exit, IInv, Stages, Stopping
  <2>2. /\ \A u \in Threads : Leaving(u)'
        /\ UNCHANGED <<mainVars, terminate_>>
    BY <1>0, <1>1, <1>2, <1>11, <2>1 DEF Exit, Types, IInv, Stages, Stopping
  <2>3. Stages'
    BY <2>1, <2>2
       DEF IInv, Stages, Starting, Dealing, Awaiting, Returning, Stopping, mainVars,
           Ending, Assigning
  <2> QED
    BY <1>6, <2>3 DEF IInv
<1>12. CASE ExecBatch(t)
  <2>1. Kept
    BY <1>0, <1>1, <1>2, <1>12 DEF ExecBatch, Types
  <2> QED
    BY <1>2, <1>6, <2>1, WithinPlace DEF IInv
<1>13. CASE ExecDone(t)
  <2>1. Kept
    BY <1>0, <1>1, <1>2, <1>13 DEF ExecDone, Types
  <2> QED
    BY <1>2, <1>6, <2>1, WithinPlace DEF IInv
<1> QED
  BY <1>7, <1>8, <1>9, <1>10, <1>11, <1>12, <1>13

-----------------------------------------------------------------------------
(* Who arrives at the barrier changes nothing else.                        *)
ComesIn(p) ==
    /\ Arrive(p) /\ p \notin Waiting
    /\ p = Main => /\ mpc = "arrive" /\ mpc' = "wait" /\ wpc' = wpc
    /\ p # Main => /\ wpc[p] = "arrive" /\ mpc' = mpc
                   /\ wpc' = [wpc EXCEPT ![p] = "barrier"]
    /\ UNCHANGED <<next, op, opsDone, batch_size, old_batch_size, q_, task, terminate_, m_,
                   resultVars>>

(* An arrival is someone's.                                                *)
LEMMA SomeoneComesIn ==
    ASSUME MainArrive \/ \E t \in Threads : WorkerArrive(t)
    PROVE  \E p \in Participants : ComesIn(p)
BY WorkersAre DEF MainArrive, WorkerArrive, Moves, Waiting, mainVars, ComesIn

(* The last to arrive finds all the others at the barrier and opens it.    *)
LEMMA LastComesIn ==
    ASSUME IInv, NEW p \in Participants, ComesIn(p), arrived + 1 = BarrierSize
    PROVE  /\ phase' = phase + 1 /\ mpc' = "wait" /\ ticket'[Main] # phase'
           /\ mpc = "arrive" \/ (mpc = "wait" /\ ticket[Main] = phase)
           /\ \A t \in Threads : IF t = p THEN wpc[t] = "arrive"
                                 ELSE wpc[t] = "barrier" /\ ticket[t] = phase
<1>1. phase' = phase + 1 /\ ticket' = [ticket EXCEPT ![p] = phase]
  BY DEF ComesIn, Arrive
<1>2. \A o \in Participants \ {p} : o \in Waiting
  BY LastArrives DEF IInv, ComesIn
<1>3. ticket'[Main] # phase'
  <2>1. \A o \in Participants : ticket'[o] # phase'
    BY <1>1 DEF IInv, Types
  <2> QED BY <2>1, WorkersAre
<1>4. mpc' = "wait" /\ (mpc = "arrive" \/ (mpc = "wait" /\ ticket[Main] = phase))
  BY <1>2, WorkersAre DEF Waiting, ComesIn
<1>5. \A t \in Threads : IF t = p THEN wpc[t] = "arrive"
                         ELSE wpc[t] = "barrier" /\ ticket[t] = phase
  BY <1>2, WorkersAre DEF Waiting, ComesIn
<1> QED
  BY <1>1, <1>3, <1>4, <1>5

(* The arrivals.  Unless it is the last, who arrives waits, and nobody     *)
(* else notices; the last one finds all the tasks done and releases all.   *)
LEMMA ArrivalKeeps ==
    ASSUME IInv, MainArrive \/ \E t \in Threads : WorkerArrive(t)
    PROVE  IInv'
<1> USE DEF ComesIn
<1>1. PICK p \in Participants : ComesIn(p)
  BY SomeoneComesIn
<1>2. /\ ticket' = [ticket EXCEPT ![p] = phase]
      /\ phase' \in {phase, phase + 1}
  BY <1>1 DEF Arrive
<1>3. Types'
  BY <1>1, <1>2, WorkersAre DEF IInv, Types
<1>4. Waiting' = {o \in Waiting \cup {p} : phase' = phase}
  <2>1. CASE phase' = phase
    BY <1>1, <1>2, <2>1, WorkersAre DEF IInv, Types, Waiting
  <2>2. CASE phase' = phase + 1
    <3>1. \A o \in Participants : ticket'[o] # phase'
      BY <1>2, <2>2 DEF IInv, Types
    <3>2. Waiting' = {}
      BY <3>1 DEF Waiting
    <3>3. phase' # phase
      BY <2>2 DEF IInv, Types
    <3> QED
      BY <3>2, <3>3
  <2> QED
    BY <1>2, <2>1, <2>2
<1>5. Counted'
  BY <1>1, <1>4, ArrivalCounts DEF IInv
<1>6. CASE arrived + 1 # BarrierSize
  <2>1. phase' = phase
    BY <1>1, <1>6 DEF Arrive
  <2>2. \A t \in Threads :
            /\ Fresh(t) => Fresh(t)'
            /\ Through(t) => Through(t)'
            /\ Somewhere(t) => Somewhere(t)'
            /\ NotStarted(t) => NotStarted(t)'
            /\ Leaving(t) => Leaving(t)'
    BY <1>1, <1>2, <2>1, WorkersAre
       DEF IInv, Types, Fresh, Queued, Executing, Through, Somewhere, NotStarted, Leaving,
           PastBarrier
  <2>3. CASE p # Main
    <3>1. ticket'[Main] = ticket[Main]
      BY <1>2, <2>3, WorkersAre DEF IInv, Types
    <3> QED
      BY <1>1, <1>3, <1>5, <2>1, <2>2, <2>3, <3>1
         DEF IInv, Stages, Starting, Dealing, Awaiting, Returning, Stopping, HasTask, RangeFor
  <2>4. CASE p = Main
    <3>1. ticket'[Main] = phase
      BY <1>2, <2>4, WorkersAre DEF IInv, Types
    <3> QED
      BY <1>1, <1>3, <1>5, <2>1, <2>2, <2>4, <3>1
         DEF IInv, Stages, Starting, Dealing, Awaiting, Returning, Stopping, Assigning, Ending
  <2> QED
    BY <2>3, <2>4
<1>7. CASE arrived + 1 = BarrierSize
  <2>1. /\ phase' = phase + 1 /\ mpc' = "wait" /\ ticket'[Main] # phase'
        /\ mpc = "arrive" \/ (mpc = "wait" /\ ticket[Main] = phase)
        /\ \A t \in Threads : IF t = p THEN wpc[t] = "arrive"
                              ELSE wpc[t] = "barrier" /\ ticket[t] = phase
    BY <1>1, <1>7, LastComesIn
  <2>2. \A t \in Threads : Somewhere(t)
    BY <2>1 DEF IInv, Stages, Awaiting
  <2>3. \A t \in Threads : q_[t] = << >>
    BY <2>1, <2>2 DEF Somewhere, Fresh, Queued, Executing, Through, PastBarrier
  <2>4. \A t \in Threads : wpc'[t] = "barrier" /\ ticket'[t] = phase
    BY <1>1, <1>2, <2>1, WorkersAre DEF IInv, Types
  <2>5. \A t \in Threads : Fresh(t)'
    BY <1>1, <2>1, <2>3, <2>4 DEF Fresh, PastBarrier, IInv, Types
  <2>6. \A t \in Threads : ~terminate_[t]
    BY <2>1 DEF IInv, Stages, Stopping, Ending
  <2> QED
    BY <1>1, <1>3, <1>5, <2>1, <2>5, <2>6
       DEF IInv, Stages, Starting, Dealing, Awaiting, Returning, Stopping, Assigning, Ending
<1> QED
  BY <1>6, <1>7

-----------------------------------------------------------------------------
(* The inductive invariant: where each worker is in its round follows from *)
(* where the main thread is, and the barrier counts who waits at it.       *)
THEOREM Invariant == Spec => []IInv
<1>1. IInv /\ [Next]_vars => IInv'
  <2>1. ASSUME IInv, MainStep PROVE IInv'
    BY <2>1, MainKeeps, ArrivalKeeps
  <2>2. ASSUME IInv, NEW t \in Threads, WorkerStep(t) \/ SpuriousWake(t) PROVE IInv'
    BY <2>2, WorkerKeeps, ArrivalKeeps DEF WorkerStep
  <2>3. ASSUME IInv, UNCHANGED vars PROVE IInv'
    <3>1. Waiting' = Waiting
      BY <2>3, WorkersAre DEF vars, mainVars, barrierVars, Waiting
    <3> QED
      BY <2>3, <3>1
         DEF vars, mainVars, barrierVars, IInv, Types, Counted, Stages, Starting, Dealing,
             Awaiting, Returning, Stopping, Fresh, Queued, Executing, Through, Somewhere,
             NotStarted, Leaving, PastBarrier, HasTask, RangeFor
  <2> QED
    BY <2>1, <2>2, <2>3 DEF Next
<1> QED
  BY <1>1, Begins, PTL DEF Spec

(* No task is queued or running, and so no reference into the frame of an  *)
(* operation is in use, once the main thread has returned from it          *)
(* (runtime.h); whatever the number of workers, operations and batches.    *)
THEOREM TasksEndWithTheirOp == Spec => []NoTaskOutlivesItsOp
<1>1. IInv => NoTaskOutlivesItsOp
  BY WorkersAre
     DEF IInv, Types, Stages, Starting, Returning, Stopping, NoTaskOutlivesItsOp, Fresh, Through,
         NotStarted, Leaving, PastBarrier, Ending
<1> QED
  BY <1>1, Invariant, PTL

(* stop() never writes the flag of a worker that may read it without the   *)
(* mutex (worker.h).                                                       *)
THEOREM FlagWrittenInPeace == Spec => []FlagNotRaced
<1>1. IInv => FlagNotRaced
  BY WorkersAre DEF IInv, Types, Stages, Stopping, FlagNotRaced, Leaving, PastBarrier, Ending, Threads
<1> QED
  BY <1>1, Invariant, PTL

-----------------------------------------------------------------------------
(* The workers whose share of the operation is not done, once the main     *)
(* thread has gone on to wait or has returned.                             *)
LEMMA NothingToDo ==
    ASSUME IInv, mpc \in {"setup", "idle"} \cup Ending \/ (mpc = "wait" /\ ticket[Main] # phase)
    PROVE  Todo = {}
BY WorkersAre
   DEF IInv, Types, Stages, Starting, Returning, Stopping, Todo, ToAssign, Fresh, Through,
       NotStarted, Leaving, PastBarrier, Ending

(* The steps of the main thread are those of the abstract one.             *)
LEMMA MainRefines ==
    ASSUME IInv, IInv', MainStep
    PROVE  [Abstract!Next]_(Abstract!vars)
<1> USE DEF Abstract!Next, Abstract!vars, mainVars
<1>0. Types /\ Types' /\ Dealing /\ Starting
  BY DEF IInv, Stages
<1>1. CASE StartWorker \/ WorkersStarted \/ Destroy \/ StopLock \/ StopFlag \/ StopNotify \/ Join
  <2>1. mpc \in {"setup", "idle"} \cup Ending /\ mpc' \in {"setup", "arrive"} \cup Ending
    BY <1>1 DEF StartWorker, WorkersStarted, Destroy, StopLock, StopFlag, StopNotify, Join, Ending
  <2>2. Todo = {}
    BY <2>1, NothingToDo
  <2>3. CASE mpc' # "arrive"
    <3>1. Todo' = {}
      BY <2>1, <2>3, WorkersAre
         DEF IInv, Types, Stages, Starting, Returning, Stopping, Todo, ToAssign, Fresh,
             Through, NotStarted, Leaving, PastBarrier, Ending
    <3>2. Stage' = Stage \/ (Stage = "idle" /\ Stage' = "ended")
      BY <1>1, <2>3
         DEF Stage, StartWorker, WorkersStarted, Destroy, StopLock, StopFlag, StopNotify, Join
    <3> QED
      BY <2>2, <3>1, <3>2 DEF Abstract!End
  <2>4. CASE mpc' = "arrive"
    <3>1. WorkersStarted
      BY <1>1, <2>4 DEF StartWorker, Destroy, StopLock, StopFlag, StopNotify, Join
    <3>2. Stage' = Stage
      BY <1>0, <3>1 DEF WorkersStarted, Starting, Stage
    <3>3. Todo' = Todo
      BY <3>1 DEF WorkersStarted, Todo, ToAssign
    <3> QED
      BY <3>2, <3>3
  <2> QED
    BY <2>3, <2>4
<1>2. ASSUME NEW o \in Ops, Begin(o) PROVE Abstract!Fork
  BY <1>2 DEF Begin, Abstract!Fork, Stage, Todo
<1>3. CASE AddLock \/ SkipWorker
  <2>1. Stage' = Stage
    BY <1>3 DEF AddLock, SkipWorker, Stage
  <2>2. \A t \in Threads : ToAssign(t)' <=> ToAssign(t)
    BY <1>0, <1>3, WorkersAre DEF AddLock, SkipWorker, ToAssign, HasTask, RangeFor, Types
  <2>3. Todo' = Todo
    BY <1>3, <2>2 DEF AddLock, SkipWorker, Todo
  <2> QED
    BY <2>1, <2>3
<1>4. CASE AddPush
  <2>1. Stage' = Stage
    BY <1>4 DEF AddPush, Stage
  <2>2. \A t \in Threads : ToAssign(t)' <=> ToAssign(t) /\ t # next
    BY <1>0, <1>4, WorkersAre DEF AddPush, ToAssign, HasTask, RangeFor, Types
  <2>3. next \in Threads /\ ToAssign(next) /\ q_[next] = << >>
    BY <1>0, <1>4, WorkersAre
       DEF AddPush, ToAssign, Dealing, Types, Fresh, Assigning, Threads
  <2>4. q_'[next] # << >> /\ wpc' = wpc /\ \A t \in Threads \ {next} : q_'[t] = q_[t]
    <3>1. \A k : Append(<< >>, k) # << >>
      OBVIOUS
    <3> QED
      BY <1>0, <1>4, <2>3, <3>1 DEF AddPush, Types
  <2>5. Todo' = Todo
    BY <2>2, <2>3, <2>4 DEF Todo
  <2> QED
    BY <2>1, <2>5
<1>5. CASE AddNotify
  <2>1. Stage' = Stage
    BY <1>5 DEF AddNotify, Stage
  <2>2. \A t \in Threads : ToAssign(t)' <=> ToAssign(t)
    BY <1>0, <1>5, WorkersAre DEF AddNotify, ToAssign, HasTask, RangeFor, Types
  <2>3. \A t \in Threads : wpc'[t] = "exec" <=> wpc[t] = "exec"
    BY <1>5 DEF AddNotify, Sleepers
  <2>4. Todo' = Todo
    BY <1>5, <2>2, <2>3 DEF AddNotify, Todo
  <2> QED
    BY <2>1, <2>4
<1>6. CASE Assigned
  <2>1. Stage' = Stage
    BY <1>0, <1>6 DEF Assigned, Stage, Dealing, Assigning
  <2>2. \A t \in Threads : ~ToAssign(t) /\ ~ToAssign(t)'
    BY <1>0, <1>6, WorkersAre DEF Assigned, ToAssign, Types
  <2>3. Todo' = Todo
    BY <1>6, <2>2 DEF Assigned, Todo
  <2> QED
    BY <2>1, <2>3
<1>7. CASE MainArrive
  <2>1. Stage' = Stage
    BY <1>7 DEF MainArrive, Stage
  <2>2. Todo' = Todo
    BY <1>7 DEF MainArrive, Todo, ToAssign
  <2> QED
    BY <2>1, <2>2
<1>8. CASE MainReturn
  <2>1. Todo = {}
    BY <1>8, NothingToDo DEF MainReturn, Released
  <2>2. Todo' = {}
    BY <1>8, WorkersAre
       DEF MainReturn, IInv, Types, Stages, Returning, Todo, ToAssign, Fresh, PastBarrier
  <2>3. Stage' = "idle" /\ Stage \in {"idle", "forked"}
    BY <1>8 DEF MainReturn, Stage
  <2> QED
    BY <2>1, <2>2, <2>3 DEF Abstract!Join
<1> QED
  BY <1>1, <1>2, <1>3, <1>4, <1>5, <1>6, <1>7, <1>8 DEF MainStep

(* A worker that comes to the end of its task has done its share; its      *)
(* other steps do not show.                                                *)
LEMMA WorkerRefines ==
    ASSUME IInv, IInv', NEW t \in Threads, WorkerStep(t) \/ SpuriousWake(t)
    PROVE  [Abstract!Next]_(Abstract!vars)
<1> USE DEF Abstract!Next, Abstract!vars, Moves
<1>0. Types
  BY DEF IInv
<1>1. /\ UNCHANGED mainVars
      /\ \A u \in Threads \ {t} : wpc'[u] = wpc[u] /\ q_'[u] = q_[u]
  BY <1>0 DEF Types, WorkerStep, Top, WorkerArrive, WorkerLeave, Lock, Sleep, Take, Exit,
              ExecBatch, ExecDone, SpuriousWake
<1>2. Stage' = Stage /\ \A u \in Threads : ToAssign(u)' <=> ToAssign(u)
  BY <1>1 DEF mainVars, Stage, ToAssign, HasTask, RangeFor
<1>3. CASE ExecDone(t)
  <2>1. wpc[t] = "exec" /\ wpc'[t] = "top" /\ q_' = q_
    BY <1>0, <1>3 DEF ExecDone, Types
  <2>2. t \in Todo
    BY <2>1 DEF Todo
  <2>3. q_[t] = << >> /\ ~ToAssign(t) /\ Stage = "forked"
    BY <1>0, <2>1, WorkersAre
       DEF IInv, Types, Stages, Starting, Dealing, Awaiting, Returning, Stopping, ToAssign,
           Stage, Somewhere, Fresh, Queued, Executing, Through, NotStarted, Leaving, PastBarrier,
           Assigning, Ending
  <2>4. Todo' = Todo \ {t}
    BY <1>1, <1>2, <2>1, <2>3 DEF Todo
  <2> QED
    BY <1>2, <2>2, <2>3, <2>4 DEF Abstract!Work
<1>4. CASE ~ExecDone(t)
  <2>1. q_'[t] # << >> \/ wpc'[t] = "exec" <=> q_[t] # << >> \/ wpc[t] = "exec"
    <3>1. CASE Take(t)
      BY <1>0, <3>1 DEF Take, Types
    <3>2. CASE ~Take(t)
      BY <1>0, <1>4, <3>2
         DEF Types, WorkerStep, Top, WorkerArrive, WorkerLeave, Lock, Sleep, Exit, ExecBatch,
             SpuriousWake
    <3> QED
      BY <3>1, <3>2
  <2>2. Todo' = Todo
    BY <1>1, <1>2, <2>1 DEF Todo
  <2> QED
    BY <1>2, <2>2
<1> QED
  BY <1>3, <1>4

(* The runtime implements the fork and join of an operation: control       *)
(* returns to the program when, and only when, every worker with a task    *)
(* has done it.                                                            *)
THEOREM Refinement == Spec => ImplementsForkJoin
<1>1. Init => Abstract!Init
  <2> SUFFICES ASSUME Init PROVE Abstract!Init
    OBVIOUS
  <2>1. Todo = {}
    BY Begins, NothingToDo DEF Init
  <2> QED
    BY <2>1 DEF Init, Stage, Abstract!Init
<1>2. IInv /\ IInv' /\ [Next]_vars => [Abstract!Next]_(Abstract!vars)
  <2>1. ASSUME IInv, IInv', Next PROVE [Abstract!Next]_(Abstract!vars)
    BY <2>1, MainRefines, WorkerRefines DEF Next
  <2>2. ASSUME UNCHANGED vars PROVE UNCHANGED Abstract!vars
    BY <2>2 DEF vars, mainVars, Abstract!vars, Stage, Todo, ToAssign, HasTask, RangeFor
  <2> QED
    BY <2>1, <2>2
<1> QED
  BY <1>1, <1>2, Invariant, PTL DEF Spec, ImplementsForkJoin, Abstract!Spec
-----------------------------------------------------------------------------
(* Numbers.                                                                *)

(* A number is its quotient times the divisor and its remainder.           *)
LEMMA Quotient ==
    ASSUME NEW n \in Nat, n > 0, NEW x \in Int
    PROVE  x \div n \in Int /\ x % n \in 0 .. n - 1 /\ x = n * (x \div n) + (x % n)
BY SMTT(30)

(* There is only one such quotient and remainder.                          *)
LEMMA OnlyQuotient ==
    ASSUME NEW n \in Nat, n > 0, NEW q \in Int, NEW r \in 0 .. n - 1, NEW u \in Int,
           NEW s \in 0 .. n - 1, n * q + r = n * u + s
    PROVE  q = u /\ r = s
<1>1. CASE q < u
  <2>1. u - q >= 1 /\ u - q \in Int
    BY <1>1
  <2>2. n * (u - q) >= n
    BY <2>1
  <2> QED BY <2>2
<1>2. CASE q > u
  <2>1. q - u >= 1 /\ q - u \in Int
    BY <1>2
  <2>2. n * (q - u) >= n
    BY <2>1
  <2> QED BY <2>2
<1>3. CASE q = u
  BY <1>3
<1> QED
  BY <1>1, <1>2, <1>3

(* Multiples leave no remainder.                                           *)
LEMMA Multiples ==
    ASSUME NEW n \in Nat, n > 0, NEW c \in Int
    PROVE  (n * c) % n = 0 /\ (n * c) \div n = c
<1> DEFINE x == n * c
           q == x \div n
           r == x % n
<1>1. x \in Int
  OBVIOUS
<1>2. q \in Int /\ r \in 0 .. n - 1 /\ x = n * q + r
  <2> HIDE DEF x
  <2> QED BY <1>1, Quotient
<1>3. n * q + r = n * c + 0 /\ 0 \in 0 .. n - 1
  BY <1>2
<1> HIDE DEF q, r
<1>4. q = c /\ r = 0
  BY <1>2, <1>3, OnlyQuotient
<1> QED
  BY <1>4 DEF q, r

(* Quotients grow with what is divided.                                    *)
LEMMA QuotientsGrow ==
    ASSUME NEW n \in Nat, n > 0, NEW x \in Int, NEW y \in Int, x <= y
    PROVE  x \div n <= y \div n
<1> DEFINE q == x \div n
           u == y \div n
           r == x % n
           s == y % n
<1>1. /\ q \in Int /\ u \in Int /\ r \in 0 .. n - 1 /\ s \in 0 .. n - 1
      /\ x = n * q + r /\ y = n * u + s
  BY Quotient
<1> HIDE DEF q, u, r, s
<1>2. CASE q > u
  <2>1. q - u >= 1 /\ q - u \in Int
    BY <1>1, <1>2
  <2>2. n * (q - u) >= n
    BY <2>1
  <2> QED BY <1>1, <2>2
<1>3. q <= u
  BY <1>1, <1>2
<1> QED
  BY <1>3 DEF q, u

(* Lengths have lengths as quotients.                                      *)
LEMMA QuotientIsLength ==
    ASSUME NEW n \in Nat, n > 0, NEW x \in Nat
    PROVE  x \div n \in Nat /\ x % n \in Nat
<1>1. 0 \div n = 0
  <2>1. (n * 0) \div n = 0
    BY Multiples
  <2> QED BY <2>1
<1>2. 0 \div n <= x \div n
  BY QuotientsGrow
<1> QED
  BY <1>1, <1>2, Quotient

(* Sums of multiples are multiples.                                        *)
LEMMA SumOfMultiples ==
    ASSUME NEW n \in Nat, n > 0, NEW x \in Int, NEW y \in Int, x % n = 0, y % n = 0
    PROVE  (x + y) % n = 0
<1> DEFINE q == x \div n
           u == y \div n
<1>1. q \in Int /\ u \in Int /\ x = n * q /\ y = n * u
  BY Quotient
<1> HIDE DEF q, u
<1>2. x + y = n * (q + u) /\ q + u \in Int
  BY <1>1
<1>3. (n * (q + u)) % n = 0
  BY <1>2, Multiples
<1> QED
  BY <1>2, <1>3

(* So are products.                                                       *)
LEMMA ProductOfMultiple ==
    ASSUME NEW n \in Nat, n > 0, NEW x \in Int, x % n = 0, NEW k \in Int
    PROVE  (k * x) % n = 0
<1> DEFINE q == x \div n
           c == k * q
<1>1. q \in Int /\ x = n * q
  BY Quotient
<1> HIDE DEF q
<1>2. k * x = n * c /\ c \in Int
  BY <1>1
<1> HIDE DEF c
<1>3. (n * c) % n = 0
  BY <1>2, Multiples
<1> QED
  BY <1>2, <1>3

-----------------------------------------------------------------------------
(* The ranges of the workers.                                              *)

(* The first worker starts at the beginning, each one starts where the     *)
(* one before ends, and the last one ends with the last whole batch.       *)
LEMMA Starts ==
    ASSUME NEW total \in Nat, NEW batch \in Nat, batch > 0
    PROVE  /\ \A t \in Nat : ThreadStart(total, batch, t) \in Nat
           /\ \A t, u \in Nat : t <= u => ThreadStart(total, batch, t) <= ThreadStart(total, batch, u)
           /\ ThreadStart(total, batch, 0) = 0
           /\ ThreadStart(total, batch, NumThreads) = (total \div batch) * batch
<1> DEFINE whole == total \div batch
           k == whole \div NumThreads
           r == whole % NumThreads
           f(t) == t * k + Smaller(t, r)
<1>1. NumThreads \in Nat /\ NumThreads > 0
  BY NumThreadsAssumption
<1>2. whole \in Nat
  BY QuotientIsLength
<1>3. k \in Nat /\ r \in 0 .. NumThreads - 1 /\ whole = NumThreads * k + r
  <2> HIDE DEF whole
  <2> QED BY <1>1, <1>2, QuotientIsLength, Quotient
<1>4. \A t : ThreadStart(total, batch, t) = f(t) * batch
  BY DEF ThreadStart
<1> HIDE DEF whole, k, r
<1>5. \A t \in Nat : f(t) \in Nat
  BY <1>3 DEF Smaller
<1>6. ASSUME NEW t \in Nat, NEW u \in Nat, t <= u
      PROVE  f(t) <= f(u)
  <2>1. t * k <= u * k
    <3>1. u - t \in Nat /\ (u - t) * k \in Nat
      BY <1>3, <1>6
    <3>2. u * k = t * k + (u - t) * k
      BY <1>3
    <3> QED BY <1>3, <3>1, <3>2
  <2>2. Smaller(t, r) <= Smaller(u, r) /\ Smaller(t, r) \in Nat /\ Smaller(u, r) \in Nat
    BY <1>3, <1>6 DEF Smaller
  <2>3. t * k \in Nat /\ u * k \in Nat
    BY <1>3
  <2> QED BY <2>1, <2>2, <2>3
<1>7. f(0) = 0 /\ f(NumThreads) = whole
  BY <1>1, <1>3 DEF Smaller
<1> HIDE DEF f
<1>8. \A x, y \in Nat : x * batch \in Nat /\ (x <= y => x * batch <= y * batch)
  <2> SUFFICES ASSUME NEW x \in Nat, NEW y \in Nat
               PROVE  x * batch \in Nat /\ (x <= y => x * batch <= y * batch)
    OBVIOUS
  <2>1. x * batch \in Nat
    OBVIOUS
  <2>2. ASSUME x <= y
        PROVE  x * batch <= y * batch
    <3>1. y - x \in Nat /\ (y - x) * batch \in Nat
      BY <2>2
    <3>2. y * batch = x * batch + (y - x) * batch
      OBVIOUS
    <3> QED BY <2>1, <3>1, <3>2
  <2> QED BY <2>1, <2>2
<1>9. \A t \in Nat : ThreadStart(total, batch, t) \in Nat
  BY <1>4, <1>5, <1>8
<1>10. \A t, u \in Nat : t <= u => ThreadStart(total, batch, t) <= ThreadStart(total, batch, u)
  BY <1>4, <1>5, <1>6, <1>8
<1>11. ThreadStart(total, batch, 0) = 0 /\ ThreadStart(total, batch, NumThreads) = whole * batch
  BY <1>4, <1>7
<1> QED
  BY <1>9, <1>10, <1>11 DEF whole

(* The workers get whole batches of a size.                                *)
DealtIn(g, o, b) == \A t \in Threads :
    RangeFor(o, b, t) = [start |-> ThreadStart(o.size, g, t), end |-> ThreadEnd(o.size, g, t)]

(* Every way of dividing an operation deals out whole batches of some size.*)
LEMMA Divisions ==
    ASSUME NEW o \in Ops, NEW b \in Int, b # 0
    PROVE  \E g \in Nat : /\ g > 0 /\ DealtIn(g, o, b)
                          /\ o.kind \in {"batched", "aggregate"} /\ b > 0 => g = b
<1>1. o.size \in Nat /\ o.kind \in {"batched", "aggregate", "single", "triples", "oprf", "permutations"}
  BY KindsAssumption
<1>2. \A x \in Int : x # 0 => GrainOf(x) \in Nat /\ GrainOf(x) > 0 /\ (x > 0 => GrainOf(x) = x)
  BY MinChunkAssumption DEF GrainOf
<1>3. CASE o.kind \in {"batched", "aggregate"}
  <2>1. \A t \in Threads : RangeFor(o, b, t) = Boundaries(o.size, b)[t]
    BY <1>3 DEF RangeFor
  <2>2. DealtIn(GrainOf(b), o, b)
    BY <2>1 DEF DealtIn, Boundaries
  <2> QED BY <1>2, <2>2
<1>4. CASE o.kind = "single"
  <2>1. \A t \in Threads : RangeFor(o, b, t) = Boundaries(o.size, 1)[t]
    BY <1>4 DEF RangeFor
  <2>2. DealtIn(GrainOf(1), o, b)
    BY <2>1 DEF DealtIn, Boundaries
  <2> QED BY <1>2, <1>4, <2>2
<1>5. CASE o.kind = "triples"
  <2>1. \A t \in Threads : RangeFor(o, b, t) = Boundaries(o.size, -1)[t]
    BY <1>5 DEF RangeFor
  <2>2. -1 \in Int /\ -1 # 0
    OBVIOUS
  <2>3. DealtIn(GrainOf(-1), o, b)
    BY <2>1 DEF DealtIn, Boundaries
  <2> QED BY <1>2, <1>5, <2>2, <2>3
<1>6. CASE o.kind = "oprf"
  <2> DEFINE chunk == OprfChunk(o.size)
  <2>1. \A t \in Threads : RangeFor(o, b, t) = Boundaries(o.size, chunk)[t]
    BY <1>6 DEF RangeFor
  <2>2. chunk \in Nat /\ chunk > 0
    <3>1. CASE o.size = 0
      BY <3>1 DEF OprfChunk
    <3>2. CASE o.size # 0
      <4> DEFINE n == NumThreads
                 x == o.size + n - 1
      <4>1. n \in Nat /\ n > 0 /\ x \in Nat /\ n <= x
        BY <1>1, <3>2, NumThreadsAssumption
      <4>2. chunk = x \div n
        BY <3>2 DEF OprfChunk, CeilDiv
      <4> HIDE DEF n, x, chunk
      <4>3. (n * 1) \div n = 1
        BY <4>1, Multiples
      <4>4. n \div n <= x \div n /\ n * 1 = n
        BY <4>1, QuotientsGrow
      <4>5. x \div n \in Nat
        BY <4>1, QuotientIsLength
      <4> QED BY <4>2, <4>3, <4>4, <4>5
    <3> QED BY <3>1, <3>2
  <2> HIDE DEF chunk
  <2>3. DealtIn(GrainOf(chunk), o, b)
    BY <2>1 DEF DealtIn, Boundaries
  <2> QED BY <1>2, <1>6, <2>2, <2>3
<1>7. CASE o.kind = "permutations"
  <2> DEFINE n == o.size
  <2>1. \A t \in Threads : RangeFor(o, b, t) = PermutationRange(n, t)
    BY <1>7 DEF RangeFor
  <2>2. n \div 1 = n /\ n % 1 = 0
    <3> HIDE DEF n
    <3>1. n \in Nat
      BY <1>1 DEF n
    <3>2. (1 * n) \div 1 = n /\ (1 * n) % 1 = 0
      BY <3>1, Multiples
    <3> QED BY <3>1, <3>2
  <2>3. \A t \in Nat : LET f == t * (n \div NumThreads) + Smaller(t, n % NumThreads)
                       IN  f \in Int /\ ThreadStart(n, 1, t) = f
    <3>1. n \div NumThreads \in Int /\ n % NumThreads \in Int
      <4> HIDE DEF n
      <4> QED BY <1>1, Quotient, NumThreadsAssumption DEF n
    <3>2. \A t \in Nat : t * (n \div NumThreads) + Smaller(t, n % NumThreads) \in Int
      BY <3>1 DEF Smaller
    <3> QED BY <2>2, <3>2 DEF ThreadStart
  <2>4. \A t \in Threads : t \in Nat /\ t + 1 \in Nat
    BY NumThreadsAssumption DEF Threads
  <2> HIDE DEF n
  <2>5. \A t \in Threads :
            PermutationRange(n, t) = [start |-> ThreadStart(n, 1, t), end |-> ThreadEnd(n, 1, t)]
    <3> SUFFICES ASSUME NEW t \in Threads
                 PROVE  PermutationRange(n, t)
                        = [start |-> ThreadStart(n, 1, t), end |-> ThreadEnd(n, 1, t)]
      OBVIOUS
    <3>1. PermutationRange(n, t) =
              [start |-> ThreadStart(n, 1, t), end |-> ThreadStart(n, 1, t + 1)]
      BY <2>3, <2>4 DEF PermutationRange
    <3>2. ThreadStart(n, 1, t + 1) \in Int
      BY <2>3, <2>4
    <3>3. ThreadEnd(n, 1, t) = ThreadStart(n, 1, t + 1)
      BY <2>2, <3>2 DEF ThreadEnd
    <3> QED BY <3>1, <3>3
  <2>6. DealtIn(1, o, b)
    BY <2>1, <2>5 DEF DealtIn, n
  <2> QED
    BY <1>7, <2>6
<1> QED
  BY <1>1, <1>3, <1>4, <1>5, <1>6, <1>7

(* Where the range of a worker starts and ends.                            *)
RangeStart(o, b, t) == RangeFor(o, b, t).start
RangeEnd(o, b, t) == RangeFor(o, b, t).end

(* The ranges follow each other, from the first element to the last.       *)
LEMMA Ranges ==
    ASSUME NEW o \in Ops, NEW b \in Int, b # 0
    PROVE  /\ \A t \in Threads : /\ RangeStart(o, b, t) \in Nat /\ RangeEnd(o, b, t) \in Nat
                                 /\ RangeStart(o, b, t) <= RangeEnd(o, b, t)
           /\ \A t, u \in Threads : t < u => RangeEnd(o, b, t) <= RangeStart(o, b, u)
           /\ RangeStart(o, b, 0) = 0
           /\ RangeEnd(o, b, NumThreads - 1) = o.size
           /\ \A t \in Threads : t # 0 => RangeStart(o, b, t) = RangeEnd(o, b, t - 1)
<1>1. PICK g \in Nat : g > 0 /\ DealtIn(g, o, b)
  BY Divisions
<1> DEFINE n == o.size
           s(t) == ThreadStart(n, g, t)
           last == NumThreads - 1
           rest == n % g
           whole == (n \div g) * g
<1>2. n \in Nat
  BY KindsAssumption
<1>3. rest \in Nat /\ n = whole + rest
  <2> HIDE DEF n
  <2>1. n = g * (n \div g) + (n % g) /\ n \div g \in Int /\ n % g \in Nat
    BY <1>1, <1>2, Quotient, QuotientIsLength
  <2> QED BY <2>1
<1>4. /\ \A t \in Nat : s(t) \in Nat
      /\ \A t, u \in Nat : t <= u => s(t) <= s(u)
      /\ s(0) = 0 /\ s(NumThreads) = whole
  <2> HIDE DEF n
  <2> QED BY <1>1, <1>2, Starts
<1>5. \A t \in Threads : /\ RangeStart(o, b, t) = s(t)
                         /\ RangeEnd(o, b, t) = s(t + 1) + (IF t = last THEN rest ELSE 0)
  BY <1>1 DEF DealtIn, RangeStart, RangeEnd, ThreadEnd
<1>6. /\ NumThreads \in Nat /\ last \in Threads /\ last + 1 = NumThreads /\ 0 \in Threads
      /\ \A t \in Threads : t \in Nat /\ t + 1 \in Nat /\ t <= last
      /\ \A t \in Threads : t # 0 => t - 1 \in Threads /\ t - 1 # last
  BY NumThreadsAssumption DEF Threads
<1> HIDE DEF n, s, rest, whole
<1>7. \A t \in Threads : t # last => RangeEnd(o, b, t) = s(t + 1)
  BY <1>4, <1>5, <1>6
<1>8. \A t \in Threads : /\ RangeStart(o, b, t) \in Nat /\ RangeEnd(o, b, t) \in Nat
                         /\ RangeStart(o, b, t) <= RangeEnd(o, b, t)
  <2> SUFFICES ASSUME NEW t \in Threads
               PROVE  /\ RangeStart(o, b, t) \in Nat /\ RangeEnd(o, b, t) \in Nat
                      /\ RangeStart(o, b, t) <= RangeEnd(o, b, t)
    OBVIOUS
  <2>1. s(t) \in Nat /\ s(t + 1) \in Nat /\ s(t) <= s(t + 1)
    BY <1>4, <1>6
  <2> QED BY <1>3, <1>5, <2>1
<1>9. \A t, u \in Threads : t < u => RangeEnd(o, b, t) <= RangeStart(o, b, u)
  <2> SUFFICES ASSUME NEW t \in Threads, NEW u \in Threads, t < u
               PROVE  RangeEnd(o, b, t) <= RangeStart(o, b, u)
    OBVIOUS
  <2>1. t # last /\ t + 1 <= u
    BY <1>6
  <2> QED BY <1>4, <1>5, <1>6, <1>7, <2>1
<1>10. RangeStart(o, b, 0) = 0
  BY <1>4, <1>5, <1>6
<1>11. RangeEnd(o, b, last) = n
  <2>1. \A t \in Threads : t = last => RangeEnd(o, b, t) = s(t + 1) + rest
    BY <1>5
  <2>2. s(last + 1) = s(NumThreads)
    BY <1>6
  <2>3. RangeEnd(o, b, last) = s(last + 1) + rest
    BY <1>6, <2>1
  <2> QED BY <1>3, <1>4, <2>2, <2>3
<1>12. \A t \in Threads : t # 0 => RangeStart(o, b, t) = RangeEnd(o, b, t - 1)
  BY <1>5, <1>6, <1>7
<1> QED
  BY <1>8, <1>9, <1>10, <1>11, <1>12 DEF n

-----------------------------------------------------------------------------
(* The batch sizes.                                                        *)

(* The batch size an operation is dealt out with.                          *)
DealtFor(o, b) == IF o.kind = "aggregate" THEN DivisibleBatch(b, o.size, o.agg) ELSE b

(* makeBatchSizeDivisibleBy computes size - 1, rounded up to a chunk, in   *)
(* unsigned numbers: an aggregation of one element, or of nearly 2^64,     *)
(* leaves it no chunk.                                                     *)
Usable == \A o \in Ops : o.kind = "aggregate" => 1 < o.size /\ o.size + MinChunk <= Word

(* Rounding up gives lengths.                                              *)
LEMMA RoundsUp ==
    ASSUME NEW a \in Nat, NEW b \in Nat, b > 0
    PROVE  CeilDiv(a, b) \in Nat /\ (a > 0 => CeilDiv(a, b) > 0)
<1> DEFINE x == a + b - 1
<1>1. x \in Nat /\ (a > 0 => b <= x)
  OBVIOUS
<1>2. CeilDiv(a, b) = x \div b
  BY DEF CeilDiv
<1> HIDE DEF x
<1>3. x \div b \in Nat
  BY <1>1, QuotientIsLength
<1>4. ASSUME a > 0 PROVE x \div b > 0
  <2>1. (b * 1) \div b = 1 /\ b * 1 = b
    BY Multiples
  <2>2. b \div b <= x \div b
    BY <1>1, <1>4, QuotientsGrow
  <2> QED BY <1>3, <2>1, <2>2
<1> QED
  BY <1>2, <1>3, <1>4

(* Equal batches have a length, and one of at least a chunk when there is  *)
(* something to divide and the sum does not wrap.                          *)
LEMMA EqualLengths ==
    ASSUME NEW start \in Nat, NEW end \in Nat, start <= end, NEW n \in Int, n # 0
    PROVE  /\ EqualBatches(start, end, n) \in Nat
           /\ start < end /\ end - start + MinChunk <= Word => EqualBatches(start, end, n) > 0
<1> DEFINE y == end - start + MinChunk - 1
           x == y % Word
           chunks == x \div MinChunk
           c == CeilDiv(chunks, Magnitude(n))
<1>1. MinChunk \in Nat /\ MinChunk > 1 /\ Word \in Nat /\ Word > 0
  BY MinChunkAssumption, WordAssumption
<1>2. Magnitude(n) \in Nat /\ Magnitude(n) > 0
  BY DEF Magnitude
<1>3. y \in Nat
  BY <1>1
<1>4. EqualBatches(start, end, n) = c * MinChunk
  BY DEF EqualBatches
<1>5. start < end /\ end - start + MinChunk <= Word => y \in 0 .. Word - 1 /\ MinChunk <= y
  BY <1>1
<1> HIDE DEF y
<1>6. x \in Nat
  BY <1>1, <1>3, QuotientIsLength
<1>7. y \in 0 .. Word - 1 => x = y
  BY <1>1, <1>3 DEF x
<1> HIDE DEF x
<1>8. chunks \in Nat
  BY <1>1, <1>6, QuotientIsLength
<1>9. MinChunk <= x => chunks > 0
  <2>1. (MinChunk * 1) \div MinChunk = 1 /\ MinChunk * 1 = MinChunk
    BY <1>1, Multiples
  <2>2. MinChunk <= x => MinChunk \div MinChunk <= chunks
    BY <1>1, <1>6, QuotientsGrow
  <2> QED BY <1>8, <2>1, <2>2
<1> HIDE DEF chunks
<1>10. c \in Nat /\ (chunks > 0 => c > 0)
  BY <1>2, <1>8, RoundsUp
<1> HIDE DEF c
<1>11. c * MinChunk \in Nat /\ (c > 0 => c * MinChunk > 0)
  BY <1>1, <1>10
<1> QED
  BY <1>4, <1>5, <1>7, <1>9, <1>10, <1>11

(* Rounding up to a multiple of the size of the groups.                    *)
LEMMA RoundsUpTo ==
    ASSUME NEW b \in Nat, NEW d \in Nat, d > 0
    PROVE  RoundUpTo(b, d) \in Nat /\ b <= RoundUpTo(b, d) /\ RoundUpTo(b, d) % d = 0
<1> DEFINE q == b \div d
           r == b % d
<1>1. q \in Int /\ r \in 0 .. d - 1 /\ b = d * q + r
  BY Quotient
<1>2. CASE r = 0
  BY <1>2 DEF RoundUpTo
<1>3. CASE r # 0
  <2>1. RoundUpTo(b, d) = b + d - r
    BY <1>3 DEF RoundUpTo
  <2> HIDE DEF q, r
  <2>2. b + d - r = d * (q + 1) /\ q + 1 \in Int /\ b + d - r \in Nat /\ b <= b + d - r
    BY <1>1
  <2>3. (d * (q + 1)) % d = 0
    <3> DEFINE c == q + 1
    <3>1. c \in Int
      BY <2>2
    <3> HIDE DEF c
    <3>2. (d * c) % d = 0
      BY <3>1, Multiples
    <3> QED BY <3>2 DEF c
  <2> QED BY <2>1, <2>2, <2>3
<1> QED
  BY <1>2, <1>3

(* The batch size of an operation is a number that can be divided by, and  *)
(* in an aggregation one that holds whole groups.                          *)
LEMMA DealtIs ==
    ASSUME NEW o \in Ops, NEW b \in BatchSizes
    PROVE  /\ DealtFor(o, b) \in Int
           /\ Usable => DealtFor(o, b) # 0
           /\ o.kind = "aggregate" => DealtFor(o, b) \in Nat /\ DealtFor(o, b) % o.agg = 0
           /\ Usable /\ o.kind = "aggregate" => DealtFor(o, b) > 0
<1>1. b \in Int /\ b # 0
  BY BatchSizesAssumption
<1>2. o.size \in Nat /\ o.agg \in Nat /\ o.agg > 0
  BY KindsAssumption
<1>3. CASE o.kind # "aggregate"
  BY <1>1, <1>3 DEF DealtFor
<1>4. CASE o.kind = "aggregate"
  <2> DEFINE last == (o.size - 1) % Word
             e == EqualBatches(0, last, Magnitude(b) * NumThreads)
             x == IF b < 0 THEN e ELSE b
  <2>1. DealtFor(o, b) = RoundUpTo(x, o.agg)
    BY <1>4 DEF DealtFor, DivisibleBatch
  <2>2. Word \in Nat /\ Word > 0 /\ MinChunk \in Nat /\ MinChunk > 1
    BY MinChunkAssumption, WordAssumption
  <2>3. last \in Nat
    <3>1. o.size - 1 \in Int
      BY <1>2
    <3> QED BY <2>2, <3>1, Quotient
  <2>4. Usable => 0 < last /\ last - 0 + MinChunk <= Word
    <3> SUFFICES ASSUME Usable PROVE 0 < last /\ last - 0 + MinChunk <= Word
      OBVIOUS
    <3>1. 1 < o.size /\ o.size + MinChunk <= Word
      BY <1>4 DEF Usable
    <3>2. o.size - 1 \in 0 .. Word - 1
      BY <1>2, <2>2, <3>1
    <3>3. last = o.size - 1
      BY <2>2, <3>2
    <3> QED BY <1>2, <2>2, <3>1, <3>3
  <2>5. Magnitude(b) * NumThreads \in Int /\ Magnitude(b) * NumThreads # 0
    <3>1. Magnitude(b) \in Nat /\ Magnitude(b) > 0 /\ NumThreads \in Nat /\ NumThreads > 0
      BY <1>1, NumThreadsAssumption DEF Magnitude
    <3> DEFINE mag == Magnitude(b)
    <3> HIDE DEF mag
    <3>2. mag * NumThreads \in Nat /\ mag * NumThreads > 0
      BY <3>1 DEF mag
    <3> QED BY <3>2 DEF mag
  <2> HIDE DEF last
  <2>6. e \in Nat /\ (Usable => e > 0)
    <3> DEFINE n == Magnitude(b) * NumThreads
    <3>1. n \in Int /\ n # 0
      BY <2>5
    <3> HIDE DEF n
    <3>2. EqualBatches(0, last, n) \in Nat
          /\ (0 < last /\ last - 0 + MinChunk <= Word => EqualBatches(0, last, n) > 0)
      BY <2>3, <3>1, EqualLengths
    <3> QED BY <2>4, <3>2 DEF n
  <2> HIDE DEF e
  <2>7. x \in Nat /\ (Usable => x > 0)
    BY <1>1, <2>6
  <2> HIDE DEF x
  <2>8. RoundUpTo(x, o.agg) \in Nat /\ x <= RoundUpTo(x, o.agg) /\ RoundUpTo(x, o.agg) % o.agg = 0
    BY <1>2, <2>7, RoundsUpTo
  <2> QED BY <1>4, <2>1, <2>7, <2>8
<1> QED
  BY <1>3, <1>4

-----------------------------------------------------------------------------
(* What the ranges and the steps of a division have to be for its tasks to *)
(* compute the result: ranges that follow each other, steps that do not go *)
(* back, and both of whole groups in an aggregation.                       *)
InOrder(o, b) ==
    /\ \A t \in Threads : /\ RangeStart(o, b, t) \in Nat /\ RangeEnd(o, b, t) \in Nat
                          /\ RangeStart(o, b, t) <= RangeEnd(o, b, t)
    /\ \A t, u \in Threads : t < u => RangeEnd(o, b, t) <= RangeStart(o, b, u)
    /\ RangeStart(o, b, 0) = 0
    /\ RangeEnd(o, b, NumThreads - 1) = o.size
    /\ \A t \in Threads : t # 0 => RangeStart(o, b, t) = RangeEnd(o, b, t - 1)
IsTask(k, o, b, t) ==
    /\ k.start = RangeStart(o, b, t) /\ k.end = RangeEnd(o, b, t) /\ k.step \in Nat
    /\ o.kind = "aggregate" => k.step % o.agg = 0
WholeGroups(o, b) == o.kind = "aggregate" => \A t \in Threads :
    RangeStart(o, b, t) % o.agg = 0 /\ RangeEnd(o, b, t) % o.agg = 0
WellDivided(o, b) ==
    /\ InOrder(o, b) /\ WholeGroups(o, b)
    /\ \A t \in Threads : IsTask(TaskFor(o, b, t), o, b, t)

(* The ranges of an aggregation hold whole groups.                         *)
LEMMA RangesOfGroups ==
    ASSUME NEW o \in Ops, NEW b \in Nat, b > 0, b % o.agg = 0
    PROVE  WholeGroups(o, b)
<1> SUFFICES ASSUME o.kind = "aggregate"
             PROVE  \A t \in Threads :
                        RangeStart(o, b, t) % o.agg = 0 /\ RangeEnd(o, b, t) % o.agg = 0
  BY DEF WholeGroups
<1>1. o.size \in Nat /\ o.agg \in Nat /\ o.agg > 0 /\ o.size % o.agg = 0
  BY KindsAssumption
<1>2. b \in Int /\ b # 0
  OBVIOUS
<1>3. DealtIn(b, o, b)
  BY <1>2, Divisions
<1>4. ASSUME NEW t \in Threads PROVE RangeStart(o, b, t) % o.agg = 0
  <2> DEFINE whole == o.size \div b
             k == t * (whole \div NumThreads) + Smaller(t, whole % NumThreads)
  <2>1. RangeStart(o, b, t) = k * b
    BY <1>3 DEF DealtIn, RangeStart, ThreadStart
  <2>2. whole \in Int
    BY <1>1, Quotient
  <2> HIDE DEF whole
  <2>3. whole \div NumThreads \in Int /\ whole % NumThreads \in Int /\ t \in Int
    BY <2>2, Quotient, NumThreadsAssumption DEF Threads
  <2>4. k \in Int
    BY <2>3 DEF Smaller
  <2> HIDE DEF k
  <2> QED BY <1>1, <1>2, <2>1, <2>4, ProductOfMultiple
<1>5. ASSUME NEW t \in Threads PROVE RangeEnd(o, b, t) % o.agg = 0
  <2>1. CASE t = NumThreads - 1
    <3>1. RangeEnd(o, b, NumThreads - 1) = o.size
      BY <1>2, Ranges
    <3> QED BY <1>1, <2>1, <3>1
  <2>2. CASE t # NumThreads - 1
    <3> DEFINE u == t + 1
    <3>1. u \in Threads /\ u # 0 /\ u - 1 = t
      BY <2>2, NumThreadsAssumption DEF Threads
    <3> HIDE DEF u
    <3>2. RangeStart(o, b, u) = RangeEnd(o, b, u - 1)
      BY <1>2, <3>1, Ranges
    <3> QED BY <1>4, <3>1, <3>2
  <2> QED BY <2>1, <2>2
<1> QED
  BY <1>4, <1>5

(* The division of an operation is a good one.                             *)
LEMMA DividesWell ==
    ASSUME Usable, NEW o \in Ops, NEW c \in BatchSizes
    PROVE  WellDivided(o, DealtFor(o, c))
<1> DEFINE b == DealtFor(o, c)
<1>1. /\ b \in Int /\ b # 0
      /\ o.kind = "aggregate" => b \in Nat /\ b > 0 /\ b % o.agg = 0
  BY DealtIs
<1> HIDE DEF b
<1>2. InOrder(o, b)
  BY <1>1, Ranges DEF InOrder
<1>3. WholeGroups(o, b)
  <2>1. CASE o.kind = "aggregate"
    BY <1>1, <2>1, RangesOfGroups
  <2>2. CASE o.kind # "aggregate"
    BY <2>2 DEF WholeGroups
  <2> QED BY <2>1, <2>2
<1>4. ASSUME NEW t \in Threads PROVE IsTask(TaskFor(o, b, t), o, b, t)
  <2> DEFINE r == RangeFor(o, b, t)
             k == TaskFor(o, b, t)
  <2>1. r.start \in Nat /\ r.end \in Nat /\ r.start <= r.end
    BY <1>2 DEF InOrder, RangeStart, RangeEnd
  <2>2. CASE o.kind \in {"batched", "aggregate"} /\ b > 0
    <3>1. k.start = r.start /\ k.end = r.end /\ k.step = b
      BY <1>1, <2>2 DEF TaskFor, MakeTask
    <3> QED BY <1>1, <2>2, <3>1 DEF IsTask, RangeStart, RangeEnd
  <2>3. CASE o.kind \in {"batched", "aggregate"} /\ b < 0
    <3>1. k.start = r.start /\ k.end = r.end /\ k.step = EqualBatches(r.start, r.end, b)
      BY <1>1, <2>3 DEF TaskFor, MakeTask
    <3>2. EqualBatches(r.start, r.end, b) \in Nat
      BY <1>1, <2>1, EqualLengths
    <3>3. o.kind # "aggregate"
      BY <1>1, <2>3
    <3> QED BY <3>1, <3>2, <3>3 DEF IsTask, RangeStart, RangeEnd
  <2>4. CASE o.kind \notin {"batched", "aggregate"}
    <3>1. ~(r.end - r.start < 0) /\ r.end - r.start \in Nat
      BY <2>1
    <3>2. k.start = r.start /\ k.end = r.end /\ k.step = r.end - r.start
      BY <2>4, <3>1 DEF TaskFor, MakeTask
    <3> QED BY <2>4, <3>1, <3>2 DEF IsTask, RangeStart, RangeEnd
  <2> QED BY <1>1, <2>2, <2>3, <2>4
<1>5. WellDivided(o, b)
  BY <1>2, <1>3, <1>4 DEF WellDivided
<1> QED
  BY <1>5 DEF b

-----------------------------------------------------------------------------
(* How far an operation has come.                                          *)
Dealt == DealtFor(op, old_batch_size)
From(t) == RangeStart(op, Dealt, t)
To(t) == RangeEnd(op, Dealt, t)

(* Each worker has computed the elements of its range up to some place.    *)
Reached(t) ==
    IF wpc[t] = "exec" THEN Smaller(task[t].at, task[t].end)
    ELSE IF PastBarrier(t) THEN From(t) ELSE To(t)
Covered(t, i) == i \in From(t) \div op.agg + 1 .. Reached(t) \div op.agg

(* From the start of an operation to the opening of the barrier.           *)
InOperation ==
    op # NoOp /\ (mpc \in Assigning \cup {"arrive"} \/ (mpc = "wait" /\ ticket[Main] = phase))

Restored ==
    /\ old_batch_size \in BatchSizes
    /\ batch_size = IF mpc \in Assigning THEN Dealt ELSE old_batch_size
    /\ op \in Ops \cup {NoOp} /\ DOMAIN task = Threads

(* Each queue holds the task dealt to its worker, and each worker executes *)
(* its own, from the start of its range on.                                *)
RunsItsTask(t) ==
    /\ IsTask(task[t], op, Dealt, t)
    /\ task[t].at \in Nat /\ From(t) <= task[t].at
    /\ op.kind = "aggregate" => task[t].at % op.agg = 0
TasksDealt == InOperation => \A t \in Threads :
    /\ q_[t] # << >> => q_[t] = <<TaskFor(op, Dealt, t)>>
    /\ wpc[t] = "exec" => RunsItsTask(t)

(* What has been computed is what the workers have come past.              *)
Computed == InOperation =>
    written = [i \in 1 .. ResultSize(op) |-> IF \E t \in Threads : Covered(t, i) THEN 1 ELSE 0]
AllOnce == \A i \in DOMAIN written : written[i] = 1
Complete == mpc = "wait" /\ ticket[Main] # phase => AllOnce
NothingYet == op = NoOp /\ mpc \in {"setup", "arrive", "wait"} => written = << >>

Results == TasksDealt /\ Computed /\ Complete /\ NothingYet

-----------------------------------------------------------------------------

(* Some member of a set of numbers is the smallest.                        *)
LEMMA SmallestOf ==
    ASSUME NEW S \in SUBSET Nat, NEW n \in S
    PROVE  \E x \in S : \A u \in Nat : u < x => u \notin S
<1> DEFINE R == {p \in Nat \X Nat : p[1] < p[2]}
<1>1. IsWellFoundedOn(R, Nat)
  <2>1. R = OpToRel(<, Nat)
    BY DEF OpToRel
  <2> QED BY <2>1, NatLessThanWellFounded
<1>2. PICK x \in S : \A u \in S : ~(<<u, x>> \in R)
  <2>1. S \subseteq Nat /\ S # {}
    OBVIOUS
  <2> HIDE DEF R
  <2> QED BY <2>1, <1>1, WFMin
<1>3. ASSUME NEW u \in Nat, u < x PROVE u \notin S
  <2>1. <<u, x>>[1] = u /\ <<u, x>>[2] = x /\ <<u, x>> \in Nat \X Nat
    OBVIOUS
  <2>2. <<u, x>> \in R
    BY <2>1, <1>3
  <2> QED BY <1>2, <2>2
<1> QED
  BY <1>3

(* Every element of the result is in some worker's range.                  *)
LEMMA SomeoneHas ==
    ASSUME NEW o \in Ops, NEW b, InOrder(o, b), NEW i \in 1 .. ResultSize(o)
    PROVE  \E t \in Threads : i \in RangeStart(o, b, t) \div o.agg + 1 .. RangeEnd(o, b, t) \div o.agg
<1> DEFINE lo(t) == RangeStart(o, b, t) \div o.agg
           hi(t) == RangeEnd(o, b, t) \div o.agg
           last == NumThreads - 1
           S == {t \in Threads : i <= hi(t)}
<1>1. o.agg \in Nat /\ o.agg > 0 /\ o.size \in Nat
  BY KindsAssumption
<1>2. \A t \in Threads : lo(t) \in Int /\ hi(t) \in Int
  <2> SUFFICES ASSUME NEW t \in Threads PROVE lo(t) \in Int /\ hi(t) \in Int
    OBVIOUS
  <2>1. RangeStart(o, b, t) \in Nat /\ RangeEnd(o, b, t) \in Nat
    BY DEF InOrder
  <2> QED BY <1>1, <2>1, QuotientIsLength
<1>3. lo(0) = 0
  <2>1. RangeStart(o, b, 0) = 0
    BY DEF InOrder
  <2>2. (o.agg * 0) \div o.agg = 0 /\ o.agg * 0 = 0
    BY <1>1, Multiples
  <2> QED BY <2>1, <2>2
<1>4. hi(last) = ResultSize(o) /\ last \in Threads /\ ResultSize(o) \in Nat
  <2>1. o.size \div o.agg \in Nat
    BY <1>1, QuotientIsLength
  <2> QED BY <2>1, NumThreadsAssumption DEF InOrder, ResultSize, Threads
<1>5. \A t \in Threads : t # 0 => t - 1 \in Threads /\ lo(t) = hi(t - 1)
  BY NumThreadsAssumption DEF InOrder, Threads
<1> HIDE DEF lo, hi, last
<1>6. last \in S
  BY <1>4
<1>7. PICK t \in S : \A u \in Nat : u < t => u \notin S
  <2>1. S \in SUBSET Nat
    BY NumThreadsAssumption DEF Threads
  <2> HIDE DEF S
  <2> QED BY <1>6, <2>1, SmallestOf
<1>8. t \in Threads /\ i <= hi(t) /\ t \in Nat
  BY <1>7 DEF Threads
<1>9. lo(t) < i
  <2>1. CASE t = 0
    BY <1>3, <1>4, <2>1
  <2>2. CASE t # 0
    <3>1. t - 1 \in Threads /\ t - 1 \in Nat /\ t - 1 < t /\ lo(t) = hi(t - 1)
      BY <1>5, <1>8, <2>2
    <3>2. ~(i <= hi(t - 1))
      BY <1>7, <3>1
    <3> QED BY <1>2, <1>4, <3>1, <3>2
  <2> QED BY <2>1, <2>2
<1>10. i \in lo(t) + 1 .. hi(t)
  BY <1>2, <1>4, <1>8, <1>9
<1> QED
  BY <1>8, <1>10 DEF lo, hi

(* The division of the running operation is a good one.                    *)
LEMMA DealtWell ==
    ASSUME Usable, Restored, InOperation
    PROVE  op \in Ops /\ WellDivided(op, Dealt)
BY DividesWell DEF Restored, InOperation, Dealt

(* A worker is somewhere in its range.                                     *)
LEMMA ReachedIs ==
    ASSUME WellDivided(op, Dealt), NEW t \in Threads, wpc[t] = "exec" => RunsItsTask(t)
    PROVE  /\ From(t) \in Nat /\ Reached(t) \in Nat /\ To(t) \in Nat
           /\ From(t) <= Reached(t) /\ Reached(t) <= To(t)
<1>1. From(t) \in Nat /\ To(t) \in Nat /\ From(t) <= To(t)
  BY DEF WellDivided, InOrder, From, To
<1>2. CASE wpc[t] = "exec"
  <2>1. task[t].end = To(t) /\ task[t].at \in Nat /\ From(t) <= task[t].at
    BY <1>2 DEF RunsItsTask, IsTask, To
  <2>2. Reached(t) = Smaller(task[t].at, To(t))
    BY <1>2, <2>1 DEF Reached
  <2> QED BY <1>1, <2>1, <2>2 DEF Smaller
<1>3. CASE wpc[t] # "exec"
  <2>1. Reached(t) \in {From(t), To(t)}
    BY <1>3 DEF Reached
  <2> QED BY <1>1, <2>1
<1> QED
  BY <1>2, <1>3

(* A task is executed only during an operation.                            *)
LEMMA ExecutesInOperation ==
    ASSUME IInv, NEW t \in Threads, wpc[t] = "exec"
    PROVE  InOperation
BY WorkersAre
   DEF IInv, Types, Stages, Starting, Dealing, Awaiting, Returning, Stopping, Fresh, Through,
       NotStarted, Leaving, PastBarrier, Ending, InOperation

(* Nothing is computed in a step that moves no worker along its range.     *)
LEMMA ComputesNothing ==
    ASSUME Computed,
           InOperation' => /\ InOperation /\ UNCHANGED <<op, old_batch_size, written>>
                           /\ \A t \in Threads : Reached(t)' = Reached(t)
    PROVE  Computed'
<1> SUFFICES ASSUME InOperation'
             PROVE  written' = [i \in 1 .. ResultSize(op') |->
                                   IF \E t \in Threads : Covered(t, i)' THEN 1 ELSE 0]
  BY DEF Computed
<1>1. InOperation /\ op' = op /\ old_batch_size' = old_batch_size /\ written' = written
  OBVIOUS
<1>2. \A t \in Threads : \A i : Covered(t, i)' <=> Covered(t, i)
  BY <1>1 DEF Covered, From, Dealt
<1> DEFINE Now(i) == IF \E t \in Threads : Covered(t, i) THEN 1 ELSE 0
           Then(i) == IF \E t \in Threads : Covered(t, i)' THEN 1 ELSE 0
<1>3. written = [i \in 1 .. ResultSize(op) |-> Now(i)]
  BY <1>1 DEF Computed
<1>4. \A i : Now(i) = Then(i)
  BY <1>2
<1> HIDE DEF Now, Then
<1>5. written' = [i \in 1 .. ResultSize(op') |-> Then(i)]
  BY <1>1, <1>3, <1>4
<1> QED
  BY <1>5 DEF Then

(* A step in which the program goes on and no worker computes.             *)
LEMMA GoesOn ==
    ASSUME Results, UNCHANGED <<op, old_batch_size, task, written>>,
           InOperation' => /\ InOperation
                           /\ \A t \in Threads : /\ q_'[t] = q_[t]
                                                 /\ wpc'[t] = "exec" <=> wpc[t] = "exec"
                                                 /\ PastBarrier(t)' <=> PastBarrier(t),
           mpc' = "wait" /\ ticket'[Main] # phase' => mpc = "wait" /\ ticket[Main] # phase,
           op = NoOp /\ mpc' \in {"setup", "arrive", "wait"} => mpc \in {"setup", "arrive", "wait"}
    PROVE  Results'
<1>1. Dealt' = Dealt /\ \A t : From(t)' = From(t) /\ To(t)' = To(t)
  BY DEF Dealt, From, To
<1>2. TasksDealt'
  <2>1. \A t \in Threads : InOperation' /\ wpc'[t] = "exec" => RunsItsTask(t)'
    BY <1>1 DEF Results, TasksDealt, RunsItsTask
  <2> QED BY <1>1, <2>1 DEF Results, TasksDealt
<1>3. Computed'
  <2>1. InOperation' => \A t \in Threads : Reached(t)' = Reached(t)
    BY <1>1 DEF Reached
  <2> QED BY <2>1, ComputesNothing DEF Results
<1>4. Complete' /\ NothingYet'
  BY DEF Results, Complete, AllOnce, NothingYet
<1> QED
  BY <1>2, <1>3, <1>4 DEF Results

(* The steps of the main thread other than its arrival.                    *)
LEMMA MainKeepsResults ==
    ASSUME Usable, IInv, Restored, Restored', Results, MainStep, ~MainArrive
    PROVE  Results'
<1>1. Types /\ Stages
  BY DEF IInv
<1>2. CASE StartWorker \/ WorkersStarted
  <2>1. op = NoOp /\ mpc = "setup"
    BY <1>1, <1>2 DEF StartWorker, WorkersStarted, Stages, Starting
  <2>2. UNCHANGED <<op, old_batch_size, task, written>> /\ mpc' \in {"setup", "arrive"}
    BY <1>2 DEF StartWorker, WorkersStarted, resultVars
  <2>3. ~InOperation'
    BY <2>1, <2>2 DEF InOperation
  <2> QED BY <2>1, <2>2, <2>3, GoesOn
<1>3. CASE AddLock \/ AddNotify \/ SkipWorker
  <2>1. mpc \in Assigning /\ mpc' \in Assigning
    BY <1>3 DEF AddLock, AddNotify, SkipWorker, Assigning
  <2>2. UNCHANGED <<op, old_batch_size, batch_size, task, written, q_, ticket, phase>>
    BY <1>3 DEF AddLock, AddNotify, SkipWorker, resultVars, barrierVars
  <2>3. InOperation' => InOperation
    BY <2>1, <2>2 DEF InOperation
  <2>4. \A t \in Threads : wpc'[t] = wpc[t] \/ (wpc[t] = "asleep" /\ wpc'[t] = "lock")
    BY <1>3 DEF AddLock, AddNotify, SkipWorker, Sleepers
  <2>5. \A t \in Threads : (wpc'[t] = "exec" <=> wpc[t] = "exec") /\ (PastBarrier(t)' <=> PastBarrier(t))
    BY <2>2, <2>4 DEF PastBarrier
  <2> QED BY <2>1, <2>2, <2>3, <2>5, GoesOn DEF Assigning
<1>4. CASE Assigned
  <2>1. mpc \in Assigning /\ mpc' = "arrive" /\ op # NoOp
    BY <1>1, <1>4 DEF Assigned, Assigning, Stages, Dealing
  <2>2. UNCHANGED <<op, old_batch_size, task, written, q_, wpc, ticket, phase>>
    BY <1>4 DEF Assigned, resultVars, barrierVars
  <2>3. InOperation
    BY <2>1 DEF InOperation
  <2>4. \A t \in Threads : PastBarrier(t)' <=> PastBarrier(t)
    BY <2>2 DEF PastBarrier
  <2> QED BY <2>1, <2>2, <2>3, <2>4, GoesOn
<1>5. CASE Destroy \/ StopLock \/ StopFlag \/ StopNotify \/ Join
  <2>1. mpc \notin Assigning /\ mpc' \in Ending
    BY <1>5 DEF Destroy, StopLock, StopFlag, StopNotify, Join, Assigning, Ending
  <2>2. UNCHANGED <<op, old_batch_size, batch_size, task, written>>
    BY <1>5 DEF Destroy, StopLock, StopFlag, StopNotify, Join, resultVars
  <2>3. ~InOperation'
    BY <2>1 DEF InOperation, Assigning, Ending
  <2> QED BY <2>1, <2>2, <2>3, GoesOn DEF Ending
<1>6. CASE MainReturn
  <2>1. mpc' = "idle" /\ op' = NoOp
    BY <1>6 DEF MainReturn
  <2> QED BY <2>1 DEF Results, TasksDealt, Computed, Complete, NothingYet, InOperation
<1>7. CASE AddPush
  <2>1. mpc = "push" /\ mpc' = "notify" /\ op # NoOp /\ next \in Threads /\ q_[next] = << >>
    BY <1>1, <1>7, WorkersAre
       DEF AddPush, Types, Stages, Dealing, Assigning, Fresh, Threads
  <2>2. UNCHANGED <<op, old_batch_size, batch_size, task, written, wpc, ticket, phase>>
    BY <1>7 DEF AddPush, resultVars, barrierVars
  <2>3. InOperation /\ batch_size = Dealt
    BY <2>1, <2>2 DEF Restored, Dealt, InOperation, Assigning
  <2>4. \A k : Append(<< >>, k) = <<k>>
    OBVIOUS
  <2>5. \A t \in Threads : q_'[t] = IF t = next THEN <<TaskFor(op, Dealt, t)>> ELSE q_[t]
    <3>1. q_' = [q_ EXCEPT ![next] = Append(q_[next], TaskFor(op, batch_size, next))]
      BY <1>7 DEF AddPush
    <3>2. DOMAIN q_ = Threads
      BY <1>1 DEF Types
    <3> QED BY <2>1, <2>3, <2>4, <3>1, <3>2
  <2>6. Dealt' = Dealt /\ \A t : From(t)' = From(t) /\ To(t)' = To(t)
    BY <2>2 DEF Dealt, From, To
  <2>7. TasksDealt'
    <3>1. \A t \in Threads : RunsItsTask(t)' <=> RunsItsTask(t)
      BY <2>2, <2>6 DEF RunsItsTask
    <3>2. \A t \in Threads : /\ q_[t] # << >> => q_[t] = <<TaskFor(op, Dealt, t)>>
                             /\ wpc[t] = "exec" => RunsItsTask(t)
      BY <2>3 DEF Results, TasksDealt
    <3>3. \A t \in Threads : q_'[t] # << >> => q_'[t] = <<TaskFor(op', Dealt', t)>>
      BY <2>2, <2>5, <2>6, <3>2
    <3>4. \A t \in Threads : wpc'[t] = "exec" => RunsItsTask(t)'
      BY <2>2, <3>1, <3>2
    <3> QED BY <3>3, <3>4 DEF TasksDealt
  <2>8. Computed'
    <3>1. \A t \in Threads : Reached(t)' = Reached(t)
      BY <2>2, <2>6 DEF Reached, PastBarrier
    <3> QED BY <2>2, <2>3, <3>1, ComputesNothing DEF Results
  <2> QED BY <2>1, <2>2, <2>3, <2>7, <2>8 DEF Results, Complete, NothingYet
<1>8. ASSUME NEW o \in Ops, Begin(o) PROVE Results'
  <2>1. mpc = "idle" /\ mpc' = "assign" /\ op' = o /\ o # NoOp
        /\ UNCHANGED <<wpc, q_, task, ticket, phase>> /\ old_batch_size' = batch_size
    BY <1>8, OpsAssumption DEF Begin, barrierVars
  <2>2. batch_size \in BatchSizes
    BY <2>1 DEF Restored, Assigning
  <2>3. \A t \in Threads : q_'[t] = << >> /\ wpc'[t] # "exec" /\ PastBarrier(t)'
    BY <1>1, <2>1 DEF Stages, Returning, Fresh, PastBarrier
  <2>4. TasksDealt'
    BY <2>3 DEF TasksDealt
  <2>5. \A t \in Threads : \A i : ~Covered(t, i)'
    <3> SUFFICES ASSUME NEW t \in Threads, NEW i PROVE ~Covered(t, i)'
      OBVIOUS
    <3> DEFINE x == From(t)' \div o.agg
    <3>1. From(t)' \in Nat
      <4>1. WellDivided(o, DealtFor(o, batch_size))
        BY <2>2, DividesWell
      <4> QED BY <2>1, <4>1 DEF WellDivided, InOrder, From, Dealt
    <3>2. x \in Int
      <4>1. o.agg \in Nat /\ o.agg > 0
        BY KindsAssumption
      <4> QED BY <3>1, <4>1, QuotientIsLength
    <3>3. Reached(t)' = From(t)'
      BY <2>3 DEF Reached
    <3>4. Covered(t, i)' <=> i \in x + 1 .. x
      BY <2>1, <3>3 DEF Covered
    <3> HIDE DEF x
    <3> QED BY <3>2, <3>4
  <2>6. Computed'
    <3>1. written' = [i \in 1 .. ResultSize(o) |-> 0]
      BY <1>8 DEF Begin
    <3>2. \A i : (IF \E t \in Threads : Covered(t, i)' THEN 1 ELSE 0) = 0
      BY <2>5
    <3>3. written' = [i \in 1 .. ResultSize(op') |->
                          IF \E t \in Threads : Covered(t, i)' THEN 1 ELSE 0]
      BY <2>1, <3>1, <3>2
    <3> QED BY <3>3 DEF Computed
  <2> QED BY <2>1, <2>4, <2>6 DEF Results, Complete, NothingYet
<1> QED
  BY <1>2, <1>3, <1>4, <1>5, <1>6, <1>7, <1>8 DEF MainStep

(* A batch is computed by the worker it was dealt to and by no other.      *)
LEMMA ComputesItsOwn ==
    ASSUME WellDivided(op, Dealt), op \in Ops, NEW t \in Threads, NEW a \in Nat, NEW e \in Nat,
           From(t) <= a, a <= e, e <= To(t), NEW i \in a \div op.agg + 1 .. e \div op.agg,
           NEW u \in Threads \ {t}, wpc[u] = "exec" => RunsItsTask(u)
    PROVE  ~Covered(u, i)
<1>1. op.agg \in Nat /\ op.agg > 0
  BY KindsAssumption
<1>2. /\ From(u) \in Nat /\ Reached(u) \in Nat /\ To(u) \in Nat
      /\ From(u) <= Reached(u) /\ Reached(u) <= To(u)
  BY ReachedIs
<1>3. To(u) <= From(t) \/ To(t) <= From(u)
  BY NumThreadsAssumption DEF WellDivided, InOrder, From, To, Threads
<1>4. From(t) \in Nat /\ To(t) \in Nat
  BY DEF WellDivided, InOrder, From, To
<1>5. Reached(u) <= a \/ e <= From(u)
  BY <1>2, <1>3, <1>4
<1>6. /\ a \div op.agg \in Nat /\ e \div op.agg \in Nat
      /\ From(u) \div op.agg \in Nat /\ Reached(u) \div op.agg \in Nat
  BY <1>1, <1>2, QuotientIsLength
<1>7. Reached(u) \div op.agg <= a \div op.agg \/ e \div op.agg <= From(u) \div op.agg
  BY <1>1, <1>2, <1>5, QuotientsGrow
<1> QED
  BY <1>6, <1>7 DEF Covered

(* The batches.                                                            *)
LEMMA ExecBatchKeepsResults ==
    ASSUME Usable, IInv, Restored, Results, NEW t \in Threads, ExecBatch(t)
    PROVE  Results'
<1> DEFINE a == task[t].at
           e == BatchEnd(task[t], a)
<1>1. Types /\ Stages /\ wpc[t] = "exec" /\ a < task[t].end
  BY DEF IInv, ExecBatch
<1>2. /\ UNCHANGED <<mainVars, wpc, q_, barrierVars>>
      /\ task' = [task EXCEPT ![t].at = a + task[t].step]
      /\ written' = [i \in DOMAIN written |->
                         IF i \in a \div op.agg + 1 .. e \div op.agg THEN written[i] + 1
                         ELSE written[i]]
  BY DEF ExecBatch
<1>3. InOperation
  BY <1>1, ExecutesInOperation
<1>4. op \in Ops /\ WellDivided(op, Dealt)
  BY <1>1, <1>3, DealtWell
<1>5. \A u \in Threads : wpc[u] = "exec" => RunsItsTask(u)
  BY <1>3 DEF Results, TasksDealt
<1>6. /\ task[t].end = To(t) /\ task[t].step \in Nat /\ a \in Nat /\ From(t) <= a
      /\ op.kind = "aggregate" => task[t].step % op.agg = 0 /\ a % op.agg = 0
      /\ task[t].start = From(t)
  BY <1>1, <1>5 DEF RunsItsTask, IsTask, From, To
<1>7. /\ UNCHANGED <<op, old_batch_size, batch_size, mpc, ticket, phase>>
      /\ Dealt' = Dealt /\ \A u : From(u)' = From(u) /\ To(u)' = To(u)
  BY <1>2 DEF mainVars, barrierVars, Dealt, From, To
<1>8. op.agg \in Nat /\ op.agg > 0 /\ To(t) \in Nat
  BY <1>4, KindsAssumption DEF WellDivided, InOrder, To
<1>9. e \in Nat /\ a <= e /\ e <= To(t) /\ e = Smaller(a + task[t].step, task[t].end)
  BY <1>1, <1>6, <1>8 DEF BatchEnd, Smaller
<1>10. /\ task'[t].start = task[t].start /\ task'[t].end = task[t].end
       /\ task'[t].step = task[t].step /\ task'[t].at = a + task[t].step
       /\ \A u \in Threads \ {t} : task'[u] = task[u]
  BY <1>2 DEF Restored
<1> HIDE DEF a, e
<1>11. TasksDealt'
  <2>1. RunsItsTask(t)'
    <3>1. IsTask(task'[t], op, Dealt, t)
      BY <1>1, <1>5, <1>10 DEF RunsItsTask, IsTask
    <3>2. a + task[t].step \in Nat /\ From(t) <= a + task[t].step
      BY <1>6, <1>4 DEF WellDivided, InOrder, From
    <3>3. op.kind = "aggregate" => (a + task[t].step) % op.agg = 0
      BY <1>6, <1>8, SumOfMultiples
    <3> QED BY <1>7, <1>10, <3>1, <3>2, <3>3 DEF RunsItsTask
  <2>2. ASSUME NEW u \in Threads \ {t}, wpc[u] = "exec" PROVE RunsItsTask(u)'
    BY <1>5, <1>7, <1>10, <2>2 DEF RunsItsTask
  <2> QED BY <1>2, <1>3, <1>7, <2>1, <2>2 DEF Results, TasksDealt
<1>12. \A u \in Threads \ {t} : Reached(u)' = Reached(u)
  BY <1>2, <1>7, <1>10 DEF Reached, PastBarrier
<1>13. Reached(t) = a /\ Reached(t)' = e
  <2>1. Reached(t) = a
    BY <1>1, <1>6, <1>8 DEF Reached, Smaller, a
  <2>2. Reached(t)' = e
    BY <1>1, <1>2, <1>9, <1>10 DEF Reached
  <2> QED BY <2>1, <2>2
<1> DEFINE Batch == a \div op.agg + 1 .. e \div op.agg
           Now(i) == IF \E u \in Threads : Covered(u, i) THEN 1 ELSE 0
           Then(i) == IF \E u \in Threads : Covered(u, i)' THEN 1 ELSE 0
<1>14. /\ \A i \in Batch : Now(i) = 0 /\ Then(i) = 1
       /\ \A i : i \notin Batch => Now(i) = Then(i)
  <2>1. \A u \in Threads \ {t} : \A i : Covered(u, i)' <=> Covered(u, i)
    BY <1>7, <1>12 DEF Covered
  <2> DEFINE l == From(t) \div op.agg
             m == a \div op.agg
             n == e \div op.agg
  <2>2. l \in Nat /\ m \in Nat /\ n \in Nat /\ l <= m /\ m <= n
    BY <1>4, <1>6, <1>8, <1>9, QuotientIsLength, QuotientsGrow DEF WellDivided, InOrder, From
  <2>3. \A i : (Covered(t, i) <=> i \in l + 1 .. m) /\ (Covered(t, i)' <=> i \in l + 1 .. n)
    BY <1>7, <1>13 DEF Covered
  <2>4. Batch = m + 1 .. n
    OBVIOUS
  <2> HIDE DEF l, m, n
  <2>5. \A u \in Threads \ {t} : \A i \in Batch : ~Covered(u, i)
    BY <1>4, <1>5, <1>6, <1>9, ComputesItsOwn
  <2> HIDE DEF Batch
  <2>6. \A i \in Batch : ~Covered(t, i) /\ Covered(t, i)'
    BY <2>2, <2>3, <2>4
  <2>7. \A i : i \notin Batch => (Covered(t, i)' <=> Covered(t, i))
    BY <2>2, <2>3, <2>4
  <2>8. \A i \in Batch : Now(i) = 0 /\ Then(i) = 1
    BY <2>5, <2>6
  <2>9. \A i : i \notin Batch => Now(i) = Then(i)
    BY <2>1, <2>7
  <2> QED BY <2>8, <2>9
<1>15. Computed'
  <2>1. written = [i \in 1 .. ResultSize(op) |-> Now(i)]
    BY <1>3 DEF Results, Computed
  <2>2. written' = [i \in DOMAIN written |-> IF i \in Batch THEN written[i] + 1 ELSE written[i]]
    BY <1>2
  <2> HIDE DEF Batch, Now, Then
  <2>3. written' = [i \in 1 .. ResultSize(op) |-> Then(i)]
    <3>1. \A i \in 1 .. ResultSize(op) :
              (IF i \in Batch THEN written[i] + 1 ELSE written[i]) = Then(i)
      <4> SUFFICES ASSUME NEW i \in 1 .. ResultSize(op)
                   PROVE  (IF i \in Batch THEN written[i] + 1 ELSE written[i]) = Then(i)
        OBVIOUS
      <4>1. written[i] = Now(i)
        BY <2>1
      <4>2. CASE i \in Batch
        BY <1>14, <4>1, <4>2
      <4>3. CASE i \notin Batch
        BY <1>14, <4>1, <4>3
      <4> QED BY <4>2, <4>3
    <3>2. DOMAIN written = 1 .. ResultSize(op)
      BY <2>1
    <3> QED BY <2>2, <3>1, <3>2
  <2> QED BY <1>7, <2>3 DEF Computed, Then
<1>16. Complete' /\ NothingYet'
  BY <1>3, <1>7 DEF InOperation, Complete, NothingYet, Assigning
<1> QED
  BY <1>11, <1>15, <1>16 DEF Results

(* The other steps of a worker away from the barrier.                      *)
LEMMA WorkerKeepsResults ==
    ASSUME Usable, IInv, Restored, Results, NEW t \in Threads,
           \/ Top(t) \/ WorkerLeave(t) \/ Lock(t) \/ Sleep(t) \/ Take(t) \/ Exit(t)
           \/ ExecBatch(t) \/ ExecDone(t) \/ SpuriousWake(t)
    PROVE  Results'
<1> USE DEF Moves
<1>1. Types /\ Stages
  BY DEF IInv
<1>2. CASE ExecBatch(t)
  BY <1>2, ExecBatchKeepsResults
<1>3. CASE ~ExecBatch(t)
  <2>1. /\ UNCHANGED <<op, old_batch_size, batch_size, mpc, ticket, phase, written>>
        /\ \A u \in Threads \ {t} : wpc'[u] = wpc[u] /\ q_'[u] = q_[u] /\ task'[u] = task[u]
    BY <1>1, <1>3
       DEF Types, Restored, mainVars, barrierVars, resultVars, Top, WorkerLeave, Lock, Sleep, Take,
           Exit, ExecDone, SpuriousWake
  <2>2. /\ Dealt' = Dealt /\ \A u : From(u)' = From(u) /\ To(u)' = To(u)
        /\ InOperation' <=> InOperation
    BY <2>1 DEF Dealt, From, To, InOperation
  <2>3. Complete' /\ NothingYet'
    BY <2>1, <2>2 DEF Results, Complete, AllOnce, NothingYet
  <2>4. CASE Top(t) \/ WorkerLeave(t) \/ Lock(t) \/ Sleep(t) \/ Exit(t) \/ SpuriousWake(t)
    <3>1. task' = task /\ q_' = q_ /\ wpc[t] # "exec" /\ wpc'[t] # "exec"
      BY <1>1, <2>4 DEF Types, Top, WorkerLeave, Lock, Sleep, Exit, SpuriousWake
    <3>2. InOperation => ~terminate_[t]
      BY <1>1 DEF Stages, Stopping, InOperation, Assigning, Ending
    <3>3. InOperation => (PastBarrier(t)' <=> PastBarrier(t))
      BY <1>1, <2>1, <2>4, <3>2
         DEF Types, Top, WorkerLeave, Released, Lock, Sleep, Exit, SpuriousWake, PastBarrier
    <3>4. InOperation' => \A u \in Threads : /\ q_'[u] = q_[u]
                                             /\ wpc'[u] = "exec" <=> wpc[u] = "exec"
                                             /\ PastBarrier(u)' <=> PastBarrier(u)
      BY <2>1, <2>2, <3>1, <3>3 DEF PastBarrier
    <3> QED BY <2>1, <2>2, <2>3, <3>1, <3>4, GoesOn
  <2>5. CASE Take(t)
    <3>1. /\ wpc[t] = "check" /\ wpc'[t] = "exec" /\ q_[t] # << >>
          /\ q_'[t] = Tail(q_[t]) /\ task'[t] = Head(q_[t])
      BY <1>1, <2>5 DEF Take, Types, Restored
    <3>2. ASSUME InOperation
          PROVE  /\ q_'[t] = << >> /\ RunsItsTask(t)'
                 /\ \A u \in Threads : Reached(u)' = Reached(u)
      <4>1. op \in Ops /\ WellDivided(op, Dealt)
        BY <1>1, <3>2, DealtWell
      <4> DEFINE k == TaskFor(op, Dealt, t)
      <4>2. q_[t] = <<k>>
        BY <3>1, <3>2 DEF Results, TasksDealt
      <4>3. k.at = k.start
        BY DEF TaskFor
      <4>4. IsTask(k, op, Dealt, t)
        BY <4>1 DEF WellDivided
      <4> HIDE DEF k
      <4>5. q_'[t] = << >> /\ task'[t] = k
        BY <3>1, <4>2
      <4>6. From(t) \in Nat /\ To(t) \in Nat /\ From(t) <= To(t)
            /\ (op.kind = "aggregate" => From(t) % op.agg = 0)
        BY <4>1 DEF WellDivided, InOrder, WholeGroups, From, To
      <4>7. k.at = From(t) /\ k.end = To(t)
        BY <4>3, <4>4 DEF IsTask, From, To
      <4>8. RunsItsTask(t)'
        BY <2>1, <2>2, <4>4, <4>5, <4>6, <4>7 DEF RunsItsTask
      <4>9. Reached(t)' = Reached(t)
        BY <2>2, <3>1, <4>5, <4>6, <4>7 DEF Reached, PastBarrier, Smaller
      <4>10. \A u \in Threads \ {t} : Reached(u)' = Reached(u)
        BY <2>1, <2>2 DEF Reached, PastBarrier
      <4> QED BY <4>5, <4>8, <4>9, <4>10
    <3>3. TasksDealt'
      <4>1. \A u \in Threads \ {t} : RunsItsTask(u)' <=> RunsItsTask(u)
        BY <2>1, <2>2 DEF RunsItsTask
      <4> QED BY <2>1, <2>2, <3>2, <4>1 DEF Results, TasksDealt
    <3>4. Computed'
      BY <2>1, <2>2, <3>2, ComputesNothing DEF Results
    <3> QED BY <2>3, <3>3, <3>4 DEF Results
  <2>6. CASE ExecDone(t)
    <3>1. /\ wpc[t] = "exec" /\ wpc'[t] = "top" /\ q_' = q_ /\ task[t].at >= task[t].end
      BY <1>1, <2>6 DEF ExecDone, Types, Restored
    <3>2. ASSUME InOperation
          PROVE  \A u \in Threads : Reached(u)' = Reached(u)
      <4>1. op \in Ops /\ WellDivided(op, Dealt)
        BY <1>1, <3>2, DealtWell
      <4>2. task[t].at \in Nat /\ task[t].end = To(t) /\ To(t) \in Nat
        BY <3>1, <3>2, <4>1
           DEF Results, TasksDealt, RunsItsTask, IsTask, WellDivided, InOrder, To
      <4>3. Reached(t) = To(t)
        BY <3>1, <4>2 DEF Reached, Smaller
      <4>4. Reached(t)' = To(t)
        BY <2>2, <3>1 DEF Reached, PastBarrier
      <4>5. \A u \in Threads \ {t} : Reached(u)' = Reached(u)
        BY <2>1, <2>2 DEF Reached, PastBarrier
      <4> QED BY <4>3, <4>4, <4>5
    <3>3. TasksDealt'
      <4>1. \A u \in Threads \ {t} : RunsItsTask(u)' <=> RunsItsTask(u)
        BY <2>1, <2>2 DEF RunsItsTask
      <4> QED BY <2>1, <2>2, <3>1, <4>1 DEF Results, TasksDealt
    <3>4. Computed'
      BY <2>1, <2>2, <3>2, ComputesNothing DEF Results
    <3> QED BY <2>3, <3>3, <3>4 DEF Results
  <2> QED BY <1>3, <2>4, <2>5, <2>6
<1> QED
  BY <1>2, <1>3

(* When the last one arrives, the result is complete.                      *)
LEMMA ArrivalKeepsResults ==
    ASSUME Usable, IInv, Restored, Results, MainArrive \/ \E t \in Threads : WorkerArrive(t)
    PROVE  Results'
<1>1. PICK p \in Participants : ComesIn(p)
  BY SomeoneComesIn
<1>2. /\ ticket' = [ticket EXCEPT ![p] = phase]
      /\ UNCHANGED <<op, old_batch_size, task, q_, written>>
  BY <1>1 DEF ComesIn, Arrive, resultVars
<1>3. CASE arrived + 1 # BarrierSize
  <2>1. phase' = phase
    BY <1>1, <1>3 DEF ComesIn, Arrive
  <2>2. ticket'[Main] = IF p = Main THEN phase ELSE ticket[Main]
    BY <1>2, WorkersAre DEF IInv, Types
  <2>3. \A t \in Threads : (wpc'[t] = "exec" <=> wpc[t] = "exec") /\ (PastBarrier(t)' <=> PastBarrier(t))
    BY <1>1, <1>2, <2>1, WorkersAre DEF ComesIn, IInv, Types, PastBarrier
  <2>4. InOperation' => InOperation
    BY <1>1, <1>2, <2>1, <2>2 DEF ComesIn, InOperation, Assigning
  <2>5. mpc' = "wait" /\ ticket'[Main] # phase' => mpc = "wait" /\ ticket[Main] # phase
    BY <1>1, <2>1, <2>2 DEF ComesIn
  <2>6. mpc' \in {"setup", "arrive", "wait"} => mpc \in {"setup", "arrive", "wait"}
    BY <1>1 DEF ComesIn
  <2> QED BY <1>2, <2>3, <2>4, <2>5, <2>6, GoesOn
<1>4. CASE arrived + 1 = BarrierSize
  <2>1. /\ phase' = phase + 1 /\ mpc' = "wait" /\ ticket'[Main] # phase'
        /\ mpc = "arrive" \/ (mpc = "wait" /\ ticket[Main] = phase)
        /\ \A t \in Threads : IF t = p THEN wpc[t] = "arrive"
                              ELSE wpc[t] = "barrier" /\ ticket[t] = phase
    BY <1>1, <1>4, LastComesIn
  <2>2. ~InOperation'
    BY <2>1 DEF InOperation, Assigning
  <2>3. CASE op = NoOp
    <3>1. written' = << >>
      BY <1>2, <2>1, <2>3 DEF Results, NothingYet
    <3>2. DOMAIN written' = {}
      BY <3>1
    <3> QED BY <2>2, <3>1, <3>2 DEF Results, TasksDealt, Computed, Complete, AllOnce, NothingYet
  <2>4. CASE op # NoOp
    <3>1. InOperation
      BY <2>1, <2>4 DEF InOperation
    <3>2. op \in Ops /\ WellDivided(op, Dealt)
      BY <3>1, DealtWell
    <3>3. \A t \in Threads : Reached(t) = To(t)
      BY <2>1 DEF Reached, PastBarrier
    <3>4. \A i \in 1 .. ResultSize(op) : \E t \in Threads : Covered(t, i)
      BY <3>2, <3>3, SomeoneHas DEF WellDivided, Covered, From, To
    <3>5. written = [i \in 1 .. ResultSize(op) |->
                         IF \E t \in Threads : Covered(t, i) THEN 1 ELSE 0]
      BY <3>1 DEF Results, Computed
    <3>6. \A i \in DOMAIN written : written[i] = 1
      BY <3>4, <3>5
    <3> QED BY <1>2, <2>2, <2>4, <3>6 DEF Results, TasksDealt, Computed, Complete, AllOnce, NothingYet
  <2> QED BY <2>3, <2>4
<1> QED
  BY <1>3, <1>4

-----------------------------------------------------------------------------
(* Where everything is, by name.                                           *)
Values ==
    /\ Restored
    /\ opsDone \in Nat /\ opsDone <= MaxOps /\ (op # NoOp => opsDone < MaxOps)
    /\ wpc \in [Threads -> {"new", "top", "arrive", "barrier", "lock", "check", "asleep",
                            "exec", "exited"}]
    /\ terminate_ \in [Threads -> BOOLEAN]
    /\ m_ \in [Threads -> {Free, "main", "worker"}]
    /\ ticket \in [Participants -> Nat] /\ calls \in [Threads -> Nat]

(* The runtime starts with them.                                           *)
LEMMA BeginsWithValues == Init => Values
BY MaxOpsAssumption DEF Init, Values, Restored, Assigning

(* Every step keeps them, and restores the batch size of an aggregation.   *)
LEMMA ValuesKept ==
    ASSUME IInv, Values, [Next]_vars
    PROVE  Values'
<1> USE DEF Values
<1>0. Types /\ Stages
  BY DEF IInv
<1>1. CASE MainStep /\ ~MainArrive
  <2>1. CASE StartWorker \/ WorkersStarted
    BY <1>0, <2>1 DEF StartWorker, WorkersStarted, Restored, Assigning, Dealt, barrierVars, resultVars
  <2>2. CASE AddLock \/ AddPush \/ SkipWorker
    <3>1. next \in Threads
      BY <1>0, <2>2, WorkersAre DEF AddLock, AddPush, SkipWorker, Types, Stages, Dealing, Assigning, Threads
    <3> QED BY <2>2, <3>1 DEF AddLock, AddPush, SkipWorker, Restored, Assigning, Dealt, barrierVars, resultVars
  <2>3. CASE AddNotify \/ StopNotify
    BY <2>3 DEF AddNotify, StopNotify, Sleepers, Restored, Assigning, Dealt, barrierVars, resultVars
  <2>4. CASE Assigned
    BY <2>4 DEF Assigned, Restored, Assigning, Dealt, DealtFor, barrierVars, resultVars
  <2>5. CASE Destroy \/ StopLock \/ StopFlag \/ Join
    BY <2>5 DEF Destroy, StopLock, StopFlag, Join, Restored, Assigning, Dealt, barrierVars, resultVars
  <2>6. CASE MainReturn
    BY <2>6, MaxOpsAssumption DEF MainReturn, Restored, Assigning, barrierVars, resultVars
  <2>7. ASSUME NEW o \in Ops, Begin(o) PROVE Values'
    <3>1. batch_size \in BatchSizes
      BY <2>7 DEF Begin, Restored, Assigning
    <3>2. Restored'
      <4>1. batch_size' = Dealt' /\ mpc' \in Assigning
        BY <2>7 DEF Begin, Assigning, Dealt, DealtFor
      <4> QED BY <2>7, <3>1, <4>1 DEF Begin, Restored
    <3> QED BY <2>7, <3>2 DEF Begin, barrierVars
  <2> QED BY <1>1, <2>1, <2>2, <2>3, <2>4, <2>5, <2>6, <2>7 DEF MainStep
<1>2. ASSUME NEW p \in Participants, ComesIn(p) PROVE Values'
  <2>1. Restored'
    BY <1>2 DEF ComesIn, Restored, Assigning, Dealt
  <2>2. ticket' \in [Participants -> Nat]
    BY <1>0, <1>2 DEF ComesIn, Arrive, Types
  <2> QED BY <1>2, <2>1, <2>2, WorkersAre DEF ComesIn, resultVars
<1>3. ASSUME NEW t \in Threads,
             \/ Top(t) \/ WorkerLeave(t) \/ Lock(t) \/ Sleep(t) \/ Take(t) \/ Exit(t)
             \/ ExecBatch(t) \/ ExecDone(t) \/ SpuriousWake(t)
      PROVE  Values'
  <2>1. Restored' /\ UNCHANGED <<mainVars, terminate_, ticket>>
    BY <1>3 DEF Top, WorkerLeave, Lock, Sleep, Take, Exit, ExecBatch, ExecDone, SpuriousWake,
                mainVars, barrierVars, Restored, Dealt
  <2>2. m_' \in [Threads -> {Free, "main", "worker"}]
    BY <1>3 DEF Top, WorkerLeave, Lock, Sleep, Take, Exit, ExecBatch, ExecDone, SpuriousWake
  <2>3. wpc' \in [Threads -> {"new", "top", "arrive", "barrier", "lock", "check", "asleep",
                              "exec", "exited"}]
    BY <1>3 DEF Top, WorkerLeave, Lock, Sleep, Take, Exit, ExecBatch, ExecDone, SpuriousWake, Moves
  <2>4. calls' \in [Threads -> Nat]
    <3>1. CASE ExecBatch(t)
      BY <3>1 DEF ExecBatch
    <3>2. CASE ~ExecBatch(t)
      BY <1>3, <3>2 DEF Top, WorkerLeave, Lock, Sleep, Take, Exit, ExecDone, SpuriousWake, resultVars
    <3> QED BY <3>1, <3>2
  <2> QED BY <2>1, <2>2, <2>3, <2>4 DEF mainVars
<1>4. CASE UNCHANGED vars
  BY <1>4 DEF vars, mainVars, barrierVars, resultVars, Restored, Dealt
<1> QED
  BY <1>1, <1>2, <1>3, <1>4, SomeoneComesIn DEF Next, WorkerStep, MainStep

(* The state keeps its types; for any batch size and any operations.       *)
THEOREM TypeCorrect == Spec => []TypeOK
<1>1. IInv /\ Values /\ [Next]_vars => Values'
  BY ValuesKept
<1>2. IInv /\ Values => TypeOK
  <2> SUFFICES ASSUME IInv, Values PROVE TypeOK
    OBVIOUS
  <2>1. old_batch_size \in Int /\ batch_size \in Int
    <3>1. old_batch_size \in Int
      BY BatchSizesAssumption DEF Values, Restored
    <3>2. CASE mpc \in Assigning
      <4>1. op \in Ops
        BY <3>2 DEF IInv, Stages, Dealing, Values, Restored
      <4>2. Dealt \in Int
        BY <4>1, DealtIs DEF Values, Restored, Dealt
      <4> QED BY <3>1, <3>2, <4>2 DEF Values, Restored
    <3>3. CASE mpc \notin Assigning
      BY <3>1, <3>3 DEF Values, Restored
    <3> QED BY <3>1, <3>2, <3>3
  <2>2. \A t \in Threads : Len(q_[t]) <= 1
    <3>1. Len(<< >>) = 0 /\ \A k : Len(<<k>>) = 1
      OBVIOUS
    <3>2. \A t \in Threads : q_[t] = << >> \/ Queued(t)
      BY WorkersAre
         DEF IInv, Types, Stages, Starting, Dealing, Awaiting, Returning, Stopping, Somewhere,
             Fresh, Executing, Through, NotStarted, Leaving
    <3>3. ASSUME NEW t \in Threads, Queued(t) PROVE Len(q_[t]) <= 1
      BY <3>1, <3>3 DEF Queued
    <3> QED BY <3>1, <3>2, <3>3
  <2>3. arrived \in 0 .. NumThreads
    <3>1. arrived \in Nat
      BY WorkersAre, FS_Subset, FS_CardinalityType DEF IInv, Counted, Waiting
    <3> QED BY <3>1, WorkersAre DEF IInv, Counted
  <2>4. opsDone \in 0 .. MaxOps /\ next \in 0 .. NumThreads
    BY MaxOpsAssumption, WorkersAre DEF Values, IInv, Types
  <2> QED BY <2>1, <2>2, <2>3, <2>4 DEF TypeOK, Values, Restored, IInv, Types, Assigning, Ending
<1> QED
  BY <1>1, <1>2, Invariant, BeginsWithValues, PTL DEF Spec

-----------------------------------------------------------------------------
(* Every step keeps what has been computed right.                          *)
LEMMA ResultsInvariant ==
    ASSUME Usable
    PROVE  Spec => [](IInv /\ Values /\ Results)
<1>1. Init => Values /\ Results
  <2>1. Init => Results
    BY DEF Init, Results, TasksDealt, Computed, Complete, NothingYet, InOperation
  <2> QED BY <2>1, BeginsWithValues
<1>2. IInv /\ IInv' /\ Values /\ Results /\ [Next]_vars => Values' /\ Results'
  <2> SUFFICES ASSUME IInv, Values, Results, [Next]_vars PROVE Values' /\ Results'
    OBVIOUS
  <2>1. Values' /\ Restored /\ Restored'
    BY ValuesKept DEF Values
  <2>2. CASE MainStep
    BY <2>1, <2>2, MainKeepsResults, ArrivalKeepsResults
  <2>3. ASSUME NEW t \in Threads, WorkerStep(t) \/ SpuriousWake(t) PROVE Results'
    BY <2>1, <2>3, WorkerKeepsResults, ArrivalKeepsResults DEF WorkerStep
  <2>4. CASE UNCHANGED vars
    <3>1. UNCHANGED <<op, old_batch_size, task, written, q_, wpc, mpc, ticket, phase>>
      BY <2>4 DEF vars, mainVars, barrierVars, resultVars
    <3>2. \A t \in Threads : PastBarrier(t)' <=> PastBarrier(t)
      BY <3>1 DEF PastBarrier
    <3>3. InOperation' => InOperation
      BY <3>1 DEF InOperation
    <3> QED BY <2>1, <3>1, <3>2, <3>3, GoesOn
  <2> QED BY <2>1, <2>2, <2>3, <2>4 DEF Next
<1> QED
  BY <1>1, <1>2, Invariant, PTL DEF Spec

(* When the barrier lets the main thread go, every element of the result   *)
(* has been computed exactly once (runtime.h, worker.h); for any number of *)
(* workers, any operations and any batch size, as long as no aggregation   *)
(* is of a single element or of nearly 2^64 of them.                       *)
THEOREM ResultsComplete == ASSUME Usable PROVE Spec => []ResultComplete
<1>1. Results => ResultComplete
  BY DEF Results, Complete, AllOnce, ResultComplete, Released
<1> QED
  BY <1>1, ResultsInvariant, PTL

(* No batch of an aggregation splits a group between two workers or two    *)
(* batches (runtime.h), under the same condition.                          *)
THEOREM GroupsStayWhole == ASSUME Usable PROVE Spec => []GroupsNotSplit
<1>1. IInv /\ Values /\ Results => GroupsNotSplit
  <2> SUFFICES ASSUME IInv, Values, Results, op.kind = "aggregate", NEW t \in Threads,
                      wpc[t] = "exec", task[t].at < task[t].end
               PROVE  task[t].at % op.agg = 0 /\ BatchEnd(task[t], task[t].at) % op.agg = 0
    BY DEF GroupsNotSplit
  <2>1. InOperation
    BY ExecutesInOperation
  <2>2. op \in Ops /\ WellDivided(op, Dealt)
    BY <2>1, DealtWell DEF Values
  <2>3. RunsItsTask(t)
    BY <2>1 DEF Results, TasksDealt
  <2> DEFINE a == task[t].at
             k == task[t].step
             e == task[t].end
             g == op.agg
  <2>4. a \in Nat /\ k \in Nat /\ a % g = 0 /\ k % g = 0 /\ e = To(t)
    BY <2>3 DEF RunsItsTask, IsTask, To
  <2>5. e % g = 0
    BY <2>2, <2>4 DEF WellDivided, WholeGroups, To
  <2>6. g \in Nat /\ g > 0
    BY <2>2, KindsAssumption
  <2>7. BatchEnd(task[t], a) \in {a + k, e}
    BY DEF BatchEnd, Smaller
  <2> HIDE DEF a, k, e, g
  <2>8. (a + k) % g = 0
    <3>1. \A n \in Nat : \A x, y \in Int :
              n > 0 /\ x % n = 0 /\ y % n = 0 => (x + y) % n = 0
      BY SumOfMultiples
    <3>2. a \in Int /\ k \in Int
      BY <2>4
    <3> QED BY <2>4, <2>6, <3>1, <3>2
  <2> QED BY <2>4, <2>5, <2>7, <2>8 DEF a, g
<1> QED
  BY <1>1, ResultsInvariant, PTL
=============================================================================
