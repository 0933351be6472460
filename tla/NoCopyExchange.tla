--------------------------- MODULE NoCopyExchange ---------------------------
(***************************************************************************)
(* The calls of the no-copy communicator between parties.  A worker that   *)
(* sends, receives or exchanges pushes a vector on the ring of each        *)
(* destination, reads the socket of each source, and waits until its       *)
(* pushes are sent.  A communication thread serves one or several workers  *)
(* of its party: it goes round their rings and, where there is an entry,   *)
(* sends it whole, blocked while the socket is full.                       *)
(*                                                                         *)
(* One step of a program is a round: an edge <<p, q>> stands for p sending *)
(* to q, and every worker of a party runs the same rounds with the same    *)
(* worker of the other parties.  A ring is what NoCopyRing shows it to be, *)
(* a queue; a socket is a bounded queue of units.                          *)
(***************************************************************************)
EXTENDS Integers, Sequences, FiniteSets

CONSTANTS
    NumParties,
    NumWorkers,       \* worker threads of a party
    NumCommThreads,   \* communication threads of a party
    RingSize,         \* NOCOPY_COMMUNICATOR_RING_SIZE
    Capacity,         \* units a socket holds
    Rounds            \* the program: a sequence of [edges, size]

Parties == 0 .. NumParties - 1
Workers == 0 .. NumWorkers - 1
CommThreads == 0 .. NumCommThreads - 1
NumRounds == Len(Rounds)

ASSUME PartiesAssumption == NumParties \in Nat \ {0}
ASSUME WorkersAssumption == NumWorkers \in Nat \ {0}
ASSUME CommThreadsAssumption == NumCommThreads \in 1 .. NumWorkers
ASSUME RingSizeAssumption == RingSize \in Nat /\ RingSize > 1
ASSUME CapacityAssumption == Capacity \in Nat \ {0}
ASSUME RoundsAssumption ==
    Rounds \in Seq([edges : SUBSET {e \in Parties \X Parties : e[1] # e[2]}, size : Nat \ {0}])

VARIABLES
    round,    \* the round each worker is in
    toPush,   \* destinations it has not pushed to yet in this round
    toRecv,   \* sources it has not received from yet
    got,      \* units of the vector it is receiving
    ring,     \* ring[p][w][q]: rounds whose vectors wait to be sent
    wire,     \* wire[p][w][q]: units in the socket
    serving,  \* the worker whose rings each communication thread looks at
    peer,     \* and the party of the ring it looks at
    mode,     \* "touring", "sending" (inside send_wrapper) or "exited"
    sent,     \* units it has sent of the entry
    running   \* RunTime::terminate_ of each party, negated

workerVars == <<round, toPush, toRecv, got>>
commVars   == <<serving, peer, mode, sent>>
vars == <<workerVars, ring, wire, commVars, running>>

Destinations(p, r) == {q \in Parties : r <= NumRounds /\ <<p, q>> \in Rounds[r].edges}
Sources(p, r)      == {q \in Parties : r <= NumRounds /\ <<q, p>> \in Rounds[r].edges}

Done(p, w) == round[p][w] = NumRounds + 1

(* setup_send_threads deals the workers to the threads in turn; a thread   *)
(* visits its workers in order and for each of them the parties in order.  *)
WorkersOf(c) == {w \in Workers : w % NumCommThreads = c}

Smallest(S) == CHOOSE s \in S : \A t \in S : s <= t

NextWorker(c, w) ==
    LET later == {v \in WorkersOf(c) : w < v}
    IN  Smallest(IF later # {} THEN later ELSE WorkersOf(c))

-----------------------------------------------------------------------------
(* Plausible slips, used to show what each property excludes.              *)

NextSourceAsListed(p, sources) ==
    CHOOSE s \in sources : \A t \in sources :
        (s - p + NumParties) % NumParties <= (t - p + NumParties) % NumParties
OneRecv(data, r) == TRUE
NotWaitedFor(p, w) == TRUE
StopAtFirst(sources, s) == {}
PastTheEnd(q) == q + 1
-----------------------------------------------------------------------------

NextPeer(q) == IF q = NumParties - 1 THEN 0 ELSE q + 1

Init ==
    /\ round  = [p \in Parties |-> [w \in Workers |-> 1]]
    /\ toPush = [p \in Parties |-> [w \in Workers |-> Destinations(p, 1)]]
    /\ toRecv = [p \in Parties |-> [w \in Workers |-> Sources(p, 1)]]
    /\ got    = [p \in Parties |-> [w \in Workers |-> << >>]]
    /\ ring   = [p \in Parties |-> [w \in Workers |-> [q \in Parties |-> << >>]]]
    /\ wire   = [p \in Parties |-> [w \in Workers |-> [q \in Parties |-> << >>]]]
    /\ serving = [p \in Parties |-> [c \in CommThreads |-> c]]
    /\ peer    = [p \in Parties |-> [c \in CommThreads |-> 0]]
    /\ mode    = [p \in Parties |-> [c \in CommThreads |-> "touring"]]
    /\ sent    = [p \in Parties |-> [c \in CommThreads |-> 0]]
    /\ running = [p \in Parties |-> TRUE]

-----------------------------------------------------------------------------
(* A worker: sendShares, receiveShares, receiveBroadcast, exchangeShares.  *)

Push(p, w, q) ==
    /\ q \in toPush[p][w]
    /\ Len(ring[p][w][q]) < RingSize - 1
    /\ ring' = [ring EXCEPT ![p][w][q] = Append(@, round[p][w])]
    /\ toPush' = [toPush EXCEPT ![p][w] = @ \ {q}]
    /\ UNCHANGED <<round, toRecv, got, wire, commVars, running>>

(* receiveBroadcast sorts its sources by absolute party.                   *)
NextSource(p, sources) == Smallest(sources)

Whole(data, r) == Len(data) = Rounds[r].size

(* One recv on the socket of the next source; at the end of its vector the *)
(* loop goes on to the remaining sources.                                  *)
Remaining(sources, s) == sources \ {s}

Receive(p, w) ==
    /\ toPush[p][w] = {} /\ toRecv[p][w] # {}
    /\ LET s == NextSource(p, toRecv[p][w])
           data == Append(got[p][w], Head(wire[s][w][p]))
           whole == Whole(data, round[p][w])
       IN  /\ wire[s][w][p] # << >>
           /\ wire' = [wire EXCEPT ![s][w][p] = Tail(@)]
           /\ got' = [got EXCEPT ![p][w] = IF whole THEN << >> ELSE data]
           /\ toRecv' = [toRecv EXCEPT ![p][w] = IF whole THEN Remaining(@, s) ELSE @]
    /\ UNCHANGED <<round, toPush, ring, commVars, running>>

(* The waits of a call all pass, and the worker goes on to its next call.  *)
AllSent(p, w) == \A q \in Destinations(p, round[p][w]) : ring[p][w][q] = << >>

Return(p, w) ==
    /\ ~Done(p, w)
    /\ toPush[p][w] = {} /\ toRecv[p][w] = {}
    /\ AllSent(p, w)
    /\ LET next == round[p][w] + 1
       IN  /\ round'  = [round EXCEPT ![p][w] = next]
           /\ toPush' = [toPush EXCEPT ![p][w] = Destinations(p, next)]
           /\ toRecv' = [toRecv EXCEPT ![p][w] = Sources(p, next)]
    /\ UNCHANGED <<got, ring, wire, commVars, running>>

WorkerStep(p, w) == (\E q \in Parties : Push(p, w, q)) \/ Receive(p, w) \/ Return(p, w)

(* ~RunTime, when the work of the party is done.                           *)
Destroy(p) ==
    /\ running[p] /\ \A w \in Workers : Done(p, w)
    /\ running' = [running EXCEPT ![p] = FALSE]
    /\ UNCHANGED <<workerVars, ring, wire, commVars>>

-----------------------------------------------------------------------------
(* A communication thread: send_communication_thread.                      *)

(* The thread looks at RunTimeRunning after each party but its own, and    *)
(* once more when it is through with a worker.                             *)
MayExit(p, q) == q # p \/ q = NumParties - 1

MoveOn(p, c) ==
    /\ serving' = [serving EXCEPT ![p][c] =
                      IF peer[p][c] = NumParties - 1 THEN NextWorker(c, @) ELSE @]
    /\ peer' = [peer EXCEPT ![p][c] = NextPeer(@)]
    /\ mode' = [mode EXCEPT ![p][c] =
                   IF ~running[p] /\ MayExit(p, peer[p][c]) THEN "exited" ELSE "touring"]

Here(p, c) == ring[p][serving[p][c]][peer[p][c]]

Pass(p, c) ==
    /\ mode[p][c] = "touring"
    /\ peer[p][c] = p \/ Here(p, c) = << >>
    /\ MoveOn(p, c)
    /\ UNCHANGED <<workerVars, ring, wire, sent, running>>

Take(p, c) ==
    /\ mode[p][c] = "touring"
    /\ peer[p][c] # p /\ Here(p, c) # << >>
    /\ mode' = [mode EXCEPT ![p][c] = "sending"]
    /\ sent' = [sent EXCEPT ![p][c] = 0]
    /\ UNCHANGED <<workerVars, ring, wire, serving, peer, running>>

SendUnit(p, c) ==
    LET w == serving[p][c]
        q == peer[p][c]
        r == Head(Here(p, c))
    IN  /\ mode[p][c] = "sending" /\ sent[p][c] < Rounds[r].size
        /\ Len(wire[p][w][q]) < Capacity
        /\ wire' = [wire EXCEPT ![p][w][q] = Append(@, <<r, sent[p][c] + 1>>)]
        /\ sent' = [sent EXCEPT ![p][c] = @ + 1]
        /\ UNCHANGED <<workerVars, ring, serving, peer, mode, running>>

Pop(p, c) ==
    /\ mode[p][c] = "sending" /\ sent[p][c] = Rounds[Head(Here(p, c))].size
    /\ ring' = [ring EXCEPT ![p][serving[p][c]][peer[p][c]] = Tail(@)]
    /\ MoveOn(p, c)
    /\ UNCHANGED <<workerVars, wire, sent, running>>

CommStep(p, c) == Pass(p, c) \/ Take(p, c) \/ SendUnit(p, c) \/ Pop(p, c)

-----------------------------------------------------------------------------

Next == \E p \in Parties :
            \/ \E w \in Workers : WorkerStep(p, w)
            \/ \E c \in CommThreads : CommStep(p, c)
            \/ Destroy(p)

Spec == Init /\ [][Next]_vars

(* Every thread is scheduled.                                              *)
Fairness == \A p \in Parties :
    /\ \A w \in Workers : WF_vars(WorkerStep(p, w))
    /\ \A c \in CommThreads : WF_vars(CommStep(p, c))
    /\ WF_vars(Destroy(p))

FairSpec == Spec /\ Fairness

-----------------------------------------------------------------------------
(* Properties.                                                             *)

(* Every variable has its type; a ring or a socket never overflows.        *)
TypeOK ==
    /\ round \in [Parties -> [Workers -> 1 .. NumRounds + 1]]
    /\ toPush \in [Parties -> [Workers -> SUBSET Parties]]
    /\ toRecv \in [Parties -> [Workers -> SUBSET Parties]]
    /\ \A p \in Parties, w \in Workers, q \in Parties :
          Len(ring[p][w][q]) < RingSize /\ Len(wire[p][w][q]) <= Capacity
    /\ \A p \in Parties, c \in CommThreads : serving[p][c] \in WorkersOf(c)
    /\ peer \in [Parties -> [CommThreads -> Parties]]
    /\ mode \in [Parties -> [CommThreads -> {"touring", "sending", "exited"}]]
    /\ sent \in [Parties -> [CommThreads -> Nat]]
    /\ running \in [Parties -> BOOLEAN]

(* What a worker has read, and what it will read next, are the units of    *)
(* the vector its source sent it in this round, in order: the byte streams *)
(* of different calls are never confused.                                  *)
ReceivedInOrder == \A p \in Parties, w \in Workers :
    toPush[p][w] = {} /\ toRecv[p][w] # {} =>
        LET s == NextSource(p, toRecv[p][w])
        IN  /\ \A k \in DOMAIN got[p][w] : got[p][w][k] = <<round[p][w], k>>
            /\ wire[s][w][p] # << >> =>
                   Head(wire[s][w][p]) = <<round[p][w], Len(got[p][w]) + 1>>

(* No call ever meets a ring with an entry on it, so that no push spins    *)
(* and the wait of a push looks for the very next read index.              *)
RingsFreeAtPush == \A p \in Parties, w \in Workers : \A q \in toPush[p][w] :
    ring[p][w][q] = << >>

(* A communication thread exits with nothing left to send, and when all    *)
(* parties are through nothing is left in a socket.                        *)
NothingLeftBehind ==
    /\ \A p \in Parties, c \in CommThreads : mode[p][c] = "exited" =>
          \A w \in WorkersOf(c), q \in Parties : ring[p][w][q] = << >>
    /\ (\A p \in Parties, w \in Workers : Done(p, w)) =>
          \A p \in Parties, w \in Workers, q \in Parties : wire[p][w][q] = << >>

(* While some worker is not through, some thread of some party can do      *)
(* more than look round: the parties never wait for one another in a ring. *)
WorkerCanMove(p, w) ==
    \/ \E q \in toPush[p][w] : Len(ring[p][w][q]) < RingSize - 1
    \/ /\ toPush[p][w] = {} /\ toRecv[p][w] # {}
       /\ wire[NextSource(p, toRecv[p][w])][w][p] # << >>
    \/ ~Done(p, w) /\ toPush[p][w] = {} /\ toRecv[p][w] = {} /\ AllSent(p, w)

CommCanMove(p, c) ==
    \/ /\ mode[p][c] = "sending"
       /\ \/ sent[p][c] = Rounds[Head(Here(p, c))].size
          \/ Len(wire[p][serving[p][c]][peer[p][c]]) < Capacity
    \/ /\ mode[p][c] = "touring"
       /\ \E w \in WorkersOf(c), q \in Parties : ring[p][w][q] # << >>

NoCircularWait ==
    (\E p \in Parties, w \in Workers : ~Done(p, w)) =>
        \E p \in Parties : \/ \E w \in Workers : WorkerCanMove(p, w)
                           \/ \E c \in CommThreads : CommCanMove(p, c)

(* The workers go through the rounds as Supersteps says.                   *)
Contract == INSTANCE Supersteps
    WITH Peers <- Parties, Lanes <- Workers, Last <- NumRounds, Sources <- Sources,
         reached <- round
ImplementsSupersteps == Contract!Spec

(* Every call of every worker returns, and the communication threads exit. *)
EveryCallReturns ==
    <>(\A p \in Parties : ~running[p] /\ \A c \in CommThreads : mode[p][c] = "exited")
=============================================================================
