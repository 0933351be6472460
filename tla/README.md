# ORQ in TLA+

ORQ evaluates relational queries on secret-shared tables. Two, three or four
parties run the same C++ program; each keeps shares of every vector, computes on
them with worker threads, and exchanges shares with the others. This directory
holds TLA+ models of that code, configurations that check them with TLC, and
proofs checked by TLAPS. Paths below are relative to `src/include/`, `core/` and
`backend/` unless they say otherwise.

## 1. The system

| component | state it keeps | operations | talks to | model |
|---|---|---|---|---|
| NoCopy ring (`no_copy_ring.h`) | slots, read and write index | push, wait, currentEntry, pop | a worker and a communication thread, lock free | `NoCopyRing` |
| NoCopy communicator (`no_copy_communicator.h`) | a ring and a socket per peer | send, receive, receiveBroadcast, exchange | its rings, the sockets | `NoCopyExchange` |
| communication threads (`no_copy_communicator_factory.h`) | the ring they look at | tour, blocking send, exit | the rings of their workers | `NoCopyExchange` |
| runtime, workers, tasks (`runtime.h`, `worker.h`, `task.h`) | queues, mutexes, condition variables, a barrier, batch size | fork and join of an operation, shutdown | the protocol of each worker | `Runtime`, `Batches` |
| committed seeds queue (`committed_seeds_queue.h`) | own seeds, commitments of each peer | repopulate, open to a group, stand aside | exchanges; the setup and the verifier | `CommittedSeeds` |
| protocol base (`protocol.h`) | maps between parties and shares, groups | reshare, send and receive assignment | the communicator, zero sharings | `Sharing` |
| protocols of two and three parties, and two of four (`beaver_2pc.h`, `replicated_3pc.h`, `dalskov_4pc.h`, `custom_4pc.h`) | shares; digests of joint messages | share, open, multiply, and, not, convert, divide, redistribute, reshare | the same | `Beaver2PC`, `Replicated3PC`, `FourParties` with `Fantastic4PC` and `Custom4PC` |
| common generators, zero sharings, triples (`random/`) | nonce of each generator | draw | one per group of parties | `Sharing`, `Beaver2PC` |
| verifier (`verifier_4pc.h`) | hashes of all workers and types, flags | aggregate, finalize | committed seeds, the four-party protocols | its use of the seeds, in `CommittedSeeds` |
| pools, permutation manager and generators (`random/pooled`, `random/permutations`) | stored permutations and correlations | reserve, take, draw | the shuffle | `Permutations` |
| vectors (`mapping_access_vector.h`, `b_shared_vector.h`) | data, the mapping of each view | view, grow, cut, pack bits | every operator | `Vectors` |
| circuits (`circuits.h`, `b_shared_vector.h`) | none | add, compare, divide, convert | the protocols, element by element | `Circuits` |
| column operators (`operators/`) | none | sort, merge, shuffle, scan, windows | the vectors, the permutation manager | `Scans`, `Sorting`, `Permutations` |
| tables (`encoded_table.h`, `join.h`, `aggregation.h`, `distinct.h`) | columns and a hidden column of validity | filter, sort, join, aggregate, distinct, cut | the column operators | `Tables`, `Joins` |
| benchmark queries (`src/bench/queries`) | the generated tables | one plan or several per query, and the SQL it is compared with | the tables | `TpchData`, `TpchQueries`, `TpchQueries2`, `OtherQueries` |
| start-up of connections, MPI and null communicators, profiling, arithmetic helpers | – | – | – | not modelled |

The hard behaviours are these.

* **Two threads and no lock.** A ring carries pointers into the worker's vectors.
  The slot is filled, then the index moves; it is cleared, then the other index
  moves; the worker goes on only when it believes its vectors were sent.
* **Blocking on one another.** A communication thread blocks on a full socket
  while its peers block on theirs, and a worker reads its sources in a fixed
  order. Whether a circle closes depends on every party at once.
* **Forks and joins with borrowed frames.** Tasks hold references into the frame
  of the operation; a barrier, a condition variable that may wake by itself and
  an unlocked read of a flag decide when that frame may go.
* **Batches.** Signed batch sizes, unsigned lengths, and groups that may not be cut.
* **Parties in step without a message.** Commitments are dropped, generators
  drawn from and digests fed by parties each on its own; one step more or less
  and all that follows is wrong, far from the cause.
* **Protocols on shares.** Signs, carries, replicated copies and the role each
  party plays in a primitive.
* **Networks over rows.** Sorts and scans run in levels over views of one vector;
  each level reads rows it also writes, and sizes need not be powers of two.
* **Rows that are only marked.** A filter leaves its rows in the table, so every
  operator meets invalid rows, in any place and with any key.
* **Views that share data.** A view is a list of row numbers; growing one of them
  must not move what another shows.
* **Boundaries of words.** Adders that wrap, the sign bit of a comparison, packed
  bits that end within a word.

Parties do not crash and restart in this program, and a connection that fails
ends it: there is no recovery to model. Parties are taken to follow the protocol.

What makes each component correct:

* ring: what is sent is what was pushed, whole and in order, and a call returns
  only then; no slot is touched by both threads;
* exchanges: a worker reads what was meant for its call, never gets ahead of a
  source, and no circle of waiting parties closes;
* runtime: an operation returns when, and only when, all its tasks are done, and
  every element is computed once; the destructor joins every worker;
* seeds: queues stay aligned, every seed is committed to before another is
  opened, no group shares a generator with another;
* protocols: a primitive computes on the plaintext what it says, keeps all copies
  of a share equal, leaves the generators in step and the digests equal;
* vectors and circuits: a view shows the rows it is documented to show and keeps
  showing them; the circuits are integer arithmetic modulo the word;
* shuffles: what is drawn is a permutation, a shuffle undone is the column, the
  stores hand out the size that was asked for and nothing twice;
* column operators: sorts are stable, whatever was shuffled; a scan over any
  number of rows is the scan row by row;
* tables and queries: what is opened depends on the valid rows alone, and a query
  opens the rows of its SQL, in its order.

## 2. Modules

| module | what it is |
|---|---|
| `NoCopyRing` | one ring and its two threads, one step per access to shared memory |
| `SendContract` | what a worker may rely on; implemented by `NoCopyRing` |
| `NoCopyExchange` | all parties, workers, communication threads and sockets, going through a program of rounds |
| `Supersteps` | no party leaves a round before its sources have reached it; implemented by `NoCopyExchange` |
| `NoCopy_proofs` | the invariants of the ring and of the exchanges, seven theorems on each |
| `Batches` | the division of a range over threads and of a thread's range into batches |
| `Runtime` | the main thread and the workers of one party |
| `ForkJoin` | what the program sees of an operation; implemented by `Runtime` |
| `Runtime_proofs` | its invariants and seven theorems |
| `CommittedSeeds` | the queues of every party through the setup and the checks |
| `CommittedSeeds_proofs` | its invariant and seven theorems |
| `Words` | the ring of machine words, division and shifts of sign as C++ has them |
| `Sharing` | shares, generators, zero sharings, opening and resharing, for any number of parties |
| `Beaver2PC`, `Replicated3PC` | the primitives of the protocols of two and three parties |
| `FourParties` | what the two protocols of four parties have in common |
| `Fantastic4PC`, `Custom4PC` | the protocol with digests, and the one with fewer rounds that compares at once |
| `Sharing_proofs` | lemmas on resharing, on what draws and writes keep, and on the numbers words stand for |
| `Replicated3PC_proofs`, `Fantastic4PC_proofs`, `Custom4PC_proofs` | copies of shares, generators, checks and the refinement to `IdealVectors`, for every word size |
| `Beaver2PC_proofs` | the invariant of the two-party protocol and the form of its triples |
| `Protocols_proofs` | its proofs, and all four protocols as the runs compose them: five theorems on the properties of `protocols` |
| `IdealVectors` | the same primitives on plaintext; implemented by all four |
| `Circuits` | adders, comparisons, division and conversions, bit by bit |
| `Vectors` | views and mappings, resizing, packing of bits |
| `Scans` | prefix networks, segmented aggregation, distinct and windows over a sorted column |
| `Sorting` | networks and merges, quicksort, radix sort, the sort by several keys |
| `Permutations` | generation and application of secret permutations, the permutation manager, the pools |
| `Tables`, `Joins` | the operations of tables; the joins |
| `TpchData`, `TpchQueries`, `TpchQueries2` | the generated tables and the 22 TPC-H queries |
| `OtherQueries` | the queries of earlier systems, and those where each party prepares its own table |
| `Calls` | one call of one operation, for the sequential modules |
| `MCNoCopyExchange`, `MCRuntime`, `MCProtocols` | instances for TLC |
| `MCCircuits`, `MCShuffles`, `MCOperators`, `MCTables`, `MCQueries`, `MCLibrary` | the calls of the sequential modules, and what they are compared with |

How they lie on each other: `NoCopyRing` shows that a ring is a queue whose push
returns when the vector is on the wire, and `NoCopyExchange` takes a ring to be
that. `NoCopyExchange` shows that the calls of the parties are supersteps and
that streams are never confused, and the protocol modules take one primitive,
exchanges included, to be one step of all the parties. `Runtime` shows that an
operation is over when it returns, which lets a program be a sequence of
operations. The protocol modules show that a primitive computes on the plaintext
what it says, which lets `Circuits`, `Sorting`, `Permutations` and `Tables` work on
plain words; `Joins` calls `Sorting` and `Scans`, and the queries call the tables.

### From code to model

*Ring.* `PushWrite`, `PushPublish`, `WaitNext`, `WaitLast` are the worker in
`push` and `wait`; `CurrentEntry`, `SendPart`, `PopClear`, `PopAdvance` the
communication thread. The worker's vectors are part of the state: `Reuse` lets a
caller write to them as soon as its call has returned, and a send copies a vector
in parts, so that a vector that changes under way is seen as `Garbage`.

*Exchanges.* `Push`, `Receive` and `Return` are a worker inside `sendShares`,
`receiveShares`, `receiveBroadcast` or `exchangeShares`, which differ only in
their destinations and sources; a round lists them as edges. `Pass`, `Take`,
`SendUnit` and `Pop` are `send_communication_thread`; `Destroy` is `~RunTime`. A
unit is what one `send` or `recv` moves.

*Runtime.* The main thread goes through `addTask` (lock, push and unlock, notify)
for each worker, then `main_thread_wait`; a worker through `Worker::run`. The
barrier is `std::barrier` with its phases. The kinds of operations differ in how
they divide the range: batched, single task, triples, permutations, OPRF,
aggregation.

*Seeds.* A party is in a list of calls that the setup and the verifier fix:
`Commit`, `StoreCommitments`, `VerifyHashes` for a refill, `Open`,
`VerifyOpenings` or `StandAside` for a group, `Check` for the decision whether to
refill. Seeds are numbers; a hash is taken to be injective.

*Protocols.* `view[r].sh[p][i]` is share `i` of party `p` in register `r`, stored
in the order of the code; each operator computes the share of party `p` only from
what `p` holds, draws, or is sent, so that a wrong index or a wrong role shows as
copies that differ. `nonce[p][g]` counts the words `p` has drawn from the generator
of group `g`; the generator itself is the constant `Prg(g, n)`. In the four-party
protocol `digest[pa][p]` is what `p` has put into the digest of assignment `pa`
since the last check, and `ok` is `malicious_check_ok`. In `Custom4PC` every word
that arrives twice is compared in the step that sends it, and `ok` says that no
comparison has stopped a party. A vector is one word:
primitives are elementwise, and the batches and the threads are the matter of
`Runtime`.

*Sequential library.* A behaviour is one call: its argument is chosen in the
initial state, one step stores what it returns, and the property compares that
with a definition of its own (a stable arrangement, a scan row by row, pairs of
rows with equal keys, integers, SQL as sets of rows). A column is a sequence of
words; a view is the sequence of row numbers it refers to. A row of a table is a
function from column names to values, the hidden column `[##V]` among them. A
word of `Circuits` is a function from bit positions to bits, one element of a
vector. Random draws and shuffles are arguments or are chosen in the step, so a
result that depends on them is a violation. The stores of `Permutations` take a
program of requests and return what each got. In the generated tables the draws
are arguments and the scale factor is the number of rows.

## 3. Runs

| run | module, cfg | shows |
|---|---|---|
| `ring` | `NoCopyRing` | order, integrity, no race on a slot, the send contract, every push is sent |
| `runtime` | `MCRuntime` | tasks never outlive their operation, the flag is not raced, fork and join, operations return, shutdown ends |
| `runtime_batches` | `MCRuntime` | each element once, groups whole |
| `runtime_oprf_returns`, `runtime_single` | `MCRuntime` | violations, see 6 |
| `exchange` | `MCNoCopyExchange` | streams, empty rings at each push, supersteps, no circular wait, everything returns and exits |
| `exchange_shared` | `MCNoCopyExchange` | violation, see 6 |
| `seeds` | `CommittedSeeds` | queues aligned, same decisions, common generators, commit before open, never dry, everyone through |
| `protocols` | `MCProtocols` | four protocols: copies agree, generators in step, no comparison between honest parties fails, the ideal machine |
| `not_2pc` | `MCProtocols` | violation, see 6 |
| `library` | `MCLibrary` | stable sorts, scans, tables, queries against SQL, circuits against integers, views, shuffles and stores |
| `q4_distinct` | `MCLibrary` | violation, see 6 |

Bounds, and why they suffice:

* `ring`: 3 slots hold two entries, so the ring is empty, partly full and full; 6
  pushes go round it twice; a call makes up to 4 pushes, more than the ring
  holds; a vector takes 2 sends, so a change in between is seen. The proofs do
  away with all these bounds.
* `exchange`: 3 parties, a resharing in two batches and an all-to-all exchange of
  a vector larger than a socket (`Capacity = 1`, 2 units), so every send blocks
  and calls of different sizes follow on one stream. One worker with its own
  communication thread; the proofs cover any number.
* `runtime`: 2 workers, 2 operations of every kind with sizes below, at and above
  the number of workers, so that a late worker meets the next operation.
  `runtime_batches`: 3 workers and sizes around the multiples of the batch sizes
  1, 3, -1, -2, one operation. `Word = 64` and `MinChunk = 2` stand for the width
  of `size_t` and the chunk of the OPRF; they keep the arithmetic of wrapped
  differences apart from true ones.
* `seeds`: 4 parties, batches of 5 and a threshold of 3 in place of the larger
  constants, 3 checks: one refill falls due and one does not.
* `protocols`: words of 3 bits, inputs 1 and 6 (one positive, one negative),
  divisor 2, every sequence of three primitives on two registers. Three suffice
  for share, share, combine and for share, convert, compute on the result; the
  shares that occur are most of those there are (62 of the 64 additive pairs of
  two parties), under each protocol those at the end of a division, where the
  error equals the divisor, among them. Every primitive is called under every
  protocol that has it; the protocol numbered 5 is the custom one of four parties.
* `library`: every call on every input of a small set. Keys of two bits and three
  to eight rows, so that keys repeat, sizes are powers of two and are not, and
  words are negative; every random permutation. Joins over every pair of tables of
  2 and 4, or 3 and 2, rows, valid or not. Circuits on every pair of signed words
  of four bits; packing up to nine words into words of two bits, cut into two batches at each
  place. Stores under programs of two to four requests. Queries over six
  databases of 3 to 12 rows per table (`NationSize = 3`, `RegionSize = 2`), chosen
  so that between them each query has rows to return and rows to leave out.

The arguments of `library` are those the code is written for. What is left out,
each named where it is left out:

* tables where `distinct` loses a row (`LosesARow`); that case is `q4_distinct`;
* left tables of a join whose valid rows repeat a key (`UniqueKeys`): only unique
  join keys on the left are supported;
* a unique join by merging, other than of two sorted tables of valid rows, untrimmed
  (`MergeableArgs`): the merge takes sorted halves of equal size;
* a second threshold session of one key (`OneSession`): the scan looks only at the
  two rows it combines, so the second would reach the first;
* negative divisors: the division gives no quotient for them, and the queries
  divide by counts;
* pairs of permutations taken without reserving that size (`ReservedFirst`): the
  manager does not look at the size;
* queries whose parties find different groups, or whose padded halves differ in
  length (`Answerable`): the merging plans need equal ones;
* reversed alternating runs whose last chunk is partial, for which the documentation
  fixes no rows.

Where a cfg has `CHECK_DEADLOCK FALSE` the model stops: a call has returned
(`library`), programs end (`exchange`, `runtime`, `seeds`) or reach the bound on
pushes or primitives. That nothing
stops before its time is stated by properties: `NoCircularWait`, `OpsReturn`,
`AllThrough`, `EveryPushIsSent`.

Definitions that no specification uses, each commented as a fault and placed next
to what it stands in for, are the slips the properties were seen to catch.

### Fairness

Weak fairness of every thread or party: the operating system schedules runnable
threads, `send` and `recv` return when there is room or data, and the spinning
threads yield nothing that another needs. In `Runtime` the main thread has strong
fairness for taking a worker's mutex: a worker may wake spuriously without end and
hold the mutex each time it looks, but it cannot win every race. No fairness is
given to spurious wakes, to a caller reusing its memory, or to the program asking
for one more operation. The protocol and library modules claim safety only.

## 4. Proofs

TLAPS proves the following for every value of the constants that the named
assumptions of the modules allow.

**Ring** (`NoCopy_proofs`). From a ring of at least two slots, buffers that
are not null, at least one part per vector and one push per call. `WireInOrder`
is not inductive: the wire is in order because each published slot still
reaches the vector it was given, because the call has not returned, because the
last wait of a call saw an empty ring. `RingInv` says all of that: `CountsAgree`
(entries between the indices are those pushed and not popped), `SlotBeingPushed`,
`SlotBeingSent`, `LastWaitIsForAll`, with `RingTypeOK`, `WireInOrder` and
`LiveEntriesIntact`. One lemma per action. From it follow `RingTypeCorrect`,
`DeliveredInOrder`, `SlotRaceFree`, `PopIsSafe`, `NoDanglingEntry`, and
`RingImplementsContract`, the refinement to `SendContract`.

**Exchanges** (`NoCopy_proofs`). For any number of parties, workers and
communication threads, any program of rounds without a message to oneself, any
capacity of sockets and any ring of at least two slots. The invariant `IInv`
names the unit that follows a unit on a connection: `After(p, q, r, k)` is the next
one of round `r`, or the first one of the next round that has the edge
(`FirstFrom`). `StreamInv` says that the socket's first unit is the one its
receiver expects, that each unit is followed by the one after it, and the last by
the one its sender sends next. `RingInv` (at most the vector of the running round
on a ring), `SendInv`, `GotInv`, `StopInv` and `PaceInv` (a party has reached the
rounds one has received from) complete it. It gives `InOrder`, `FreeAtPush`,
`NothingLeft`, `TypeCorrect` and the `Refinement` to `Supersteps`. The first two also
need `EdgeInv`: a socket holds only units of rounds that have its edge, and no more
than fit. That no push spins on a full ring is part of `TypeCorrect`. `NoDeadlock` adds `NumCommThreads = NumWorkers`. Suppose nothing can move. A worker
furthest behind that waits for a unit waits for a source in the same round that
has the vector on its ring (`WaitsFor`). Among the parties furthest behind with a
vector left to send take the first: its thread, which has no other worker to
serve, is blocked on a full socket, and the receiver waits for a source before
it, since sources are read in order of their numbers; that source is one of those
parties too. Without the assumption the statement is false, which
`exchange_shared` shows.

**Runtime** (`Runtime_proofs`). For any number of workers, any set of operations
that does not hold the placeholder `NoOp`, any batch size and any program. `IInv`
gives each worker a place: past the barrier with or without a task in its queue,
executing, or through until the barrier opens again. `Stages` says which places are
possible at each step of the main thread, and `Counted` that `arrived` is the number
of participants that wait in this phase (`Waiting`), so that the last to arrive finds
all others waiting (`LastArrives`) and with them every task done. Mutexes play no
part in this: it is the barrier that keeps a task from outliving its operation. It
gives `TasksEndWithTheirOp`, `FlagWrittenInPeace` and the `Refinement` to `ForkJoin`.
The proof also covers an OPRF evaluation that skips a worker, which never returns.

What an operation computes takes a second invariant. Its assumptions are that no
batch size is zero (the program divides by it, `runtime.h:247`) and that an
operation has a known kind and groups that divide its length, as
`runtime.h:796` asserts. `Values` has the types, and that the batch size an
aggregation changes is restored (`Restored`). `Results` says that the workers'
ranges follow each other from 0 to the length of the result (`TasksDealt`), that a
worker has computed its range up to the place it has reached, each element once, and
nothing else (`Computed`), and that all is done when the barrier opens (`Complete`).
The arithmetic under it is that every kind of operation deals out whole multiples of
some batch size, the last worker taking what is left (`Divisions`, `Ranges`), and
that rounding to a multiple of the group keeps groups whole (`DividesWell`). It gives
`ResultsComplete` and `GroupsStayWhole`. Both assume `Usable`: every aggregation has more
than one element, and not so many that rounding up passes 2^64. The first half is
needed, as `runtime_single` shows; the second only excludes lengths no memory holds.
`TypeCorrect` needs neither.

**Seeds** (`CommittedSeeds_proofs`). For any number of parties above two, any number
of checks, and any batch and threshold with `EnoughAssumption`: a batch has a seed for
each call of the setup, and the threshold one for each group of a check. The code has
2^15 (`committed_seeds_queue.h:93`) and 16 (`verifier_4pc.h:242`) for four parties. The
invariant compares every interleaving with one: `Before[c]` is what a party has before
call `c` if all make their calls together, and `Local` says that a party at call `c` has
exactly that, adjusted for how far it is in the call. The decision of a check is in
`Before` too, and so is the same for everyone. A queue is a `Slice` of the
numbered seeds, from those opened to those stored, and `InTransit` says that a
channel is the slice of all messages from its sender to its receiver between those
received and those sent, so each party finds at the head of a channel the message of
the call it is in. `NeverFails`, `DecisionsAgree`, `GeneratorsAgree`,
`OpenedWhenCommitted`, `QueuesSuffice` and `TypeCorrect` follow from it. The heart of
`QueuesSuffice` is `Enough`: every round of groups takes as many seeds of each party,
so the queues are even when a check looks at them, one of them speaks for all, and
what is left of each covers the rest of the round.

**Protocols** (`Replicated3PC_proofs`, `Fantastic4PC_proofs`, `Custom4PC_proofs`,
`Protocols_proofs`, over `Sharing_proofs`). For words of any width, any generator, any divisor, any set of
registers and programs of any length, under the assumption of each protocol, which only
fixes the parties and their groups. The invariant is `Consistent`: the copies of every
share are equal (`Replicated`) and the members of every group have drawn as many
words (`GeneratorsInStep`). Neither is inductive alone: copies stay equal only
because all who draw a word draw the same one. Of types it needs nothing but that
every register has a vector. `ReshareDelivers`, for any number of parties, is why a
resharing works although both sides compute its assignment apart: the k-th share p
sends q is the k-th that q expects from p. With four parties `InputAgrees` shows
that an input is the same sharing for all who hold it whichever of the owners sends,
and `CrossTermAgrees` that the owners of a cross term compute the same word.

That all values are words, and that no check fails between honest parties, takes one
assumption more, `WordsDrawn`: the generators yield words, as a buffer filled with bytes
does. The type invariants are `ThreePartiesTypeCorrect`, `FourPartiesTypeCorrect` and
`CustomTypeCorrect`. They rest on `SharesClosed`: sums, products, shifts and bitwise
operations of words are words. For bitwise operations this is an induction over the bits
of a word, done with `FromZero`, since the induction theorems of the library cannot be
used. `SumIsWord` says the same of the sums over sets of parties.

*Honest parties, Dalskov.* `Honest` adds to `Consistent` that every value is a word and
that the digests agree (`Digests`): for each assignment of sender, hasher and receiver,
the hasher and the receiver have digested the same list of words. A joint message
adds one word to each list. They are the same word because its two owners compute it
from copies that agree (`OnTwoHonest`, by primitive). A resharing sends three words to
one receiver (`ReshareHonest`). It follows that no check
and no opening fails, at any time (`FourPartiesNoFalseAlarm`).

*Honest parties, custom.* Here words are compared on arrival, and the copies of a product
agree only because addition commutes: each party puts its three shares together from
words computed in roles of their own. `ProductFine` names the five words of each and
shows that what is compared is equal (`CustomNoFalseAlarm`) and that the copies are
(`CustomSharesAgree`). With bits, addition is exclusive or, which commutes bit by bit.

*What they compute.* Each of the three implements `IdealVectors`: every step is the
primitive on the plaintexts, which is what their shares reconstruct to
(`ThreePartiesImplementIdeal`, `FantasticImplementsIdeal`, `CustomImplementsIdeal`). The
assumptions are those of the invariants. Sums over the parties are folds in two
rings, addition modulo 2^Bits and exclusive or, and the proofs reason in neither. A
word stands for a *number* (`Num`): with arithmetic shares any integer that it is the
remainder of, with boolean ones, at each bit, any integer of the parity of that bit. Sums,
products and sums over the parties of words then stand for those of their numbers
(`WordsOfResults`, `SumNumber`), and words with the same numbers are equal
(`SameNumbers`), so that a primitive is correct for both encodings by one identity
between integers. For inputs and resharings it is that masks and shares of zero
cancel (`CompletedAddsUp`, `ZeroSharesCancel`, `RerandomizedReconstructs`); for products
that the terms of the parties are the nine or sixteen of the product (`NineTerms`,
`ProductReconstructs`), with four parties from six cross terms, each a joint input, or
from words in roles; for the conversion of a bit that the square of a difference of
two bits is their exclusive or; for `not_1` that one share in four negates. The
division is one of each party's share: `WordIsDivided` gives the quotient and rest of a
word as C++ truncates them and as the shift of its sign corrects them, and the halves
add up with an error within the divisor (`DivConstReconstructs`, `HalvesCombine`).

*Two parties.* Shares have no copies, so what is kept is that values are words and
generators are in step. Both parties build a triple from the same six words, because they draw in step
(`TripleIsCorrelated`): two factors for each, and masks under which the two cross terms of
the product of the factors are split (`Correlated`). `ProductReconstructs` shows that
the masked opening with such a triple gives shares of the product, in both encodings.
A division is one of each of the two shares. `not_1` is the
negation only of a bit: the refinement assumes `AsBits`, that it is called on bits
where the two-party protocol runs, and `not_2pc` shows that without it the statement
is false.

*Side by side.* `MCProtocols` starts any of the protocols and runs any program of
primitives. `Kept` is the invariant of whichever runs, with digests or none,
and `plain` the plaintexts of its registers. The run's own generator yields words
(`PrgIsWord`), which discharges `WordsDrawn`; a lemma for each protocol (`TwoMachine`,
`ThreeMachine`, `FantasticMachine`, `CustomMachine`) and `Seen` say that the abstract
machine each proof speaks of is the one of the run. So all five properties of the run
are theorems: `TypeCorrect`, `AlwaysSharesAgree`, `AlwaysInStep`, `NeverFalseAlarm`
and, under `AsBits`, `EveryProtocolImplementsIdeal`, for words of any width, any inputs and divisors and
programs of any length.

The facts on four parties (`Four`, `Abs2sh` and the like) stand in both
modules: the two protocols are state machines of their own, and no module extends both.

Three habits of tlapm 1.4.5 shape these modules, since a step that met one could prove
anything. It reduces `-1 % 4`, written out or met when it expands a quantifier over
a set of numbers, to -1, as C does, where TLA+ has 3: the proofs keep remainders of
negative numbers behind variables and operators (`Mod3`, `Mod4`, `Behind`). And it takes
the updates of an `EXCEPT` to be at different places: `WriteBoth` and `Digested`, which
have two, only make them where they are. Last, its facts about sequences give
every function the domain of a sequence: what the proofs say of lengths and of
`<< >>` was also checked with these facts restricted to sequences, where all but a
dozen leaves (instances of `Slices`, values of a typed function, a difference by
cases) pass again within the solver's time; those were read by hand.

Only checked by TLC: liveness, and the sequential library. TLAPS has no temporal
reasoning about fairness here. The value of a fold over an arbitrary list, which the
levels of a network and the passes of a sort are, takes inductions whose statements
the installed provers do not instantiate. The sums over parties are the exception:
there are at most seven, and `SumNumber` takes them out one at a time.

## 5. What is not modelled

* Fixed-point precision and truncation, dot products, and the stacked opening of
  the two-party product: they repeat the communication of a product.
* The aggregation of hashes over workers and types by the verifier, its consistent
  input and its dot product; the restart of the hashes for tests.
* The external OLE, OT, OPRF and permutation libraries. A triple is built from two
  draws of the dummy generator, as it is from two OLEs, and a permutation
  correlation is the one of the dummy generator.
* The generator as a cipher and its seeds as secrets: the models say nothing about
  what a party could learn.
* Connection setup, the MPI and null communicators, profiling.
* Files as input of vectors and tables, printing, counting rows, and the conversion
  of a column from one kind of shares to the other (the conversion of a word is in
  `Circuits`). `class_access_vector.h`: no build includes it (`orq_debug.h:92`).
* The database beside the benchmark queries: its answer is the SQL as a set of
  rows. Timing and the size parameters of the micro benchmarks.
* In `Custom4PC` only P0 shares an input, see 6.
* A party that stops, lies or loses its connection.
* Bits are `Bits` wide throughout; the wider types of the code differ in nothing
  the primitives do but the place where a sum wraps.

## 6. Findings

* `runtime_oprf_returns`. `evaluate_oprf` skips workers without elements; a
  skipped worker does not come to the barrier and the operation does not return.
* `runtime_single`. An aggregation over one element under an equal-division batch
  size computes a batch size of zero and divides by it.
* `exchange_shared`. The README of the repository suggests fewer communication
  threads than workers. Two workers that share a thread can block both parties
  for good once a vector exceeds the socket.
* `not_2pc`. `not_b_1` with two parties compares P0's whole share with zero. The
  comment of the operator says that it considers the last bit, as three and four
  parties do. The callers mask first, which the passing run assumes
  (`BitsOnly`).
* `q4_distinct`. `distinct` of a table sorts by validity and then by key
  (`encoded_table.h:1315-1330`), but the operator that marks the first row of each
  run compares keys only. Where the last invalid row and the first valid row have
  one key, the valid row is no first, and no row of that key is left: Q4 then counts
  an order too few (`q4.cpp:219`), which its own comparison with SQL would report.

Smaller observations, of which no run makes a finding:

* The remainder that division by a constant leaves may equal the divisor when both
  parts are negative multiples of it, so that a corrected quotient is one too small;
  `IdealVectors` states the bound the code keeps.
* An aggregation size of zero, "the full vector" in the base class, divides by zero
  in the dot product of three parties.
* A data party of the custom four-party protocol sends to the relative ranks
  `partyID + 1` to `partyID + 3` (`custom_4pc.h:716-726`, `751-761`), while the others
  receive from it by its true rank: right only for P0, though
  `src/tests/test_malicious.cpp:49` shares from P1.
* A threshold session writes its number on its first row only; the other rows of the
  session keep -1 (`streaming.h`).
* A full outer join keeps the left rows that have a partner too (`join.h:101-103`).
* `rca_compare` gives the sign of the difference, which is the order only while the
  difference does not overflow.
* `sf-q12.cpp:362` makes vectors one element short of the rows it fills; a query
  parameter of `tpch_dbgen.h:1332-1333` is bound twice; and for a part numbered 0 the
  subtraction at `tpch_dbgen.h:1073-1077` wraps, so the parts of the databases here
  are numbered from 1.

## 7. Plan

What comes next, in this order.

1. The verifier: hashes of several workers and types, its flags, when a check runs
   and the digests restart. The parts of `Fantastic4PC` and `CommittedSeeds` that
   meet there become one behaviour. To show: a check covers what every instance has
   digested, and none restarts its digests before.
2. The start-up of connections.
3. Proofs: lemmas on `Scans` and `Permutations`, such as that undoing a permutation gives
   the column back for any number of rows.
4. Larger programs of the library: several table operations in sequence over
   arbitrary small tables, in place of the fixed queries.
