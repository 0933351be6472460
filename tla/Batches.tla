------------------------------ MODULE Batches ------------------------------
(***************************************************************************)
(* How one operation on a vector is divided: into a range per worker       *)
(* (getThreadBatchBoundaries), and each range into batches (Task).         *)
(*                                                                         *)
(* A batch size is a signed number: a positive one is a length, a negative *)
(* one asks for that many batches per worker.  Lengths are unsigned, so    *)
(* differences of lengths wrap modulo Word.                                *)
(***************************************************************************)
EXTENDS Integers

CONSTANTS
    NumThreads,   \* worker threads of a party
    MinChunk,     \* MINIMUM_CHUNK_SIZE
    Word          \* 2^64: lengths are size_t

ASSUME NumThreadsAssumption == NumThreads \in Nat \ {0}
ASSUME MinChunkAssumption == MinChunk \in Nat /\ MinChunk > 1
ASSUME WordAssumption == Word \in Nat /\ Word > MinChunk

Threads == 0 .. NumThreads - 1

CeilDiv(a, b) == (a + b - 1) \div b

Magnitude(n) == IF n < 0 THEN -n ELSE n

Smaller(a, b) == IF a < b THEN a ELSE b

-----------------------------------------------------------------------------
(* Plausible slips, used to show what each property excludes.              *)

EqualBatchesFloor(start, end, batches) ==
    LET chunks == (end - start) \div MinChunk
    IN  (IF chunks = 0 THEN 1 ELSE CeilDiv(chunks, Magnitude(batches))) * MinChunk
ThreadEndNoRemainder(total, batch, t) ==
    ((t + 1) * ((total \div batch) \div NumThreads)) * batch
NotRounded(batch, divisor) == batch
-----------------------------------------------------------------------------

(* compute_equal_batches: the length of a batch when [start, end) is to be *)
(* cut into Magnitude(batches) of them, each a multiple of MinChunk.       *)
EqualBatches(start, end, batches) ==
    LET chunks == ((end - start + MinChunk - 1) % Word) \div MinChunk
    IN  CeilDiv(chunks, Magnitude(batches)) * MinChunk

(* getThreadBatchBoundaries.  Whole batches are dealt evenly, the first    *)
(* workers taking one more each, and the last worker takes what is left of *)
(* a batch; ThreadStart(total, batch, t) is start_index in iteration t.    *)
GrainOf(batch) == IF batch < 0 THEN MinChunk ELSE batch

ThreadStart(total, batch, t) ==
    LET whole == total \div batch
    IN  (t * (whole \div NumThreads) + Smaller(t, whole % NumThreads)) * batch

ThreadEnd(total, batch, t) ==
    ThreadStart(total, batch, t + 1) + (IF t = NumThreads - 1 THEN total % batch ELSE 0)

Boundaries(total, batch) ==
    [t \in Threads |-> [start |-> ThreadStart(total, GrainOf(batch), t),
                        end   |-> ThreadEnd(total, GrainOf(batch), t)]]

(* The Task constructor: a range with the step execute() walks it by.      *)
MakeTask(range, batch) ==
    [start |-> range.start,
     end   |-> range.end,
     step  |-> IF batch < 0 THEN EqualBatches(range.start, range.end, batch) ELSE batch]

(* Task::execute: where the batch that starts at i ends.                   *)
BatchEnd(task, i) == Smaller(i + task.step, task.end)

(* makeBatchSizeDivisibleBy.                                               *)
RoundUpTo(batch, divisor) ==
    IF batch % divisor # 0 THEN batch + divisor - (batch % divisor) ELSE batch

DivisibleBatch(batch, total, divisor) ==
    RoundUpTo(IF batch < 0
              THEN EqualBatches(0, (total - 1) % Word, Magnitude(batch) * NumThreads)
              ELSE batch,
              divisor)

(* generate_permutations: n permutations dealt to the workers.             *)
PermutationRange(n, t) ==
    LET First(i) == i * (n \div NumThreads) + Smaller(i, n % NumThreads)
    IN  [start |-> First(t), end |-> First(t + 1)]

(* evaluate_oprf: the length of the chunk each worker is to evaluate.      *)
OprfChunk(n) == IF n = 0 THEN 1 ELSE CeilDiv(n, NumThreads)
=============================================================================
