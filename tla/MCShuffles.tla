----------------------------- MODULE MCShuffles -----------------------------
(***************************************************************************)
(* Views of small vectors, shuffles of small columns, and short programs   *)
(* of calls on the queues of permutations and correlations.                *)
(***************************************************************************)
EXTENDS Permutations, Vectors, Calls

Letters(n) == [i \in 1 .. n |-> 10 * i]
Perms3 == PermutationsOf(3)
Parties == {2, 3}

(* Views of six rows, of the vector or of a view that turns it around.     *)
RunArgs == {r \in [included : 1 .. 3, excluded : 0 .. 2, times : 1 .. 3, mapped : BOOLEAN, size : 5 .. 6] :
               r.size % r.included = 0}
FlagArgs == [flag : [1 .. 4 -> {0, 1}] \cup [1 .. 2 -> {0, 1}], mapped : BOOLEAN]
(* A vector of three rows is changed; another view of its data is kept.    *)
GrowArgs == [rows : {<<1, 2, 3>>, <<3, 1, 2>>, <<2, 2>>}, kept : {<<2, 1>>, <<3, 3>>}, n : 1 .. 4, mapped : BOOLEAN]

RandomWords == [1 .. 4 -> 0 .. 3]
ShardArgs == [pi : Perms3 \X Perms3, sigma : Perms3, rho : Perms3]
ShareVectors == {<<0, 1, 3>>, <<2, 2, 1>>, <<3, 0, 0>>}
TwoPartyArgs == [x : ShareVectors \X ShareVectors, pi : Perms3 \X Perms3,
                 a : ShareVectors, b : ShareVectors, m : {2, 4}]
CutTo(x, m) == [i \in DOMAIN x |-> x[i] % m]

Sizes == {3, 4}
Takes == [call : {"getNext", "getNextPair"}, size : Sizes]
Reserves == [call : {"reserve"}, size : Sizes, permutations : 0 .. 2, pairs : 0 .. 1]
ManagerArgs ==
    [parties : Parties,
     requests : {<<r, t>> : r \in Reserves, t \in Takes}
                \cup {<<r, t, u>> : r \in Reserves, t, u \in Takes}
                \cup {<<r, t, q, u>> : r, q \in Reserves, t, u \in Takes}]
PoolArgs == [requests : UNION {[1 .. n -> [call : {"reserve", "getNext"}, size : 1 .. 3]] : n \in 1 .. 4}]

ShuffleInit ==
    \/ op = "runs" /\ arg \in RunArgs
    \/ op = "included" /\ arg \in FlagArgs
    \/ op = "grow" /\ arg \in GrowArgs
    \/ op = "gen_perm" /\ arg \in [random : RandomWords, buffer : 1 .. 3]
    \/ op = "sharded" /\ arg \in ShardArgs
    \/ op = "two_party" /\ arg \in TwoPartyArgs
    \/ op = "manager" /\ arg \in ManagerArgs
    \/ op = "pool" /\ arg \in PoolArgs

Base(n, mapped) == IF mapped THEN View(Plain(Letters(n)), Reversed(Whole(n))) ELSE Plain(Letters(n))

ViewCall ==
    \/ /\ op = "runs"
       /\ LET x == Base(arg.size, arg.mapped)
              ThroughView(map) == Content(ApplyMapping(x, map))
              all == Whole(arg.size)
          IN  Return([alternating |-> ThroughView(AlternatingRuns(all, arg.included, arg.excluded)),
                      reversed |-> ThroughView(ReversedAlternating(all, arg.included, arg.excluded)),
                      repeated |-> ThroughView(Repeated(all, arg.times)),
                      runs |-> ThroughView(RepeatedRuns(all, arg.included, arg.times)),
                      cyclic |-> ThroughView(Cyclic(all, arg.times)),
                      sums |-> ChunkedSum(Content(x), arg.included),
                      products |-> DotProduct(Content(x), Content(x), arg.included)])
    \/ /\ op = "included"
       /\ LET x == Base(4, arg.mapped)
          IN  Return([view |-> Content(View(x, Included(x.rows, arg.flag))),
                      valid |-> IF Len(arg.flag) = 4 THEN ExtractValid(Content(x), arg.flag) ELSE <<>>])
    \/ /\ op = "grow"
       /\ LET x == IF arg.mapped THEN View(Plain(Letters(3)), arg.rows) ELSE Plain(Letters(3))
              Kept(y) == Content([x EXCEPT !.data = y.data, !.rows = arg.kept])
              resized == ResizeTo(x, arg.n)
              tail == KeepTail(x, IF arg.n <= TotalSize(x) THEN arg.n ELSE TotalSize(x))
              longer == AppendVector(x, <<7, 8>>)
          IN  Return([before |-> Content(x), resized |-> Content(resized), tail |-> Content(tail),
                      longer |-> Content(longer), plain |-> Content(MaterializeVector(longer)),
                      kept |-> IF arg.mapped THEN <<Kept(resized), Kept(tail), Kept(longer)>>
                               ELSE <<Kept(longer)>>])

(* Zeros always fit: the words that are passed over come before them.      *)
PermutationCall ==
    \/ op = "gen_perm" /\ Return(GenPerm(3, arg.random \o <<0, 0, 0>>, arg.buffer))
    \/ /\ op = "sharded"
       /\ \E other \in Perms3 :
              LET rho == arg.rho
                  pis == <<arg.pi, <<other, arg.rho>>>>
              IN  Return([there |-> ApplySharded(Letters(3), arg.pi),
                          back |-> ApplyInverseSharded(ApplySharded(Letters(3), arg.pi), arg.pi),
                          applied |-> ApplyElementwise(Letters(3), arg.sigma, arg.pi),
                          composed |-> ComposePermutations(arg.sigma, rho, arg.pi),
                          inverse |-> InvertPermutation(arg.sigma, arg.pi),
                          reversed |-> Apply(Letters(3), ReversePermutation(arg.sigma)),
                          arithmetic |-> B2APermutation(arg.sigma, arg.pi),
                          columns |-> ShuffleColumns(<<Letters(3), Whole(3)>>, arg.pi, pis)])
    \/ /\ op = "two_party"
       /\ LET bits == [s \in 1 .. 2 |-> Correlation(arg.pi[s], CutTo(arg.a, 2), CutTo(arg.b, 2), 2)]
              (* A boolean correlation of bits, or one turned arithmetic. *)
              corr == IF arg.m = 2 THEN bits
                      ELSE [s \in 1 .. 2 |-> ToArithmetic(bits[s], arg.b, arg.m)]
              x == [p \in 1 .. 2 |-> CutTo(arg.x[p], arg.m)]
              there == ApplyShardedByTwo(x, corr, arg.m)
          IN  Return([there |-> OpenedShares(there, arg.m),
                      back |-> OpenedShares(ApplyInverseShardedByTwo(there, corr, arg.m), arg.m)])
    \/ op = "manager" /\ Return(ServeAll(arg.parties, arg.requests))
    \/ op = "pool" /\ Return(PoolServeAll(arg.requests))

ShuffleCall == ViewCall \/ PermutationCall

----------------------------------------------------------------------------
SumTo(S) == LET sum[i \in 0 .. 60] == IF i = 0 THEN 0 ELSE sum[i - 1] + (IF i \in S THEN i ELSE 0) IN sum[60]

(* The rows whose place in their chunk is within the included run.         *)
InRun(i) == ((i - 1) % (arg.included + arg.excluded)) < arg.included
PickRows(x, Wanted(_)) == SelectSeq([i \in DOMAIN x |-> <<i, x[i]>>], LAMBDA e : Wanted(e[1]))
Values(pairs) == [i \in DOMAIN pairs |-> pairs[i][2]]

(* Every view of the vector of the code shows the rows its documentation   *)
(* names, also when it is taken of a view; growing, cutting and appending  *)
(* to a view never changes what another view of the same data shows, and   *)
(* appending to a vector does not either (mapping_access_vector.h).        *)
ViewsShow ==
    /\ Returned({"runs"}) =>
           LET x == Content(Base(arg.size, arg.mapped))
               chosen == Values(PickRows(x, InRun))
               n == Len(x)
           IN  /\ out.alternating = chosen
               /\ \A v \in {x[i] : i \in 1 .. n} :
                      (\E i \in DOMAIN out.reversed : out.reversed[i] = v)
                          = (\E i \in DOMAIN chosen : chosen[i] = v)
                      \/ n % (arg.included + arg.excluded) # 0
               /\ \A i \in 1 .. n * arg.times :
                      /\ out.repeated[i] = x[DivCeil(i, arg.times)]
                      /\ out.cyclic[i] = x[((i - 1) % n) + 1]
               /\ \A j \in 0 .. (n \div arg.included) - 1 : \A k \in 0 .. arg.times - 1 :
                      \A l \in 1 .. arg.included :
                          out.runs[(j * arg.times + k) * arg.included + l] = x[j * arg.included + l]
               /\ SumOf(out.sums) = SumOf(x)
               /\ SumOf(out.products) = SumOf([i \in 1 .. n |-> x[i] * x[i]])
    /\ Returned({"included"}) =>
           LET x == Content(Base(4, arg.mapped))
               Flagged(i) == i <= Len(arg.flag) /\ arg.flag[i] = 1
           IN  /\ out.view = Values(PickRows(x, Flagged))
               /\ Len(arg.flag) = 4 => out.valid = out.view
    /\ Returned({"grow"}) =>
           LET old == Len(out.before)
           IN  /\ Len(out.resized) = arg.n
               /\ \A i \in 1 .. arg.n : out.resized[i] = IF i <= old THEN out.before[i] ELSE 0
               /\ \A i \in DOMAIN out.tail : out.tail[i] = out.before[old - Len(out.tail) + i]
               /\ out.longer = out.before \o <<7, 8>> /\ out.plain = out.longer
               /\ \A k \in DOMAIN out.kept : out.kept[k] = Read(Letters(3), arg.kept)

(* The calls that got something, and the sizes a program may rely on: it   *)
(* reserves before it takes, and takes permutations of the size it last    *)
(* reserved.                                                               *)
TakesOf(requests) == {k \in DOMAIN requests : requests[k].call # "reserve"}
ReservedFirst(requests) ==
    \A k \in TakesOf(requests) : \E r \in 1 .. k - 1 :
        /\ requests[r].call = "reserve" /\ requests[r].size = requests[k].size
        /\ \A l \in r + 1 .. k : requests[l].size = requests[k].size

(* A permutation drawn is one, from no more words than were read;          *)
(* whatever the random permutations, a shuffle undone is the column, two   *)
(* parties permute what three do, and what is done with secret             *)
(* permutations is what plain ones do; every column of a table is shuffled *)
(* alike (shuffle.h, permutation.h).  The manager hands out permutations   *)
(* of the size asked for, the two of a pair the same, and none twice, to a *)
(* program that reserves first (permutation_manager.h), and the pool no    *)
(* element twice.                                                          *)
ShufflesPermute ==
    /\ Returned({"gen_perm"}) =>
           /\ out.perm \in Perms3
           /\ out.drawn % arg.buffer = 0 /\ out.drawn > 3
    /\ Returned({"sharded"}) =>
           /\ out.there = Apply(Letters(3), Compose(arg.pi[1], arg.pi[2]))
           /\ out.back = Letters(3)
           /\ out.applied = Apply(Letters(3), arg.sigma)
           /\ out.composed = Compose(arg.sigma, arg.rho)
           /\ out.inverse = Invert(arg.sigma)
           /\ out.reversed = Reversed(out.applied)
           /\ out.arithmetic = arg.sigma
           /\ \A i \in 1 .. 3 : out.columns[1][i] = 10 * out.columns[2][i]
    /\ Returned({"two_party"}) =>
           LET x == OpenedShares([p \in 1 .. 2 |-> CutTo(arg.x[p], arg.m)], arg.m)
           IN  out.there = ApplySharded(x, arg.pi) /\ out.back = x
    /\ Returned({"manager"}) =>
           /\ \A k \in TakesOf(arg.requests) :
                  LET got == out.got[k]
                  IN  /\ ReservedFirst(arg.requests) \/ arg.requests[k].call = "getNext"
                             => \A g \in DOMAIN got : got[g].size = arg.requests[k].size
                      /\ \A g, h \in DOMAIN got : got[g] = got[h]
                      /\ \A l \in TakesOf(arg.requests) : l # k => out.got[l][1].id # got[1].id
    /\ Returned({"pool"}) =>
           \A k, l \in DOMAIN out.got :
               /\ Len(out.got[k]) = IF arg.requests[k].call = "reserve" THEN 0 ELSE arg.requests[k].size
               /\ \A i \in DOMAIN out.got[k], j \in DOMAIN out.got[l] :
                      out.got[k][i] = out.got[l][j] => k = l /\ i = j

(* What vectors show and what shuffles leave: both of the above            *)
(* together (mapping_access_vector.h, shuffle.h, permutation_manager.h).   *)
VectorsAgree == ViewsShow /\ ShufflesPermute
=============================================================================
