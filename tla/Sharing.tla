------------------------------ MODULE Sharing ------------------------------
(***************************************************************************)
(* What the protocols share (class Protocol and the generators they draw   *)
(* from): the vectors a party holds shares of, the common generators, and  *)
(* the operations that every protocol has.                                 *)
(*                                                                         *)
(* A vector is one word.  A primitive is one step of all the parties: each *)
(* computes from its own view and from what the others send it, and the    *)
(* exchange delivers in order per pair of parties (NoCopyExchange), so the *)
(* order of the parties within a primitive does not show.                  *)
(***************************************************************************)
EXTENDS Words, Sequences, SequencesExt

CONSTANTS
    NumParties,
    ReplicationNumber,
    Prg(_, _),        \* Prg(g, n): word number n of the generator of group g
    Groups,           \* the groups that have a common generator
    Registers,        \* the vectors of the program
    Inputs,           \* the words that are shared
    Divisor,          \* the public constant that vectors are divided by
    MaxPrimitives     \* bound on the primitives of a behaviour

Parties == 0 .. NumParties - 1

SharingAssumption ==
    /\ BitsAssumption
    /\ NumParties \in Nat /\ ReplicationNumber \in 1 .. NumParties
    /\ Groups \subseteq SUBSET Parties /\ \A p \in Parties : {p} \in Groups
    /\ Inputs \subseteq Word
    /\ Divisor \in 1 .. Size \div 2 - 1
    /\ MaxPrimitives \in Nat

VARIABLES
    view,      \* view[r].sh[p][i]: share i of party p in vector r
    nonce,     \* nonce[p][g]: the words party p has drawn from the generator of g
    opened,    \* opened[p]: what the last opening returned to party p
    call,      \* the primitive that was called last, and its arguments
    calls      \* the primitives so far

sharingVars == <<view, nonce, opened, call, calls>>

Index == 0 .. ReplicationNumber - 1
Shares == [Parties -> [Index -> Word]]
Nobody == [p \in Parties |-> [i \in Index |-> 0]]
NotOpened == Size

SharingTypeOK ==
    /\ \A r \in Registers : view[r].enc \in Encodings \cup {"none"} /\ view[r].sh \in Shares
    /\ nonce \in [Parties -> [Groups -> Nat]]
    /\ opened \in [Parties -> Word \cup {NotOpened}]
    /\ calls \in 0 .. MaxPrimitives

SharingInit ==
    /\ view = [r \in Registers |-> [enc |-> "none", sh |-> Nobody]]
    /\ nonce = [p \in Parties |-> [g \in Groups |-> 0]]
    /\ opened = [p \in Parties |-> NotOpened]
    /\ call = <<"none", <<>>>>
    /\ calls = 0

Rank(p, distance) == (p + distance) % NumParties
ShareOf(p, i) == Rank(p, i)
Holders(s) == {p \in Parties : \E i \in Index : ShareOf(p, i) = s}

SumOver(enc, S, f) == FoldFunctionOnSet(LAMBDA a, b : Add(enc, a, b), 0, f, S)
Reconstruct(enc, sh) == SumOver(enc, Parties, [p \in Parties |-> sh[p][0]])

(* Share by share: op on the views of x and y.                             *)
Local(op(_, _), x, y) == [p \in Parties |-> [i \in Index |-> op(x[p][i], y[p][i])]]

(* The k-th word that p draws from group g in this primitive, and the      *)
(* words drawn: n(p, g) of them.                                           *)
Draw(p, g, k) == Prg(g, nonce[p][g] + k)
Drawn(n(_, _)) == nonce' = [p \in Parties |-> [g \in Groups |-> nonce[p][g] + n(p, g)]]
NothingDrawn == UNCHANGED nonce
DrawnBy(S, g, k) ==
    Drawn(LAMBDA p, h : IF p \in S /\ h = g THEN k ELSE 0)

Is(r, enc) == view[r].enc = enc
Call(name, args) == calls < MaxPrimitives /\ calls' = calls + 1 /\ call' = <<name, args>>
Vector(enc, sh) == [enc |-> enc, sh |-> sh]
Write(r, v) == view' = [view EXCEPT ![r] = v] /\ UNCHANGED opened
WriteBoth(r1, v1, r2, v2) ==
    /\ r1 # r2
    /\ view' = [view EXCEPT ![r1] = v1, ![r2] = v2]
    /\ UNCHANGED opened

(* The owner draws all but one share and computes the last; party          *)
(* owner + d gets the shares from number d + first on.                     *)
Dealt(enc, w, owner, first) ==
    LET last == NumParties - 1
        drawn == [k \in 0 .. last - 1 |-> Draw(owner, {owner}, k)]
        share(k) == IF k < last THEN drawn[k] ELSE Sub(enc, w, SumOver(enc, 0 .. last - 1, drawn))
    IN  [p \in Parties |-> [i \in Index |->
            share((((p - owner) % NumParties) + i + first) % NumParties)]]

SecretShare(r, enc, w, owner, first) ==
    /\ Call("share", <<r, enc, w>>)
    /\ Write(r, Vector(enc, Dealt(enc, w, owner, first)))
    /\ DrawnBy({owner}, {owner}, NumParties - 1)

(* Local operations on shares.                                             *)
AddUp(x, y, z, enc) ==
    /\ Is(x, enc) /\ Is(y, enc) /\ Call("add", <<x, y, z, enc>>)
    /\ Write(z, Vector(enc, Local(LAMBDA a, b : Add(enc, a, b), view[x].sh, view[y].sh)))
    /\ NothingDrawn
Subtract(x, y, z, enc) ==
    /\ Is(x, enc) /\ Is(y, enc) /\ Call("sub", <<x, y, z, enc>>)
    /\ Write(z, Vector(enc, Local(LAMBDA a, b : Sub(enc, a, b), view[x].sh, view[y].sh)))
    /\ NothingDrawn
Masked(sh) == [p \in Parties |-> [i \in Index |-> LSB(sh[p][i])]]
Mask(x, z) ==
    /\ Is(x, "B") /\ Call("mask", <<x, z>>)
    /\ Write(z, Vector("B", Masked(view[x].sh)))
    /\ NothingDrawn
LTZ(x, z) ==
    /\ Is(x, "B") /\ Call("ltz", <<x, z>>)
    /\ Write(z, Vector("B", [p \in Parties |-> [i \in Index |-> Sign(view[x].sh[p][i])]]))
    /\ NothingDrawn

(* All the parties learn the sum: each adds its own shares and the one it  *)
(* receives.                                                               *)
Open(x, received(_)) ==
    /\ view[x].enc # "none" /\ Call("open", <<x>>)
    /\ opened' = [p \in Parties |->
           LET own == view[x].sh[p]
           IN  Add(view[x].enc, SumOver(view[x].enc, Index, own), received(p))]
    /\ UNCHANGED view

(* A sharing of zero by three parties: the word shared with the            *)
(* predecessor less the word shared with the successor; k is the number of *)
(* sharings drawn before in the same primitive.                            *)
ZeroShare(enc, p, k) ==
    Sub(enc, Draw(p, {p, Rank(p, -1)}, k), Draw(p, {p, Rank(p, 1)}, k))
ZeroDrawn(p, g, k) == IF g \in {{p, Rank(p, -1)}, {p, Rank(p, 1)}} THEN k ELSE 0

(* The sharing of zero of a group: a word for every share, the last one    *)
(* computed from the others.                                               *)
GroupZero(enc, p, g) ==
    LET last == NumParties - 1
        drawn == [s \in 0 .. last - 1 |-> Draw(p, g, s)]
    IN  [s \in Parties |->
            IF s < last THEN drawn[s] ELSE Sub(enc, 0, SumOver(enc, 0 .. last - 1, drawn))]
Rerandomized(r, g) ==
    [p \in Parties |-> [i \in Index |->
        IF p \in g THEN Add(view[r].enc, view[r].sh[p][i],
                            GroupZero(view[r].enc, p, g)[ShareOf(p, i)])
                   ELSE view[r].sh[p][i]]]

(* Every party computes for itself who is to send which share to whom: the *)
(* lowest member of the group that holds it.                               *)
Canonical(p, i, g) == p \in g /\ ~\E q \in Holders(ShareOf(p, i)) \cap g : q < p
IndexAt(p, s) == CHOOSE i \in Index : ShareOf(p, i) = s
Sends(p, q, g) ==
    {i \in Index : p \in Holders(ShareOf(q, i)) /\ Canonical(p, IndexAt(p, ShareOf(q, i)), g)}
ReceivesFrom(q, i, g) == CHOOSE p \in Holders(ShareOf(q, i)) \cap g :
                             \A o \in Holders(ShareOf(q, i)) \cap g : p <= o

(* What p sends q it sends in the order of q's shares, and q takes what    *)
(* comes from p in the order in which it expects shares from p.            *)
Nth(S, n) == CHOOSE i \in S : Cardinality({j \in S : j <= i}) = n
Reshared(sh, g) ==
    [q \in Parties |-> [i \in Index |->
        IF q \in g THEN sh[q][i]
        ELSE LET p == ReceivesFrom(q, i, g)
                 nth == Cardinality({j \in 0 .. i : ReceivesFrom(q, j, g) = p})
             IN  sh[p][IndexAt(p, ShareOf(q, Nth(Sends(p, q, g), nth)))]]]

(* The copies of a share are equal, and so are the generators of the       *)
(* members of a group.                                                     *)
SharesAgree ==
    \A r \in Registers, p, q \in Parties, i, j \in Index :
        ShareOf(p, i) = ShareOf(q, j) => view[r].sh[p][i] = view[r].sh[q][j]
GeneratorsInStep == \A g \in Groups : \A p, q \in g : nonce[p][g] = nonce[q][g]

(* What the abstract machine sees.                                         *)
Plaintext(r) == [enc |-> view[r].enc,
                 word |-> IF view[r].enc = "none" THEN 0 ELSE Reconstruct(view[r].enc, view[r].sh)]
Plaintexts == [r \in Registers |-> Plaintext(r)]

(* What the parties have opened, if they all have opened the same.         *)
Agreed == IF \A p \in Parties : opened[p] = opened[0] THEN opened[0] ELSE -1

Ideal == INSTANCE IdealVectors WITH value <- Plaintexts, opened <- Agreed

(* Every primitive computes on the plaintext what class Protocol says of   *)
(* it: a share, a mask or a word sent to the wrong party would show here.  *)
ImplementsIdeal == Ideal!Spec
=============================================================================
