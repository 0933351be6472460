--------------------------- MODULE CommittedSeeds ---------------------------
(***************************************************************************)
(* The queues of committed seeds from which the parties of the malicious   *)
(* protocol draw the seeds of their common generators.  A party commits to *)
(* a batch of seeds at once, and opens them one by one to groups of        *)
(* parties; a party outside of the group drops the commitments it will not *)
(* see opened.  Nothing but the order of these calls keeps the queues of   *)
(* the parties aligned.                                                    *)
(*                                                                         *)
(* The calls are those the program makes on the queue of a thread: the     *)
(* setup opens a seed to every group and to everyone, and each check of    *)
(* the verifier refills the queue if it is low and opens one to every      *)
(* group.  Parties run at their own pace; an exchange is a send to each    *)
(* peer and a receive from each, over channels that keep the order.        *)
(***************************************************************************)
EXTENDS Integers, Sequences, FiniteSets

CONSTANTS
    NumParties,
    BatchSize,    \* DEFAULT_CSQ_BATCH_SIZE
    Threshold,    \* what run_finalize_once keeps in the queue: 16
    Checks        \* bound: checks of the verifier

Parties == 0 .. NumParties - 1

ASSUME PartiesAssumption == NumParties \in Nat /\ NumParties > 2
ASSUME SizesAssumption == BatchSize \in Nat \ {0} /\ Threshold \in Nat /\ Checks \in Nat

(* A batch lasts through the setup, and what a check leaves in the queue   *)
(* lasts until the next one: 2^15 and 16 seeds for the four parties.       *)
ASSUME EnoughAssumption == NumParties <= BatchSize /\ NumParties - 1 <= Threshold

VARIABLES
    at,           \* the call each party is in, counted from 1
    mode,         \* and how far it is in it
    generated,    \* seeds it has generated; the k-th one is named k
    localSeeds,   \* its own seeds, not yet opened
    commitments,  \* commitments[p][q]: what p holds of the commitments of q
    channel,      \* channel[p][q]: messages from p that q has not received
    prg,          \* the generator each of its calls returned
    refilled,     \* what it decided in each check
    failed        \* it has reported an error, and aborted

vars == <<at, mode, generated, localSeeds, commitments, channel, prg, refilled, failed>>

-----------------------------------------------------------------------------
(* Plausible slips, used to show what each property excludes.              *)

AllButLast == [i \in 1 .. NumParties - 1 |-> Parties \ {NumParties - i}]
NothingDropped(queues, group) == queues
NothingTaken(seeds) == seeds
AllGenerated(p) == [k \in 1 .. generated[p] |-> k]
WithoutHashes(p) ==
    /\ mode' = [mode EXCEPT ![p] = "ready"]
    /\ at' = [at EXCEPT ![p] = @ + 1]
LowWhenEmpty(p) == \E q \in Parties \ {p} : commitments[p][q] = << >>
-----------------------------------------------------------------------------
(* The calls.                                                              *)

(* generateGroups for one adversary: all but one party, in order.          *)
GroupList == [i \in 1 .. NumParties |-> Parties \ {NumParties - i}]

Repopulate == [kind |-> "repopulate", group |-> {}]
RefillIfLow == [kind |-> "check", group |-> {}]
OpenTo(g) == [kind |-> "open", group |-> g]

Round == Len(GroupList) + 1    \* calls of a check
Setup == Len(GroupList) + 2    \* calls of the setup

Call(i) ==
    CASE i = 1 -> Repopulate
      [] i \in 2 .. Setup - 1 -> OpenTo(GroupList[i - 1])
      [] i = Setup -> OpenTo(Parties)
      [] OTHER -> LET k == (i - Setup - 1) % Round
                  IN  IF k = 0 THEN RefillIfLow ELSE OpenTo(GroupList[k])

NumCalls == Setup + Checks * Round
Through(p) == at[p] > NumCalls

-----------------------------------------------------------------------------

Init ==
    /\ at = [p \in Parties |-> 1]
    /\ mode = [p \in Parties |-> "ready"]
    /\ generated = [p \in Parties |-> 0]
    /\ localSeeds = [p \in Parties |-> << >>]
    /\ commitments = [p \in Parties |-> [q \in Parties |-> << >>]]
    /\ channel = [p \in Parties |-> [q \in Parties |-> << >>]]
    /\ prg = [p \in Parties |-> [i \in 1 .. NumCalls |-> {}]]
    /\ refilled = [p \in Parties |-> << >>]
    /\ failed = [p \in Parties |-> FALSE]

Running(p, m) == mode[p] = m /\ ~failed[p] /\ ~Through(p)
Goes(p, m) == mode' = [mode EXCEPT ![p] = m]
Returns(p) == Goes(p, "ready") /\ at' = [at EXCEPT ![p] = @ + 1]
Fails(p) == failed' = [failed EXCEPT ![p] = TRUE]

(* exchangeShares: send to each peer, and later receive from each.         *)
SentTo(p, peers, message) ==
    [channel EXCEPT ![p] = [q \in Parties |-> IF q \in peers THEN Append(@[q], message) ELSE @[q]]]
ReceivedFrom(p, peers) ==
    [q \in Parties |-> IF q \in peers THEN [channel[q] EXCEPT ![p] = Tail(@)] ELSE channel[q]]

Arrived(p, peers) == \A q \in peers : channel[q][p] # << >>
Received(p, q) == Head(channel[q][p])
Others(p) == Parties \ {p}

-----------------------------------------------------------------------------
(* repopulateQueue.                                                        *)

Commit(p) ==
    /\ \/ Running(p, "ready") /\ Call(at[p]).kind = "repopulate"
       \/ Running(p, "refill")
    /\ LET batch == [k \in 1 .. BatchSize |-> generated[p] + k]
       IN  channel' = SentTo(p, Others(p), [kind |-> "commitments", body |-> batch])
    /\ generated' = [generated EXCEPT ![p] = @ + BatchSize]
    /\ Goes(p, "committed")
    /\ UNCHANGED <<at, localSeeds, commitments, prg, refilled, failed>>

(* The commitments of the others join their queues, the party's own seeds  *)
(* join its own, and the hashes of the queues are sent to all.             *)
Newest(p) == [k \in 1 .. BatchSize |-> generated[p] - BatchSize + k]
AfterStoring(p) == Goes(p, "stored") /\ UNCHANGED at

StoreCommitments(p) ==
    /\ Running(p, "committed") /\ Arrived(p, Others(p))
    /\ \A q \in Others(p) : Received(p, q).kind = "commitments"
    /\ LET held == [q \in Parties |-> IF q = p THEN << >>
                                      ELSE commitments[p][q] \o Received(p, q).body]
           hashes == [kind |-> "hashes", body |-> [q \in Others(p) |-> held[q]]]
           rest == ReceivedFrom(p, Others(p))
       IN  /\ commitments' = [commitments EXCEPT ![p] = held]
           /\ channel' = [rest EXCEPT ![p] =
                  [q \in Parties |-> IF q = p THEN @[q] ELSE Append(@[q], hashes)]]
    /\ localSeeds' = [localSeeds EXCEPT ![p] = @ \o Newest(p)]
    /\ AfterStoring(p)
    /\ UNCHANGED <<generated, prg, refilled, failed>>

(* verifyCommitmentHashes: each peer holds what this party holds of every  *)
(* third one.                                                              *)
HashesMatch(p) == \A q \in Others(p) :
    /\ Received(p, q).kind = "hashes"
    /\ \A j \in Others(p) \ {q} : Received(p, q).body[j] = commitments[p][j]

VerifyHashes(p) ==
    /\ Running(p, "stored") /\ Arrived(p, Others(p))
    /\ channel' = ReceivedFrom(p, Others(p))
    /\ IF HashesMatch(p)
       THEN Returns(p) /\ UNCHANGED failed
       ELSE Fails(p) /\ UNCHANGED <<at, mode>>
    /\ UNCHANGED <<generated, localSeeds, commitments, prg, refilled>>

-----------------------------------------------------------------------------
(* nextPRGforGroup.                                                        *)

(* A party outside of the group throws the commitments away, if any.       *)
Dropped(queues, group) ==
    [q \in Parties |-> IF q \in group /\ queues[q] # << >> THEN Tail(queues[q]) ELSE queues[q]]

StandAside(p) ==
    /\ Running(p, "ready") /\ Call(at[p]).kind = "open" /\ p \notin Call(at[p]).group
    /\ commitments' = [commitments EXCEPT ![p] = Dropped(@, Call(at[p]).group)]
    /\ Returns(p)
    /\ UNCHANGED <<generated, localSeeds, channel, prg, refilled, failed>>

AfterOpening(seeds) == Tail(seeds)

Open(p) ==
    /\ Running(p, "ready") /\ Call(at[p]).kind = "open" /\ p \in Call(at[p]).group
    /\ IF localSeeds[p] = << >>
       THEN Fails(p) /\ UNCHANGED <<mode, localSeeds, channel, prg>>
       ELSE LET seed == Head(localSeeds[p])
            IN  /\ channel' = SentTo(p, Call(at[p]).group \ {p}, [kind |-> "opening", body |-> seed])
                /\ prg' = [prg EXCEPT ![p][at[p]] = {<<p, seed>>}]
                /\ localSeeds' = [localSeeds EXCEPT ![p] = AfterOpening(@)]
                /\ Goes(p, "opened")
                /\ UNCHANGED failed
    /\ UNCHANGED <<at, generated, commitments, refilled>>

(* Each opening is checked against the first commitment of its sender, and *)
(* the seeds together make the seed of the common generator.               *)
OpeningsMatch(p, peers) == \A q \in peers :
    /\ commitments[p][q] # << >>
    /\ Received(p, q) = [kind |-> "opening", body |-> Head(commitments[p][q])]

VerifyOpenings(p) ==
    /\ Running(p, "opened")
    /\ LET peers == Call(at[p]).group \ {p}
       IN  /\ Arrived(p, peers)
           /\ channel' = ReceivedFrom(p, peers)
           /\ IF OpeningsMatch(p, peers)
              THEN /\ prg' = [prg EXCEPT ![p][at[p]] = @ \cup {<<q, Received(p, q).body>> : q \in peers}]
                   /\ commitments' = [commitments EXCEPT ![p] =
                          [q \in Parties |-> IF q \in peers THEN Tail(@[q]) ELSE @[q]]]
                   /\ Returns(p) /\ UNCHANGED failed
              ELSE Fails(p) /\ UNCHANGED <<at, mode, prg, commitments>>
    /\ UNCHANGED <<generated, localSeeds, refilled>>

-----------------------------------------------------------------------------
(* run_finalize_once: refill the queue if it is low.                       *)

commitmentsAvailable(p) ==
    CHOOSE n \in {Len(commitments[p][q]) : q \in Others(p)} :
        \A q \in Others(p) : n <= Len(commitments[p][q])

Low(p) == commitmentsAvailable(p) < Threshold

Check(p) ==
    /\ Running(p, "ready") /\ Call(at[p]).kind = "check"
    /\ refilled' = [refilled EXCEPT ![p] = Append(@, Low(p))]
    /\ IF Low(p) THEN Goes(p, "refill") /\ UNCHANGED at ELSE Returns(p)
    /\ UNCHANGED <<generated, localSeeds, commitments, channel, prg, failed>>

-----------------------------------------------------------------------------

PartyStep(p) ==
    \/ Commit(p) \/ StoreCommitments(p) \/ VerifyHashes(p)
    \/ StandAside(p) \/ Open(p) \/ VerifyOpenings(p)
    \/ Check(p)

Next == \E p \in Parties : PartyStep(p)

Spec == Init /\ [][Next]_vars

(* Every party is scheduled, and what it sends arrives.                    *)
FairSpec == Spec /\ \A p \in Parties : WF_vars(PartyStep(p))

-----------------------------------------------------------------------------
(* Properties.                                                             *)

TypeOK ==
    /\ at \in [Parties -> 1 .. NumCalls + 1]
    /\ mode \in [Parties -> {"ready", "refill", "committed", "stored", "opened"}]
    /\ generated \in [Parties -> Nat]
    /\ \A p \in Parties : Len(localSeeds[p]) <= generated[p] /\ commitments[p][p] = << >>
    /\ failed \in [Parties -> BOOLEAN]

(* While all are honest no check of the queue fails: every opening meets   *)
(* its commitment at the front of the queue of every member, and whenever  *)
(* the queues are refilled all parties hold the same.                      *)
NoFalseAlarm == \A p \in Parties : ~failed[p]

(* The parties decide alike whether to refill, although each looks at its  *)
(* own queues only (verifier_4pc.h: "this may not be synchronized!").      *)
SameDecisions == \A p, q \in Parties : \A k \in 1 .. Len(refilled[p]) :
    k <= Len(refilled[q]) => refilled[p][k] = refilled[q][k]

(* The members of a group that are through with a call have the same       *)
(* generator, one seed of every member in it, and no seed is used twice.   *)
Finished(p, i) == i < at[p] /\ p \in Call(i).group

CommonGenerators ==
    /\ \A p, q \in Parties : \A i \in 1 .. NumCalls :
          Finished(p, i) /\ Finished(q, i) => prg[p][i] = prg[q][i]
    /\ \A p \in Parties : \A i \in 1 .. NumCalls : Finished(p, i) =>
          {s[1] : s \in prg[p][i]} = Call(i).group
    /\ \A p, q \in Parties : \A i, j \in 1 .. NumCalls : i # j => prg[p][i] \cap prg[q][j] = {}

(* A seed is opened only when every other party holds, or held, its        *)
(* commitment: no party chooses a seed after it saw another.               *)
Stored(p) == Len(localSeeds[p]) + Cardinality({i \in 1 .. NumCalls : prg[p][i] # {}})

CommittedBeforeOpened == \A p, q \in Parties : \A i \in 1 .. NumCalls :
    \A s \in prg[p][i] : s[1] = p => s[2] <= Stored(q)

(* No party is ever short of a seed or of a commitment in the call it is   *)
(* about to make.                                                          *)
NeverDry == \A p \in Parties :
    Running(p, "ready") /\ Call(at[p]).kind = "open" =>
        /\ \A q \in Call(at[p]).group \ {p} : commitments[p][q] # << >>
        /\ p \in Call(at[p]).group => localSeeds[p] # << >>

(* Every party makes all its calls: none waits for an exchange its peers   *)
(* do not take part in.                                                    *)
AllThrough == <>(\A p \in Parties : Through(p))
=============================================================================
