---------------------------- MODULE MCProtocols ----------------------------
(***************************************************************************)
(* The four protocols side by side: a behaviour runs a program of         *)
(* primitives under one of them.  Each implements the abstract machine.    *)
(***************************************************************************)
EXTENDS Integers, Sequences, FiniteSets

CONSTANTS Bits, Registers, Inputs, Divisor, MaxPrimitives, BitsOnly, Protocols

VARIABLES
    protocol, view, nonce, opened, call, calls, digest, ok,
    plain      \* what the shares of each register reconstruct to

vars == <<protocol, view, nonce, opened, call, calls, digest, ok, plain>>

(* A generator gives every group words of its own.                         *)
Prg(g, n) ==
    LET tag == (IF 0 \in g THEN 1 ELSE 0) + (IF 1 \in g THEN 2 ELSE 0)
               + (IF 2 \in g THEN 4 ELSE 0) + (IF 3 \in g THEN 7 ELSE 0)
    IN  (5 * n * n + tag * (3 * n + 1) + n \div 2) % 2 ^ Bits

Members(n) == 0 .. n - 1
Locals(n) == {{p} : p \in Members(n)}
AllBut(n) == {Members(n) \ {p} : p \in Members(n)}

TwoGroups == Locals(2) \cup {{0, 1}}
ThreeGroups == Locals(3) \cup AllBut(3)
FourGroups == Locals(4) \cup AllBut(4)

(* The protocols with what is proved about each.                           *)
P2 == INSTANCE Beaver2PC_proofs
          WITH NumParties <- 2, ReplicationNumber <- 1, Groups <- TwoGroups
P3 == INSTANCE Replicated3PC_proofs
          WITH NumParties <- 3, ReplicationNumber <- 2, Groups <- ThreeGroups
P4 == INSTANCE Fantastic4PC_proofs
          WITH NumParties <- 4, ReplicationNumber <- 3, Groups <- FourGroups

(* The protocol with fewer rounds goes by the number 5.                    *)
P5 == INSTANCE Custom4PC_proofs
          WITH NumParties <- 4, ReplicationNumber <- 3, Groups <- FourGroups

ASSUME ProtocolsAssumption ==
    /\ P2!Beaver2PCAssumption /\ P3!Replicated3PCAssumption
    /\ P4!Fantastic4PCAssumption /\ P5!Custom4PCAssumption
    /\ Protocols \subseteq 2 .. 5

Plaintexts ==
    CASE protocol = 2 -> P2!Plaintexts
      [] protocol = 3 -> P3!Plaintexts
      [] protocol = 4 -> P4!Plaintexts
      [] protocol = 5 -> P5!Plaintexts

NoDigest == digest = <<>>
NoCheck == NoDigest /\ ok = TRUE

Init ==
    /\ protocol \in Protocols
    /\ \/ protocol = 2 /\ P2!Init /\ NoCheck
       \/ protocol = 3 /\ P3!Init /\ NoCheck
       \/ protocol = 4 /\ P4!Init
       \/ protocol = 5 /\ P5!Init /\ NoDigest
    /\ plain = Plaintexts

Next ==
    /\ UNCHANGED protocol
    /\ \/ protocol = 2 /\ P2!Next /\ UNCHANGED <<digest, ok>>
       \/ protocol = 3 /\ P3!Next /\ UNCHANGED <<digest, ok>>
       \/ protocol = 4 /\ P4!Next
       \/ protocol = 5 /\ P5!Next /\ UNCHANGED digest
    /\ plain' = Plaintexts'

Spec == Init /\ [][Next]_vars

(* Words, views and generators of the protocol that runs.                  *)
TypeOK ==
    /\ protocol = 2 => P2!SharingTypeOK
    /\ protocol = 3 => P3!SharingTypeOK
    /\ protocol = 4 => P4!TypeOK
    /\ protocol = 5 => P5!TypeOK
    /\ protocol # 4 => NoDigest

(* The copies that parties hold of one share are equal, whatever primitive *)
(* wrote it: a party that took a wrong share would go on unnoticed.        *)
SharesAgree ==
    /\ protocol = 3 => P3!SharesAgree
    /\ protocol = 4 => P4!SharesAgree
    /\ protocol = 5 => P5!SharesAgree

(* The members of a group have drawn the same number of words from their   *)
(* common generator: one word more at one party and nothing that is drawn  *)
(* later agrees.                                                           *)
GeneratorsInStep ==
    /\ protocol = 2 => P2!GeneratorsInStep
    /\ protocol = 3 => P3!GeneratorsInStep
    /\ protocol = 4 => P4!GeneratorsInStep
    /\ protocol = 5 => P5!GeneratorsInStep

(* Between parties that follow a protocol of four parties the digests of   *)
(* the joint messages agree, and so do the words that arrive twice: no     *)
(* comparison stops an honest computation.                                 *)
NoFalseAlarm ==
    /\ protocol = 4 => P4!NoFalseAlarm
    /\ protocol = 5 => P5!NoFalseAlarm

Agreed ==
    CASE protocol = 2 -> P2!Agreed
      [] protocol = 3 -> P3!Agreed
      [] protocol = 4 -> P4!Agreed
      [] protocol = 5 -> P5!Agreed

Ideal == INSTANCE IdealVectors
             WITH value <- plain, opened <- Agreed

(* Every primitive computes on the plaintext what class Protocol says of   *)
(* it, under every protocol.                                               *)
ImplementsIdeal == Ideal!Spec

(* The negation of a boolean vector under the two-party protocol gives the *)
(* last bit the other value, whatever the shares (b_shared_vector.h).      *)
NotConsidersLastBit == P2!NotConsidersLastBit
=============================================================================
