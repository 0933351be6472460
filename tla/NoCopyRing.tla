----------------------------- MODULE NoCopyRing -----------------------------
(***************************************************************************)
(* One NoCopyRing with its two threads: the worker, which pushes pointers  *)
(* to its vectors and waits until they are sent, and the communication     *)
(* thread, which sends what the pointers reach and pops the entries.  The  *)
(* ring carries pointers only, so the worker's memory is part of the       *)
(* state: the bytes on the socket are those the buffer holds at the moment *)
(* each send() copies a part of it.                                        *)
(*                                                                         *)
(* Every access to shared memory is a step of its own: the slot is written *)
(* before the write index moves, and cleared before the read index moves.  *)
(*                                                                         *)
(* pushed, released and onWire are history: the k-th vector pushed has     *)
(* contents k, and Garbage is what a torn or dangling read yields.         *)
(***************************************************************************)
EXTENDS Integers, Sequences

CONSTANTS
    NumSlots,    \* NOCOPY_COMMUNICATOR_RING_SIZE
    Buffers,     \* the worker's vectors
    NoBuffer,    \* nullptr
    Parts,       \* send() calls it takes to send one vector
    Burst,       \* most pushes a call makes on this ring before it waits
    MaxPushes    \* bound: vectors pushed in a behaviour

ASSUME NumSlotsAssumption == NumSlots \in Nat /\ NumSlots > 1
ASSUME BuffersAssumption == NoBuffer \notin Buffers
ASSUME BoundsAssumption ==
    /\ Parts \in Nat \ {0}
    /\ Burst \in Nat \ {0}
    /\ MaxPushes \in Nat

VARIABLES
    writeIndex, readIndex, ring_array,
    memory,        \* contents of each buffer
    wpc,           \* the worker: "push", "publish" or "wait"
    pushIndices,   \* what push returned, for the pushes not yet waited for
    owned,         \* buffers of the running call, untouched until it returns
    pushed, released,
    spc,           \* the communication thread: "scan", "send", "pop", "advance"
    entry,         \* the slot currentEntry returned
    sendBuf,       \* the pointer given to send_wrapper
    partsSent,     \* send() calls made for it
    partsRead,     \* the contents those calls found in the buffer
    onWire

slotVars   == <<writeIndex, readIndex, ring_array>>
pusherVars == <<memory, wpc, pushIndices, owned, pushed, released>>
senderVars == <<spc, entry, sendBuf, partsSent, partsRead, onWire>>
ringVars == <<slotVars, pusherVars, senderVars>>

Slots == 0 .. NumSlots - 1
Garbage == 0

-----------------------------------------------------------------------------
(* Plausible slips in the ring, used to show what each property excludes.  *)

NextIndexNoWrap(i) == i + 1
RingNeverFull == FALSE
CrossedAtOnce(pushIndex) == TRUE
CrossedOnReach(pushIndex) == readIndex = pushIndex
-----------------------------------------------------------------------------

NextIndex(i) == (i + 1) % NumSlots

isRingFull == NextIndex(writeIndex) = readIndex

isRingEmpty == writeIndex = readIndex

(* The test of wait(pushIndex).                                            *)
Crossed(pushIndex) == readIndex = NextIndex(pushIndex)

RingInit ==
    /\ writeIndex = 0 /\ readIndex = 0
    /\ ring_array = [i \in Slots |-> NoBuffer]
    /\ memory = [b \in Buffers |-> Garbage]
    /\ wpc = "push" /\ pushIndices = << >> /\ owned = {}
    /\ pushed = 0 /\ released = 0
    /\ spc = "scan" /\ entry = 0 /\ sendBuf = NoBuffer
    /\ partsSent = 0 /\ partsRead = {} /\ onWire = << >>

-----------------------------------------------------------------------------
(* The worker.                                                             *)

(* push, up to the index update: the vector, filled with its contents by   *)
(* the caller, is entered into the slot at writeIndex.                     *)
PushWrite(b) ==
    /\ wpc = "push" /\ pushed < MaxPushes
    /\ b \notin owned
    /\ ~isRingFull
    /\ memory' = [memory EXCEPT ![b] = pushed + 1]
    /\ ring_array' = [ring_array EXCEPT ![writeIndex] = b]
    /\ owned' = owned \cup {b}
    /\ wpc' = "publish"
    /\ UNCHANGED <<writeIndex, readIndex, pushIndices, pushed, released, senderVars>>

(* push, the index update.  The call pushes again, or starts to wait.      *)
PushPublish ==
    /\ wpc = "publish"
    /\ writeIndex' = NextIndex(writeIndex)
    /\ pushIndices' = Append(pushIndices, writeIndex)
    /\ pushed' = pushed + 1
    /\ \/ wpc' = "wait"
       \/ wpc' = "push" /\ Len(pushIndices) + 1 < Burst /\ pushed + 1 < MaxPushes
    /\ UNCHANGED <<readIndex, ring_array, memory, owned, released, senderVars>>

(* wait, for a push that is not the last of the call.                      *)
WaitNext ==
    /\ wpc = "wait" /\ Len(pushIndices) > 1
    /\ Crossed(Head(pushIndices))
    /\ pushIndices' = Tail(pushIndices)
    /\ UNCHANGED <<slotVars, memory, wpc, owned, pushed, released, senderVars>>

(* wait, for the last push of the call, and the return to the caller.      *)
WaitLast ==
    /\ wpc = "wait" /\ Len(pushIndices) = 1
    /\ Crossed(Head(pushIndices))
    /\ pushIndices' = << >>
    /\ wpc' = "push"
    /\ owned' = {}
    /\ released' = pushed
    /\ UNCHANGED <<slotVars, memory, pushed, senderVars>>

(* A vector is dead or reused once its call has returned.                  *)
Reuse(b) ==
    /\ b \notin owned
    /\ memory[b] # Garbage
    /\ memory' = [memory EXCEPT ![b] = Garbage]
    /\ UNCHANGED <<slotVars, wpc, pushIndices, owned, pushed, released, senderVars>>

Worker ==
    \/ \E b \in Buffers : PushWrite(b) \/ Reuse(b)
    \/ PushPublish
    \/ WaitNext
    \/ WaitLast

-----------------------------------------------------------------------------
(* The communication thread.                                               *)

CurrentEntry ==
    /\ spc = "scan" /\ ~isRingEmpty
    /\ entry' = readIndex
    /\ sendBuf' = ring_array[readIndex]
    /\ partsSent' = 0 /\ partsRead' = {}
    /\ spc' = "send"
    /\ UNCHANGED <<slotVars, pusherVars, onWire>>

Contents(b) == IF b = NoBuffer THEN Garbage ELSE memory[b]

(* One send() of send_wrapper, which copies what the buffer now holds.     *)
SendPart ==
    /\ spc = "send" /\ partsSent + 1 < Parts
    /\ partsSent' = partsSent + 1
    /\ partsRead' = partsRead \cup {Contents(sendBuf)}
    /\ UNCHANGED <<slotVars, pusherVars, spc, entry, sendBuf, onWire>>

(* The last one: the peer now has the vector, torn if its parts differ.    *)
SendLastPart ==
    /\ spc = "send" /\ partsSent + 1 = Parts
    /\ partsSent' = partsSent + 1
    /\ partsRead' = partsRead \cup {Contents(sendBuf)}
    /\ onWire' = Append(onWire, IF partsRead' = {Contents(sendBuf)}
                            THEN Contents(sendBuf) ELSE Garbage)
    /\ spc' = "pop"
    /\ UNCHANGED <<slotVars, pusherVars, entry, sendBuf>>

(* pop throws unless the entry it is given is the current one.             *)
PopClear ==
    /\ spc = "pop" /\ ~isRingEmpty
    /\ entry = readIndex
    /\ ring_array' = [ring_array EXCEPT ![readIndex] = NoBuffer]
    /\ spc' = "advance"
    /\ UNCHANGED <<writeIndex, readIndex, pusherVars, entry, sendBuf, partsSent, partsRead, onWire>>

PopAdvance ==
    /\ spc = "advance"
    /\ readIndex' = NextIndex(readIndex)
    /\ spc' = "scan"
    /\ UNCHANGED <<writeIndex, ring_array, pusherVars, entry, sendBuf, partsSent, partsRead, onWire>>

Sender == CurrentEntry \/ SendPart \/ SendLastPart \/ PopClear \/ PopAdvance

-----------------------------------------------------------------------------

RingNext == Worker \/ Sender

RingSpec == RingInit /\ [][RingNext]_ringVars

(* Both threads spin without ever blocking, so each takes the step it can. *)
RingFairness ==
    /\ WF_ringVars(\E b \in Buffers : PushWrite(b))
    /\ WF_ringVars(PushPublish) /\ WF_ringVars(WaitNext) /\ WF_ringVars(WaitLast)
    /\ WF_ringVars(Sender)

FairRingSpec == RingSpec /\ RingFairness

-----------------------------------------------------------------------------
(* Properties.                                                             *)

RingTypeOK ==
    /\ writeIndex \in Slots /\ readIndex \in Slots /\ entry \in Slots
    /\ ring_array \in [Slots -> Buffers \cup {NoBuffer}]
    /\ memory \in [Buffers -> Nat]
    /\ wpc \in {"push", "publish", "wait"}
    /\ pushIndices \in Seq(Slots)
    /\ owned \in SUBSET Buffers
    /\ pushed \in Nat /\ released \in Nat
    /\ spc \in {"scan", "send", "pop", "advance"}
    /\ sendBuf \in Buffers \cup {NoBuffer}
    /\ partsSent \in 0 .. Parts /\ partsRead \in SUBSET Nat
    /\ onWire \in Seq(Nat)

(* What the peer has received is the vectors in the order they were        *)
(* pushed, none skipped, repeated, torn or overwritten.                    *)
WireInOrder == \A k \in 1 .. Len(onWire) : onWire[k] = k

(* push and the communication thread never touch the same slot: the slot   *)
(* push is filling is not the one being sent and cleared.                  *)
NoSlotRace == wpc = "publish" /\ spc # "scan" => entry # writeIndex

(* pop is always called with the entry at the read index of a ring that    *)
(* is not empty, so it neither spins nor throws.                           *)
PopFindsItsEntry == spc = "pop" => entry = readIndex /\ ~isRingEmpty

(* The distance from slot i back to the read index, and the entries that   *)
(* are published and not popped.                                           *)
Offset(i) == IF i >= readIndex THEN i - readIndex ELSE i - readIndex + NumSlots
Count == Offset(writeIndex)

(* Every published entry still points to a buffer of the running call,     *)
(* which holds the contents it was pushed with.                            *)
Popped == IF spc \in {"pop", "advance"} THEN Len(onWire) - 1 ELSE Len(onWire)
LiveEntriesIntact ==
    \A i \in Slots :
        Offset(i) < Count /\ ~(spc = "advance" /\ i = readIndex) =>
            /\ ring_array[i] \in owned
            /\ memory[ring_array[i]] = Popped + 1 + Offset(i)

(* The ring implements the contract of a send call.                        *)
Promise == INSTANCE SendContract WITH accepted <- pushed, wire <- onWire
ImplementsContract == Promise!Spec

(* Every vector pushed is eventually sent.                                 *)
EveryPushIsSent == \A k \in 1 .. MaxPushes : (pushed >= k) ~> (Len(onWire) >= k)
=============================================================================
