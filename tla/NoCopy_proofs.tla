--------------------------- MODULE NoCopy_proofs ---------------------------
(***************************************************************************)
(* Proofs about one ring of the NoCopy communicator, for every ring size,  *)
(* every set of buffers, every number of parts and of pushes per call, and *)
(* about the exchanges that go through all of them, for any number of      *)
(* parties, workers and communication threads, any program and any         *)
(* capacity of the sockets.                                                *)
(*                                                                         *)
(* In the ring, neither WireInOrder nor the contract is inductive: that    *)
(* the vectors leave in order rests on every published slot still reaching *)
(* the vector it was given, which rests on the caller not having returned, *)
(* which rests on the last wait of a call seeing an empty ring.  SlotInv   *)
(* states all of it, one named part each.                                  *)
(*                                                                         *)
(* In the exchange, the unit that comes after unit k of round r on the     *)
(* connection from p to q is After(p, q, r, k).  The inductive invariant   *)
(* says of every socket that its first unit is the one its receiver        *)
(* expects, that each unit is followed by the one after it, and that the   *)
(* last is followed by the one its sender will send next.                  *)
(***************************************************************************)
EXTENDS NoCopyRing, NoCopyExchange, TLAPS, WellFoundedInduction


(* The entries published and not popped are those between the indices.     *)
CountsAgree ==
    /\ pushed = Popped + Count
    /\ released \in 0 .. pushed
    /\ spc \in {"pop", "advance"} => Len(onWire) > 0

(* Between the two steps of a push, the slot at writeIndex is filled and   *)
(* outside the live part of the ring.                                      *)
SlotBeingPushed ==
    wpc = "publish" =>
        /\ ring_array[writeIndex] \in owned
        /\ memory[ring_array[writeIndex]] = pushed + 1
        /\ Count < NumSlots - 1

(* The communication thread works on the entry at the read index and has   *)
(* only read the contents that entry was pushed with.                      *)
SlotBeingSent ==
    /\ spc # "scan" => entry = readIndex /\ Count > 0
    /\ spc = "send" => /\ sendBuf = ring_array[readIndex]
                       /\ partsRead \subseteq {Popped + 1}
                       /\ partsSent < Parts

(* The last index waited for is the one just before the write index.       *)
LastWaitIsForAll ==
    /\ wpc = "wait" => pushIndices # << >>
    /\ pushIndices # << >> =>
           /\ NextIndex(pushIndices[Len(pushIndices)]) = writeIndex
           /\ released < pushed

SlotInv ==
    /\ RingTypeOK
    /\ WireInOrder
    /\ LiveEntriesIntact
    /\ CountsAgree
    /\ SlotBeingPushed
    /\ SlotBeingSent
    /\ LastWaitIsForAll

-----------------------------------------------------------------------------

LEMMA NextIndexCases ==
    ASSUME NEW i \in Slots
    PROVE  /\ NextIndex(i) = IF i = NumSlots - 1 THEN 0 ELSE i + 1
           /\ NextIndex(i) \in Slots
BY NumSlotsAssumption, SMT DEF NextIndex, Slots

(* Offsets number the slots from the read index on.                        *)
LEMMA OffsetFacts ==
    ASSUME RingTypeOK, NEW i \in Slots
    PROVE  /\ Offset(i) \in 0 .. NumSlots - 1
           /\ Offset(i) = 0 <=> i = readIndex
           /\ \A j \in Slots : Offset(i) = Offset(j) => i = j
<1>1. readIndex \in Slots
  BY DEF RingTypeOK
<1> QED
  BY <1>1, NumSlotsAssumption DEF Offset, Slots

(* A ring that is not full has at least one slot beyond the write index.   *)
LEMMA NotFullCount ==
    ASSUME RingTypeOK, ~isRingFull
    PROVE  Count < NumSlots - 1
<1>1. writeIndex \in Slots /\ readIndex \in Slots
  BY DEF RingTypeOK
<1>2. (IF writeIndex = NumSlots - 1 THEN 0 ELSE writeIndex + 1) # readIndex
  BY <1>1, NextIndexCases DEF isRingFull
<1> QED
  BY <1>1, <1>2, NumSlotsAssumption DEF Count, Offset, Slots

LEMMA InitSlotInv == RingInit => SlotInv
<1> SUFFICES ASSUME RingInit PROVE SlotInv
  OBVIOUS
<1>1. 0 \in Slots
  BY NumSlotsAssumption DEF Slots
<1>2. RingTypeOK
  BY <1>1, BoundsAssumption DEF RingInit, RingTypeOK, Garbage
<1>3. Count = 0 /\ Popped = 0
  BY <1>1, NumSlotsAssumption DEF RingInit, Count, Offset, Popped, Slots
<1>4. LiveEntriesIntact
  BY <1>1, <1>3, NumSlotsAssumption DEF LiveEntriesIntact, RingInit, Offset, Slots
<1> QED
  BY <1>2, <1>3, <1>4 DEF SlotInv, RingInit, WireInOrder, CountsAgree, SlotBeingPushed,
     SlotBeingSent, LastWaitIsForAll

LEMMA NextTypeOK == RingTypeOK /\ [RingNext]_ringVars => RingTypeOK'
<1> SUFFICES ASSUME RingTypeOK, [RingNext]_ringVars PROVE RingTypeOK'
  OBVIOUS
<1> USE DEF RingTypeOK
<1>1. ASSUME NEW b \in Buffers, PushWrite(b) PROVE RingTypeOK'
  BY <1>1 DEF PushWrite, senderVars
<1>2. ASSUME NEW b \in Buffers, Reuse(b) PROVE RingTypeOK'
  BY <1>2 DEF Reuse, slotVars, senderVars, Garbage
<1>3. CASE PushPublish
  BY <1>3, NextIndexCases DEF PushPublish, senderVars
<1>4. CASE WaitNext
  BY <1>4 DEF WaitNext, slotVars, senderVars
<1>5. CASE WaitLast
  BY <1>5 DEF WaitLast, slotVars, senderVars
<1>6. CASE CurrentEntry
  BY <1>6, BoundsAssumption DEF CurrentEntry, slotVars, pusherVars
<1>7. CASE SendPart
  <2>1. Contents(sendBuf) \in Nat
    BY DEF Contents, Garbage
  <2>2. partsRead' \in SUBSET Nat
    BY <1>7, <2>1 DEF SendPart
  <2>3. partsSent' \in 0 .. Parts
    BY <1>7, BoundsAssumption DEF SendPart
  <2> QED
    BY <1>7, <2>2, <2>3 DEF SendPart, slotVars, pusherVars
<1>8. CASE SendLastPart
  <2>1. Contents(sendBuf) \in Nat
    BY DEF Contents, Garbage
  <2>2. onWire' \in Seq(Nat)
    BY <1>8, <2>1 DEF SendLastPart, Garbage
  <2>3. partsRead' \in SUBSET Nat
    BY <1>8, <2>1 DEF SendLastPart
  <2>4. partsSent' \in 0 .. Parts
    BY <1>8, BoundsAssumption DEF SendLastPart
  <2> QED
    BY <1>8, <2>2, <2>3, <2>4 DEF SendLastPart, slotVars, pusherVars
<1>9. CASE PopClear
  BY <1>9 DEF PopClear, pusherVars
<1>10. CASE PopAdvance
  BY <1>10, NextIndexCases DEF PopAdvance, pusherVars
<1>11. CASE UNCHANGED ringVars
  BY <1>11 DEF ringVars, slotVars, pusherVars, senderVars
<1> QED
  BY <1>1, <1>2, <1>3, <1>4, <1>5, <1>6, <1>7, <1>8, <1>9, <1>10, <1>11
     DEF RingNext, Worker, Sender

(* Every reachable state is well typed.                                    *)
THEOREM RingTypeCorrect == RingSpec => []RingTypeOK
<1>1. RingInit => RingTypeOK
  BY InitSlotInv DEF SlotInv
<1> QED
  BY <1>1, NextTypeOK, PTL DEF RingSpec

-----------------------------------------------------------------------------
(* The worker's steps.                                                     *)

LEMMA PushWriteSlotInv ==
    ASSUME SlotInv, RingTypeOK', NEW b \in Buffers, PushWrite(b)
    PROVE  SlotInv'
<1> USE DEF SlotInv
<1>1. Count' = Count /\ Popped' = Popped /\ \A i \in Slots : Offset(i)' = Offset(i)
  BY DEF PushWrite, senderVars, Count, Offset, Popped
<1>2. Count < NumSlots - 1
  BY NotFullCount DEF PushWrite
<1>3. Offset(writeIndex) = Count /\ Count \in Nat
  BY OffsetFacts DEF Count, RingTypeOK
<1>4. LiveEntriesIntact'
  <2> SUFFICES ASSUME NEW i \in Slots, Offset(i) < Count, ~(spc = "advance" /\ i = readIndex)
               PROVE  /\ ring_array'[i] \in owned'
                      /\ memory'[ring_array'[i]] = Popped + 1 + Offset(i)
    BY <1>1 DEF LiveEntriesIntact, PushWrite, senderVars
  <2>1. i # writeIndex
    BY <1>3
  <2>2. ring_array'[i] = ring_array[i]
    BY <2>1 DEF PushWrite, RingTypeOK
  <2>3. ring_array[i] \in owned /\ memory[ring_array[i]] = Popped + 1 + Offset(i)
    BY DEF LiveEntriesIntact
  <2>4. memory'[ring_array[i]] = memory[ring_array[i]] /\ ring_array[i] \in owned'
    BY <2>3 DEF PushWrite, RingTypeOK
  <2> QED
    BY <2>2, <2>3, <2>4
<1>5. SlotBeingPushed'
  BY <1>1, <1>2 DEF SlotBeingPushed, PushWrite, RingTypeOK
<1>6. SlotBeingSent'
  <2>1. Count > 0 => ring_array'[readIndex] = ring_array[readIndex]
    BY NumSlotsAssumption DEF PushWrite, RingTypeOK, Count, Offset, Slots
  <2> QED
    BY <1>1, <2>1 DEF SlotBeingSent, PushWrite, senderVars
<1>7. LastWaitIsForAll'
  BY NextIndexCases DEF LastWaitIsForAll, PushWrite, NextIndex
<1>8. WireInOrder' /\ CountsAgree'
  BY <1>1 DEF WireInOrder, CountsAgree, PushWrite, senderVars
<1> QED
  BY <1>4, <1>5, <1>6, <1>7, <1>8

LEMMA PushPublishSlotInv ==
    ASSUME SlotInv, RingTypeOK', PushPublish
    PROVE  SlotInv'
<1> USE DEF SlotInv
<1>1. writeIndex \in Slots /\ readIndex \in Slots /\ pushed \in Nat /\ Len(onWire) \in Nat
  BY DEF RingTypeOK
<1>2. /\ writeIndex' = IF writeIndex = NumSlots - 1 THEN 0 ELSE writeIndex + 1
      /\ Count < NumSlots - 1
  BY <1>1, NextIndexCases DEF PushPublish, SlotBeingPushed
<1>3. Popped' = Popped /\ readIndex' = readIndex /\ \A i \in Slots : Offset(i)' = Offset(i)
  BY DEF PushPublish, senderVars, Offset, Popped
<1>4. Count' = Count + 1 /\ Count \in Nat
  BY <1>1, <1>2, <1>3, NumSlotsAssumption DEF Count, Offset, Slots
<1>5. CountsAgree'
  <2>1. pushed = Popped + Count /\ Popped \in Int /\ released \in 0 .. pushed
    BY <1>1 DEF CountsAgree, Popped
  <2> QED
    BY <1>1, <1>3, <1>4, <2>1 DEF CountsAgree, PushPublish, senderVars
<1>6. LiveEntriesIntact'
  <2> SUFFICES ASSUME NEW i \in Slots, Offset(i) < Count + 1, ~(spc = "advance" /\ i = readIndex)
               PROVE  /\ ring_array[i] \in owned
                      /\ memory[ring_array[i]] = Popped + 1 + Offset(i)
    BY <1>3, <1>4 DEF LiveEntriesIntact, PushPublish, senderVars
  <2>1. CASE Offset(i) < Count
    BY <2>1 DEF LiveEntriesIntact
  <2>2. CASE Offset(i) = Count
    <3>1. i = writeIndex
      BY <1>1, <2>2, OffsetFacts DEF Count
    <3>2. pushed + 1 = Popped + 1 + Count
      BY <1>1, <1>4 DEF CountsAgree, Popped
    <3> QED
      BY <2>2, <3>1, <3>2 DEF SlotBeingPushed, PushPublish
  <2>3. Offset(i) \in Nat
    BY OffsetFacts
  <2> QED
    BY <1>4, <2>1, <2>2, <2>3
<1>7. SlotBeingSent'
  BY <1>3, <1>4 DEF SlotBeingSent, PushPublish, senderVars
<1>8. LastWaitIsForAll'
  <2>1. /\ pushIndices' # << >>
        /\ pushIndices'[Len(pushIndices')] = writeIndex
    <3>1. pushIndices \in Seq(Slots) /\ writeIndex \in Slots
      BY DEF RingTypeOK
    <3> QED
      BY <3>1 DEF PushPublish
  <2>2. released' < pushed'
    BY <1>1 DEF PushPublish, CountsAgree
  <2>3. NextIndex(writeIndex) = writeIndex'
    BY DEF PushPublish
  <2> QED
    BY <2>1, <2>2, <2>3 DEF LastWaitIsForAll, NextIndex
<1>9. WireInOrder' /\ SlotBeingPushed'
  BY DEF WireInOrder, SlotBeingPushed, PushPublish, senderVars
<1> QED
  BY <1>5, <1>6, <1>7, <1>8, <1>9

(* The first of several waits returns.                                     *)
LEMMA WaitNextSlotInv ==
    ASSUME SlotInv, RingTypeOK', WaitNext
    PROVE  SlotInv'
<1> USE DEF SlotInv
<1>1. UNCHANGED <<slotVars, memory, wpc, owned, pushed, released, senderVars>>
  BY DEF WaitNext
<1>2. Count' = Count /\ Popped' = Popped /\ \A i \in Slots : Offset(i)' = Offset(i)
  BY <1>1 DEF slotVars, senderVars, Count, Offset, Popped
<1>3. LastWaitIsForAll'
  <2>1. pushIndices \in Seq(Slots) /\ Len(pushIndices) > 1 /\ pushIndices' = Tail(pushIndices)
    BY DEF WaitNext, RingTypeOK
  <2>2. /\ pushIndices' # << >>
        /\ pushIndices'[Len(pushIndices')] = pushIndices[Len(pushIndices)]
    BY <2>1
  <2> QED
    BY <1>1, <2>1, <2>2 DEF LastWaitIsForAll, slotVars, NextIndex
<1>4. LiveEntriesIntact' /\ CountsAgree' /\ SlotBeingPushed' /\ SlotBeingSent' /\ WireInOrder'
  BY <1>1, <1>2 DEF LiveEntriesIntact, CountsAgree, SlotBeingPushed, SlotBeingSent,
     WireInOrder, slotVars, senderVars
<1> QED
  BY <1>3, <1>4

(* The last wait of a call returns only when the ring is empty and all     *)
(* that was pushed has left.                                               *)
LEMMA WaitLastMeansSent ==
    ASSUME SlotInv, WaitLast
    PROVE  Count = 0 /\ spc = "scan" /\ Len(onWire) = pushed
<1>1. readIndex = writeIndex
  BY DEF SlotInv, LastWaitIsForAll, WaitLast, Crossed, RingTypeOK
<1>2. Count = 0 /\ spc = "scan"
  BY <1>1, OffsetFacts DEF SlotInv, RingTypeOK, Count, SlotBeingSent
<1>3. pushed = Len(onWire) + 0
  BY <1>2 DEF SlotInv, CountsAgree, Popped
<1> QED
  BY <1>2, <1>3 DEF SlotInv, RingTypeOK

LEMMA WaitLastSlotInv ==
    ASSUME SlotInv, RingTypeOK', WaitLast
    PROVE  SlotInv'
<1>1. UNCHANGED <<slotVars, memory, pushed, senderVars>>
  BY DEF WaitLast
<1>2. Count' = Count /\ Popped' = Popped /\ \A i \in Slots : Offset(i)' = Offset(i)
  BY <1>1 DEF slotVars, senderVars, Count, Offset, Popped
<1>3. LiveEntriesIntact'
  BY <1>2, WaitLastMeansSent, OffsetFacts DEF LiveEntriesIntact, SlotInv
<1>4. CountsAgree'
  BY <1>1, <1>2 DEF SlotInv, CountsAgree, WaitLast, senderVars, RingTypeOK
<1>5. SlotBeingPushed' /\ LastWaitIsForAll'
  BY DEF WaitLast, SlotBeingPushed, LastWaitIsForAll
<1>6. SlotBeingSent' /\ WireInOrder'
  BY <1>1, <1>2 DEF SlotInv, SlotBeingSent, WireInOrder, slotVars, senderVars
<1> QED
  BY <1>3, <1>4, <1>5, <1>6 DEF SlotInv

LEMMA ReuseSlotInv ==
    ASSUME SlotInv, RingTypeOK', NEW b \in Buffers, Reuse(b)
    PROVE  SlotInv'
<1> USE DEF SlotInv
<1>1. UNCHANGED <<slotVars, wpc, pushIndices, owned, pushed, released, senderVars>>
  BY DEF Reuse
<1>2. Count' = Count /\ Popped' = Popped /\ \A i \in Slots : Offset(i)' = Offset(i)
  BY <1>1 DEF slotVars, senderVars, Count, Offset, Popped
<1>3. \A c \in owned : memory'[c] = memory[c]
  BY DEF Reuse, RingTypeOK
<1>4. LiveEntriesIntact' /\ SlotBeingPushed'
  BY <1>1, <1>2, <1>3 DEF LiveEntriesIntact, SlotBeingPushed, slotVars, senderVars
<1>5. CountsAgree' /\ SlotBeingSent' /\ WireInOrder' /\ LastWaitIsForAll'
  BY <1>1, <1>2 DEF CountsAgree, SlotBeingSent, WireInOrder, LastWaitIsForAll, NextIndex,
     slotVars, senderVars
<1> QED
  BY <1>4, <1>5

-----------------------------------------------------------------------------
(* The communication thread's steps.                                       *)

LEMMA CurrentEntrySlotInv ==
    ASSUME SlotInv, RingTypeOK', CurrentEntry
    PROVE  SlotInv'
<1> USE DEF SlotInv
<1>1. UNCHANGED <<slotVars, pusherVars, onWire>> /\ spc = "scan" /\ spc' = "send"
  BY DEF CurrentEntry
<1>2. Count' = Count /\ Popped' = Popped /\ \A i \in Slots : Offset(i)' = Offset(i)
  BY <1>1 DEF slotVars, Count, Offset, Popped
<1>3. Count > 0
  BY OffsetFacts DEF CurrentEntry, isRingEmpty, Count, RingTypeOK
<1>4. SlotBeingSent'
  BY <1>1, <1>2, <1>3, BoundsAssumption DEF SlotBeingSent, CurrentEntry, slotVars
<1>5. LiveEntriesIntact' /\ CountsAgree' /\ SlotBeingPushed' /\ WireInOrder' /\ LastWaitIsForAll'
  BY <1>1, <1>2 DEF LiveEntriesIntact, CountsAgree, SlotBeingPushed, WireInOrder,
     LastWaitIsForAll, NextIndex, slotVars, pusherVars
<1> QED
  BY <1>4, <1>5

(* While an entry is being sent, its buffer holds what was pushed.         *)
LEMMA SendReadsThePush ==
    ASSUME SlotInv, spc = "send"
    PROVE  Contents(sendBuf) = Popped + 1
<1>1. Count > 0 /\ sendBuf = ring_array[readIndex] /\ readIndex \in Slots
  BY DEF SlotInv, SlotBeingSent, RingTypeOK
<1>2. Offset(readIndex) = 0
  BY <1>1, OffsetFacts DEF SlotInv
<1>3. sendBuf \in owned /\ memory[sendBuf] = Popped + 1 + 0
  BY <1>1, <1>2 DEF SlotInv, LiveEntriesIntact
<1>4. Popped \in Int
  BY DEF Popped, SlotInv, RingTypeOK
<1> QED
  BY <1>3, <1>4, BuffersAssumption DEF Contents, SlotInv, RingTypeOK

LEMMA SendPartSlotInv ==
    ASSUME SlotInv, RingTypeOK', SendPart
    PROVE  SlotInv'
<1> USE DEF SlotInv
<1>1. UNCHANGED <<slotVars, pusherVars, spc, entry, sendBuf, onWire>> /\ spc = "send"
  BY DEF SendPart
<1>2. Count' = Count /\ Popped' = Popped /\ \A i \in Slots : Offset(i)' = Offset(i)
  BY <1>1 DEF slotVars, Count, Offset, Popped
<1>3. SlotBeingSent'
  <2>1. partsRead' \subseteq {Popped + 1}
    BY <1>1, SendReadsThePush DEF SendPart, SlotBeingSent
  <2>2. partsSent' < Parts
    BY DEF SendPart
  <2> QED
    BY <1>1, <1>2, <2>1, <2>2 DEF SlotBeingSent, slotVars
<1>4. LiveEntriesIntact' /\ CountsAgree' /\ SlotBeingPushed' /\ WireInOrder' /\ LastWaitIsForAll'
  BY <1>1, <1>2 DEF LiveEntriesIntact, CountsAgree, SlotBeingPushed, WireInOrder,
     LastWaitIsForAll, NextIndex, slotVars, pusherVars
<1> QED
  BY <1>3, <1>4

(* What the last part completes is the next vector in order, whole.        *)
LEMMA SendLastPartAppends ==
    ASSUME SlotInv, SendLastPart
    PROVE  onWire' = Append(onWire, Len(onWire) + 1) /\ Len(onWire) < pushed
<1>1. spc = "send" /\ Popped = Len(onWire)
  BY DEF SendLastPart, Popped
<1>2. Contents(sendBuf) = Len(onWire) + 1
  BY <1>1, SendReadsThePush
<1>3. partsRead' = {Contents(sendBuf)}
  BY <1>1, <1>2 DEF SendLastPart, SlotInv, SlotBeingSent
<1>4. Len(onWire) < pushed
  <2>1. Count > 0 /\ pushed = Len(onWire) + Count /\ Count \in Nat
    BY <1>1, OffsetFacts DEF SlotInv, SlotBeingSent, CountsAgree, Count, RingTypeOK
  <2> QED
    BY <2>1 DEF SlotInv, RingTypeOK
<1> QED
  BY <1>2, <1>3, <1>4 DEF SendLastPart

LEMMA SendLastPartSlotInv ==
    ASSUME SlotInv, RingTypeOK', SendLastPart
    PROVE  SlotInv'
<1> USE DEF SlotInv
<1>1. /\ UNCHANGED <<slotVars, pusherVars, entry, sendBuf>>
      /\ spc = "send" /\ spc' = "pop"
  BY DEF SendLastPart
<1>2. onWire \in Seq(Nat) /\ onWire' = Append(onWire, Len(onWire) + 1)
  BY SendLastPartAppends DEF RingTypeOK
<1>3. Len(onWire') = Len(onWire) + 1 /\ Len(onWire) \in Nat
  BY <1>2
<1>4. Count' = Count /\ Popped' = Popped /\ \A i \in Slots : Offset(i)' = Offset(i)
  BY <1>1, <1>3 DEF slotVars, Count, Offset, Popped
<1>5. WireInOrder'
  BY <1>2 DEF WireInOrder
<1>6. CountsAgree'
  BY <1>1, <1>3, <1>4 DEF CountsAgree, pusherVars
<1>7. LiveEntriesIntact' /\ SlotBeingPushed' /\ SlotBeingSent' /\ LastWaitIsForAll'
  BY <1>1, <1>4 DEF LiveEntriesIntact, SlotBeingPushed, SlotBeingSent,
     LastWaitIsForAll, NextIndex, slotVars, pusherVars
<1> QED
  BY <1>5, <1>6, <1>7

LEMMA PopClearSlotInv ==
    ASSUME SlotInv, RingTypeOK', PopClear
    PROVE  SlotInv'
<1> USE DEF SlotInv
<1>1. /\ UNCHANGED <<writeIndex, readIndex, pusherVars, entry, sendBuf, partsSent, partsRead, onWire>>
      /\ spc = "pop" /\ spc' = "advance"
  BY DEF PopClear
<1>2. Count' = Count /\ Popped' = Popped /\ \A i \in Slots : Offset(i)' = Offset(i)
  BY <1>1 DEF Count, Offset, Popped
<1>3. \A i \in Slots : i # readIndex => ring_array'[i] = ring_array[i]
  BY DEF PopClear, RingTypeOK
<1>4. LiveEntriesIntact'
  BY <1>1, <1>2, <1>3 DEF LiveEntriesIntact, pusherVars
<1>5. SlotBeingPushed'
  <2>1. writeIndex # readIndex
    BY DEF PopClear, isRingEmpty
  <2> QED
    BY <1>1, <1>2, <1>3, <2>1 DEF SlotBeingPushed, pusherVars, RingTypeOK
<1>6. CountsAgree' /\ SlotBeingSent' /\ WireInOrder' /\ LastWaitIsForAll'
  BY <1>1, <1>2 DEF CountsAgree, SlotBeingSent, WireInOrder, LastWaitIsForAll, NextIndex, pusherVars
<1> QED
  BY <1>4, <1>5, <1>6

LEMMA PopAdvanceSlotInv ==
    ASSUME SlotInv, RingTypeOK', PopAdvance
    PROVE  SlotInv'
<1> USE DEF SlotInv
<1>1. /\ UNCHANGED <<writeIndex, ring_array, pusherVars, entry, sendBuf, partsSent, partsRead, onWire>>
      /\ spc = "advance" /\ spc' = "scan"
  BY DEF PopAdvance
<1>2. writeIndex \in Slots /\ readIndex \in Slots /\ Len(onWire) \in Nat
  BY DEF RingTypeOK
<1>3. readIndex' = IF readIndex = NumSlots - 1 THEN 0 ELSE readIndex + 1
  BY <1>2, NextIndexCases DEF PopAdvance
<1>4. Count > 0 /\ entry = readIndex
  BY <1>1 DEF SlotBeingSent
<1>5. Popped' = Popped + 1 /\ Popped \in Int
  BY <1>1, <1>2 DEF Popped
<1>6. \A i \in Slots :
         Offset(i)' = IF i = readIndex THEN NumSlots - 1 ELSE Offset(i) - 1
  BY <1>2, <1>3, NumSlotsAssumption DEF Offset, Slots
<1>7. writeIndex # readIndex
  BY <1>2, <1>4, OffsetFacts DEF Count
<1>8. Count' = Count - 1 /\ Count \in 0 .. NumSlots - 1
  BY <1>1, <1>2, <1>6, <1>7, OffsetFacts DEF Count
<1>9. CountsAgree'
  BY <1>1, <1>2, <1>5, <1>8 DEF CountsAgree, pusherVars
<1>10. LiveEntriesIntact'
  <2> SUFFICES ASSUME NEW i \in Slots, Offset(i)' < Count'
               PROVE  ring_array[i] \in owned /\ memory[ring_array[i]] = Popped' + 1 + Offset(i)'
    BY <1>1 DEF LiveEntriesIntact, pusherVars
  <2>1. i # readIndex
    BY <1>6, <1>8, NumSlotsAssumption
  <2>2. Offset(i)' = Offset(i) - 1 /\ Offset(i) \in Nat
    BY <1>6, <2>1, OffsetFacts
  <2>3. Offset(i) < Count
    BY <1>8, <2>2
  <2> QED
    BY <1>5, <2>1, <2>2, <2>3 DEF LiveEntriesIntact
<1>11. SlotBeingPushed'
  BY <1>1, <1>8, NumSlotsAssumption DEF SlotBeingPushed, pusherVars
<1>12. SlotBeingSent' /\ WireInOrder' /\ LastWaitIsForAll'
  BY <1>1 DEF SlotBeingSent, WireInOrder, LastWaitIsForAll, NextIndex, pusherVars
<1> QED
  BY <1>9, <1>10, <1>11, <1>12

-----------------------------------------------------------------------------
(* The theorems.                                                           *)

LEMMA NextSlotInv == SlotInv /\ [RingNext]_ringVars => SlotInv'
<1> SUFFICES ASSUME SlotInv, [RingNext]_ringVars PROVE SlotInv'
  OBVIOUS
<1>1. RingTypeOK'
  BY NextTypeOK DEF SlotInv
<1>2. ASSUME NEW b \in Buffers, PushWrite(b) PROVE SlotInv'
  BY <1>1, <1>2, PushWriteSlotInv
<1>3. ASSUME NEW b \in Buffers, Reuse(b) PROVE SlotInv'
  BY <1>1, <1>3, ReuseSlotInv
<1>4. CASE PushPublish
  BY <1>1, <1>4, PushPublishSlotInv
<1>5. CASE WaitNext
  BY <1>1, <1>5, WaitNextSlotInv
<1>6. CASE WaitLast
  BY <1>1, <1>6, WaitLastSlotInv
<1>7. CASE CurrentEntry
  BY <1>1, <1>7, CurrentEntrySlotInv
<1>8. CASE SendPart
  BY <1>1, <1>8, SendPartSlotInv
<1>9. CASE SendLastPart
  BY <1>1, <1>9, SendLastPartSlotInv
<1>10. CASE PopClear
  BY <1>1, <1>10, PopClearSlotInv
<1>11. CASE PopAdvance
  BY <1>1, <1>11, PopAdvanceSlotInv
<1>12. CASE UNCHANGED ringVars
  BY <1>12 DEF ringVars, slotVars, pusherVars, senderVars, SlotInv, RingTypeOK, WireInOrder,
     LiveEntriesIntact, CountsAgree, SlotBeingPushed, SlotBeingSent, LastWaitIsForAll,
     Count, Offset, Popped, NextIndex
<1> QED
  BY <1>2, <1>3, <1>4, <1>5, <1>6, <1>7, <1>8, <1>9, <1>10, <1>11, <1>12
     DEF RingNext, Worker, Sender

(* SlotInv holds throughout.                                               *)
THEOREM RingInvariant == RingSpec => []SlotInv
BY InitSlotInv, NextSlotInv, PTL DEF RingSpec

(* The peer receives the vectors in the order they were pushed, whole and  *)
(* unaltered (WireInOrder), whatever the worker does with its vectors once *)
(* a call has returned.                                                    *)
THEOREM DeliveredInOrder == RingSpec => []WireInOrder
<1>1. SlotInv => WireInOrder
  BY DEF SlotInv
<1> QED
  BY <1>1, RingInvariant, PTL

(* The two threads never work on the same slot (NoSlotRace).               *)
THEOREM SlotRaceFree == RingSpec => []NoSlotRace
<1>1. SlotInv => NoSlotRace
  <2> SUFFICES ASSUME SlotInv, spc # "scan" PROVE entry # writeIndex
    BY DEF NoSlotRace
  <2> QED
    BY OffsetFacts DEF SlotInv, SlotBeingSent, Count, RingTypeOK
<1> QED
  BY <1>1, RingInvariant, PTL

(* pop neither throws nor spins (PopFindsItsEntry).                        *)
THEOREM PopIsSafe == RingSpec => []PopFindsItsEntry
<1>1. SlotInv => PopFindsItsEntry
  <2> SUFFICES ASSUME SlotInv, spc = "pop" PROVE entry = readIndex /\ ~isRingEmpty
    BY DEF PopFindsItsEntry
  <2> QED
    BY OffsetFacts DEF SlotInv, SlotBeingSent, Count, RingTypeOK, isRingEmpty
<1> QED
  BY <1>1, RingInvariant, PTL

(* Every published entry still reaches an unaltered vector of the running  *)
(* call (LiveEntriesIntact): a call does not return while the ring holds   *)
(* one of its pointers.                                                    *)
THEOREM NoDanglingEntry == RingSpec => []LiveEntriesIntact
<1>1. SlotInv => LiveEntriesIntact
  BY DEF SlotInv
<1> QED
  BY <1>1, RingInvariant, PTL

(* The ring and its two threads implement the contract of a send call.     *)
THEOREM RingImplementsContract == RingSpec => ImplementsContract
<1>1. RingInit => Promise!Init
  BY DEF RingInit, Promise!Init
<1>2. SlotInv /\ [RingNext]_ringVars => [Promise!Next]_(Promise!vars)
  <2> SUFFICES ASSUME SlotInv, [RingNext]_ringVars
               PROVE  Promise!Next \/ UNCHANGED <<pushed, onWire, released>>
    BY DEF Promise!vars
  <2>1. ASSUME NEW b \in Buffers, PushWrite(b) \/ Reuse(b)
        PROVE  UNCHANGED <<pushed, onWire, released>>
    BY <2>1 DEF PushWrite, Reuse, senderVars
  <2>2. CASE PushPublish
    BY <2>2 DEF PushPublish, senderVars, Promise!Next, Promise!Accept
  <2>3. CASE WaitNext
    BY <2>3 DEF WaitNext, senderVars
  <2>4. CASE WaitLast
    <3>1. Len(onWire) = pushed
      BY <2>4, WaitLastMeansSent
    <3>2. released < pushed /\ released \in Nat /\ pushed \in Nat
      BY <2>4 DEF SlotInv, LastWaitIsForAll, WaitLast, RingTypeOK
    <3>3. released' \in (released + 1) .. Len(onWire)
      BY <2>4, <3>1, <3>2 DEF WaitLast
    <3> QED
      BY <2>4, <3>3 DEF WaitLast, senderVars, Promise!Next, Promise!Release
  <2>5. CASE CurrentEntry \/ SendPart \/ PopClear \/ PopAdvance
    BY <2>5 DEF CurrentEntry, SendPart, PopClear, PopAdvance, pusherVars
  <2>6. CASE SendLastPart
    BY <2>6, SendLastPartAppends DEF SendLastPart, pusherVars, Promise!Next, Promise!Transmit
  <2>7. CASE UNCHANGED ringVars
    BY <2>7 DEF ringVars, pusherVars, senderVars
  <2> QED
    BY <2>1, <2>2, <2>3, <2>4, <2>5, <2>6, <2>7 DEF RingNext, Worker, Sender
<1> QED
  BY <1>1, <1>2, RingInvariant, PTL DEF RingSpec, ImplementsContract, Promise!Spec

-----------------------------------------------------------------------------
(* The exchanges.                                                          *)

EdgeAt(p, q, r) == r \in 1 .. NumRounds /\ <<p, q>> \in Rounds[r].edges

RoundsFrom(p, q, r) == {x \in r .. NumRounds : EdgeAt(p, q, x)} \cup {NumRounds + 1}
FirstFrom(p, q, r) == Smallest(RoundsFrom(p, q, r))

After(p, q, r, k) ==
    IF EdgeAt(p, q, r) /\ k < Rounds[r].size THEN <<r, k + 1>>
    ELSE <<FirstFrom(p, q, r + 1), 1>>

Server(w) == w % NumCommThreads

(* Units of its round that worker w of p has put in the socket to q, and   *)
(* has read from the socket of s.                                          *)
HasSent(p, w, q) ==
    IF q \in toPush[p][w] THEN 0
    ELSE IF ring[p][w][q] = << >> THEN Rounds[round[p][w]].size
    ELSE IF /\ mode[p][Server(w)] = "sending"
            /\ serving[p][Server(w)] = w /\ peer[p][Server(w)] = q
         THEN sent[p][Server(w)]
         ELSE 0

HasGot(p, w, s) ==
    IF s \notin toRecv[p][w] THEN Rounds[round[p][w]].size
    ELSE IF s = NextSource(p, toRecv[p][w]) THEN Len(got[p][w])
    ELSE 0

NextSent(p, w, q) == After(p, q, round[p][w], HasSent(p, w, q))
NextGot(p, w, s)  == After(s, p, round[p][w], HasGot(p, w, s))

Units == Nat \X Nat

TypeInv ==
    /\ round \in [Parties -> [Workers -> 1 .. NumRounds + 1]]
    /\ toPush \in [Parties -> [Workers -> SUBSET Parties]]
    /\ toRecv \in [Parties -> [Workers -> SUBSET Parties]]
    /\ got \in [Parties -> [Workers -> Seq(Units)]]
    /\ ring \in [Parties -> [Workers -> [Parties -> Seq(Nat)]]]
    /\ wire \in [Parties -> [Workers -> [Parties -> Seq(Units)]]]
    /\ serving \in [Parties -> [CommThreads -> Workers]]
    /\ \A p \in Parties, c \in CommThreads : Server(serving[p][c]) = c
    /\ peer \in [Parties -> [CommThreads -> Parties]]
    /\ mode \in [Parties -> [CommThreads -> {"touring", "sending", "exited"}]]
    /\ sent \in [Parties -> [CommThreads -> Nat]]
    /\ running \in [Parties -> BOOLEAN]

RingInv == \A p \in Parties, w \in Workers :
    /\ toPush[p][w] \subseteq Destinations(p, round[p][w])
    /\ toRecv[p][w] \subseteq Sources(p, round[p][w])
    /\ \A q \in Parties :
          \/ ring[p][w][q] = << >>
          \/ /\ ring[p][w][q] = <<round[p][w]>>
             /\ q \in Destinations(p, round[p][w]) \ toPush[p][w]

SendInv == \A p \in Parties, c \in CommThreads :
    mode[p][c] = "sending" =>
        /\ Here(p, c) # << >>
        /\ sent[p][c] <= Rounds[round[p][serving[p][c]]].size

GotInv == \A p \in Parties, w \in Workers :
    /\ toRecv[p][w] = {} => got[p][w] = << >>
    /\ toPush[p][w] # {} => got[p][w] = << >>
    /\ toRecv[p][w] # {} => Len(got[p][w]) < Rounds[round[p][w]].size
    /\ \A k \in 1 .. Len(got[p][w]) : got[p][w][k] = <<round[p][w], k>>

StopInv == \A p \in Parties :
    /\ ~running[p] => \A w \in Workers : Done(p, w)
    /\ \A c \in CommThreads : mode[p][c] = "exited" => ~running[p]

StreamOK(p, q, units, first, last) ==
    /\ units = << >> => first = last
    /\ units # << >> => first = units[1]
    /\ \A i \in 1 .. Len(units) :
          After(p, q, units[i][1], units[i][2]) = IF i = Len(units) THEN last ELSE units[i + 1]

StreamInv == \A p \in Parties, w \in Workers, q \in Parties :
    /\ StreamOK(p, q, wire[p][w][q], NextGot(q, w, p), NextSent(p, w, q))
    /\ \A i \in 1 .. Len(wire[p][w][q]) : wire[p][w][q][i][1] <= round[p][w]

(* A party has reached the rounds it has received from.                    *)
PaceInv == \A p \in Parties, w \in Workers : \A s \in Sources(p, round[p][w]) :
    \/ s \notin toRecv[p][w]
    \/ s = NextSource(p, toRecv[p][w]) /\ got[p][w] # << >>
    => round[s][w] >= round[p][w]

IInv == TypeInv /\ RingInv /\ SendInv /\ GotInv /\ StopInv /\ StreamInv /\ PaceInv
-----------------------------------------------------------------------------
(* Arithmetic and the order of the rounds.                                 *)

(* A set of numbers has a smallest element, and Smallest is it.            *)
LEMMA SmallestIs ==
    ASSUME NEW S \in SUBSET Nat, S # {}
    PROVE  Smallest(S) \in S /\ \A t \in S : Smallest(S) <= t
<1> DEFINE R == {xy \in Nat \X Nat : xy[1] < xy[2]}
<1>0. IsWellFoundedOn(R, Nat)
  BY NatLessThanWellFounded, Zenon DEF OpToRel
<1>1. PICK x \in S : \A y \in S : ~ (<<y, x>> \in R)
  <2> HIDE DEF R
  <2> QED BY <1>0, WFMin
<1>2. ASSUME NEW y \in S PROVE x <= y
  <2>1. x \in Nat /\ y \in Nat
    OBVIOUS
  <2>2. <<y, x>>[1] = y /\ <<y, x>>[2] = x /\ <<y, x>> \in Nat \X Nat
    BY <2>1
  <2>3. ~(y < x)
    BY <1>1, <2>2
  <2> QED BY <2>1, <2>3
<1> QED
  BY <1>2 DEF Smallest

LEMMA ServerIs == \A w \in Workers : Server(w) \in CommThreads
  BY WorkersAssumption, CommThreadsAssumption, SMT DEF Server, Workers, CommThreads

LEMMA ServerOwn == \A c \in CommThreads : c \in Workers /\ Server(c) = c
  BY WorkersAssumption, CommThreadsAssumption, SMT DEF Server, Workers, CommThreads

LEMMA NextWorkerIs ==
    ASSUME NEW c \in CommThreads, NEW w \in Workers, Server(w) = c
    PROVE  NextWorker(c, w) \in Workers /\ Server(NextWorker(c, w)) = c
<1> DEFINE later == {v \in WorkersOf(c) : w < v}
           S == IF later # {} THEN later ELSE WorkersOf(c)
<1>1. w \in WorkersOf(c)
  BY DEF WorkersOf, Server
<1>2. S \subseteq WorkersOf(c) /\ S # {}
  BY <1>1
<1>3. WorkersOf(c) \subseteq Nat
  BY WorkersAssumption, SMT DEF WorkersOf, Workers
<1>4. Smallest(S) \in WorkersOf(c)
  <2> HIDE DEF S
  <2> QED BY <1>2, <1>3, SmallestIs
<1>5. NextWorker(c, w) = Smallest(S)
  BY DEF NextWorker
<1> QED
  BY <1>4, <1>5 DEF WorkersOf, Server

LEMMA RoundsAre ==
    /\ NumRounds \in Nat
    /\ \A r \in 1 .. NumRounds : Rounds[r].size \in Nat \ {0}
    /\ \A r \in 1 .. NumRounds : \A p, q : <<p, q>> \in Rounds[r].edges =>
          p \in Parties /\ q \in Parties /\ p # q
<1> DEFINE Pairs == {e \in Parties \X Parties : e[1] # e[2]}
           R == [edges : SUBSET Pairs, size : Nat \ {0}]
<1>1. NumRounds \in Nat /\ \A r \in 1 .. NumRounds : Rounds[r] \in R
  <2>1. Rounds \in Seq(R)
    BY RoundsAssumption
  <2> HIDE DEF R
  <2> QED BY <2>1 DEF NumRounds
<1>2. \A r \in 1 .. NumRounds : Rounds[r].size \in Nat \ {0} /\ Rounds[r].edges \subseteq Pairs
  <2> HIDE DEF Pairs
  <2> QED BY <1>1
<1>3. \A p, q : <<p, q>> \in Pairs => p \in Parties /\ q \in Parties /\ p # q
  OBVIOUS
<1> QED
  BY <1>1, <1>2, <1>3

LEMMA FirstFromIs ==
    ASSUME NEW p, NEW q, NEW r \in Nat \ {0}
    PROVE  /\ FirstFrom(p, q, r) \in Nat
           /\ r <= NumRounds + 1 => FirstFrom(p, q, r) >= r
           /\ EdgeAt(p, q, r) => FirstFrom(p, q, r) = r
           /\ ~EdgeAt(p, q, r) => FirstFrom(p, q, r) = FirstFrom(p, q, r + 1)
<1> DEFINE S == RoundsFrom(p, q, r)
<1>0. NumRounds \in Nat
  BY RoundsAre
<1>1. S \in SUBSET Nat /\ S # {}
  BY <1>0 DEF RoundsFrom
<1>2. Smallest(S) \in S /\ \A t \in S : Smallest(S) <= t
  <2> HIDE DEF S
  <2> QED BY <1>1, SmallestIs
<1>3. FirstFrom(p, q, r) = Smallest(S)
  BY DEF FirstFrom
<1>4. FirstFrom(p, q, r) \in Nat
  BY <1>1, <1>2, <1>3
<1>5. ASSUME r <= NumRounds + 1 PROVE FirstFrom(p, q, r) >= r
  <2>1. \A t \in S : t >= r
    BY <1>0, <1>5 DEF RoundsFrom
  <2> QED BY <2>1, <1>2, <1>3
<1>6. ASSUME EdgeAt(p, q, r) PROVE FirstFrom(p, q, r) = r
  <2>1. r \in S /\ r <= NumRounds
    BY <1>0, <1>6 DEF RoundsFrom, EdgeAt
  <2>2. FirstFrom(p, q, r) <= r
    BY <2>1, <1>2, <1>3
  <2>3. FirstFrom(p, q, r) >= r
    BY <2>1, <1>0, <1>5
  <2> QED BY <2>2, <2>3, <1>4
<1>7. ASSUME ~EdgeAt(p, q, r) PROVE FirstFrom(p, q, r) = FirstFrom(p, q, r + 1)
  <2>1. \A x \in r .. NumRounds : EdgeAt(p, q, x) => x \in r + 1 .. NumRounds
    BY <1>0, <1>7
  <2>2. \A x \in r + 1 .. NumRounds : x \in r .. NumRounds
    BY <1>0
  <2>3. RoundsFrom(p, q, r) = RoundsFrom(p, q, r + 1)
    BY <2>1, <2>2 DEF RoundsFrom
  <2> QED BY <2>3 DEF FirstFrom
<1> QED
  BY <1>4, <1>5, <1>6, <1>7

LEMMA AfterIs ==
    ASSUME NEW p, NEW q, NEW r \in 1 .. NumRounds + 1, NEW k \in Nat
    PROVE  /\ After(p, q, r, k) \in Units
           /\ After(p, q, r, k)[1] >= r \/ r = NumRounds + 1
           /\ EdgeAt(p, q, r) /\ k < Rounds[r].size => After(p, q, r, k) = <<r, k + 1>>
           /\ r <= NumRounds /\ ~(EdgeAt(p, q, r) /\ k < Rounds[r].size) =>
                 After(p, q, r, k)[1] > r
           /\ ~(EdgeAt(p, q, r) /\ k < Rounds[r].size) =>
                 After(p, q, r, k) = <<FirstFrom(p, q, r + 1), 1>>
<1>1. NumRounds \in Nat
  BY RoundsAre
<1>2. /\ FirstFrom(p, q, r + 1) \in Nat
      /\ r <= NumRounds => FirstFrom(p, q, r + 1) > r
  <2>1. r + 1 \in Nat \ {0} /\ (r <= NumRounds => r + 1 <= NumRounds + 1)
    BY <1>1
  <2> HIDE DEF FirstFrom
  <2> QED BY <2>1, <1>1, FirstFromIs
<1> QED
  BY <1>1, <1>2 DEF After, Units
LEMMA EdgesAre ==
    ASSUME NEW r \in 1 .. NumRounds + 1, NEW p \in Parties, NEW q \in Parties
    PROVE  /\ q \in Destinations(p, r) <=> EdgeAt(p, q, r)
           /\ p \in Sources(q, r) <=> EdgeAt(p, q, r)
           /\ EdgeAt(p, q, r) => p # q /\ r <= NumRounds
<1>1. NumRounds \in Nat
  BY RoundsAre
<1> QED
  BY <1>1, RoundsAre DEF Destinations, Sources, EdgeAt

(* Without an edge the count of units does not matter.                     *)
LEMMA AfterNoEdge ==
    ASSUME NEW p, NEW q, NEW r, NEW j, NEW k, ~EdgeAt(p, q, r)
    PROVE  After(p, q, r, j) = After(p, q, r, k)
  BY DEF After

(* What an update of one entry leaves of the others.                       *)
LEMMA RingUpdate ==
    ASSUME ring \in [Parties -> [Workers -> [Parties -> Seq(Nat)]]],
           NEW p \in Parties, NEW w \in Workers, NEW q \in Parties, NEW v \in Seq(Nat),
           ring' = [ring EXCEPT ![p][w][q] = v]
    PROVE  /\ \A p2 \in Parties, w2 \in Workers, q2 \in Parties :
                 ring'[p2][w2][q2] = IF p2 = p /\ w2 = w /\ q2 = q THEN v ELSE ring[p2][w2][q2]
           /\ ring' \in [Parties -> [Workers -> [Parties -> Seq(Nat)]]]
  OBVIOUS

LEMMA WireUpdate ==
    ASSUME wire \in [Parties -> [Workers -> [Parties -> Seq(Units)]]],
           NEW p \in Parties, NEW w \in Workers, NEW q \in Parties, NEW v \in Seq(Units),
           wire' = [wire EXCEPT ![p][w][q] = v]
    PROVE  /\ \A p2 \in Parties, w2 \in Workers, q2 \in Parties :
                 wire'[p2][w2][q2] = IF p2 = p /\ w2 = w /\ q2 = q THEN v ELSE wire[p2][w2][q2]
           /\ wire' \in [Parties -> [Workers -> [Parties -> Seq(Units)]]]
  OBVIOUS

-----------------------------------------------------------------------------
(* The invariant holds initially, and every action preserves it.           *)

LEMMA InitInv == Init => IInv
<1> SUFFICES ASSUME Init PROVE IInv
  OBVIOUS
<1> USE DEF Init
<1>0. NumRounds \in Nat /\ 1 \in 1 .. NumRounds + 1 /\ NumParties \in Nat \ {0} /\ 0 \in Parties
  BY RoundsAre, PartiesAssumption DEF Parties
<1>1. TypeInv
  <2>1. \A p \in Parties : Destinations(p, 1) \subseteq Parties /\ Sources(p, 1) \subseteq Parties
    BY DEF Destinations, Sources
  <2> QED BY <1>0, <2>1, ServerOwn DEF TypeInv
<1>2. RingInv
  BY DEF RingInv
<1>3. SendInv
  BY DEF SendInv
<1>4. GotInv
  <2>1. ASSUME NEW p \in Parties, NEW w \in Workers, toRecv[p][w] # {}
        PROVE  Len(got[p][w]) < Rounds[round[p][w]].size
    <3>1. PICK s \in Parties : 1 <= NumRounds /\ <<s, p>> \in Rounds[1].edges
      BY <2>1 DEF Sources
    <3>2. Rounds[1].size \in Nat \ {0}
      BY <3>1, <1>0, RoundsAre
    <3> QED BY <3>2
  <2> QED BY <2>1 DEF GotInv
<1>5. StopInv
  BY DEF StopInv
<1>6. StreamInv
  <2> SUFFICES ASSUME NEW p \in Parties, NEW w \in Workers, NEW q \in Parties
               PROVE  NextGot(q, w, p) = NextSent(p, w, q)
    BY DEF StreamInv, StreamOK
  <2>1. CASE EdgeAt(p, q, 1)
    <3>1. HasSent(p, w, q) = 0
      BY <2>1, <1>0, EdgesAre DEF HasSent
    <3>2. HasGot(q, w, p) = 0
      BY <2>1, <1>0, EdgesAre DEF HasGot
    <3> QED BY <3>1, <3>2 DEF NextGot, NextSent
  <2>2. CASE ~EdgeAt(p, q, 1)
    BY <2>2, AfterNoEdge DEF NextGot, NextSent
  <2> QED BY <2>1, <2>2
<1>7. PaceInv
  BY <1>0 DEF PaceInv, Sources
<1> QED
  BY <1>1, <1>2, <1>3, <1>4, <1>5, <1>6, <1>7 DEF IInv

(* When the sockets are as they were and no worker has received, it is     *)
(* enough that no sender has lost or gained ground.                        *)
LEMMA StreamsKept ==
    ASSUME StreamInv, PaceInv, UNCHANGED <<round, wire, toRecv, got>>,
           \A p \in Parties, w \in Workers, q \in Parties : HasSent(p, w, q)' = HasSent(p, w, q)
    PROVE  StreamInv' /\ PaceInv'
<1>1. \A p \in Parties, w \in Workers, q \in Parties : NextSent(p, w, q)' = NextSent(p, w, q)
  BY DEF NextSent
<1>2. \A p \in Parties, w \in Workers, q \in Parties : NextGot(q, w, p)' = NextGot(q, w, p)
  BY DEF NextGot, HasGot
<1>3. StreamInv'
  BY <1>1, <1>2 DEF StreamInv
<1>4. PaceInv'
  BY DEF PaceInv
<1> QED
  BY <1>3, <1>4

LEMMA PushStep ==
    ASSUME IInv, NEW p \in Parties, NEW w \in Workers, NEW q \in Parties, Push(p, w, q)
    PROVE  IInv'
<1> USE DEF Push
<1>t. TypeInv /\ RingInv /\ SendInv /\ GotInv /\ StopInv /\ StreamInv /\ PaceInv
  BY DEF IInv
<1>u. /\ UNCHANGED <<round, toRecv, got, wire, serving, peer, mode, sent, running>>
      /\ q \in toPush[p][w]
  BY DEF commVars
<1>e. ring[p][w][q] = << >>
  BY <1>t, <1>u DEF RingInv
<1>r. /\ \A p2 \in Parties, w2 \in Workers, q2 \in Parties :
            ring'[p2][w2][q2] = IF p2 = p /\ w2 = w /\ q2 = q THEN <<round[p][w]>> ELSE ring[p2][w2][q2]
      /\ ring' \in [Parties -> [Workers -> [Parties -> Seq(Nat)]]]
  <2>1. Append(ring[p][w][q], round[p][w]) = <<round[p][w]>>
    BY <1>e
  <2>2. ring' = [ring EXCEPT ![p][w][q] = <<round[p][w]>>]
    BY <2>1
  <2>3. ring \in [Parties -> [Workers -> [Parties -> Seq(Nat)]]] /\ <<round[p][w]>> \in Seq(Nat)
    BY <1>t, RoundsAre DEF TypeInv
  <2> HIDE DEF Push
  <2> QED BY <2>2, <2>3, RingUpdate
<1>p. /\ \A p2 \in Parties, w2 \in Workers :
            toPush'[p2][w2] = IF p2 = p /\ w2 = w THEN toPush[p][w] \ {q} ELSE toPush[p2][w2]
      /\ toPush' \in [Parties -> [Workers -> SUBSET Parties]]
  <2>1. toPush \in [Parties -> [Workers -> SUBSET Parties]] /\ toPush[p][w] \ {q} \in SUBSET Parties
    BY <1>t DEF TypeInv
  <2> QED BY <2>1
<1>1. TypeInv'
  BY <1>t, <1>u, <1>r, <1>p DEF TypeInv
<1>2. RingInv'
  BY <1>t, <1>u, <1>r, <1>p DEF RingInv
<1>3. SendInv'
  <2> SUFFICES ASSUME NEW p2 \in Parties, NEW c \in CommThreads, mode[p2][c] = "sending"
               PROVE  /\ Here(p2, c)' # << >>
                      /\ sent[p2][c] <= Rounds[round[p2][serving[p2][c]]].size
    BY <1>u DEF SendInv
  <2>1. Here(p2, c) # << >> /\ sent[p2][c] <= Rounds[round[p2][serving[p2][c]]].size
    BY <1>t DEF SendInv
  <2>2. serving[p2][c] \in Workers /\ peer[p2][c] \in Parties
    BY <1>t DEF TypeInv
  <2> QED BY <2>1, <2>2, <1>u, <1>r DEF Here
<1>4. GotInv'
  BY <1>t, <1>u, <1>p DEF GotInv
<1>5. StopInv'
  BY <1>t, <1>u DEF StopInv, Done
<1>6. ASSUME NEW p2 \in Parties, NEW w2 \in Workers, NEW q2 \in Parties
      PROVE  HasSent(p2, w2, q2)' = HasSent(p2, w2, q2)
  <2>1. CASE p2 = p /\ w2 = w /\ q2 = q
    <3>1. HasSent(p2, w2, q2) = 0
      BY <2>1, <1>u DEF HasSent
    <3>2. ~(mode[p][Server(w)] = "sending" /\ serving[p][Server(w)] = w /\ peer[p][Server(w)] = q)
      BY <1>t, <1>e, ServerIs DEF SendInv, Here
    <3>3. q \notin toPush'[p][w] /\ ring'[p][w][q] # << >>
      <4>1. toPush'[p][w] = toPush[p][w] \ {q} /\ ring'[p][w][q] = <<round[p][w]>>
        BY <1>p, <1>r
      <4> HIDE DEF Push
      <4> QED BY <4>1
    <3>4. HasSent(p2, w2, q2)' = 0
      BY <2>1, <3>2, <3>3, <1>u DEF HasSent
    <3> QED BY <3>1, <3>4
  <2>2. CASE ~(p2 = p /\ w2 = w /\ q2 = q)
    <3>1. ring'[p2][w2][q2] = ring[p2][w2][q2] /\ (q2 \in toPush'[p2][w2] <=> q2 \in toPush[p2][w2])
      BY <2>2, <1>r, <1>p
    <3> QED BY <3>1, <1>u DEF HasSent
  <2> QED BY <2>1, <2>2
<1>7. StreamInv' /\ PaceInv'
  BY <1>6, <1>t, <1>u, StreamsKept
<1> QED
  BY <1>1, <1>2, <1>3, <1>4, <1>5, <1>7 DEF IInv
LEMMA MoveOnIs ==
    ASSUME TypeInv, NEW p \in Parties, NEW c \in CommThreads, MoveOn(p, c)
    PROVE  /\ serving' \in [Parties -> [CommThreads -> Workers]]
           /\ \A p2 \in Parties, c2 \in CommThreads : Server(serving'[p2][c2]) = c2
           /\ peer' \in [Parties -> [CommThreads -> Parties]]
           /\ mode' \in [Parties -> [CommThreads -> {"touring", "sending", "exited"}]]
           /\ \A p2 \in Parties, c2 \in CommThreads : p2 # p \/ c2 # c =>
                 /\ serving'[p2][c2] = serving[p2][c2]
                 /\ peer'[p2][c2] = peer[p2][c2]
                 /\ mode'[p2][c2] = mode[p2][c2]
           /\ mode'[p][c] # "sending"
           /\ mode'[p][c] = "exited" => ~running[p]
<1>1. /\ serving \in [Parties -> [CommThreads -> Workers]]
      /\ \A p2 \in Parties, c2 \in CommThreads : Server(serving[p2][c2]) = c2
      /\ peer \in [Parties -> [CommThreads -> Parties]]
      /\ mode \in [Parties -> [CommThreads -> {"touring", "sending", "exited"}]]
  BY DEF TypeInv
<1> DEFINE w == IF peer[p][c] = NumParties - 1 THEN NextWorker(c, serving[p][c]) ELSE serving[p][c]
           q == NextPeer(peer[p][c])
           m == IF ~running[p] /\ MayExit(p, peer[p][c]) THEN "exited" ELSE "touring"
<1>2. w \in Workers /\ Server(w) = c
  BY <1>1, NextWorkerIs
<1>3. q \in Parties
  BY <1>1, PartiesAssumption DEF NextPeer, Parties
<1>4. m \in {"touring", "exited"} /\ (m = "exited" => ~running[p])
  OBVIOUS
<1>5. /\ serving' = [serving EXCEPT ![p][c] = w]
      /\ peer' = [peer EXCEPT ![p][c] = q]
      /\ mode' = [mode EXCEPT ![p][c] = m]
  BY DEF MoveOn
<1> HIDE DEF w, q, m
<1>6. /\ serving' \in [Parties -> [CommThreads -> Workers]]
      /\ \A p2 \in Parties, c2 \in CommThreads :
            serving'[p2][c2] = IF p2 = p /\ c2 = c THEN w ELSE serving[p2][c2]
  BY <1>1, <1>2, <1>5
<1>7. /\ peer' \in [Parties -> [CommThreads -> Parties]]
      /\ \A p2 \in Parties, c2 \in CommThreads :
            peer'[p2][c2] = IF p2 = p /\ c2 = c THEN q ELSE peer[p2][c2]
  BY <1>1, <1>3, <1>5
<1>8. /\ mode' \in [Parties -> [CommThreads -> {"touring", "sending", "exited"}]]
      /\ \A p2 \in Parties, c2 \in CommThreads :
            mode'[p2][c2] = IF p2 = p /\ c2 = c THEN m ELSE mode[p2][c2]
  BY <1>1, <1>4, <1>5
<1>9. \A p2 \in Parties, c2 \in CommThreads : Server(serving'[p2][c2]) = c2
  BY <1>1, <1>2, <1>6
<1> QED
  BY <1>4, <1>6, <1>7, <1>8, <1>9

LEMMA PassStep ==
    ASSUME IInv, NEW p \in Parties, NEW c \in CommThreads, Pass(p, c)
    PROVE  IInv'
<1>t. TypeInv /\ RingInv /\ SendInv /\ GotInv /\ StopInv /\ StreamInv /\ PaceInv
  BY DEF IInv
<1>u. /\ UNCHANGED <<round, toPush, toRecv, got, ring, wire, sent, running>>
      /\ mode[p][c] = "touring" /\ MoveOn(p, c)
  BY DEF Pass, workerVars
<1>m. /\ serving' \in [Parties -> [CommThreads -> Workers]]
      /\ \A p2 \in Parties, c2 \in CommThreads : Server(serving'[p2][c2]) = c2
      /\ peer' \in [Parties -> [CommThreads -> Parties]]
      /\ mode' \in [Parties -> [CommThreads -> {"touring", "sending", "exited"}]]
      /\ \A p2 \in Parties, c2 \in CommThreads : p2 # p \/ c2 # c =>
            /\ serving'[p2][c2] = serving[p2][c2]
            /\ peer'[p2][c2] = peer[p2][c2]
            /\ mode'[p2][c2] = mode[p2][c2]
      /\ mode'[p][c] # "sending"
      /\ mode'[p][c] = "exited" => ~running[p]
  BY <1>t, <1>u, MoveOnIs
<1>1. TypeInv'
  BY <1>t, <1>u, <1>m DEF TypeInv
<1>2. RingInv'
  BY <1>t, <1>u DEF RingInv
<1>3. SendInv'
  <2> SUFFICES ASSUME NEW p2 \in Parties, NEW c2 \in CommThreads, mode'[p2][c2] = "sending"
               PROVE  /\ ring[p2][serving'[p2][c2]][peer'[p2][c2]] # << >>
                      /\ sent[p2][c2] <= Rounds[round[p2][serving'[p2][c2]]].size
    BY <1>u DEF SendInv, Here
  <2>1. p2 # p \/ c2 # c
    BY <1>m
  <2>2. /\ serving'[p2][c2] = serving[p2][c2]
        /\ peer'[p2][c2] = peer[p2][c2]
        /\ mode'[p2][c2] = mode[p2][c2]
    BY <2>1, <1>m
  <2> QED BY <2>2, <1>t DEF SendInv, Here
<1>4. GotInv'
  BY <1>t, <1>u DEF GotInv
<1>5. StopInv'
  <2>1. ASSUME NEW p2 \in Parties, NEW c2 \in CommThreads, mode'[p2][c2] = "exited"
        PROVE  ~running[p2]
    BY <2>1, <1>t, <1>m DEF StopInv
  <2>2. \A p2 \in Parties : ~running[p2] => \A w \in Workers : Done(p2, w)
    BY <1>t DEF StopInv
  <2> QED BY <2>1, <2>2, <1>u DEF StopInv, Done
<1>6. ASSUME NEW p2 \in Parties, NEW w2 \in Workers, NEW q2 \in Parties
      PROVE  HasSent(p2, w2, q2)' = HasSent(p2, w2, q2)
  <2>1. Server(w2) \in CommThreads
    BY ServerIs
  <2> QED BY <2>1, <1>u, <1>m DEF HasSent
<1>7. StreamInv' /\ PaceInv'
  BY <1>6, <1>t, <1>u, StreamsKept
<1> QED
  BY <1>1, <1>2, <1>3, <1>4, <1>5, <1>7 DEF IInv

LEMMA TakeStep ==
    ASSUME IInv, NEW p \in Parties, NEW c \in CommThreads, Take(p, c)
    PROVE  IInv'
<1>t. TypeInv /\ RingInv /\ SendInv /\ GotInv /\ StopInv /\ StreamInv /\ PaceInv
  BY DEF IInv
<1>u. /\ UNCHANGED <<round, toPush, toRecv, got, ring, wire, serving, peer, running>>
      /\ mode[p][c] = "touring" /\ Here(p, c) # << >>
      /\ mode' = [mode EXCEPT ![p][c] = "sending"]
      /\ sent' = [sent EXCEPT ![p][c] = 0]
  BY DEF Take, workerVars
<1>m. /\ mode' \in [Parties -> [CommThreads -> {"touring", "sending", "exited"}]]
      /\ sent' \in [Parties -> [CommThreads -> Nat]]
      /\ \A p2 \in Parties, c2 \in CommThreads :
            /\ mode'[p2][c2] = IF p2 = p /\ c2 = c THEN "sending" ELSE mode[p2][c2]
            /\ sent'[p2][c2] = IF p2 = p /\ c2 = c THEN 0 ELSE sent[p2][c2]
  BY <1>t, <1>u DEF TypeInv
<1>1. TypeInv'
  BY <1>t, <1>u, <1>m DEF TypeInv
<1>2. RingInv'
  BY <1>t, <1>u DEF RingInv
<1>3. SendInv'
  <2>1. Rounds[round[p][serving[p][c]]].size >= 0
    <3>1. serving[p][c] \in Workers /\ peer[p][c] \in Parties
      BY <1>t DEF TypeInv
    <3>2. peer[p][c] \in Destinations(p, round[p][serving[p][c]])
      BY <1>t, <1>u, <3>1 DEF RingInv, Here
    <3>3. round[p][serving[p][c]] \in 1 .. NumRounds + 1
      BY <1>t, <3>1 DEF TypeInv
    <3>4. round[p][serving[p][c]] \in 1 .. NumRounds
      BY <3>1, <3>2, <3>3, EdgesAre DEF EdgeAt
    <3>5. Rounds[round[p][serving[p][c]]].size \in Nat
      BY <3>4, RoundsAre
    <3> QED BY <3>5
  <2> QED BY <2>1, <1>t, <1>u, <1>m DEF SendInv, Here
<1>4. GotInv'
  BY <1>t, <1>u DEF GotInv
<1>5. StopInv'
  BY <1>t, <1>u, <1>m DEF StopInv, Done
<1>6. ASSUME NEW p2 \in Parties, NEW w2 \in Workers, NEW q2 \in Parties
      PROVE  HasSent(p2, w2, q2)' = HasSent(p2, w2, q2)
  <2>1. Server(w2) \in CommThreads
    BY ServerIs
  <2> QED BY <2>1, <1>u, <1>m DEF HasSent
<1>7. StreamInv' /\ PaceInv'
  BY <1>6, <1>t, <1>u, StreamsKept
<1> QED
  BY <1>1, <1>2, <1>3, <1>4, <1>5, <1>7 DEF IInv

LEMMA DestroyStep ==
    ASSUME IInv, NEW p \in Parties, Destroy(p)
    PROVE  IInv'
<1>t. TypeInv /\ RingInv /\ SendInv /\ GotInv /\ StopInv /\ StreamInv /\ PaceInv
  BY DEF IInv
<1>u. /\ UNCHANGED <<round, toPush, toRecv, got, ring, wire, serving, peer, mode, sent>>
      /\ \A w \in Workers : Done(p, w)
      /\ running' = [running EXCEPT ![p] = FALSE]
  BY DEF Destroy, workerVars, commVars
<1>1. TypeInv'
  BY <1>t, <1>u DEF TypeInv
<1>2. RingInv'
  BY <1>t, <1>u DEF RingInv
<1>3. SendInv'
  BY <1>t, <1>u DEF SendInv, Here
<1>4. GotInv'
  BY <1>t, <1>u DEF GotInv
<1>5. StopInv'
  BY <1>t, <1>u DEF StopInv, Done, TypeInv
<1>6. ASSUME NEW p2 \in Parties, NEW w2 \in Workers, NEW q2 \in Parties
      PROVE  HasSent(p2, w2, q2)' = HasSent(p2, w2, q2)
  BY <1>u DEF HasSent
<1>7. StreamInv' /\ PaceInv'
  BY <1>6, <1>t, <1>u, StreamsKept
<1> QED
  BY <1>1, <1>2, <1>3, <1>4, <1>5, <1>7 DEF IInv
(* What holds while a communication thread is inside send_wrapper.         *)
LEMMA SendingIs ==
    ASSUME IInv, NEW p \in Parties, NEW c \in CommThreads, mode[p][c] = "sending"
    PROVE  LET w == serving[p][c]
               q == peer[p][c]
           IN  /\ w \in Workers /\ q \in Parties /\ Server(w) = c
               /\ round[p][w] \in 1 .. NumRounds
               /\ ring[p][w][q] = <<round[p][w]>> /\ Head(Here(p, c)) = round[p][w]
               /\ q \notin toPush[p][w] /\ EdgeAt(p, q, round[p][w])
               /\ sent[p][c] \in Nat /\ sent[p][c] <= Rounds[round[p][w]].size
               /\ Rounds[round[p][w]].size \in Nat \ {0}
               /\ HasSent(p, w, q) = sent[p][c]
<1> DEFINE w == serving[p][c]
           q == peer[p][c]
<1>t. TypeInv /\ RingInv /\ SendInv
  BY DEF IInv
<1>1. w \in Workers /\ q \in Parties /\ Server(w) = c /\ sent[p][c] \in Nat
      /\ round[p][w] \in 1 .. NumRounds + 1
  BY <1>t DEF TypeInv
<1>2. Here(p, c) # << >> /\ sent[p][c] <= Rounds[round[p][w]].size /\ Here(p, c) = ring[p][w][q]
  BY <1>t DEF SendInv, Here
<1>3. ring[p][w][q] = <<round[p][w]>> /\ q \in Destinations(p, round[p][w]) \ toPush[p][w]
  BY <1>t, <1>1, <1>2 DEF RingInv
<1>4. EdgeAt(p, q, round[p][w]) /\ round[p][w] \in 1 .. NumRounds
  BY <1>1, <1>3, EdgesAre DEF EdgeAt
<1>5. Head(Here(p, c)) = round[p][w]
  BY <1>2, <1>3
<1>6. HasSent(p, w, q) = sent[p][c]
  BY <1>1, <1>2, <1>3 DEF HasSent
<1> QED
  BY <1>1, <1>2, <1>3, <1>4, <1>5, <1>6, RoundsAre

LEMMA PopStep ==
    ASSUME IInv, NEW p \in Parties, NEW c \in CommThreads, Pop(p, c)
    PROVE  IInv'
<1> DEFINE w == serving[p][c]
           q == peer[p][c]
<1>t. TypeInv /\ RingInv /\ SendInv /\ GotInv /\ StopInv /\ StreamInv /\ PaceInv
  BY DEF IInv
<1>u. /\ UNCHANGED <<round, toPush, toRecv, got, wire, sent, running>>
      /\ mode[p][c] = "sending" /\ MoveOn(p, c)
      /\ sent[p][c] = Rounds[Head(Here(p, c))].size
      /\ ring' = [ring EXCEPT ![p][w][q] = Tail(@)]
  BY DEF Pop, workerVars
<1>s. /\ w \in Workers /\ q \in Parties /\ Server(w) = c
      /\ ring[p][w][q] = <<round[p][w]>> /\ Head(Here(p, c)) = round[p][w]
      /\ q \notin toPush[p][w] /\ HasSent(p, w, q) = sent[p][c]
  BY <1>u, SendingIs
<1> HIDE DEF w, q
<1>m. /\ serving' \in [Parties -> [CommThreads -> Workers]]
      /\ \A p2 \in Parties, c2 \in CommThreads : Server(serving'[p2][c2]) = c2
      /\ peer' \in [Parties -> [CommThreads -> Parties]]
      /\ mode' \in [Parties -> [CommThreads -> {"touring", "sending", "exited"}]]
      /\ \A p2 \in Parties, c2 \in CommThreads : p2 # p \/ c2 # c =>
            /\ serving'[p2][c2] = serving[p2][c2]
            /\ peer'[p2][c2] = peer[p2][c2]
            /\ mode'[p2][c2] = mode[p2][c2]
      /\ mode'[p][c] # "sending"
      /\ mode'[p][c] = "exited" => ~running[p]
  BY <1>t, <1>u, MoveOnIs
<1>r. /\ \A p2 \in Parties, w2 \in Workers, q2 \in Parties :
            ring'[p2][w2][q2] = IF p2 = p /\ w2 = w /\ q2 = q THEN << >> ELSE ring[p2][w2][q2]
      /\ ring' \in [Parties -> [Workers -> [Parties -> Seq(Nat)]]]
  <2>1. Tail(ring[p][w][q]) = << >>
    BY <1>s
  <2>2. ring' = [ring EXCEPT ![p][w][q] = << >>]
    BY <2>1, <1>u
  <2>3. ring \in [Parties -> [Workers -> [Parties -> Seq(Nat)]]] /\ << >> \in Seq(Nat)
    BY <1>t DEF TypeInv
  <2> QED BY <2>2, <2>3, <1>s, RingUpdate
<1>1. TypeInv'
  BY <1>t, <1>u, <1>m, <1>r DEF TypeInv
<1>2. RingInv'
  <2>1. \A p2 \in Parties, w2 \in Workers, q2 \in Parties :
            ring'[p2][w2][q2] = << >> \/ ring'[p2][w2][q2] = ring[p2][w2][q2]
    BY <1>r
  <2> SUFFICES ASSUME NEW p2 \in Parties, NEW w2 \in Workers, NEW q2 \in Parties
               PROVE  \/ ring'[p2][w2][q2] = << >>
                      \/ /\ ring'[p2][w2][q2] = <<round[p2][w2]>>
                         /\ q2 \in Destinations(p2, round[p2][w2]) \ toPush[p2][w2]
    BY <1>t, <1>u DEF RingInv
  <2> QED BY <2>1, <1>t DEF RingInv
<1>3. SendInv'
  <2> SUFFICES ASSUME NEW p2 \in Parties, NEW c2 \in CommThreads, mode'[p2][c2] = "sending"
               PROVE  /\ ring'[p2][serving'[p2][c2]][peer'[p2][c2]] # << >>
                      /\ sent[p2][c2] <= Rounds[round[p2][serving'[p2][c2]]].size
    BY <1>u DEF SendInv, Here
  <2>1. p2 # p \/ c2 # c
    BY <1>m
  <2>2. /\ serving'[p2][c2] = serving[p2][c2]
        /\ peer'[p2][c2] = peer[p2][c2]
        /\ mode'[p2][c2] = mode[p2][c2]
    BY <2>1, <1>m
  <2>3. p2 # p \/ serving[p2][c2] # w
    BY <2>1, <1>s, <1>t DEF TypeInv
  <2>4. serving[p2][c2] \in Workers /\ peer[p2][c2] \in Parties
    BY <1>t DEF TypeInv
  <2>5. ring'[p2][serving[p2][c2]][peer[p2][c2]] = ring[p2][serving[p2][c2]][peer[p2][c2]]
    BY <2>3, <2>4, <1>r
  <2> QED BY <2>2, <2>5, <1>t DEF SendInv, Here
<1>4. GotInv'
  BY <1>t, <1>u DEF GotInv
<1>5. StopInv'
  <2>1. ASSUME NEW p2 \in Parties, NEW c2 \in CommThreads, mode'[p2][c2] = "exited"
        PROVE  ~running[p2]
    BY <2>1, <1>t, <1>m DEF StopInv
  <2>2. \A p2 \in Parties : ~running[p2] => \A v \in Workers : Done(p2, v)
    BY <1>t DEF StopInv
  <2> QED BY <2>1, <2>2, <1>u DEF StopInv, Done
<1>6. ASSUME NEW p2 \in Parties, NEW w2 \in Workers, NEW q2 \in Parties
      PROVE  HasSent(p2, w2, q2)' = HasSent(p2, w2, q2)
  <2>1. Server(w2) \in CommThreads
    BY ServerIs
  <2>2. CASE p2 = p /\ w2 = w /\ q2 = q
    <3>1. ring'[p][w][q] = << >>
      BY <1>r, <1>s
    <3>2. HasSent(p2, w2, q2)' = Rounds[round[p][w]].size
      BY <2>2, <3>1, <1>s, <1>u DEF HasSent
    <3> QED BY <2>2, <3>2, <1>s, <1>u
  <2>3. CASE ~(p2 = p /\ w2 = w /\ q2 = q)
    <3>1. ring'[p2][w2][q2] = ring[p2][w2][q2]
      BY <2>3, <1>r
    <3>2. CASE p2 = p /\ Server(w2) = c
      <4>1. mode'[p2][Server(w2)] # "sending"
        BY <3>2, <1>m
      <4>2. ~(serving[p2][Server(w2)] = w2 /\ peer[p2][Server(w2)] = q2)
        BY <2>3, <3>2 DEF w, q
      <4> QED BY <3>1, <4>1, <4>2, <1>u DEF HasSent
    <3>3. CASE ~(p2 = p /\ Server(w2) = c)
      BY <2>1, <3>1, <3>3, <1>u, <1>m DEF HasSent
    <3> QED BY <3>2, <3>3
  <2> QED BY <2>2, <2>3
<1>7. StreamInv' /\ PaceInv'
  BY <1>6, <1>t, <1>u, StreamsKept
<1> QED
  BY <1>1, <1>2, <1>3, <1>4, <1>5, <1>7 DEF IInv

(* A stream grows by the unit its sender sends next, and shrinks by the    *)
(* unit its receiver expects.                                              *)
LEMMA StreamAppend ==
    ASSUME NEW p, NEW q, NEW u \in Seq(Units), NEW first, NEW last \in Units,
           StreamOK(p, q, u, first, last)
    PROVE  StreamOK(p, q, Append(u, last), first, After(p, q, last[1], last[2]))
<1> DEFINE v == Append(u, last)
<1>1. /\ Len(v) = Len(u) + 1 /\ Len(u) \in Nat /\ v # << >>
      /\ v[Len(v)] = last /\ \A i \in 1 .. Len(u) : v[i] = u[i]
  OBVIOUS
<1>2. first = v[1]
  <2>1. CASE u = << >>
    BY <2>1, <1>1 DEF StreamOK
  <2>2. CASE u # << >>
    BY <2>2, <1>1 DEF StreamOK
  <2> QED BY <2>1, <2>2
<1>3. ASSUME NEW i \in 1 .. Len(v)
      PROVE  After(p, q, v[i][1], v[i][2])
                 = IF i = Len(v) THEN After(p, q, last[1], last[2]) ELSE v[i + 1]
  <2>1. CASE i = Len(v)
    BY <2>1, <1>1
  <2>2. CASE i = Len(u)
    <3>1. After(p, q, u[i][1], u[i][2]) = last
      BY <2>2, <1>1, <1>3 DEF StreamOK
    <3> QED BY <2>2, <3>1, <1>1, <1>3
  <2>3. CASE i < Len(u)
    <3>1. After(p, q, u[i][1], u[i][2]) = u[i + 1]
      BY <2>3, <1>1, <1>3 DEF StreamOK
    <3> QED BY <2>3, <3>1, <1>1, <1>3
  <2> QED BY <2>1, <2>2, <2>3, <1>1, <1>3
<1> QED
  BY <1>1, <1>2, <1>3 DEF StreamOK

LEMMA StreamTail ==
    ASSUME NEW p, NEW q, NEW u \in Seq(Units), u # << >>, NEW first, NEW last,
           StreamOK(p, q, u, first, last)
    PROVE  /\ first = u[1]
           /\ StreamOK(p, q, Tail(u), After(p, q, u[1][1], u[1][2]), last)
<1> DEFINE v == Tail(u)
<1>1. /\ Len(u) \in Nat \ {0} /\ Len(v) = Len(u) - 1
      /\ \A i \in 1 .. Len(v) : v[i] = u[i + 1]
      /\ (v = << >> <=> Len(u) = 1)
  <2>1. Len(u) \in Nat \ {0} /\ v \in Seq(Units)
    OBVIOUS
  <2>2. Len(v) = Len(u) - 1
    BY <2>1
  <2>3. \A i \in 1 .. Len(v) : v[i] = u[i + 1]
    BY <2>1
  <2>4. v = << >> <=> Len(v) = 0
    <3> HIDE DEF v
    <3> QED BY <2>1
  <2> QED BY <2>1, <2>2, <2>3, <2>4
<1>2. first = u[1] /\ \A i \in 1 .. Len(u) :
          After(p, q, u[i][1], u[i][2]) = IF i = Len(u) THEN last ELSE u[i + 1]
  BY DEF StreamOK
<1> HIDE DEF v
<1>3. v = << >> => After(p, q, u[1][1], u[1][2]) = last
  BY <1>1, <1>2
<1>4. v # << >> => After(p, q, u[1][1], u[1][2]) = v[1]
  BY <1>1, <1>2
<1>5. ASSUME NEW i \in 1 .. Len(v)
      PROVE  After(p, q, v[i][1], v[i][2]) = IF i = Len(v) THEN last ELSE v[i + 1]
  <2>1. i + 1 \in 1 .. Len(u) /\ v[i] = u[i + 1]
    BY <1>1, <1>5
  <2>2. After(p, q, v[i][1], v[i][2]) = IF i + 1 = Len(u) THEN last ELSE u[i + 2]
    BY <2>1, <1>2, <1>5
  <2>3. i # Len(v) => v[i + 1] = u[i + 2]
    BY <1>1, <1>5
  <2> QED BY <2>2, <2>3, <1>1, <1>5
<1>6. StreamOK(p, q, v, After(p, q, u[1][1], u[1][2]), last)
  BY <1>3, <1>4, <1>5 DEF StreamOK
<1> QED
  BY <1>2, <1>6 DEF v
LEMMA SendUnitStep ==
    ASSUME IInv, NEW p \in Parties, NEW c \in CommThreads, SendUnit(p, c)
    PROVE  IInv'
<1>t. TypeInv /\ RingInv /\ SendInv /\ GotInv /\ StopInv /\ StreamInv /\ PaceInv
  BY DEF IInv
<1>v. /\ UNCHANGED <<round, toPush, toRecv, got, ring, serving, peer, mode, running>>
      /\ mode[p][c] = "sending" /\ sent[p][c] < Rounds[Head(Here(p, c))].size
      /\ wire' = [wire EXCEPT ![p][serving[p][c]][peer[p][c]] =
                     Append(@, <<Head(Here(p, c)), sent[p][c] + 1>>)]
      /\ sent' = [sent EXCEPT ![p][c] = @ + 1]
  BY DEF SendUnit, workerVars
<1>s. PICK w \in Workers, q \in Parties, r \in 1 .. NumRounds, k \in Nat :
        /\ w = serving[p][c] /\ q = peer[p][c] /\ r = round[p][w] /\ k = sent[p][c]
        /\ Server(w) = c
        /\ ring[p][w][q] = <<r>> /\ Head(Here(p, c)) = r
        /\ q \notin toPush[p][w] /\ EdgeAt(p, q, r)
        /\ Rounds[r].size \in Nat \ {0}
        /\ HasSent(p, w, q) = k
  <2> DEFINE w == serving[p][c]
             q == peer[p][c]
             r == round[p][w]
             k == sent[p][c]
  <2>1. /\ w \in Workers /\ q \in Parties /\ r \in 1 .. NumRounds /\ k \in Nat
        /\ Server(w) = c
        /\ ring[p][w][q] = <<r>> /\ Head(Here(p, c)) = r
        /\ q \notin toPush[p][w] /\ EdgeAt(p, q, r)
        /\ Rounds[r].size \in Nat \ {0}
        /\ HasSent(p, w, q) = k
    BY <1>v, SendingIs
  <2>2. w = serving[p][c] /\ q = peer[p][c] /\ r = round[p][w] /\ k = sent[p][c]
    OBVIOUS
  <2> HIDE DEF w, q, r, k
  <2> QED BY <2>1, <2>2
<1> DEFINE unit == <<r, k + 1>>
<1>u. /\ k < Rounds[r].size
      /\ wire' = [wire EXCEPT ![p][w][q] = Append(wire[p][w][q], unit)]
  BY <1>v, <1>s
<1>w. unit[1] = r /\ unit[2] = k + 1
  OBVIOUS
<1>x. unit \in Units /\ wire[p][w][q] \in Seq(Units) /\ NumRounds \in Nat
  <2>1. unit \in Units
    BY RoundsAre DEF Units
  <2>2. wire[p][w][q] \in Seq(Units)
    BY <1>t DEF TypeInv
  <2> QED BY <2>1, <2>2, RoundsAre
<1>m. /\ \A p2 \in Parties, c2 \in CommThreads :
            sent'[p2][c2] = IF p2 = p /\ c2 = c THEN k + 1 ELSE sent[p2][c2]
      /\ sent' \in [Parties -> [CommThreads -> Nat]]
  <2>1. sent \in [Parties -> [CommThreads -> Nat]]
    BY <1>t DEF TypeInv
  <2>2. sent' = [sent EXCEPT ![p][c] = k + 1]
    <3>1. sent' = [sent EXCEPT ![p][c] = sent[p][c] + 1]
      BY <1>v
    <3>2. k = sent[p][c]
      BY <1>s
    <3> QED BY <3>1, <3>2
  <2> QED BY <2>1, <2>2
<1> HIDE DEF unit
<1>r. /\ \A p2 \in Parties, w2 \in Workers, q2 \in Parties :
            wire'[p2][w2][q2] = IF p2 = p /\ w2 = w /\ q2 = q THEN Append(wire[p][w][q], unit)
                                ELSE wire[p2][w2][q2]
      /\ wire' \in [Parties -> [Workers -> [Parties -> Seq(Units)]]]
  <2>1. wire \in [Parties -> [Workers -> [Parties -> Seq(Units)]]]
        /\ Append(wire[p][w][q], unit) \in Seq(Units)
    BY <1>t, <1>x DEF TypeInv
  <2> DEFINE longer == Append(wire[p][w][q], unit)
  <2>2. longer \in Seq(Units) /\ wire' = [wire EXCEPT ![p][w][q] = longer]
    BY <2>1, <1>u
  <2> HIDE DEF longer
  <2>3. /\ \A p2 \in Parties, w2 \in Workers, q2 \in Parties :
              wire'[p2][w2][q2] = IF p2 = p /\ w2 = w /\ q2 = q THEN longer ELSE wire[p2][w2][q2]
        /\ wire' \in [Parties -> [Workers -> [Parties -> Seq(Units)]]]
    BY <2>1, <2>2, WireUpdate
  <2> QED BY <2>3 DEF longer
<1>1. TypeInv'
  BY <1>t, <1>v, <1>m, <1>r DEF TypeInv
<1>2. RingInv'
  BY <1>t, <1>v DEF RingInv
<1>3. SendInv'
  <2> SUFFICES ASSUME NEW p2 \in Parties, NEW c2 \in CommThreads, mode[p2][c2] = "sending"
               PROVE  /\ Here(p2, c2) # << >>
                      /\ sent'[p2][c2] <= Rounds[round[p2][serving[p2][c2]]].size
    BY <1>v DEF SendInv, Here
  <2>1. Here(p2, c2) # << >> /\ sent[p2][c2] <= Rounds[round[p2][serving[p2][c2]]].size
    BY <1>t DEF SendInv
  <2>2. CASE p2 = p /\ c2 = c
    <3>1. sent'[p2][c2] = k + 1 /\ round[p2][serving[p2][c2]] = r
      BY <2>2, <1>m, <1>s
    <3>2. k + 1 <= Rounds[r].size
      BY <1>u, <1>s
    <3> QED BY <2>1, <3>1, <3>2
  <2>3. CASE ~(p2 = p /\ c2 = c)
    BY <2>1, <2>3, <1>m
  <2> QED BY <2>2, <2>3
<1>4. GotInv'
  BY <1>t, <1>v DEF GotInv
<1>5. StopInv'
  BY <1>t, <1>v DEF StopInv, Done
<1>6. ASSUME NEW p2 \in Parties, NEW w2 \in Workers, NEW q2 \in Parties
      PROVE  HasSent(p2, w2, q2)' = IF p2 = p /\ w2 = w /\ q2 = q THEN k + 1
                                    ELSE HasSent(p2, w2, q2)
  <2>1. Server(w2) \in CommThreads
    BY ServerIs
  <2>2. CASE p2 = p /\ w2 = w /\ q2 = q
    <3>1. ring[p][w][q] # << >>
      BY <1>s
    <3>2. mode[p][c] = "sending" /\ serving[p][c] = w /\ peer[p][c] = q /\ sent'[p][c] = k + 1
      BY <1>v, <1>s, <1>m
    <3> QED BY <2>2, <3>1, <3>2, <1>s, <1>v DEF HasSent
  <2>3. CASE ~(p2 = p /\ w2 = w /\ q2 = q)
    <3>1. CASE p2 = p /\ Server(w2) = c
      <4>1. ~(serving[p2][Server(w2)] = w2 /\ peer[p2][Server(w2)] = q2)
        BY <2>3, <3>1, <1>s
      <4> QED BY <2>3, <4>1, <1>v DEF HasSent
    <3>2. CASE ~(p2 = p /\ Server(w2) = c)
      <4>1. sent'[p2][Server(w2)] = sent[p2][Server(w2)]
        BY <2>1, <3>2, <1>m
      <4> QED BY <2>3, <4>1, <1>v DEF HasSent
    <3> QED BY <3>1, <3>2
  <2> QED BY <2>2, <2>3
<1>7. \A p2 \in Parties, w2 \in Workers, q2 \in Parties : NextGot(q2, w2, p2)' = NextGot(q2, w2, p2)
  BY <1>v DEF NextGot, HasGot
<1>8. StreamInv'
  <2> SUFFICES ASSUME NEW p2 \in Parties, NEW w2 \in Workers, NEW q2 \in Parties
               PROVE  /\ StreamOK(p2, q2, wire'[p2][w2][q2], NextGot(q2, w2, p2), NextSent(p2, w2, q2)')
                      /\ \A i \in 1 .. Len(wire'[p2][w2][q2]) : wire'[p2][w2][q2][i][1] <= round[p2][w2]
    BY <1>7, <1>v DEF StreamInv
  <2>1. /\ StreamOK(p2, q2, wire[p2][w2][q2], NextGot(q2, w2, p2), NextSent(p2, w2, q2))
        /\ \A i \in 1 .. Len(wire[p2][w2][q2]) : wire[p2][w2][q2][i][1] <= round[p2][w2]
    BY <1>t DEF StreamInv
  <2>2. CASE p2 = p /\ w2 = w /\ q2 = q
    <3>1. NextSent(p, w, q) = unit
      BY <1>s, <1>u DEF NextSent, After, unit
    <3>2. NextSent(p, w, q)' = After(p, q, unit[1], unit[2])
      <4>1. NextSent(p, w, q)' = After(p, q, r, k + 1)
        BY <2>2, <1>6, <1>v, <1>s DEF NextSent
      <4> QED BY <4>1, <1>w
    <3>3. StreamOK(p, q, Append(wire[p][w][q], unit), NextGot(q, w, p), After(p, q, unit[1], unit[2]))
      BY <2>1, <2>2, <3>1, <1>x, StreamAppend
    <3>4. \A i \in 1 .. Len(Append(wire[p][w][q], unit)) : Append(wire[p][w][q], unit)[i][1] <= r
      <4> DEFINE u == wire[p][w][q]
      <4>1. Len(Append(u, unit)) = Len(u) + 1 /\ Len(u) \in Nat
        BY <1>x
      <4>2. \A i \in 1 .. Len(u) : Append(u, unit)[i] = u[i]
        BY <1>x
      <4>3. Append(u, unit)[Len(u) + 1] = unit
        BY <1>x
      <4>4. unit[1] <= r
        BY <1>w, <1>s
      <4>5. \A i \in 1 .. Len(u) : u[i][1] <= r
        BY <2>1, <2>2, <1>s
      <4> DEFINE v == Append(u, unit)
      <4>6. ASSUME NEW i \in 1 .. Len(v) PROVE v[i][1] <= r
        <5>1. CASE i = Len(u) + 1
          BY <5>1, <4>3, <4>4
        <5>2. CASE i # Len(u) + 1
          <6>1. i \in 1 .. Len(u)
            BY <5>2, <4>1, <4>6
          <6> QED BY <6>1, <4>2, <4>5
        <5> QED BY <5>1, <5>2
      <4> QED BY <4>6
    <3>5. wire'[p][w][q] = Append(wire[p][w][q], unit)
      BY <1>r, <1>s
    <3> QED BY <2>2, <3>2, <3>3, <3>4, <3>5, <1>s
  <2>3. CASE ~(p2 = p /\ w2 = w /\ q2 = q)
    <3>1. wire'[p2][w2][q2] = wire[p2][w2][q2]
      BY <2>3, <1>r
    <3>2. NextSent(p2, w2, q2)' = NextSent(p2, w2, q2)
      BY <2>3, <1>6, <1>v DEF NextSent
    <3> QED BY <2>1, <3>1, <3>2
  <2> QED BY <2>2, <2>3
<1>9. PaceInv'
  BY <1>t, <1>v DEF PaceInv
<1> QED
  BY <1>1, <1>2, <1>3, <1>4, <1>5, <1>8, <1>9 DEF IInv
(* What holds when a worker is about to read a unit.                       *)
LEMMA ReceivingIs ==
    ASSUME IInv, NEW p \in Parties, NEW w \in Workers, toPush[p][w] = {}, toRecv[p][w] # {}
    PROVE  LET s == NextSource(p, toRecv[p][w])
               r == round[p][w]
               k == Len(got[p][w])
           IN  /\ s \in Parties /\ s \in toRecv[p][w] /\ \A t \in toRecv[p][w] : s <= t
               /\ r \in 1 .. NumRounds /\ EdgeAt(s, p, r) /\ k \in Nat
               /\ k < Rounds[r].size /\ Rounds[r].size \in Nat \ {0}
               /\ NextGot(p, w, s) = <<r, k + 1>>
<1> DEFINE s == NextSource(p, toRecv[p][w])
           r == round[p][w]
           k == Len(got[p][w])
<1>t. TypeInv /\ RingInv /\ GotInv
  BY DEF IInv
<1>1. toRecv[p][w] \in SUBSET Parties /\ r \in 1 .. NumRounds + 1 /\ k \in Nat
  BY <1>t DEF TypeInv
<1>2. s \in toRecv[p][w] /\ \A t \in toRecv[p][w] : s <= t
  <2>1. Parties \in SUBSET Nat
    BY PartiesAssumption DEF Parties
  <2> QED BY <2>1, <1>1, SmallestIs DEF NextSource
<1> HIDE DEF s
<1>3. s \in Parties /\ s \in Sources(p, r)
  BY <1>1, <1>2, <1>t DEF RingInv
<1>4. EdgeAt(s, p, r) /\ r \in 1 .. NumRounds
  BY <1>1, <1>3, EdgesAre DEF EdgeAt
<1>5. k < Rounds[r].size
  BY <1>t DEF GotInv
<1>6. HasGot(p, w, s) = k
  BY <1>2 DEF HasGot, s
<1>7. NextGot(p, w, s) = <<r, k + 1>>
  BY <1>4, <1>5, <1>6 DEF NextGot, After
<1> QED
  BY <1>1, <1>2, <1>3, <1>4, <1>5, <1>7, RoundsAre DEF s

LEMMA ReceiveStep ==
    ASSUME IInv, NEW p \in Parties, NEW w \in Workers, Receive(p, w)
    PROVE  IInv'
<1>t. TypeInv /\ RingInv /\ SendInv /\ GotInv /\ StopInv /\ StreamInv /\ PaceInv
  BY DEF IInv
<1>v. /\ UNCHANGED <<round, toPush, ring, serving, peer, mode, sent, running>>
      /\ toPush[p][w] = {} /\ toRecv[p][w] # {}
      /\ LET s == NextSource(p, toRecv[p][w])
             data == Append(got[p][w], Head(wire[s][w][p]))
             whole == Whole(data, round[p][w])
         IN  /\ wire[s][w][p] # << >>
             /\ wire' = [wire EXCEPT ![s][w][p] = Tail(@)]
             /\ got' = [got EXCEPT ![p][w] = IF whole THEN << >> ELSE data]
             /\ toRecv' = [toRecv EXCEPT ![p][w] = IF whole THEN Remaining(@, s) ELSE @]
  BY DEF Receive, commVars
<1>s. PICK s \in Parties, r \in 1 .. NumRounds, k \in Nat, g \in Seq(Units), u \in Seq(Units) :
        /\ s = NextSource(p, toRecv[p][w]) /\ r = round[p][w] /\ k = Len(g)
        /\ g = got[p][w] /\ u = wire[s][w][p] /\ u # << >>
        /\ s \in toRecv[p][w] /\ EdgeAt(s, p, r)
        /\ k < Rounds[r].size /\ Rounds[r].size \in Nat \ {0}
        /\ NextGot(p, w, s) = <<r, k + 1>>
  <2> DEFINE s == NextSource(p, toRecv[p][w])
             r == round[p][w]
             k == Len(got[p][w])
             g == got[p][w]
             u == wire[s][w][p]
  <2>1. /\ s \in Parties /\ s \in toRecv[p][w]
        /\ r \in 1 .. NumRounds /\ EdgeAt(s, p, r) /\ k \in Nat
        /\ k < Rounds[r].size /\ Rounds[r].size \in Nat \ {0}
        /\ NextGot(p, w, s) = <<r, k + 1>>
    BY <1>v, ReceivingIs
  <2>2. s = NextSource(p, toRecv[p][w]) /\ r = round[p][w] /\ k = Len(g) /\ g = got[p][w]
        /\ u = wire[s][w][p] /\ u # << >>
    BY <1>v
  <2>3. g \in Seq(Units) /\ u \in Seq(Units)
    BY <1>t, <2>1 DEF TypeInv
  <2> HIDE DEF s, r, k, g, u
  <2> QED BY <2>1, <2>2, <2>3
<1> DEFINE unit == <<r, k + 1>>
           whole == k + 1 = Rounds[r].size
<1>h. /\ unit \in Units /\ unit[1] = r /\ unit[2] = k + 1 /\ Head(u) = unit /\ u[1] = unit
      /\ StreamOK(s, p, Tail(u), After(s, p, r, k + 1), NextSent(s, w, p))
  <2>1. unit \in Units /\ unit[1] = r /\ unit[2] = k + 1
    BY RoundsAre DEF Units
  <2>2. StreamOK(s, p, u, unit, NextSent(s, w, p))
    BY <1>s, <1>t DEF StreamInv
  <2>3. unit = u[1] /\ StreamOK(s, p, Tail(u), After(s, p, u[1][1], u[1][2]), NextSent(s, w, p))
    <3> HIDE DEF unit
    <3> QED BY <2>2, <1>s, StreamTail
  <2>4. Head(u) = u[1]
    BY <1>s
  <2> HIDE DEF unit
  <2> QED BY <2>1, <2>3, <2>4
<1>d. Append(g, unit) \in Seq(Units) /\ Len(Append(g, unit)) = k + 1
      /\ \A i \in 1 .. k : Append(g, unit)[i] = g[i]
      /\ Append(g, unit)[k + 1] = unit
  BY <1>h, <1>s
<1> DEFINE g2 == IF whole THEN << >> ELSE Append(g, unit)
           R2 == IF whole THEN toRecv[p][w] \ {s} ELSE toRecv[p][w]
<1>u. /\ wire' = [wire EXCEPT ![s][w][p] = Tail(u)]
      /\ got' = [got EXCEPT ![p][w] = g2]
      /\ toRecv' = [toRecv EXCEPT ![p][w] = R2]
  <2>1. Append(got[p][w], Head(wire[s][w][p])) = Append(g, unit)
    BY <1>s, <1>h
  <2>2. Whole(Append(g, unit), r) <=> whole
    BY <1>d DEF Whole
  <2> HIDE DEF unit, whole
  <2> QED BY <2>1, <2>2, <1>v, <1>s DEF Remaining
<1>x. Tail(u) \in Seq(Units) /\ g2 \in Seq(Units) /\ R2 \in SUBSET Parties
  <2>1. toRecv[p][w] \in SUBSET Parties
    BY <1>t DEF TypeInv
  <2>2. Tail(u) \in Seq(Units)
    BY <1>s
  <2> QED BY <2>1, <2>2, <1>d
<1> HIDE DEF unit, g2, R2
<1>r. /\ \A p2 \in Parties, w2 \in Workers, q2 \in Parties :
            wire'[p2][w2][q2] = IF p2 = s /\ w2 = w /\ q2 = p THEN Tail(u) ELSE wire[p2][w2][q2]
      /\ wire' \in [Parties -> [Workers -> [Parties -> Seq(Units)]]]
  <2>1. wire \in [Parties -> [Workers -> [Parties -> Seq(Units)]]]
    BY <1>t DEF TypeInv
  <2> DEFINE rest == Tail(u)
  <2>2. rest \in Seq(Units) /\ wire' = [wire EXCEPT ![s][w][p] = rest]
    BY <1>u, <1>x
  <2> HIDE DEF rest
  <2>3. /\ \A p2 \in Parties, w2 \in Workers, q2 \in Parties :
              wire'[p2][w2][q2] = IF p2 = s /\ w2 = w /\ q2 = p THEN rest ELSE wire[p2][w2][q2]
        /\ wire' \in [Parties -> [Workers -> [Parties -> Seq(Units)]]]
    BY <2>1, <2>2, WireUpdate
  <2> QED BY <2>3 DEF rest
<1>m. /\ \A p2 \in Parties, w2 \in Workers :
            /\ got'[p2][w2] = IF p2 = p /\ w2 = w THEN g2 ELSE got[p2][w2]
            /\ toRecv'[p2][w2] = IF p2 = p /\ w2 = w THEN R2 ELSE toRecv[p2][w2]
      /\ got' \in [Parties -> [Workers -> Seq(Units)]]
      /\ toRecv' \in [Parties -> [Workers -> SUBSET Parties]]
  <2>1. got \in [Parties -> [Workers -> Seq(Units)]] /\ toRecv \in [Parties -> [Workers -> SUBSET Parties]]
    BY <1>t DEF TypeInv
  <2> QED BY <2>1, <1>u, <1>x
<1>1. TypeInv'
  BY <1>t, <1>v, <1>m, <1>r DEF TypeInv
<1>2. RingInv'
  <2>1. R2 \subseteq toRecv[p][w]
    BY DEF R2
  <2>2. \A p2 \in Parties, w2 \in Workers : toRecv'[p2][w2] \subseteq toRecv[p2][w2]
    BY <2>1, <1>m
  <2>3. \A p2 \in Parties, w2 \in Workers : toRecv'[p2][w2] \subseteq Sources(p2, round[p2][w2])
    BY <2>2, <1>t DEF RingInv
  <2> QED BY <2>3, <1>t, <1>v DEF RingInv
<1>3. SendInv'
  BY <1>t, <1>v DEF SendInv, Here
<1>4. GotInv'
  <2> SUFFICES ASSUME NEW p2 \in Parties, NEW w2 \in Workers
               PROVE  /\ toRecv'[p2][w2] = {} => got'[p2][w2] = << >>
                      /\ toPush'[p2][w2] # {} => got'[p2][w2] = << >>
                      /\ toRecv'[p2][w2] # {} => Len(got'[p2][w2]) < Rounds[round'[p2][w2]].size
                      /\ \A i \in 1 .. Len(got'[p2][w2]) : got'[p2][w2][i] = <<round'[p2][w2], i>>
    BY DEF GotInv
  <2>0. toPush'[p2][w2] = toPush[p2][w2] /\ round'[p2][w2] = round[p2][w2]
    BY <1>v
  <2>1. CASE p2 = p /\ w2 = w
    <3>1. got'[p2][w2] = g2 /\ toRecv'[p2][w2] = R2 /\ toPush[p2][w2] = {} /\ round[p2][w2] = r
      BY <2>1, <1>m, <1>v, <1>s
    <3>2. CASE whole
      <4>1. g2 = << >> /\ Len(g2) = 0
        BY <3>2 DEF g2
      <4> QED BY <2>0, <3>1, <4>1, <1>s
    <3>3. CASE ~whole
      <4>1. g2 = Append(g, unit) /\ R2 # {}
        BY <3>3, <1>s DEF g2, R2
      <4>2. Len(g2) = k + 1 /\ k + 1 < Rounds[r].size
        BY <4>1, <3>3, <1>d, <1>s
      <4>3. \A i \in 1 .. k : g[i] = <<r, i>>
        BY <1>s, <1>t DEF GotInv
      <4>4. ASSUME NEW i \in 1 .. k + 1 PROVE g2[i] = <<r, i>>
        <5>1. CASE i = k + 1
          BY <5>1, <4>1, <1>d DEF unit
        <5>2. CASE i # k + 1
          <6>1. i \in 1 .. k
            BY <5>2, <4>4
          <6> QED BY <6>1, <4>1, <4>3, <1>d
        <5> QED BY <5>1, <5>2
      <4> QED BY <2>0, <3>1, <4>1, <4>2, <4>4
    <3> QED BY <3>2, <3>3
  <2>2. CASE ~(p2 = p /\ w2 = w)
    <3>1. got'[p2][w2] = got[p2][w2] /\ toRecv'[p2][w2] = toRecv[p2][w2]
      BY <2>2, <1>m
    <3> QED BY <2>0, <3>1, <1>t DEF GotInv
  <2> QED BY <2>1, <2>2
<1>5. StopInv'
  BY <1>t, <1>v DEF StopInv, Done
<1>6. \A p2 \in Parties, w2 \in Workers, q2 \in Parties : NextSent(p2, w2, q2)' = NextSent(p2, w2, q2)
  BY <1>v DEF NextSent, HasSent
<1>7. ASSUME NEW p2 \in Parties, NEW w2 \in Workers, NEW s2 \in Parties
      PROVE  NextGot(p2, w2, s2)' = IF p2 = p /\ w2 = w /\ s2 = s THEN After(s, p, r, k + 1)
                                    ELSE NextGot(p2, w2, s2)
  <2>1. CASE p2 = p /\ w2 = w /\ s2 = s
    <3>1. HasGot(p, w, s)' = k + 1
      <4>1. CASE whole
        <5>1. s \notin toRecv'[p][w]
          BY <4>1, <1>m DEF R2
        <5> QED BY <5>1, <4>1, <1>v, <1>s DEF HasGot
      <4>2. CASE ~whole
        <5>1. toRecv'[p][w] = toRecv[p][w] /\ got'[p][w] = Append(g, unit)
          BY <4>2, <1>m DEF R2, g2
        <5> QED BY <5>1, <1>s, <1>d DEF HasGot, NextSource
      <4> QED BY <4>1, <4>2
    <3> QED BY <2>1, <3>1, <1>v, <1>s DEF NextGot
  <2>2. CASE p2 = p /\ w2 = w /\ s2 # s
    <3>1. HasGot(p, w, s2)' = HasGot(p, w, s2)
      <4>1. CASE s2 \notin toRecv[p][w]
        <5>1. s2 \notin toRecv'[p][w]
          BY <4>1, <1>m DEF R2
        <5> QED BY <5>1, <4>1, <1>v DEF HasGot
      <4>2. CASE s2 \in toRecv[p][w]
        <5>1. s2 \in toRecv'[p][w] /\ HasGot(p, w, s2) = 0
          BY <4>2, <2>2, <1>s, <1>m DEF R2, HasGot
        <5>2. CASE whole
          <6>1. Len(got'[p][w]) = 0
            BY <5>2, <1>m DEF g2
          <6> QED BY <5>1, <6>1 DEF HasGot
        <5>3. CASE ~whole
          <6>1. toRecv'[p][w] = toRecv[p][w]
            BY <5>3, <1>m DEF R2
          <6> QED BY <5>1, <6>1, <2>2, <1>s DEF HasGot, NextSource
        <5> QED BY <5>2, <5>3
      <4> QED BY <4>1, <4>2
    <3> QED BY <2>2, <3>1, <1>v DEF NextGot
  <2>3. CASE ~(p2 = p /\ w2 = w)
    <3>1. got'[p2][w2] = got[p2][w2] /\ toRecv'[p2][w2] = toRecv[p2][w2]
      BY <2>3, <1>m
    <3> QED BY <2>3, <3>1, <1>v DEF NextGot, HasGot, NextSource
  <2> QED BY <2>1, <2>2, <2>3
<1>8. StreamInv'
  <2> SUFFICES ASSUME NEW p2 \in Parties, NEW w2 \in Workers, NEW q2 \in Parties
               PROVE  /\ StreamOK(p2, q2, wire'[p2][w2][q2], NextGot(q2, w2, p2)', NextSent(p2, w2, q2))
                      /\ \A i \in 1 .. Len(wire'[p2][w2][q2]) : wire'[p2][w2][q2][i][1] <= round[p2][w2]
    BY <1>6, <1>v DEF StreamInv
  <2>1. /\ StreamOK(p2, q2, wire[p2][w2][q2], NextGot(q2, w2, p2), NextSent(p2, w2, q2))
        /\ \A i \in 1 .. Len(wire[p2][w2][q2]) : wire[p2][w2][q2][i][1] <= round[p2][w2]
    BY <1>t DEF StreamInv
  <2>2. CASE p2 = s /\ w2 = w /\ q2 = p
    <3>1. wire'[s][w][p] = Tail(u) /\ NextGot(p, w, s)' = After(s, p, r, k + 1)
      BY <1>r, <1>7
    <3>2. \A i \in 1 .. Len(Tail(u)) : Tail(u)[i][1] <= round[s][w]
      <4>1. Len(u) \in Nat \ {0} /\ Len(Tail(u)) = Len(u) - 1
        BY <1>s
      <4>2. \A i \in 1 .. Len(Tail(u)) : Tail(u)[i] = u[i + 1]
        BY <1>s
      <4>3. \A i \in 1 .. Len(u) : u[i][1] <= round[s][w]
        BY <2>1, <2>2, <1>s
      <4>4. \A i \in 1 .. Len(Tail(u)) : i + 1 \in 1 .. Len(u)
        BY <4>1
      <4> QED BY <4>2, <4>3, <4>4
    <3> QED BY <2>2, <3>1, <3>2, <1>h
  <2>3. CASE ~(p2 = s /\ w2 = w /\ q2 = p)
    <3>1. wire'[p2][w2][q2] = wire[p2][w2][q2]
      BY <2>3, <1>r
    <3>2. NextGot(q2, w2, p2)' = NextGot(q2, w2, p2)
      BY <2>3, <1>7
    <3> QED BY <2>1, <3>1, <3>2
  <2> QED BY <2>2, <2>3
<1>9. PaceInv'
  <2> SUFFICES ASSUME NEW p2 \in Parties, NEW w2 \in Workers, NEW s2 \in Sources(p2, round[p2][w2]),
                      \/ s2 \notin toRecv'[p2][w2]
                      \/ s2 = NextSource(p2, toRecv'[p2][w2]) /\ got'[p2][w2] # << >>
               PROVE  round[s2][w2] >= round[p2][w2]
    BY <1>v DEF PaceInv, NextSource
  <2>1. CASE p2 = p /\ w2 = w /\ s2 = s
    <3>1. Len(u) \in Nat \ {0} /\ \A i \in 1 .. Len(u) : u[i][1] <= round[s][w]
      BY <1>s, <1>t DEF StreamInv
    <3>2. u[1][1] = r
      BY <1>h
    <3>3. r <= round[s][w]
      BY <3>1, <3>2
    <3>4. round[s][w] \in Nat
      BY <1>t, RoundsAre DEF TypeInv
    <3> QED BY <2>1, <3>3, <3>4, <1>s
  <2>2. CASE p2 = p /\ w2 = w /\ s2 # s
    <3>1. CASE whole
      <4>1. got'[p][w] = << >>
        BY <3>1, <1>m DEF g2
      <4>2. s2 \notin toRecv[p][w]
        BY <2>2, <3>1, <4>1, <1>m DEF R2
      <4> QED BY <2>2, <4>2, <1>t DEF PaceInv
    <3>2. CASE ~whole
      <4>1. toRecv'[p][w] = toRecv[p][w]
        BY <3>2, <1>m DEF R2
      <4>2. s2 \notin toRecv[p][w]
        BY <2>2, <4>1, <1>s DEF NextSource
      <4> QED BY <2>2, <4>2, <1>t DEF PaceInv
    <3> QED BY <3>1, <3>2
  <2>3. CASE ~(p2 = p /\ w2 = w)
    <3>1. got'[p2][w2] = got[p2][w2] /\ toRecv'[p2][w2] = toRecv[p2][w2]
      BY <2>3, <1>m
    <3> QED BY <3>1, <1>t DEF PaceInv, NextSource
  <2> QED BY <2>1, <2>2, <2>3
<1> QED
  BY <1>1, <1>2, <1>3, <1>4, <1>5, <1>8, <1>9 DEF IInv

(* The end of a round is followed by the beginning of the next.            *)
LEMMA AfterRound ==
    ASSUME NEW p, NEW q, NEW r \in 1 .. NumRounds, NEW k \in Nat, EdgeAt(p, q, r + 1) => k = 0
    PROVE  After(p, q, r, Rounds[r].size) = After(p, q, r + 1, k)
<1>1. NumRounds \in Nat /\ Rounds[r].size \in Nat \ {0} /\ r + 1 \in Nat \ {0}
  BY RoundsAre
<1>2. After(p, q, r, Rounds[r].size) = <<FirstFrom(p, q, r + 1), 1>>
  BY <1>1 DEF After
<1>3. CASE EdgeAt(p, q, r + 1)
  <2>1. FirstFrom(p, q, r + 1) = r + 1
    BY <1>1, <1>3, FirstFromIs
  <2>2. Rounds[r + 1].size \in Nat \ {0}
    BY <1>3, RoundsAre DEF EdgeAt
  <2> QED BY <1>2, <1>3, <2>1, <2>2 DEF After
<1>4. CASE ~EdgeAt(p, q, r + 1)
  <2>1. FirstFrom(p, q, r + 1) = FirstFrom(p, q, (r + 1) + 1)
    BY <1>1, <1>4, FirstFromIs
  <2> QED BY <1>2, <1>4, <2>1 DEF After
<1> QED
  BY <1>3, <1>4

LEMMA ReturnStep ==
    ASSUME IInv, NEW p \in Parties, NEW w \in Workers, Return(p, w)
    PROVE  IInv'
<1>t. TypeInv /\ RingInv /\ SendInv /\ GotInv /\ StopInv /\ StreamInv /\ PaceInv
  BY DEF IInv
<1>v. /\ UNCHANGED <<got, ring, wire, serving, peer, mode, sent, running>>
      /\ ~Done(p, w) /\ toPush[p][w] = {} /\ toRecv[p][w] = {} /\ AllSent(p, w)
      /\ round'  = [round EXCEPT ![p][w] = round[p][w] + 1]
      /\ toPush' = [toPush EXCEPT ![p][w] = Destinations(p, round[p][w] + 1)]
      /\ toRecv' = [toRecv EXCEPT ![p][w] = Sources(p, round[p][w] + 1)]
  BY DEF Return, commVars
<1>s. PICK r \in 1 .. NumRounds : r = round[p][w]
  BY <1>t, <1>v, RoundsAre DEF TypeInv, Done
<1>x. /\ r + 1 \in 1 .. NumRounds + 1
      /\ Destinations(p, r + 1) \in SUBSET Parties /\ Sources(p, r + 1) \in SUBSET Parties
  BY RoundsAre DEF Destinations, Sources
<1>m. /\ \A p2 \in Parties, w2 \in Workers :
            /\ round'[p2][w2] = IF p2 = p /\ w2 = w THEN r + 1 ELSE round[p2][w2]
            /\ toPush'[p2][w2] = IF p2 = p /\ w2 = w THEN Destinations(p, r + 1) ELSE toPush[p2][w2]
            /\ toRecv'[p2][w2] = IF p2 = p /\ w2 = w THEN Sources(p, r + 1) ELSE toRecv[p2][w2]
      /\ round' \in [Parties -> [Workers -> 1 .. NumRounds + 1]]
      /\ toPush' \in [Parties -> [Workers -> SUBSET Parties]]
      /\ toRecv' \in [Parties -> [Workers -> SUBSET Parties]]
  <2>1. /\ round \in [Parties -> [Workers -> 1 .. NumRounds + 1]]
        /\ toPush \in [Parties -> [Workers -> SUBSET Parties]]
        /\ toRecv \in [Parties -> [Workers -> SUBSET Parties]]
    BY <1>t DEF TypeInv
  <2>2. /\ round'  = [round EXCEPT ![p][w] = r + 1]
        /\ toPush' = [toPush EXCEPT ![p][w] = Destinations(p, r + 1)]
        /\ toRecv' = [toRecv EXCEPT ![p][w] = Sources(p, r + 1)]
    BY <1>v, <1>s
  <2> QED BY <2>1, <2>2, <1>x
<1>e. /\ \A q \in Parties : ring[p][w][q] = << >>
      /\ got[p][w] = << >>
  BY <1>t, <1>v DEF RingInv, GotInv, AllSent
<1>1. TypeInv'
  BY <1>t, <1>v, <1>m DEF TypeInv
<1>2. RingInv'
  <2> SUFFICES ASSUME NEW p2 \in Parties, NEW w2 \in Workers
               PROVE  /\ toPush'[p2][w2] \subseteq Destinations(p2, round'[p2][w2])
                      /\ toRecv'[p2][w2] \subseteq Sources(p2, round'[p2][w2])
                      /\ \A q \in Parties :
                            \/ ring'[p2][w2][q] = << >>
                            \/ /\ ring'[p2][w2][q] = <<round'[p2][w2]>>
                               /\ q \in Destinations(p2, round'[p2][w2]) \ toPush'[p2][w2]
    BY DEF RingInv
  <2>1. CASE p2 = p /\ w2 = w
    BY <2>1, <1>m, <1>e, <1>v
  <2>2. CASE ~(p2 = p /\ w2 = w)
    BY <2>2, <1>m, <1>t, <1>v DEF RingInv
  <2> QED BY <2>1, <2>2
<1>3. SendInv'
  <2> SUFFICES ASSUME NEW p2 \in Parties, NEW c2 \in CommThreads, mode[p2][c2] = "sending"
               PROVE  /\ Here(p2, c2) # << >>
                      /\ sent[p2][c2] <= Rounds[round'[p2][serving[p2][c2]]].size
    BY <1>v DEF SendInv, Here
  <2>1. Here(p2, c2) # << >> /\ sent[p2][c2] <= Rounds[round[p2][serving[p2][c2]]].size
    BY <1>t DEF SendInv
  <2>2. serving[p2][c2] \in Workers /\ peer[p2][c2] \in Parties
    BY <1>t DEF TypeInv
  <2>3. ~(p2 = p /\ serving[p2][c2] = w)
    BY <2>1, <2>2, <1>e DEF Here
  <2> QED BY <2>1, <2>2, <2>3, <1>m
<1>4. GotInv'
  <2> SUFFICES ASSUME NEW p2 \in Parties, NEW w2 \in Workers
               PROVE  /\ toRecv'[p2][w2] = {} => got'[p2][w2] = << >>
                      /\ toPush'[p2][w2] # {} => got'[p2][w2] = << >>
                      /\ toRecv'[p2][w2] # {} => Len(got'[p2][w2]) < Rounds[round'[p2][w2]].size
                      /\ \A i \in 1 .. Len(got'[p2][w2]) : got'[p2][w2][i] = <<round'[p2][w2], i>>
    BY DEF GotInv
  <2>1. CASE p2 = p /\ w2 = w
    <3>1. toRecv'[p][w] # {} => Rounds[r + 1].size \in Nat \ {0}
      <4> SUFFICES ASSUME NEW s \in Sources(p, r + 1) PROVE Rounds[r + 1].size \in Nat \ {0}
        BY <1>m
      <4>1. EdgeAt(s, p, r + 1)
        BY <1>x, EdgesAre
      <4> QED BY <4>1, RoundsAre DEF EdgeAt
    <3>2. Len(got'[p][w]) = 0 /\ got'[p][w] = << >>
      BY <1>e, <1>v
    <3> QED BY <2>1, <3>1, <3>2, <1>m
  <2>2. CASE ~(p2 = p /\ w2 = w)
    <3>1. /\ toRecv'[p2][w2] = toRecv[p2][w2] /\ toPush'[p2][w2] = toPush[p2][w2]
          /\ got'[p2][w2] = got[p2][w2] /\ round'[p2][w2] = round[p2][w2]
      BY <2>2, <1>m, <1>v
    <3>2. /\ toRecv[p2][w2] = {} => got[p2][w2] = << >>
          /\ toPush[p2][w2] # {} => got[p2][w2] = << >>
          /\ toRecv[p2][w2] # {} => Len(got[p2][w2]) < Rounds[round[p2][w2]].size
          /\ \A i \in 1 .. Len(got[p2][w2]) : got[p2][w2][i] = <<round[p2][w2], i>>
      BY <1>t DEF GotInv
    <3> QED BY <3>1, <3>2
  <2> QED BY <2>1, <2>2
<1>5. StopInv'
  <2>1. running[p]
    BY <1>t, <1>v DEF StopInv
  <2>2. ASSUME NEW p2 \in Parties, ~running[p2], NEW w2 \in Workers
        PROVE  round'[p2][w2] = NumRounds + 1
    BY <2>1, <2>2, <1>m, <1>t DEF StopInv, Done
  <2> QED BY <2>2, <1>t, <1>v DEF StopInv, Done
<1>6. ASSUME NEW p2 \in Parties, NEW w2 \in Workers, NEW q2 \in Parties
      PROVE  NextSent(p2, w2, q2)' = NextSent(p2, w2, q2)
  <2>1. CASE p2 = p /\ w2 = w
    <3> DEFINE k == HasSent(p, w, q2)'
    <3>1. HasSent(p, w, q2) = Rounds[r].size
      BY <1>e, <1>s, <1>v DEF HasSent
    <3>2. k = 0 \/ ~EdgeAt(p, q2, r + 1)
      <4>1. q2 \in toPush'[p][w] <=> EdgeAt(p, q2, r + 1)
        BY <1>m, <1>x, EdgesAre
      <4> QED BY <4>1 DEF HasSent
    <3> HIDE DEF k
    <3>3. After(p, q2, r, Rounds[r].size) = After(p, q2, r + 1, k)
      <4>1. CASE k = 0
        BY <4>1, AfterRound
      <4>2. CASE ~EdgeAt(p, q2, r + 1)
        <5>1. After(p, q2, r, Rounds[r].size) = After(p, q2, r + 1, 0)
          BY AfterRound
        <5> QED BY <5>1, <4>2, AfterNoEdge
      <4> QED BY <3>2, <4>1, <4>2
    <3>4. NextSent(p, w, q2)' = After(p, q2, r + 1, k)
      BY <1>m DEF NextSent, k
    <3>5. NextSent(p, w, q2) = After(p, q2, r, Rounds[r].size)
      BY <3>1, <1>s DEF NextSent
    <3> QED BY <2>1, <3>3, <3>4, <3>5
  <2>2. CASE ~(p2 = p /\ w2 = w)
    BY <2>2, <1>m, <1>v DEF NextSent, HasSent
  <2> QED BY <2>1, <2>2
<1>7. ASSUME NEW p2 \in Parties, NEW w2 \in Workers, NEW s2 \in Parties
      PROVE  NextGot(p2, w2, s2)' = NextGot(p2, w2, s2)
  <2>1. CASE p2 = p /\ w2 = w
    <3> DEFINE k == HasGot(p, w, s2)'
    <3>1. HasGot(p, w, s2) = Rounds[r].size
      BY <1>s, <1>v DEF HasGot
    <3>2. k = 0 \/ ~EdgeAt(s2, p, r + 1)
      <4>1. s2 \in toRecv'[p][w] <=> EdgeAt(s2, p, r + 1)
        BY <1>m, <1>x, EdgesAre
      <4>2. Len(got'[p][w]) = 0
        BY <1>v, <1>e
      <4> QED BY <4>1, <4>2 DEF HasGot
    <3> HIDE DEF k
    <3>3. After(s2, p, r, Rounds[r].size) = After(s2, p, r + 1, k)
      <4>1. CASE k = 0
        BY <4>1, AfterRound
      <4>2. CASE ~EdgeAt(s2, p, r + 1)
        <5>1. After(s2, p, r, Rounds[r].size) = After(s2, p, r + 1, 0)
          BY AfterRound
        <5> QED BY <5>1, <4>2, AfterNoEdge
      <4> QED BY <3>2, <4>1, <4>2
    <3>4. NextGot(p, w, s2)' = After(s2, p, r + 1, k)
      BY <1>m DEF NextGot, k
    <3>5. NextGot(p, w, s2) = After(s2, p, r, Rounds[r].size)
      BY <3>1, <1>s DEF NextGot
    <3> QED BY <2>1, <3>3, <3>4, <3>5
  <2>2. CASE ~(p2 = p /\ w2 = w)
    BY <2>2, <1>m, <1>v DEF NextGot, HasGot, NextSource
  <2> QED BY <2>1, <2>2
<1>g. \A p2 \in Parties, w2 \in Workers :
        round[p2][w2] \in Nat /\ round'[p2][w2] \in Nat /\ round[p2][w2] <= round'[p2][w2]
  <2>1. \A p2 \in Parties, w2 \in Workers : round[p2][w2] \in Nat
    BY <1>t, RoundsAre DEF TypeInv
  <2> QED BY <2>1, <1>m, <1>s
<1>8. StreamInv'
  <2> SUFFICES ASSUME NEW p2 \in Parties, NEW w2 \in Workers, NEW q2 \in Parties
               PROVE  /\ StreamOK(p2, q2, wire[p2][w2][q2], NextGot(q2, w2, p2), NextSent(p2, w2, q2))
                      /\ \A i \in 1 .. Len(wire[p2][w2][q2]) : wire[p2][w2][q2][i][1] <= round'[p2][w2]
    BY <1>6, <1>7, <1>v DEF StreamInv
  <2>1. /\ StreamOK(p2, q2, wire[p2][w2][q2], NextGot(q2, w2, p2), NextSent(p2, w2, q2))
        /\ \A i \in 1 .. Len(wire[p2][w2][q2]) : wire[p2][w2][q2][i][1] <= round[p2][w2]
    BY <1>t DEF StreamInv
  <2>2. \A i \in 1 .. Len(wire[p2][w2][q2]) : wire[p2][w2][q2][i][1] \in Nat
    <3>1. wire[p2][w2][q2] \in Seq(Units)
      BY <1>t DEF TypeInv
    <3>2. \A i \in 1 .. Len(wire[p2][w2][q2]) : wire[p2][w2][q2][i] \in Units
      BY <3>1
    <3> QED BY <3>2 DEF Units
  <2> QED BY <2>1, <2>2, <1>g
<1>9. PaceInv'
  <2> SUFFICES ASSUME NEW p2 \in Parties, NEW w2 \in Workers, NEW s2 \in Sources(p2, round'[p2][w2]),
                      \/ s2 \notin toRecv'[p2][w2]
                      \/ s2 = NextSource(p2, toRecv'[p2][w2]) /\ got[p2][w2] # << >>
               PROVE  round'[s2][w2] >= round'[p2][w2]
    BY <1>v DEF PaceInv, NextSource
  <2>0. ~(p2 = p /\ w2 = w)
    BY <1>m, <1>e
  <2>1. round'[p2][w2] = round[p2][w2] /\ toRecv'[p2][w2] = toRecv[p2][w2]
    BY <2>0, <1>m
  <2>2. round[s2][w2] >= round[p2][w2]
    BY <2>1, <1>t DEF PaceInv, NextSource
  <2>3. s2 \in Parties
    BY DEF Sources
  <2> QED BY <2>1, <2>2, <2>3, <1>g
<1> QED
  BY <1>1, <1>2, <1>3, <1>4, <1>5, <1>8, <1>9 DEF IInv

-----------------------------------------------------------------------------
(* The theorems.                                                           *)

LEMMA StutterStep == ASSUME IInv, UNCHANGED vars PROVE IInv'
<1>v. UNCHANGED <<round, toPush, toRecv, got, ring, wire, serving, peer, mode, sent, running>>
  BY DEF vars, workerVars, commVars
<1>t. TypeInv /\ RingInv /\ SendInv /\ GotInv /\ StopInv /\ StreamInv /\ PaceInv
  BY DEF IInv
<1>1. TypeInv'
  BY <1>t, <1>v DEF TypeInv
<1>2. RingInv' /\ SendInv' /\ GotInv' /\ StopInv'
  BY <1>t, <1>v DEF RingInv, SendInv, Here, GotInv, StopInv, Done
<1>3. \A p \in Parties, w \in Workers, q \in Parties : HasSent(p, w, q)' = HasSent(p, w, q)
  BY <1>v DEF HasSent
<1>4. StreamInv' /\ PaceInv'
  BY <1>t, <1>v, <1>3, StreamsKept
<1> QED
  BY <1>1, <1>2, <1>4 DEF IInv

LEMMA NextStep == ASSUME IInv, [Next]_vars PROVE IInv'
<1>1. CASE UNCHANGED vars
  BY <1>1, StutterStep
<1>2. ASSUME NEW p \in Parties, NEW w \in Workers, WorkerStep(p, w) PROVE IInv'
  BY <1>2, PushStep, ReceiveStep, ReturnStep DEF WorkerStep
<1>3. ASSUME NEW p \in Parties, NEW c \in CommThreads, CommStep(p, c) PROVE IInv'
  BY <1>3, PassStep, TakeStep, SendUnitStep, PopStep DEF CommStep
<1>4. ASSUME NEW p \in Parties, Destroy(p) PROVE IInv'
  BY <1>4, DestroyStep
<1> QED
  BY <1>1, <1>2, <1>3, <1>4 DEF Next

(* The invariant holds of every behaviour of the communicator.             *)
THEOREM Invariant == Spec => []IInv
<1> QED
  BY InitInv, NextStep, PTL DEF Spec

(* What a worker has read, and what it will read next, are the units its   *)
(* source sent it in this round, in order.                                 *)
THEOREM InOrder == Spec => []ReceivedInOrder
<1>1. IInv => ReceivedInOrder
  <2> SUFFICES ASSUME IInv, NEW p \in Parties, NEW w \in Workers,
                      toPush[p][w] = {}, toRecv[p][w] # {}
               PROVE  LET s == NextSource(p, toRecv[p][w])
                      IN  /\ \A k \in DOMAIN got[p][w] : got[p][w][k] = <<round[p][w], k>>
                          /\ wire[s][w][p] # << >> =>
                                 Head(wire[s][w][p]) = <<round[p][w], Len(got[p][w]) + 1>>
    BY DEF ReceivedInOrder
  <2> DEFINE s == NextSource(p, toRecv[p][w])
  <2>1. s \in Parties /\ NextGot(p, w, s) = <<round[p][w], Len(got[p][w]) + 1>>
    BY ReceivingIs
  <2> HIDE DEF s
  <2>2. got[p][w] \in Seq(Units) /\ wire[s][w][p] \in Seq(Units)
    BY <2>1 DEF IInv, TypeInv
  <2>3. \A k \in DOMAIN got[p][w] : got[p][w][k] = <<round[p][w], k>>
    <3>1. DOMAIN got[p][w] = 1 .. Len(got[p][w])
      BY <2>2
    <3> QED BY <3>1 DEF IInv, GotInv
  <2>4. wire[s][w][p] # << >> => NextGot(p, w, s) = wire[s][w][p][1]
    BY <2>1 DEF IInv, StreamInv, StreamOK
  <2>5. wire[s][w][p] # << >> => Head(wire[s][w][p]) = wire[s][w][p][1]
    BY <2>2
  <2> QED BY <2>1, <2>3, <2>4, <2>5 DEF s
<1> QED
  BY <1>1, Invariant, PTL

(* A worker pushes only on rings that are empty.                           *)
THEOREM FreeAtPush == Spec => []RingsFreeAtPush
<1>1. IInv => RingsFreeAtPush
  <2> SUFFICES ASSUME IInv, NEW p \in Parties, NEW w \in Workers, NEW q \in toPush[p][w]
               PROVE  ring[p][w][q] = << >>
    BY DEF RingsFreeAtPush
  <2>1. q \in Parties
    BY DEF IInv, TypeInv
  <2> QED BY <2>1 DEF IInv, RingInv
<1> QED
  BY <1>1, Invariant, PTL

-----------------------------------------------------------------------------
(* What happens to the sockets: one of them loses its first unit, or one   *)
(* that is not full gains a unit of a round with that edge.                *)
Loses(p, w, q) == wire[p][w][q] # << >> /\ wire' = [wire EXCEPT ![p][w][q] = Tail(@)]
Gains(p, w, q, r, k) ==
    /\ EdgeAt(p, q, r) /\ Len(wire[p][w][q]) < Capacity
    /\ wire' = [wire EXCEPT ![p][w][q] = Append(@, <<r, k + 1>>)]

(* Nothing else does.                                                      *)
LEMMA SocketSteps ==
    ASSUME IInv, [Next]_vars
    PROVE  \/ UNCHANGED wire
           \/ \E p \in Parties, w \in Workers, q \in Parties : Loses(p, w, q)
           \/ \E p \in Parties, w \in Workers, q \in Parties, r \in 1 .. NumRounds, k \in Nat :
                  Gains(p, w, q, r, k)
<1>1. ASSUME NEW p \in Parties, NEW w \in Workers, Receive(p, w)
      PROVE  \E s \in Parties : Loses(s, w, p)
  <2> DEFINE s == NextSource(p, toRecv[p][w])
  <2>1. s \in Parties
    BY <1>1, ReceivingIs DEF Receive
  <2>2. wire[s][w][p] # << >> /\ wire' = [wire EXCEPT ![s][w][p] = Tail(@)]
    BY <1>1 DEF Receive
  <2> HIDE DEF s
  <2> QED BY <2>1, <2>2 DEF Loses
<1>2. ASSUME NEW p \in Parties, NEW c \in CommThreads, SendUnit(p, c)
      PROVE  \E w \in Workers, q \in Parties, r \in 1 .. NumRounds, k \in Nat : Gains(p, w, q, r, k)
  <2> DEFINE w == serving[p][c]
             q == peer[p][c]
             r == round[p][w]
             k == sent[p][c]
  <2>1. /\ w \in Workers /\ q \in Parties /\ r \in 1 .. NumRounds /\ k \in Nat
        /\ Head(Here(p, c)) = r /\ EdgeAt(p, q, r)
    BY <1>2, SendingIs DEF SendUnit
  <2>2. Len(wire[p][w][q]) < Capacity /\ wire' = [wire EXCEPT ![p][w][q] = Append(@, <<r, k + 1>>)]
    BY <1>2, <2>1 DEF SendUnit
  <2> HIDE DEF w, q, r, k
  <2> QED BY <2>1, <2>2 DEF Gains
<1>3. \/ UNCHANGED wire
      \/ \E p \in Parties, w \in Workers : Receive(p, w)
      \/ \E p \in Parties, c \in CommThreads : SendUnit(p, c)
  BY DEF Next, WorkerStep, CommStep, Push, Return, Destroy, Pass, Take, Pop, vars
<1> QED
  BY <1>1, <1>2, <1>3

(* No socket holds more than it can, and every unit in one belongs to a    *)
(* round in which its sender sends to its receiver.                        *)
HoldsEdges(p, q, units) ==
    Len(units) <= Capacity /\ \A i \in 1 .. Len(units) : EdgeAt(p, q, units[i][1])
EdgeInv == \A p \in Parties, w \in Workers, q \in Parties : HoldsEdges(p, q, wire[p][w][q])

(* The sockets start empty.                                                *)
LEMMA EdgesStart == Init => EdgeInv
<1> SUFFICES ASSUME Init, NEW p \in Parties, NEW w \in Workers, NEW q \in Parties
             PROVE  HoldsEdges(p, q, wire[p][w][q])
  BY DEF EdgeInv
<1>1. wire[p][w][q] = << >>
  BY DEF Init
<1>2. Len(<< >>) = 0
  OBVIOUS
<1> QED
  BY <1>1, <1>2, CapacityAssumption DEF HoldsEdges

(* They go on like that.                                                   *)
LEMMA EdgeStep == ASSUME IInv, EdgeInv, [Next]_vars PROVE EdgeInv'
<1>w. wire \in [Parties -> [Workers -> [Parties -> Seq(Units)]]]
  BY DEF IInv, TypeInv
<1>1. CASE UNCHANGED wire
  BY <1>1 DEF EdgeInv
<1>2. ASSUME NEW p \in Parties, NEW w \in Workers, NEW q \in Parties, NEW units \in Seq(Units),
             wire' = [wire EXCEPT ![p][w][q] = units], HoldsEdges(p, q, units)
      PROVE  EdgeInv'
  <2>1. \A p2 \in Parties, w2 \in Workers, q2 \in Parties :
            wire'[p2][w2][q2] = IF p2 = p /\ w2 = w /\ q2 = q THEN units ELSE wire[p2][w2][q2]
    <3>1. wire' = [wire EXCEPT ![p][w][q] = units] /\ units \in Seq(Units)
      BY <1>2
    <3>2. /\ \A p2 \in Parties, w2 \in Workers, q2 \in Parties :
                 wire'[p2][w2][q2] = IF p2 = p /\ w2 = w /\ q2 = q THEN units ELSE wire[p2][w2][q2]
          /\ wire' \in [Parties -> [Workers -> [Parties -> Seq(Units)]]]
      BY <1>w, <3>1, WireUpdate
    <3> QED BY <3>2
  <2>2. ASSUME NEW p2 \in Parties, NEW w2 \in Workers, NEW q2 \in Parties
        PROVE  HoldsEdges(p2, q2, wire'[p2][w2][q2])
    <3>1. CASE p2 = p /\ w2 = w /\ q2 = q
      BY <1>2, <2>1, <3>1
    <3>2. CASE ~(p2 = p /\ w2 = w /\ q2 = q)
      BY <2>1, <3>2 DEF EdgeInv
    <3> QED BY <3>1, <3>2
  <2> QED BY <2>2 DEF EdgeInv
<1>3. ASSUME NEW p \in Parties, NEW w \in Workers, NEW q \in Parties, Loses(p, w, q)
      PROVE  EdgeInv'
  <2> DEFINE units == wire[p][w][q]
  <2>1. units \in Seq(Units) /\ units # << >> /\ HoldsEdges(p, q, units)
    BY <1>w, <1>3 DEF Loses, EdgeInv
  <2>2. wire' = [wire EXCEPT ![p][w][q] = Tail(units)]
    BY <1>3 DEF Loses
  <2> HIDE DEF units
  <2>3. Tail(units) \in Seq(Units) /\ Len(Tail(units)) = Len(units) - 1
    BY <2>1
  <2>4. \A i \in 1 .. Len(Tail(units)) :
            i + 1 \in 1 .. Len(units) /\ Tail(units)[i] = units[i + 1]
    BY <2>1
  <2>5. HoldsEdges(p, q, Tail(units))
    BY <2>1, <2>3, <2>4, CapacityAssumption DEF HoldsEdges
  <2> QED BY <1>2, <2>2, <2>3, <2>5
<1>4. ASSUME NEW p \in Parties, NEW w \in Workers, NEW q \in Parties, NEW r \in 1 .. NumRounds,
             NEW k \in Nat, Gains(p, w, q, r, k)
      PROVE  EdgeInv'
  <2> DEFINE units == wire[p][w][q]
             unit  == <<r, k + 1>>
             longer == Append(units, unit)
  <2>1. units \in Seq(Units) /\ HoldsEdges(p, q, units) /\ Len(units) < Capacity /\ EdgeAt(p, q, r)
    BY <1>w, <1>4 DEF Gains, EdgeInv
  <2>2. wire' = [wire EXCEPT ![p][w][q] = longer]
    BY <1>4 DEF Gains
  <2>3. unit \in Units /\ unit[1] = r
    BY RoundsAre DEF Units
  <2> HIDE DEF units, unit
  <2>4. longer \in Seq(Units) /\ Len(longer) = Len(units) + 1 /\ Len(units) \in Nat
    BY <2>1, <2>3
  <2>5. \A i \in 1 .. Len(longer) :
            (i \in 1 .. Len(units) /\ longer[i] = units[i]) \/ longer[i] = unit
    BY <2>1, <2>3
  <2> HIDE DEF longer
  <2>6. Len(longer) <= Capacity
    BY <2>1, <2>4, CapacityAssumption
  <2>7. HoldsEdges(p, q, longer)
    BY <2>1, <2>3, <2>5, <2>6 DEF HoldsEdges
  <2> QED BY <1>2, <2>2, <2>4, <2>7
<1> QED
  BY <1>1, <1>3, <1>4, SocketSteps

(* No call spins on a full ring, and no socket overflows: the types of the *)
(* state, with the sizes of rings and sockets (no_copy_ring.h, the sends   *)
(* of no_copy_communicator_factory.h).                                     *)
THEOREM TypeCorrect == Spec => []TypeOK
<1>1. Init => EdgeInv
  BY EdgesStart
<1>2. IInv /\ EdgeInv /\ [Next]_vars => EdgeInv'
  BY EdgeStep
<1>3. IInv /\ EdgeInv => TypeOK
  <2> SUFFICES ASSUME IInv, EdgeInv PROVE TypeOK
    OBVIOUS
  <2>1. TypeInv /\ RingInv
    BY DEF IInv
  <2>2. ASSUME NEW p \in Parties, NEW w \in Workers, NEW q \in Parties
        PROVE  Len(ring[p][w][q]) < RingSize /\ Len(wire[p][w][q]) <= Capacity
    <3>1. ring[p][w][q] \in {<< >>, <<round[p][w]>>}
      BY <2>1 DEF RingInv
    <3>2. Len(<< >>) = 0 /\ Len(<<round[p][w]>>) = 1
      OBVIOUS
    <3>3. Len(ring[p][w][q]) = 0 \/ Len(ring[p][w][q]) = 1
      BY <3>1, <3>2
    <3>4. Len(wire[p][w][q]) <= Capacity
      BY DEF EdgeInv, HoldsEdges
    <3>5. 0 < RingSize /\ 1 < RingSize
      BY RingSizeAssumption
    <3>6. Len(ring[p][w][q]) < RingSize
      BY <3>3, <3>5
    <3> QED BY <3>4, <3>6
  <2>3. \A p \in Parties, c \in CommThreads : serving[p][c] \in WorkersOf(c)
    BY <2>1 DEF TypeInv, WorkersOf, Server
  <2> QED BY <2>1, <2>2, <2>3 DEF TypeOK, TypeInv
<1> QED
  BY <1>1, <1>2, <1>3, Invariant, PTL DEF Spec

(* A communication thread exits with nothing left to send, and when all    *)
(* parties are through nothing is left in a socket.                        *)
THEOREM NothingLeft == Spec => []NothingLeftBehind
<1>1. Init => EdgeInv
  BY EdgesStart
<1>2. ASSUME IInv, NEW p \in Parties, NEW w \in Workers, Done(p, w)
      PROVE  /\ round[p][w] = NumRounds + 1
             /\ \A q \in Parties : ring[p][w][q] = << >>
  <2>1. Destinations(p, NumRounds + 1) = {} /\ round[p][w] = NumRounds + 1
    BY <1>2, RoundsAre DEF Destinations, Done
  <2> QED BY <1>2, <2>1 DEF IInv, RingInv
<1>3. IInv => \A p \in Parties, c \in CommThreads : mode[p][c] = "exited" =>
                  \A w \in WorkersOf(c), q \in Parties : ring[p][w][q] = << >>
  BY <1>2 DEF IInv, StopInv, WorkersOf
<1>4. ASSUME IInv, EdgeInv, \A p \in Parties, w \in Workers : Done(p, w),
             NEW p \in Parties, NEW w \in Workers, NEW q \in Parties
      PROVE  wire[p][w][q] = << >>
  <2>1. NumRounds \in Nat
    BY RoundsAre
  <2>2. RoundsFrom(p, q, NumRounds + 2) = {NumRounds + 1}
    BY <2>1 DEF RoundsFrom
  <2>3. FirstFrom(p, q, NumRounds + 2) = NumRounds + 1
    BY <2>1, <2>2, SmallestIs DEF FirstFrom
  <2>4. ~EdgeAt(p, q, NumRounds + 1)
    BY <2>1 DEF EdgeAt
  <2>5. NextGot(q, w, p) = <<NumRounds + 1, 1>>
    <3>1. round[q][w] = NumRounds + 1
      BY <1>2, <1>4
    <3>2. (NumRounds + 1) + 1 = NumRounds + 2
      BY <2>1
    <3> QED BY <3>1, <3>2, <2>3, <2>4 DEF NextGot, After
  <2>6. wire[p][w][q] # << >> => NextGot(q, w, p) = wire[p][w][q][1] /\ 1 \in 1 .. Len(wire[p][w][q])
    <3>1. wire[p][w][q] \in Seq(Units)
      BY <1>4 DEF IInv, TypeInv
    <3>2. wire[p][w][q] # << >> => NextGot(q, w, p) = wire[p][w][q][1]
      BY <1>4 DEF IInv, StreamInv, StreamOK
    <3> QED BY <3>1, <3>2
  <2> QED BY <1>4, <2>4, <2>5, <2>6 DEF EdgeInv, HoldsEdges
<1>5. IInv /\ EdgeInv => NothingLeftBehind
  BY <1>3, <1>4 DEF NothingLeftBehind
<1> QED
  BY <1>1, <1>5, EdgeStep, Invariant, PTL DEF Spec

-----------------------------------------------------------------------------
(* The rounds the workers are in change as Supersteps says: each goes      *)
(* through the rounds at its own pace, and leaves one only when all the    *)
(* parties it receives from in it have reached it.                         *)
THEOREM Refinement == Spec => ImplementsSupersteps
<1>1. Init => Contract!Init
  BY DEF Init, Contract!Init
<1>2. ASSUME IInv, [Next]_vars PROVE [Contract!Next]_round
  <2>1. CASE UNCHANGED round
    BY <2>1
  <2>2. ASSUME NEW p \in Parties, NEW w \in Workers, Return(p, w) PROVE Contract!Leave(p, w)
    <3>1. round[p][w] <= NumRounds
      <4>1. round[p][w] \in 1 .. NumRounds + 1 /\ round[p][w] # NumRounds + 1
        BY <1>2, <2>2 DEF IInv, TypeInv, Return, Done
      <4> QED BY <4>1, RoundsAre
    <3>2. \A s \in Sources(p, round[p][w]) : round[s][w] >= round[p][w]
      <4>1. toRecv[p][w] = {} /\ PaceInv
        BY <1>2, <2>2 DEF IInv, Return
      <4> QED BY <4>1 DEF PaceInv
    <3>3. round' = [round EXCEPT ![p][w] = @ + 1]
      BY <2>2 DEF Return
    <3> QED BY <3>1, <3>2, <3>3 DEF Contract!Leave
  <2>3. \/ UNCHANGED round
        \/ \E p \in Parties, w \in Workers : Return(p, w)
    <3>1. ASSUME NEW p \in Parties, NEW w \in Workers, WorkerStep(p, w)
          PROVE  UNCHANGED round \/ Return(p, w)
      BY <3>1 DEF WorkerStep, Push, Receive
    <3>2. ASSUME NEW p \in Parties, NEW c \in CommThreads, CommStep(p, c) PROVE UNCHANGED round
      BY <3>2 DEF CommStep, Pass, Take, SendUnit, Pop, workerVars
    <3>3. ASSUME NEW p \in Parties, Destroy(p) PROVE UNCHANGED round
      BY <3>3 DEF Destroy, workerVars
    <3>4. UNCHANGED vars => UNCHANGED round
      BY DEF vars, workerVars
    <3> QED BY <1>2, <3>1, <3>2, <3>3, <3>4 DEF Next
  <2> QED BY <2>1, <2>2, <2>3 DEF Contract!Next
<1> QED
  BY <1>1, <1>2, Invariant, PTL DEF Spec, ImplementsSupersteps, Contract!Spec

-----------------------------------------------------------------------------
(* Where every worker has a communication thread of its own, the parties   *)
(* never wait for one another in a ring.  Among the parties that are       *)
(* furthest behind and have a vector left to send, take the first: its     *)
(* thread is blocked on a socket whose receiver waits for a source before  *)
(* it, and that source is one of them too.                                 *)

LEMMA Behind ==
    ASSUME NEW p, NEW q, NEW r \in 1 .. NumRounds, NEW x \in r .. NumRounds + 1, NEW k,
           After(p, q, x, k)[1] <= r
    PROVE  x = r /\ EdgeAt(p, q, r) /\ k < Rounds[r].size
<1>1. NumRounds \in Nat /\ x \in Nat \ {0} /\ r \in Nat
  BY RoundsAre
<1>2. CASE EdgeAt(p, q, x) /\ k < Rounds[x].size
  BY <1>1, <1>2 DEF After
<1>3. CASE ~(EdgeAt(p, q, x) /\ k < Rounds[x].size)
  <2>1. FirstFrom(p, q, x + 1) <= r
    BY <1>3 DEF After
  <2>2. FirstFrom(p, q, x + 1) > r
    <3>1. CASE x = NumRounds + 1
      <4>1. RoundsFrom(p, q, x + 1) = {NumRounds + 1}
        BY <3>1, <1>1 DEF RoundsFrom
      <4>2. FirstFrom(p, q, x + 1) = NumRounds + 1
        BY <4>1, <1>1, SmallestIs DEF FirstFrom
      <4> QED BY <4>2, <1>1
    <3>2. CASE x # NumRounds + 1
      <4>1. x + 1 \in Nat \ {0} /\ x + 1 <= NumRounds + 1
        BY <3>2, <1>1
      <4>2. FirstFrom(p, q, x + 1) \in Nat /\ FirstFrom(p, q, x + 1) >= x + 1
        BY <4>1, FirstFromIs
      <4> QED BY <4>2, <1>1
    <3> QED BY <3>1, <3>2
  <2>3. FirstFrom(p, q, x + 1) \in Nat
    BY <1>1, FirstFromIs
  <2> QED BY <2>1, <2>2, <2>3, <1>1
<1> QED
  BY <1>2, <1>3

(* A worker that is furthest behind and waits for a unit waits for a       *)
(* source that is in the same round and has the vector on its ring.        *)
LEMMA WaitsFor ==
    ASSUME IInv, NEW w \in Workers, NEW r \in 1 .. NumRounds,
           \A p \in Parties : round[p][w] >= r /\ toPush[p][w] = {},
           NEW p \in Parties, round[p][w] = r, toRecv[p][w] # {}, ~WorkerCanMove(p, w)
    PROVE  \E s \in Parties : /\ s = NextSource(p, toRecv[p][w])
                              /\ \A t \in toRecv[p][w] : s <= t
                              /\ round[s][w] = r /\ ring[s][w][p] # << >>
                              /\ wire[s][w][p] = << >>
<1>1. PICK s \in Parties : /\ s = NextSource(p, toRecv[p][w])
                          /\ \A t \in toRecv[p][w] : s <= t
                          /\ NextGot(p, w, s) = <<r, Len(got[p][w]) + 1>>
  BY ReceivingIs
<1>2. wire[s][w][p] = << >>
  BY <1>1 DEF WorkerCanMove
<1>3. NextSent(s, w, p) = <<r, Len(got[p][w]) + 1>>
  BY <1>1, <1>2 DEF IInv, StreamInv, StreamOK
<1>4. round[s][w] \in r .. NumRounds + 1
  <2>1. round[s][w] \in 1 .. NumRounds + 1 /\ round[s][w] >= r
    BY <1>1 DEF IInv, TypeInv
  <2> QED BY <2>1, RoundsAre
<1>5. round[s][w] = r /\ HasSent(s, w, p) < Rounds[r].size
  <2>1. After(s, p, round[s][w], HasSent(s, w, p))[1] <= r
    <3>1. After(s, p, round[s][w], HasSent(s, w, p)) = <<r, Len(got[p][w]) + 1>>
      BY <1>3 DEF NextSent
    <3>2. After(s, p, round[s][w], HasSent(s, w, p))[1] = r
      <4> DEFINE k == Len(got[p][w]) + 1
      <4> HIDE DEF k
      <4>1. <<r, k>>[1] = r
        OBVIOUS
      <4> QED BY <3>1, <4>1 DEF k
    <3>3. r <= r
      BY RoundsAre
    <3> QED BY <3>2, <3>3, Zenon
  <2>2. PICK x \in r .. NumRounds + 1 : x = round[s][w]
    BY <1>4
  <2> DEFINE k == HasSent(s, w, p)
  <2>3. After(s, p, x, k)[1] <= r
    BY <2>1, <2>2, Zenon
  <2> HIDE DEF k
  <2>4. x = r /\ k < Rounds[r].size
    BY ONLY <2>3, Behind
  <2> QED BY <2>2, <2>4 DEF k
<1>6. ring[s][w][p] # << >>
  <2> SUFFICES ASSUME ring[s][w][p] = << >> PROVE FALSE
    OBVIOUS
  <2>1. HasSent(s, w, p) = Rounds[r].size /\ Rounds[r].size \in Nat
    BY <1>1, <1>5, RoundsAre DEF HasSent
  <2> QED BY <2>1, <1>5
<1> QED
  BY <1>1, <1>2, <1>5, <1>6

LEMMA NoCircle ==
    ASSUME IInv, NumCommThreads = NumWorkers,
           NEW p0 \in Parties, NEW w \in Workers, ~Done(p0, w),
           \A p \in Parties : ~WorkerCanMove(p, w),
           \A p \in Parties, c \in CommThreads : ~CommCanMove(p, c)
    PROVE  FALSE
<1>t. TypeInv /\ RingInv /\ SendInv /\ GotInv /\ StopInv /\ StreamInv
  BY DEF IInv
<1>n. NumRounds \in Nat /\ Parties \in SUBSET Nat
  BY RoundsAre, PartiesAssumption DEF Parties
<1>1. \A p \in Parties : toPush[p][w] = {}
  <2> SUFFICES ASSUME NEW p \in Parties, NEW q \in toPush[p][w] PROVE FALSE
    OBVIOUS
  <2>1. q \in Parties
    BY <1>t DEF TypeInv
  <2>2. ring[p][w][q] = << >>
    BY <2>1, <1>t DEF RingInv
  <2>3. Len(ring[p][w][q]) < RingSize - 1
    BY <2>2, RingSizeAssumption
  <2> QED BY <2>3 DEF WorkerCanMove
<1>2. PICK r \in 1 .. NumRounds : /\ \A p \in Parties : round[p][w] >= r
                                  /\ \E p \in Parties : round[p][w] = r
  <2> DEFINE rounds == {round[p][w] : p \in Parties}
  <2>1. \A p \in Parties : round[p][w] \in 1 .. NumRounds + 1
    BY <1>t DEF TypeInv
  <2>2. rounds \in SUBSET Nat /\ rounds # {}
    BY <2>1, <1>n
  <2>3. Smallest(rounds) \in rounds /\ \A x \in rounds : Smallest(rounds) <= x
    <3> HIDE DEF rounds
    <3> QED BY <2>2, SmallestIs
  <2>4. round[p0][w] \in 1 .. NumRounds
    BY <2>1, <1>n DEF Done
  <2>5. PICK p1 \in Parties : Smallest(rounds) = round[p1][w]
    BY <2>3
  <2>6. \A p \in Parties : round[p1][w] <= round[p][w]
    BY <2>3, <2>5
  <2>7. PICK x \in Nat : x = round[p1][w]
    BY <2>1, <1>n
  <2>8. x \in 1 .. NumRounds
    BY <2>1, <2>4, <2>6, <2>7, <1>n
  <2>9. \A p \in Parties : round[p][w] >= x
    BY <2>1, <2>6, <2>7, <1>n
  <2> QED BY <2>7, <2>8, <2>9
<1> DEFINE S == {p \in Parties : round[p][w] = r /\ \E q \in Parties : ring[p][w][q] # << >>}
<1>3. ASSUME NEW p \in Parties, round[p][w] = r, toRecv[p][w] # {}
      PROVE  \E s \in S : /\ s = NextSource(p, toRecv[p][w])
                          /\ \A t \in toRecv[p][w] : s <= t
                          /\ wire[s][w][p] = << >>
  <2>1. PICK s \in Parties : /\ s = NextSource(p, toRecv[p][w])
                             /\ \A t \in toRecv[p][w] : s <= t
                             /\ round[s][w] = r /\ ring[s][w][p] # << >>
                             /\ wire[s][w][p] = << >>
    BY <1>1, <1>2, <1>3, WaitsFor
  <2> QED BY <2>1
<1>4. S # {}
  <2>1. PICK p \in Parties : round[p][w] = r
    BY <1>2
  <2>2. ~Done(p, w)
    BY <2>1, <1>n DEF Done
  <2>3. CASE toRecv[p][w] # {}
    BY <2>1, <2>3, <1>3
  <2>4. CASE toRecv[p][w] = {}
    <3>1. ~AllSent(p, w)
      BY <2>2, <2>4, <1>1 DEF WorkerCanMove
    <3>2. \E q \in Parties : ring[p][w][q] # << >>
      BY <3>1 DEF AllSent, Destinations
    <3> QED BY <2>1, <3>2
  <2> QED BY <2>3, <2>4
<1>5. PICK p \in S : \A t \in S : p <= t
  <2>1. S \in SUBSET Nat
    BY <1>n
  <2> HIDE DEF S
  <2> QED BY <1>4, <2>1, SmallestIs
<1>6. PICK q0 \in Parties : p \in Parties /\ round[p][w] = r /\ ring[p][w][q0] # << >>
  OBVIOUS
<1> HIDE DEF S
<1>7. w \in CommThreads /\ WorkersOf(w) = {w} /\ \A v \in Workers : Server(v) = v
  <2>1. \A v \in Workers : v % NumCommThreads = v
    BY WorkersAssumption DEF Workers
  <2>2. w \in CommThreads
    BY DEF CommThreads, Workers
  <2> QED BY <2>1, <2>2 DEF WorkersOf, Server
<1>8. mode[p][w] = "sending"
  <2>1. mode[p][w] # "exited"
    <3>1. ~Done(p, w)
      BY <1>6, <1>n DEF Done
    <3> QED BY <3>1, <1>6, <1>7, <1>t DEF StopInv
  <2>2. mode[p][w] # "touring"
    BY <1>6, <1>7 DEF CommCanMove
  <2>3. mode[p][w] \in {"touring", "sending", "exited"}
    BY <1>6, <1>7, <1>t DEF TypeInv
  <2> QED BY <2>1, <2>2, <2>3
<1>9. PICK q \in Parties : q = peer[p][w] /\ serving[p][w] = w /\ wire[p][w][q] # << >>
  <2>1. /\ serving[p][w] \in Workers /\ peer[p][w] \in Parties
        /\ Server(serving[p][w]) = w
    BY <1>6, <1>7, <1>t DEF TypeInv
  <2>2. serving[p][w] = w
    BY <2>1, <1>7
  <2>3. ~(Len(wire[p][w][peer[p][w]]) < Capacity)
    BY <1>6, <1>7, <1>8, <2>2 DEF CommCanMove
  <2>4. wire[p][w][peer[p][w]] # << >>
    BY <2>3, CapacityAssumption
  <2> QED BY <2>1, <2>2, <2>4
<1>10. round[q][w] = r /\ p \in toRecv[q][w]
  <2>1. wire[p][w][q] \in Seq(Units)
    BY <1>6, <1>t DEF TypeInv
  <2>2. /\ NextGot(q, w, p) = wire[p][w][q][1]
        /\ \A i \in 1 .. Len(wire[p][w][q]) : wire[p][w][q][i][1] <= r
    BY <1>6, <1>9, <1>t DEF StreamInv, StreamOK
  <2>3. NextGot(q, w, p)[1] <= r
    <3>1. 1 \in 1 .. Len(wire[p][w][q])
      BY <2>1, <1>9
    <3> QED BY <3>1, <2>2
  <2>4. round[q][w] \in r .. NumRounds + 1
    <3>1. round[q][w] \in 1 .. NumRounds + 1 /\ round[q][w] >= r
      BY <1>2, <1>t DEF TypeInv
    <3> QED BY <3>1, <1>n
  <2>5. round[q][w] = r /\ HasGot(q, w, p) < Rounds[r].size
    BY <2>3, <2>4, Behind DEF NextGot
  <2>6. p \in toRecv[q][w]
    <3> SUFFICES ASSUME p \notin toRecv[q][w] PROVE FALSE
      OBVIOUS
    <3>1. HasGot(q, w, p) = Rounds[r].size /\ Rounds[r].size \in Nat
      BY <2>5, RoundsAre DEF HasGot
    <3> QED BY <3>1, <2>5
  <2> QED BY <2>5, <2>6
<1>11. PICK s \in S : /\ \A t \in toRecv[q][w] : s <= t
                      /\ wire[s][w][q] = << >>
  BY <1>3, <1>10
<1>12. s = p
  <2>1. s <= p /\ p <= s
    BY <1>5, <1>10, <1>11
  <2>2. s \in Nat /\ p \in Nat
    BY <1>n DEF S
  <2> QED BY <2>1, <2>2
<1> QED
  BY <1>9, <1>11, <1>12

(* With a communication thread to every worker, while some worker is not   *)
(* through some thread of some party can do more than look round.          *)
THEOREM NoDeadlock == NumCommThreads = NumWorkers => (Spec => []NoCircularWait)
<1> SUFFICES ASSUME NumCommThreads = NumWorkers PROVE Spec => []NoCircularWait
  OBVIOUS
<1>1. IInv => NoCircularWait
  BY NoCircle DEF NoCircularWait
<1> QED
  BY <1>1, Invariant, PTL
=============================================================================
