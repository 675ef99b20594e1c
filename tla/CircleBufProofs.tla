-------------------------- MODULE CircleBufProofs --------------------------
(***************************************************************************)
(* For every ring size, every item set and every batch length: the type    *)
(* invariant of CircleBuf, that the two unlocked threads never touch the   *)
(* same slot, and that the ring implements BoundedFifo.                    *)
(***************************************************************************)
EXTENDS CircleBuf, SequenceTheorems, TLAPS

\* The ring has at least one slot: every fact about slots needs it.
USE CircleBufAssumption

-----------------------------------------------------------------------------
(* The index arithmetic.                                                   *)

LEMMA SlotInRange ==
    ASSUME NEW i \in Slots, NEW k \in 0 .. MaxItemCount - 1
    PROVE  Slot(i, k) \in Slots
BY DEF Slot, Slots

LEMMA SlotInjective ==
    ASSUME NEW i \in Slots, NEW j \in 0 .. MaxItemCount - 1,
           NEW k \in 0 .. MaxItemCount - 1, Slot(i, j) = Slot(i, k)
    PROVE  j = k
BY DEF Slot, Slots

LEMMA ExistCountInRange ==
    ASSUME NEW rd \in Slots, NEW wr \in Slots
    PROVE  ExistCount(rd, wr) \in 0 .. MaxItemCount - 1
BY DEF ExistCount, Slots

\* What is added after the content continues the content's slots.
LEMMA SlotAfterContent ==
    ASSUME NEW rd \in Slots, NEW wr \in Slots, NEW k \in Nat,
           ExistCount(rd, wr) + k < MaxItemCount
    PROVE  Slot(wr, k) = Slot(rd, ExistCount(rd, wr) + k)
BY DEF ExistCount, Slot, Slots

\* The test of AddItems leaves room for the batch and for one free slot.
LEMMA RoomForBatch ==
    ASSUME NEW rd \in Slots, NEW wr \in Slots, NEW n \in Nat
    PROVE  /\ CanContain(rd, wr, n) => ExistCount(rd, wr) + n <= MaxItemCount - 1
           /\ ~CanContain(rd, wr, n) => \/ ExistCount(rd, wr) + n > MaxItemCount - 1
                                        \/ ExistCount(rd, wr) = MaxItemCount - 1
BY DEF CanContain, FreeItemCount, ExistCount, Slots

\* The three branches of AddItems publish the slot after the batch.
LEMMA PublishedWriteIndex ==
    ASSUME NEW saw \in Slots, NEW rd \in Slots, NEW wr \in Slots, NEW n \in Nat,
           CanContain(saw, wr, n), ExistCount(rd, wr) + n <= MaxItemCount - 1
    PROVE  /\ NextWriteIndex(saw, wr, n) = Slot(wr, n)
           /\ NextWriteIndex(saw, wr, n) \in Slots
           /\ ExistCount(rd, NextWriteIndex(saw, wr, n)) = ExistCount(rd, wr) + n
BY DEF CanContain, FreeItemCount, NextWriteIndex, ExistCount, Slot, Slots

\* Publishing m_ReadIndex drops the oldest n items and keeps the others' slots.
LEMMA PublishedReadIndex ==
    ASSUME NEW rd \in Slots, NEW wr \in Slots, NEW n \in Nat,
           rd + n <= MaxItemCount, n <= ExistCount(rd, wr)
    PROVE  /\ NextReadIndex(rd, n) \in Slots
           /\ ExistCount(NextReadIndex(rd, n), wr) = ExistCount(rd, wr) - n
           /\ \A k \in Nat : n + k < MaxItemCount =>
                Slot(NextReadIndex(rd, n), k) = Slot(rd, n + k)
BY DEF NextReadIndex, ExistCount, Slot, Slots

\* A segment lies in one piece inside the content.
LEMMA SegmentInContent ==
    ASSUME NEW rd \in Slots, NEW wr \in Slots, rd # wr,
           NEW op \in DrainOps, NEW want \in Nat
    PROVE  LET n == SegmentLength(op, want, rd, wr) IN
           /\ n \in Nat
           /\ rd + n <= MaxItemCount
           /\ n <= ExistCount(rd, wr)
           /\ op = "CopyAllItems" /\ wr < rd => ExistCount(rd, wr) = n + wr
BY DEF DrainOps, SegmentLength, Contiguous, ExistCount, Slots

-----------------------------------------------------------------------------
(* The inductive invariant.                                                *)

LEMMA InitIInv == Init => IInv
<1> SUFFICES ASSUME Init PROVE IInv
  OBVIOUS
<1>1. 0 \in Slots /\ <<>> \in Seq(Item) /\ Len(<<>>) = 0
  BY DEF Slots
<1>2. answer \in {"none", "added", "refused", "empty", "taken", "kept"} \X Nat
  BY DEF Init
<1>3. batch \in Seq(Item) /\ copied \in 0 .. Len(batch) /\ got \in Seq(Item)
  BY <1>1 DEF Init
<1>4. TypeOK
  BY <1>1, <1>2, <1>3 DEF Init, TypeOK
<1>5. ContentInv
  BY DEF Init, ContentInv, Exist, ExistCount
<1> QED BY <1>4, <1>5 DEF Init, IInv, FillInv, DrainInv

LEMMA AddItemsBeginIInv ==
    ASSUME IInv, NEW b \in Batches, AddItemsBegin(b)
    PROVE  IInv'
<1>1. b \in Seq(Item) /\ Len(b) \in Nat
  BY DEF Batches
<1>2. TypeOK'
  BY <1>1 DEF IInv, TypeOK, AddItemsBegin, ringVars, drainVars
<1>3. ContentInv' /\ DrainInv'
  BY DEF IInv, ContentInv, DrainInv, Exist, AddItemsBegin, ringVars, drainVars
<1>4. FillInv'
  BY <1>1, RoomForBatch
     DEF IInv, TypeOK, FillInv, Exist, AddItemsBegin, ringVars
<1> QED BY <1>2, <1>3, <1>4 DEF IInv

LEMMA AddItemsCopyIInv ==
    ASSUME IInv, AddItemsCopy
    PROVE  IInv'
<1> DEFINE here == Slot(m_WriteIndex, copied)
<1>0. Exist \in 0 .. MaxItemCount - 1
  BY ExistCountInRange DEF IInv, TypeOK, Exist
<1>1. /\ m_ReadIndex \in Slots /\ m_WriteIndex \in Slots
      /\ copied \in Nat /\ Len(batch) \in Nat /\ copied < Len(batch)
      /\ Exist \in 0 .. MaxItemCount - 1
      /\ Exist + Len(batch) <= MaxItemCount - 1
      /\ batch[copied + 1] \in Item
  BY <1>0 DEF IInv, TypeOK, FillInv, AddItemsCopy
<1>2. here \in Slots /\ here = Slot(m_ReadIndex, Exist + copied)
  BY <1>1, SlotInRange, SlotAfterContent DEF Exist
\* The slot written is none of the content's and none of those copied before.
<1>3. \A k \in 0 .. Exist - 1 : Slot(m_ReadIndex, k) # here
  BY <1>1, <1>2, SlotInjective DEF Exist
<1>4. \A k \in 0 .. copied - 1 : Slot(m_WriteIndex, k) # here
  BY <1>1, SlotInjective
<1>5. TypeOK'
  BY <1>1, <1>2 DEF IInv, TypeOK, AddItemsCopy, drainVars
<1>6. ContentInv'
  BY <1>1, <1>2, <1>3, SlotInRange DEF IInv, TypeOK, ContentInv, Exist, AddItemsCopy
<1>7. FillInv'
  <2>1. \A k \in 0 .. copied' - 1 : buf'[Slot(m_WriteIndex, k)] = batch[k + 1]
    <3> TAKE k \in 0 .. copied' - 1
    <3>1. CASE k = copied
      BY <3>1, <1>1, <1>2 DEF IInv, TypeOK, AddItemsCopy
    <3>2. CASE k # copied
      <4>1. k \in 0 .. copied - 1
        BY <3>2, <1>1 DEF AddItemsCopy
      <4>2. buf[Slot(m_WriteIndex, k)] = batch[k + 1]
        BY <4>1 DEF IInv, FillInv, AddItemsCopy
      <4>3. Slot(m_WriteIndex, k) \in Slots /\ Slot(m_WriteIndex, k) # here
        BY <4>1, <1>1, <1>4, SlotInRange
      <4> QED BY <4>2, <4>3, <1>2 DEF IInv, TypeOK, AddItemsCopy
    <3> QED BY <3>1, <3>2
  <2> QED BY <2>1 DEF IInv, FillInv, Exist, AddItemsCopy
<1>8. DrainInv'
  <2> SUFFICES ASSUME draining # "no" PROVE DrainInv'
    BY DEF DrainInv, AddItemsCopy, drainVars
  <2>1. \A k \in 0 .. Len(got) - 1 : Slot(m_ReadIndex, k) = m_ReadIndex + k
    BY <1>1 DEF IInv, TypeOK, DrainInv, Slot, Slots
  <2>2. \A k \in 0 .. Len(got) - 1 : m_ReadIndex + k # here
    BY <1>1, <1>3, <2>1 DEF IInv, TypeOK, DrainInv
  <2>3. \A k \in 0 .. Len(got) - 1 : buf'[m_ReadIndex + k] = buf[m_ReadIndex + k]
    BY <1>1, <2>1, <2>2, SlotInRange DEF IInv, TypeOK, DrainInv, AddItemsCopy, Slots
  <2> QED BY <2>3 DEF IInv, DrainInv, Exist, AddItemsCopy, drainVars
<1> QED BY <1>5, <1>6, <1>7, <1>8 DEF IInv

LEMMA AddItemsPublishIInv ==
    ASSUME IInv, AddItemsPublish
    PROVE  IInv'
<1> DEFINE n == Len(batch)
<1>1. /\ m_ReadIndex \in Slots /\ m_WriteIndex \in Slots /\ sawRead \in Slots
      /\ n \in Nat /\ copied = n
      /\ Exist \in 0 .. MaxItemCount - 1
      /\ Exist + n <= MaxItemCount - 1
      /\ CanContain(sawRead, m_WriteIndex, n)
  BY ExistCountInRange DEF IInv, TypeOK, FillInv, Exist, AddItemsPublish
<1>2. m_WriteIndex' \in Slots /\ Exist' = Exist + n
  BY <1>1, PublishedWriteIndex DEF AddItemsPublish, Exist
<1>3. TypeOK'
  <2>1. 0 \in Slots /\ <<>> \in Seq(Item) /\ Len(<<>>) = 0
    BY DEF Slots
  <2>2. answer' \in {"none", "added", "refused", "empty", "taken", "kept"} \X Nat
    BY <1>1 DEF AddItemsPublish
  <2>3. batch' \in Seq(Item) /\ copied' \in 0 .. Len(batch')
    BY <2>1 DEF AddItemsPublish
  <2> QED BY <1>1, <1>2, <2>1, <2>2, <2>3 DEF IInv, TypeOK, AddItemsPublish, drainVars
<1>4. ContentInv'
  <2> SUFFICES ASSUME NEW k \in 0 .. Exist' - 1
               PROVE  buf[Slot(m_ReadIndex, k)] \in Item
    BY DEF ContentInv, AddItemsPublish
  <2>1. CASE k < Exist
    BY <2>1, <1>1 DEF IInv, ContentInv
  <2>2. CASE k >= Exist
    <3> DEFINE j == k - Exist
    <3>1. j \in 0 .. n - 1
      BY <2>2, <1>1, <1>2
    <3>2. Slot(m_WriteIndex, j) = Slot(m_ReadIndex, Exist + j)
      BY <3>1, <1>1, SlotAfterContent DEF Exist
    <3>3. buf[Slot(m_WriteIndex, j)] = batch[j + 1] /\ batch[j + 1] \in Item
      BY <3>1, <1>1 DEF IInv, TypeOK, FillInv, AddItemsPublish
    <3> QED BY <3>1, <3>2, <3>3, <1>1, <1>2
  <2> QED BY <2>1, <2>2, <1>1, <1>2
<1>5. FillInv'
  BY DEF FillInv, AddItemsPublish
<1>6. DrainInv'
  BY <1>1, <1>2 DEF IInv, TypeOK, DrainInv, AddItemsPublish, drainVars, Slots
<1> QED BY <1>3, <1>4, <1>5, <1>6 DEF IInv

LEMMA DrainBeginIInv ==
    ASSUME IInv, NEW op \in DrainOps, NEW want \in 1 .. MaxBatch, DrainBegin(op, want)
    PROVE  IInv'
<1>1. /\ m_ReadIndex \in Slots /\ m_WriteIndex \in Slots /\ m_ReadIndex # m_WriteIndex
      /\ want \in Nat
  BY DEF IInv, TypeOK, DrainBegin
<1>2. /\ segment' \in Nat
      /\ m_ReadIndex + segment' <= MaxItemCount
      /\ segment' <= Exist
      /\ op = "CopyAllItems" /\ m_WriteIndex < m_ReadIndex =>
            Exist = segment' + m_WriteIndex
  BY <1>1, SegmentInContent DEF DrainBegin, Exist
<1>3. got' = <<>> /\ got' \in Seq(Item) /\ Len(got') = 0
  BY DEF DrainBegin
<1>4. TypeOK'
  BY <1>1, <1>2, <1>3 DEF IInv, TypeOK, DrainBegin, ringVars, fillVars
<1>5. ContentInv' /\ FillInv'
  BY DEF IInv, ContentInv, FillInv, Exist, DrainBegin, ringVars, fillVars
<1>6. DrainInv'
  <2>1. op = "CopyAllItems" /\ m_WriteIndex < m_ReadIndex =>
          m_ReadIndex + segment' = MaxItemCount
    BY <1>1 DEF DrainBegin, SegmentLength, Contiguous, Slots
  <2> QED
    BY <1>1, <1>2, <1>3, <2>1 DEF DrainInv, Exist, DrainBegin, ringVars, Slots
<1> QED BY <1>4, <1>5, <1>6 DEF IInv

LEMMA DrainCopyIInv ==
    ASSUME IInv, DrainCopy
    PROVE  IInv'
<1> DEFINE item == buf[m_ReadIndex + Len(got)]
<1>1. /\ m_ReadIndex \in Slots /\ m_WriteIndex \in Slots
      /\ Len(got) \in Nat /\ segment \in Nat /\ Len(got) < segment
      /\ m_ReadIndex + segment <= MaxItemCount /\ segment <= Exist
  BY DEF IInv, TypeOK, DrainInv, DrainCopy
<1>2. Slot(m_ReadIndex, Len(got)) = m_ReadIndex + Len(got) /\ Exist \in Nat
  BY <1>1, ExistCountInRange DEF Slot, Slots, Exist
<1>3. item \in Item
  BY <1>1, <1>2 DEF IInv, ContentInv
<1>4. /\ got' \in Seq(Item) /\ Len(got') = Len(got) + 1
      /\ got'[Len(got) + 1] = item
      /\ \A k \in 1 .. Len(got) : got'[k] = got[k]
  BY <1>3 DEF IInv, TypeOK, DrainCopy
<1>5. TypeOK'
  BY <1>4 DEF IInv, TypeOK, DrainCopy, ringVars, fillVars
<1>6. ContentInv' /\ FillInv'
  BY DEF IInv, ContentInv, FillInv, Exist, DrainCopy, ringVars, fillVars
<1>7. \A k \in 0 .. Len(got') - 1 : got'[k + 1] = buf[m_ReadIndex + k]
  <2> TAKE k \in 0 .. Len(got') - 1
  <2>1. CASE k = Len(got)
    BY <2>1, <1>4
  <2>2. CASE k # Len(got)
    BY <2>2, <1>1, <1>4 DEF IInv, DrainInv, DrainCopy
  <2> QED BY <2>1, <2>2
<1>8. DrainInv'
  BY <1>1, <1>4, <1>7 DEF IInv, DrainInv, Exist, DrainCopy, ringVars
<1> QED BY <1>5, <1>6, <1>8 DEF IInv

LEMMA DrainPublishIInv ==
    ASSUME IInv, DrainPublish
    PROVE  IInv'
<1>1. /\ m_ReadIndex \in Slots /\ m_WriteIndex \in Slots
      /\ segment \in Nat /\ Len(got) = segment
      /\ m_ReadIndex + segment <= MaxItemCount /\ segment <= Exist
      /\ Exist \in 0 .. MaxItemCount - 1
  BY ExistCountInRange DEF IInv, TypeOK, DrainInv, DrainPublish, Exist
<1>2. /\ m_ReadIndex' \in Slots /\ Exist' = Exist - segment
      /\ \A k \in Nat : segment + k < MaxItemCount =>
            Slot(m_ReadIndex', k) = Slot(m_ReadIndex, segment + k)
  BY <1>1, PublishedReadIndex DEF Exist, DrainPublish
<1>3. 0 \in Slots /\ <<>> \in Seq(Item) /\ Len(<<>>) = 0
  BY DEF Slots
<1>4. TypeOK'
  <2>1. answer' \in {"none", "added", "refused", "empty", "taken", "kept"} \X Nat
    BY <1>1 DEF DrainPublish
  <2>2. /\ segment' \in Nat /\ sawWrite' \in Slots /\ got' \in Seq(Item)
        /\ draining' \in DrainOps \cup {"no"}
    BY <1>1, <1>3 DEF IInv, TypeOK, DrainPublish, Slots
  <2> QED BY <1>2, <2>1, <2>2 DEF IInv, TypeOK, DrainPublish, fillVars
<1>5. ContentInv'
  <2> SUFFICES ASSUME NEW k \in 0 .. Exist' - 1
               PROVE  buf[Slot(m_ReadIndex', k)] \in Item
    BY DEF ContentInv, DrainPublish
  <2>1. Slot(m_ReadIndex', k) = Slot(m_ReadIndex, segment + k) /\ segment + k \in 0 .. Exist - 1
    BY <1>1, <1>2
  <2> QED BY <2>1 DEF IInv, ContentInv
<1>6. FillInv'
  <2>1. /\ filling' = filling /\ batch' = batch /\ copied' = copied /\ sawRead' = sawRead
        /\ buf' = buf /\ m_WriteIndex' = m_WriteIndex
    BY DEF DrainPublish, fillVars
  <2>2. ASSUME filling PROVE Exist' + Len(batch) <= MaxItemCount - 1
    <3>1. Exist + Len(batch) <= MaxItemCount - 1 /\ Len(batch) \in Nat
      BY <2>2 DEF IInv, TypeOK, FillInv
    <3> QED BY <1>1, <1>2, <3>1
  <2> QED BY <2>1, <2>2 DEF IInv, FillInv
<1>7. DrainInv'
  <2>1. CASE draining = "CopyAllItems" /\ sawWrite < m_ReadIndex
    <3>1. m_ReadIndex + segment = MaxItemCount /\ segment + sawWrite <= Exist
      BY <2>1 DEF IInv, DrainInv
    <3>2. m_ReadIndex' = 0 /\ segment' = sawWrite /\ sawWrite' = sawWrite /\ got' = <<>>
      BY <2>1, <3>1 DEF DrainPublish, NextReadIndex
    <3> QED BY <1>1, <1>2, <1>3, <3>1, <3>2 DEF IInv, TypeOK, DrainInv, Slots
  <2>2. CASE ~(draining = "CopyAllItems" /\ sawWrite < m_ReadIndex)
    BY <2>2 DEF DrainInv, DrainPublish
  <2> QED BY <2>1, <2>2
<1> QED BY <1>4, <1>5, <1>6, <1>7 DEF IInv

LEMMA AnswerOnlyIInv ==
    ASSUME IInv,
           \/ \E b \in Batches : AddItemsRefuse(b)
           \/ DrainEmpty
           \/ DrainRefused
    PROVE  IInv'
<1>1. /\ UNCHANGED <<ringVars, fillVars, taken>>
      /\ \/ UNCHANGED drainVars
         \/ draining' = "no" /\ segment' = 0 /\ got' = <<>> /\ sawWrite' = 0
  BY DEF AddItemsRefuse, DrainEmpty, DrainRefused, ringVars, fillVars, drainVars
<1>2. answer' \in {"none", "added", "refused", "empty", "taken", "kept"} \X Nat
  <2>1. \A b \in Batches : Len(b) \in Nat
    BY DEF Batches
  <2> QED BY <2>1 DEF AddItemsRefuse, DrainEmpty, DrainRefused
<1>3. 0 \in Slots /\ <<>> \in Seq(Item)
  BY DEF Slots
<1>4. TypeOK'
  <2>1. CASE UNCHANGED drainVars
    BY <1>1, <1>2, <2>1 DEF IInv, TypeOK, ringVars, fillVars, drainVars
  <2>2. CASE draining' = "no" /\ segment' = 0 /\ got' = <<>> /\ sawWrite' = 0
    <3>1. /\ draining' \in DrainOps \cup {"no"} /\ segment' \in Nat
          /\ got' \in Seq(Item) /\ sawWrite' \in Slots
      BY <1>3, <2>2
    <3> QED BY <1>1, <1>2, <3>1 DEF IInv, TypeOK, ringVars, fillVars
  <2> QED BY <1>1, <2>1, <2>2 DEF IInv, TypeOK, ringVars, fillVars
<1>5. ContentInv' /\ FillInv' /\ DrainInv'
  BY <1>1 DEF IInv, ContentInv, FillInv, DrainInv, Exist, ringVars, fillVars, drainVars
<1> QED BY <1>4, <1>5 DEF IInv

\* Every step of either thread keeps the inductive invariant.
THEOREM Invariance == Spec => []IInv
<1>1. IInv /\ [Next]_vars => IInv'
  <2> SUFFICES ASSUME IInv, [Next]_vars PROVE IInv'
    OBVIOUS
  <2>1. CASE Fill
    BY <2>1, AddItemsCopyIInv, AddItemsPublishIInv, AddItemsBeginIInv, AnswerOnlyIInv DEF Fill
  <2>2. CASE Drain
    BY <2>2, DrainCopyIInv, DrainPublishIInv, DrainBeginIInv, AnswerOnlyIInv DEF Drain
  <2>3. CASE UNCHANGED vars
    BY <2>3 DEF vars, ringVars, fillVars, drainVars, IInv, TypeOK, ContentInv, FillInv,
                DrainInv, Exist
  <2> QED BY <2>1, <2>2, <2>3 DEF Next
<1> QED BY InitIInv, <1>1, PTL DEF Spec

-----------------------------------------------------------------------------
(* The theorems.                                                           *)

\* The type invariant, for every ring.
THEOREM TypeCorrect == Spec => []TypeOK
BY Invariance, PTL DEF IInv

LEMMA IInvNoOverlap == IInv => NoOverlap
<1> SUFFICES ASSUME IInv, filling, draining # "no",
                    NEW k \in 0 .. Len(batch) - 1,
                    NEW i \in m_ReadIndex .. m_ReadIndex + segment - 1
             PROVE  Slot(m_WriteIndex, k) # i
  BY DEF NoOverlap, FillSlots, DrainSlots
<1>1. /\ m_ReadIndex \in Slots /\ m_WriteIndex \in Slots /\ Len(batch) \in Nat
      /\ Exist \in 0 .. MaxItemCount - 1 /\ Exist + Len(batch) <= MaxItemCount - 1
      /\ segment \in Nat /\ m_ReadIndex + segment <= MaxItemCount /\ segment <= Exist
  BY ExistCountInRange DEF IInv, TypeOK, FillInv, DrainInv, Exist
<1>2. Slot(m_WriteIndex, k) = Slot(m_ReadIndex, Exist + k)
  BY <1>1, SlotAfterContent DEF Exist
<1> DEFINE j == i - m_ReadIndex
<1>3. j \in 0 .. Exist - 1 /\ Slot(m_ReadIndex, j) = i
  BY <1>1 DEF Slot, Slots
<1>4. Exist + k # j /\ Exist + k \in 0 .. MaxItemCount - 1 /\ j \in 0 .. MaxItemCount - 1
  BY <1>1, <1>3
<1> QED BY <1>1, <1>2, <1>3, <1>4, SlotInjective

\* The unlocked filling and draining threads never touch the same slot.
THEOREM RaceFree == Spec => []NoOverlap
BY Invariance, IInvNoOverlap, PTL

-----------------------------------------------------------------------------
(* The ring implements BoundedFifo.  Only the two publications change what *)
(* the mapping shows; the copying in between is hidden.                    *)

ContentFacts ==
    /\ Exist \in Nat /\ Exist <= MaxItemCount - 1
    /\ Content \in Seq(Item) /\ Len(Content) = Exist
    /\ \A k \in 1 .. Exist : Content[k] = buf[Slot(m_ReadIndex, k - 1)]

LEMMA ContentIsSequence == IInv => ContentFacts
<1> SUFFICES ASSUME IInv PROVE ContentFacts
  OBVIOUS
<1>1. Exist \in 0 .. MaxItemCount - 1
  BY ExistCountInRange DEF IInv, TypeOK, Exist
<1>2. \A k \in 1 .. Exist : buf[Slot(m_ReadIndex, k - 1)] \in Item
  BY <1>1 DEF IInv, ContentInv
<1>3. Content = [k \in 1 .. Exist |-> buf[Slot(m_ReadIndex, k - 1)]]
  BY DEF Content, Exist
<1> QED BY <1>1, <1>2, <1>3 DEF ContentFacts

LEMMA ContentStaysSequence == IInv' => ContentFacts'
BY ContentIsSequence, PTL

LEMMA SameSequence ==
    ASSUME NEW S, NEW s \in Seq(S), NEW t \in Seq(S), Len(s) = Len(t),
           \A k \in 1 .. Len(s) : s[k] = t[k]
    PROVE  s = t
OBVIOUS

LEMMA ConcatTail ==
    ASSUME NEW S, NEW s \in Seq(S), NEW t \in Seq(S),
           NEW k \in 1 .. Len(s) + Len(t), ~(k <= Len(s))
    PROVE  (s \o t)[k] = t[k - Len(s)]
OBVIOUS

LEMMA PublishIsPut ==
    ASSUME IInv, IInv', AddItemsPublish
    PROVE  Fifo!Put(batch)
<1>1. /\ m_ReadIndex \in Slots /\ m_WriteIndex \in Slots /\ sawRead \in Slots
      /\ batch \in Seq(Item) /\ Len(batch) \in Nat /\ copied = Len(batch)
      /\ Exist + Len(batch) <= MaxItemCount - 1
      /\ CanContain(sawRead, m_WriteIndex, Len(batch))
  BY DEF IInv, TypeOK, FillInv, AddItemsPublish
<1>2. Exist' = Exist + Len(batch)
  BY <1>1, PublishedWriteIndex DEF AddItemsPublish, Exist
<1>3. /\ Exist \in Nat /\ Content \in Seq(Item) /\ Len(Content) = Exist
      /\ \A k \in 1 .. Exist : Content[k] = buf[Slot(m_ReadIndex, k - 1)]
  BY ContentIsSequence DEF ContentFacts
<1>4. /\ Content' \in Seq(Item) /\ Len(Content') = Exist'
      /\ \A k \in 1 .. Exist' : Content'[k] = buf[Slot(m_ReadIndex, k - 1)]
  <2>1. /\ Content' \in Seq(Item) /\ Len(Content') = Exist'
        /\ \A k \in 1 .. Exist' : Content'[k] = buf'[Slot(m_ReadIndex', k - 1)]
    BY ContentStaysSequence DEF ContentFacts
  <2> QED BY <2>1 DEF AddItemsPublish
<1>5. \A k \in 1 .. Exist' : Content'[k] = (Content \o batch)[k]
  <2> TAKE k \in 1 .. Exist'
  <2>1. CASE k <= Exist
    BY <2>1, <1>1, <1>2, <1>3, <1>4
  <2>2. CASE k > Exist
    <3> DEFINE j == k - 1 - Exist
    <3>1. j \in 0 .. Len(batch) - 1
      BY <2>2, <1>1, <1>2, <1>3
    <3>2. Slot(m_WriteIndex, j) = Slot(m_ReadIndex, Exist + j)
      BY <3>1, <1>1, <1>3, SlotAfterContent DEF Exist
    <3>3. buf[Slot(m_WriteIndex, j)] = batch[j + 1]
      BY <3>1, <1>1 DEF IInv, FillInv, AddItemsPublish
    <3>4. (Content \o batch)[k] = batch[k - Exist]
      <4>1. k \in Int /\ Exist < k /\ k <= Exist + Len(batch)
        BY <2>2, <1>1, <1>2, <1>3
      <4>2. k \in 1 .. Len(Content) + Len(batch) /\ ~(k <= Len(Content))
        BY <4>1, <1>1, <1>3
      <4> QED BY <4>2, <1>1, <1>3, ConcatTail
    <3> QED BY <3>1, <3>2, <3>3, <3>4, <1>3, <1>4
  <2> QED BY <2>1, <2>2, <1>2, <1>3
<1>6. Content' = Content \o batch
  <2>1. Content \o batch \in Seq(Item) /\ Len(Content \o batch) = Exist'
    BY <1>1, <1>2, <1>3, ConcatProperties
  <2> QED BY <2>1, <1>4, <1>5, SameSequence
<1> QED BY <1>1, <1>3, <1>6 DEF Fifo!Put, AddItemsPublish

LEMMA PublishIsTake ==
    ASSUME IInv, IInv', DrainPublish
    PROVE  Fifo!Take(segment)
<1>1. /\ m_ReadIndex \in Slots /\ m_WriteIndex \in Slots
      /\ segment \in Nat /\ Len(got) = segment /\ got \in Seq(Item)
      /\ m_ReadIndex + segment <= MaxItemCount /\ segment <= Exist
  BY DEF IInv, TypeOK, DrainInv, DrainPublish
<1>2. /\ Exist' = Exist - segment
      /\ \A k \in Nat : segment + k < MaxItemCount =>
            Slot(m_ReadIndex', k) = Slot(m_ReadIndex, segment + k)
  BY <1>1, PublishedReadIndex DEF Exist, DrainPublish
<1>3. /\ Exist \in Nat /\ Exist <= MaxItemCount - 1
      /\ Content \in Seq(Item) /\ Len(Content) = Exist
      /\ \A k \in 1 .. Exist : Content[k] = buf[Slot(m_ReadIndex, k - 1)]
  BY ContentIsSequence DEF ContentFacts
<1>4. /\ Content' \in Seq(Item) /\ Len(Content') = Exist'
      /\ \A k \in 1 .. Exist' : Content'[k] = buf[Slot(m_ReadIndex', k - 1)]
  <2>1. /\ Content' \in Seq(Item) /\ Len(Content') = Exist'
        /\ \A k \in 1 .. Exist' : Content'[k] = buf'[Slot(m_ReadIndex', k - 1)]
    BY ContentStaysSequence DEF ContentFacts
  <2> QED BY <2>1 DEF DrainPublish
<1>5. taken' = SubSeq(Content, 1, segment)
  <2>1. /\ SubSeq(Content, 1, segment) \in Seq(Item)
        /\ Len(SubSeq(Content, 1, segment)) = segment
        /\ \A k \in 1 .. segment : SubSeq(Content, 1, segment)[k] = Content[k]
    BY <1>1, <1>3
  <2>2. \A k \in 1 .. segment : got[k] = Content[k]
    <3> TAKE k \in 1 .. segment
    <3>1. got[k] = buf[m_ReadIndex + (k - 1)]
      BY <1>1 DEF IInv, DrainInv, DrainPublish
    <3>2. Slot(m_ReadIndex, k - 1) = m_ReadIndex + (k - 1)
      BY <1>1 DEF Slot, Slots
    <3> QED BY <3>1, <3>2, <1>1, <1>3
  <2> QED BY <2>1, <2>2, <1>1, SameSequence DEF DrainPublish
<1>6. Content' = SubSeq(Content, segment + 1, Len(Content))
  <2>1. /\ SubSeq(Content, segment + 1, Len(Content)) \in Seq(Item)
        /\ Len(SubSeq(Content, segment + 1, Len(Content))) = Exist'
        /\ \A k \in 1 .. Exist' :
              SubSeq(Content, segment + 1, Len(Content))[k] = Content[segment + k]
    BY <1>1, <1>2, <1>3
  <2>2. \A k \in 1 .. Exist' : Content'[k] = Content[segment + k]
    <3> TAKE k \in 1 .. Exist'
    <3>1. k - 1 \in Nat /\ segment + (k - 1) < MaxItemCount /\ segment + k \in 1 .. Exist
      BY <1>1, <1>2, <1>3
    <3>2. Slot(m_ReadIndex', k - 1) = Slot(m_ReadIndex, segment + (k - 1))
      BY <3>1, <1>2
    <3>3. segment + (k - 1) = (segment + k) - 1
      BY <1>1
    <3> QED BY <3>1, <3>2, <3>3, <1>3, <1>4
  <2> QED BY <2>1, <2>2, <1>4, SameSequence
<1> QED BY <1>1, <1>3, <1>5, <1>6 DEF Fifo!Take, DrainPublish

LEMMA InitIsFifoInit == Init => Fifo!Init
<1> SUFFICES ASSUME Init PROVE Fifo!Init
  OBVIOUS
<1>1. Content = <<>>
  BY InitIInv, ContentIsSequence DEF ContentFacts, Init, Exist, ExistCount
<1> QED BY <1>1 DEF Init, Fifo!Init

\* What the mapping shows does not change while a thread tests or copies.
LEMMA HiddenStep ==
    ASSUME IInv,
           \/ AddItemsCopy
           \/ DrainCopy
           \/ \E b \in Batches : AddItemsBegin(b)
           \/ \E op \in DrainOps, want \in 1 .. MaxBatch : DrainBegin(op, want)
    PROVE  UNCHANGED Fifo!vars
<1>1. UNCHANGED <<m_ReadIndex, m_WriteIndex, taken, answer>>
  BY DEF AddItemsCopy, DrainCopy, AddItemsBegin, DrainBegin, ringVars
<1>2. \A k \in 1 .. Exist : buf'[Slot(m_ReadIndex, k - 1)] = buf[Slot(m_ReadIndex, k - 1)]
  <2>1. CASE AddItemsCopy
    <3>1. /\ m_ReadIndex \in Slots /\ m_WriteIndex \in Slots
          /\ copied \in Nat /\ copied < Len(batch) /\ Len(batch) \in Nat
          /\ Exist \in 0 .. MaxItemCount - 1 /\ Exist + Len(batch) <= MaxItemCount - 1
      BY <2>1, ExistCountInRange DEF IInv, TypeOK, FillInv, Exist, AddItemsCopy
    <3>2. Slot(m_WriteIndex, copied) = Slot(m_ReadIndex, Exist + copied)
      BY <3>1, SlotAfterContent DEF Exist
    <3>3. \A k \in 1 .. Exist : /\ Slot(m_ReadIndex, k - 1) \in Slots
                               /\ Slot(m_ReadIndex, k - 1) # Slot(m_WriteIndex, copied)
      BY <3>1, <3>2, SlotInjective, SlotInRange
    <3> QED BY <2>1, <3>3 DEF IInv, TypeOK, AddItemsCopy
  <2>2. CASE ~AddItemsCopy
    BY <2>2 DEF DrainCopy, AddItemsBegin, DrainBegin, ringVars
  <2> QED BY <2>1, <2>2
<1>3. Exist' = Exist /\ Content' = Content
  BY <1>1, <1>2 DEF Exist, Content
<1> QED BY <1>1, <1>3 DEF Fifo!vars

\* An answer without a change of the ring is one BoundedFifo allows.
LEMMA AnswerIsTrue ==
    ASSUME IInv,
           \/ \E b \in Batches : AddItemsRefuse(b)
           \/ DrainEmpty
           \/ DrainRefused
    PROVE  Fifo!Next
<1>1. Content' = Content /\ taken' = taken
  BY DEF AddItemsRefuse, DrainEmpty, DrainRefused, ringVars, Content
<1>2. Len(Content) = Exist
  BY ContentIsSequence DEF ContentFacts
<1>3. ASSUME NEW b \in Batches, AddItemsRefuse(b) PROVE Fifo!Next
  <2>1. Len(b) \in 0 .. MaxBatch
    BY DEF Batches
  <2>2. \/ Exist + Len(b) > MaxItemCount - 1
        \/ Exist = MaxItemCount - 1
    BY <1>3, <2>1, RoomForBatch DEF IInv, TypeOK, AddItemsRefuse, Exist
  <2>3. Fifo!Refuse(Len(b))
    BY <1>1, <1>2, <1>3, <2>2 DEF Fifo!Refuse, AddItemsRefuse
  <2> QED BY <2>1, <2>3 DEF Fifo!Next
<1>4. CASE DrainEmpty
  <2>1. Content = <<>>
    BY <1>2, <1>4, ContentIsSequence DEF DrainEmpty, Exist, ExistCount, IInv, TypeOK, Slots, ContentFacts
  <2> QED BY <1>1, <1>4, <2>1 DEF Fifo!Next, Fifo!ReportEmpty, DrainEmpty
<1>5. CASE DrainRefused
  BY <1>1, <1>5 DEF Fifo!Next, Fifo!GiveUp, DrainRefused
<1> QED BY <1>3, <1>4, <1>5

LEMMA StepRefines == IInv /\ IInv' /\ [Next]_vars => [Fifo!Next]_Fifo!vars
<1> SUFFICES ASSUME IInv, IInv', [Next]_vars PROVE [Fifo!Next]_Fifo!vars
  OBVIOUS
<1>1. CASE AddItemsPublish
  <2>1. batch \in Batches
    BY <1>1 DEF IInv, FillInv, AddItemsPublish
  <2>2. Batches = Fifo!Batches
    BY DEF Batches, Fifo!Batches
  <2> QED BY <1>1, <2>1, <2>2, PublishIsPut DEF Fifo!Next
<1>2. CASE DrainPublish
  <2>1. segment \in 0 .. MaxItemCount - 1
    BY <1>2, ContentIsSequence DEF IInv, TypeOK, DrainInv, DrainPublish, ContentFacts
  <2> QED BY <1>2, <2>1, PublishIsTake DEF Fifo!Next
<1>3. CASE UNCHANGED vars
  BY <1>3 DEF vars, ringVars, Fifo!vars, Content
<1> QED BY <1>1, <1>2, <1>3, HiddenStep, AnswerIsTrue DEF Next, Fill, Drain

\* The ring implements a bounded FIFO for every size, item set and batch length:
\* LFixLenCircleBuf loses, duplicates, tears and reorders nothing, and refuses
\* or reports "empty" only when that is true.
THEOREM ImplementsFifo == Spec => FifoSpec
BY InitIsFifoInit, StepRefines, Invariance, PTL DEF Spec, FifoSpec, Fifo!Spec
=============================================================================
