----------------------------- MODULE CircleBuf -----------------------------
(***************************************************************************)
(* LFixLenCircleBuf (src/NetWork/LFixLenCircleBuf.cpp): the ring every     *)
(* queue, pool and notice channel of the network library is made of.  One  *)
(* thread at a time fills it (AddItems), one thread at a time drains it    *)
(* (GetOneItem, RequestItems, CopyAllItemsToOtherFixLenCircleBuf); they    *)
(* share the slots and the two indexes and no lock.  Where several threads *)
(* fill or drain one ring their callers hold a mutex.                      *)
(*                                                                         *)
(* A call loads the two indexes, copies slot by slot (memcpy) and then     *)
(* publishes its own index.  Only the draining thread writes m_ReadIndex   *)
(* and only the filling thread m_WriteIndex, so the two loads and the test *)
(* on them are one step.                                                   *)
(***************************************************************************)
EXTENDS Integers, Sequences

CONSTANTS
    Item,           \* the values an item can have
    NoItem,         \* a slot nothing was copied to yet
    MaxItemCount,   \* m_sMaxItemCount: slots of the ring
    MaxBatch        \* bound: the longest batch and the largest request

ASSUME CircleBufAssumption ==
    /\ NoItem \notin Item
    /\ MaxItemCount \in Nat /\ MaxItemCount >= 1
    /\ MaxBatch \in Nat

VARIABLES
    buf,            \* m_pbuf, slot 0 .. MaxItemCount - 1
    m_ReadIndex,
    m_WriteIndex,
    filling,        \* the filling thread is between its test and its publication
    batch,          \* the items it adds
    copied,         \* how many of them are in their slots
    sawRead,        \* the m_ReadIndex it loaded
    draining,       \* what the draining thread does: "no", "GetOneItem", ...
    segment,        \* how many slots it copies out before it publishes
    got,            \* what it has copied out so far
    sawWrite,       \* the m_WriteIndex it loaded
    taken,          \* what the last finished segment handed over
    answer          \* what the last completed call returned, and for how many items

ringVars == <<buf, m_ReadIndex, m_WriteIndex>>
fillVars == <<filling, batch, copied, sawRead>>
drainVars == <<draining, segment, got, sawWrite>>
vars == <<ringVars, fillVars, drainVars, taken, answer>>

Slots == 0 .. MaxItemCount - 1
Batches == UNION {[1 .. n -> Item] : n \in 0 .. MaxBatch}

-----------------------------------------------------------------------------
(* Index arithmetic.                                                       *)

\* The slot k places after index i; a copy that would pass the end of m_pbuf
\* is split and continues at slot 0.
Slot(i, k) == IF i + k < MaxItemCount THEN i + k ELSE i + k - MaxItemCount

\* GetCurrentExistCount
ExistCount(rd, wr) == IF rd <= wr THEN wr - rd ELSE MaxItemCount - rd + wr

\* nFreeItemCount of AddItems; one slot always stays free
FreeItemCount(rd, wr) == IF wr < rd THEN rd - wr ELSE MaxItemCount + rd - wr

\* Mutant of CanContain: no slot stays free.
CanContainAll(rd, wr, n) ==
    /\ n <= MaxItemCount
    /\ n <= FreeItemCount(rd, wr)

CanContain(rd, wr, n) ==
    /\ n <= MaxItemCount - 1
    /\ FreeItemCount(rd, wr) > 1
    /\ n <= FreeItemCount(rd, wr) - 1

\* The index AddItems publishes, by its three branches
NextWriteIndex(rd, wr, n) ==
    IF wr < rd THEN wr + n
    ELSE IF wr + n = MaxItemCount THEN 0
    ELSE IF wr + n < MaxItemCount THEN wr + n
    ELSE n - (MaxItemCount - wr)

\* The slots from rd on that are filled and not interrupted by the end of m_pbuf
Contiguous(rd, wr) == IF rd < wr THEN wr - rd ELSE MaxItemCount - rd

SegmentLength(op, want, rd, wr) ==
    IF op = "GetOneItem" THEN 1
    ELSE IF op = "RequestItems" /\ want < Contiguous(rd, wr) THEN want
    ELSE Contiguous(rd, wr)

\* Mutant of NextReadIndex: the ring wraps one slot early.
NextReadIndexEarly(rd, n) == IF rd + n >= MaxItemCount - 1 THEN 0 ELSE rd + n

NextReadIndex(rd, n) == IF rd + n = MaxItemCount THEN 0 ELSE rd + n

-----------------------------------------------------------------------------
(* LFixLenCircleBuf() and Initialize: both indexes 0, memory not set.      *)

Init ==
    /\ buf = [i \in Slots |-> NoItem]
    /\ m_ReadIndex = 0 /\ m_WriteIndex = 0
    /\ filling = FALSE /\ batch = <<>> /\ copied = 0 /\ sawRead = 0
    /\ draining = "no" /\ segment = 0 /\ got = <<>> /\ sawWrite = 0
    /\ taken = <<>> /\ answer = <<"none", 0>>

-----------------------------------------------------------------------------
(* AddItems                                                                *)

AddItemsBegin(b) ==
    /\ ~filling
    /\ CanContain(m_ReadIndex, m_WriteIndex, Len(b))
    /\ filling' = TRUE
    /\ batch' = b
    /\ copied' = 0
    /\ sawRead' = m_ReadIndex
    /\ UNCHANGED <<ringVars, drainVars, taken, answer>>

\* E_Circle_Buf_Can_Not_Contain_Data: nothing is written
AddItemsRefuse(b) ==
    /\ ~filling
    /\ ~CanContain(m_ReadIndex, m_WriteIndex, Len(b))
    /\ answer' = <<"refused", Len(b)>>
    /\ UNCHANGED <<ringVars, fillVars, drainVars, taken>>

\* memcpy, one item
AddItemsCopy ==
    /\ filling
    /\ copied < Len(batch)
    /\ buf' = [buf EXCEPT ![Slot(m_WriteIndex, copied)] = batch[copied + 1]]
    /\ copied' = copied + 1
    /\ UNCHANGED <<m_ReadIndex, m_WriteIndex, filling, batch, sawRead,
                   drainVars, taken, answer>>

AddItemsPublish ==
    /\ filling
    /\ copied = Len(batch)
    /\ m_WriteIndex' = NextWriteIndex(sawRead, m_WriteIndex, Len(batch))
    /\ filling' = FALSE /\ batch' = <<>> /\ copied' = 0 /\ sawRead' = 0
    /\ answer' = <<"added", Len(batch)>>
    /\ UNCHANGED <<buf, m_ReadIndex, drainVars, taken>>

-----------------------------------------------------------------------------
(* GetOneItem, RequestItems and CopyAllItemsToOtherFixLenCircleBuf.  The   *)
(* last two copy into another ring, whose refusal ends the call.           *)

DrainOps == {"GetOneItem", "RequestItems", "CopyAllItems"}

DrainBegin(op, want) ==
    /\ draining = "no"
    /\ m_ReadIndex # m_WriteIndex
    /\ draining' = op
    /\ segment' = SegmentLength(op, want, m_ReadIndex, m_WriteIndex)
    /\ got' = <<>>
    /\ sawWrite' = m_WriteIndex
    /\ UNCHANGED <<ringVars, fillVars, taken, answer>>

DrainEmpty ==
    /\ draining = "no"
    /\ m_ReadIndex = m_WriteIndex
    /\ answer' = <<"empty", 0>>
    /\ UNCHANGED <<ringVars, fillVars, drainVars, taken>>

DrainCopy ==
    /\ draining # "no"
    /\ Len(got) < segment
    /\ got' = Append(got, buf[m_ReadIndex + Len(got)])
    /\ UNCHANGED <<ringVars, fillVars, draining, segment, sawWrite, taken, answer>>

\* The other ring's AddItems failed: m_ReadIndex stays, so nothing is lost.
DrainRefused ==
    /\ draining \in {"RequestItems", "CopyAllItems"}
    /\ Len(got) = segment
    /\ draining' = "no" /\ segment' = 0 /\ got' = <<>> /\ sawWrite' = 0
    /\ answer' = <<"kept", 0>>
    /\ UNCHANGED <<ringVars, fillVars, taken>>

\* CopyAllItems of a wrapped ring publishes 0 and goes on with the segment at
\* the start of m_pbuf, up to the write index it loaded at first.
DrainPublish ==
    /\ draining # "no"
    /\ Len(got) = segment
    /\ m_ReadIndex' = NextReadIndex(m_ReadIndex, segment)
    /\ taken' = got
    /\ answer' = <<"taken", segment>>
    /\ got' = <<>>
    /\ IF draining = "CopyAllItems" /\ sawWrite < m_ReadIndex
       THEN segment' = sawWrite /\ UNCHANGED <<draining, sawWrite>>
       ELSE draining' = "no" /\ segment' = 0 /\ sawWrite' = 0
    /\ UNCHANGED <<buf, m_WriteIndex, fillVars>>

-----------------------------------------------------------------------------
Fill == AddItemsCopy \/ AddItemsPublish
        \/ \E b \in Batches : AddItemsBegin(b) \/ AddItemsRefuse(b)

Drain == DrainEmpty \/ DrainCopy \/ DrainRefused \/ DrainPublish
         \/ \E op \in DrainOps, want \in 1 .. MaxBatch : DrainBegin(op, want)

Next == Fill \/ Drain

Spec == Init /\ [][Next]_vars

-----------------------------------------------------------------------------
TypeOK ==
    /\ buf \in [Slots -> Item \cup {NoItem}]
    /\ m_ReadIndex \in Slots /\ m_WriteIndex \in Slots
    /\ filling \in BOOLEAN /\ batch \in Seq(Item)
    /\ copied \in 0 .. Len(batch) /\ sawRead \in Slots
    /\ draining \in DrainOps \cup {"no"} /\ segment \in Nat
    /\ got \in Seq(Item) /\ sawWrite \in Slots
    /\ taken \in Seq(Item)
    /\ answer \in {"none", "added", "refused", "empty", "taken", "kept"} \X Nat

\* The slots each thread's memcpy touches before it publishes
FillSlots == IF filling THEN {Slot(m_WriteIndex, k) : k \in 0 .. Len(batch) - 1} ELSE {}
DrainSlots == IF draining = "no" THEN {} ELSE m_ReadIndex .. m_ReadIndex + segment - 1

\* The two threads hold no lock: the slots one copies into are never slots the
\* other is copying out of (AddItems:147-152 against GetOneItem:202).
NoOverlap == FillSlots \cap DrainSlots = {}

\* The content: what is between the two indexes, oldest first.
Content == [k \in 1 .. ExistCount(m_ReadIndex, m_WriteIndex) |-> buf[Slot(m_ReadIndex, k - 1)]]

-----------------------------------------------------------------------------
(* Why it works: the strengthening of NoOverlap that every step preserves. *)

Exist == ExistCount(m_ReadIndex, m_WriteIndex)

\* Everything between the two indexes was copied in completely.
ContentInv == \A k \in 0 .. Exist - 1 : buf[Slot(m_ReadIndex, k)] \in Item

\* The batch was tested against indexes that can only have become better, fits
\* behind the content, and its copied part is in place.
FillInv ==
    filling =>
        /\ batch \in Batches
        /\ CanContain(sawRead, m_WriteIndex, Len(batch))
        /\ Exist + Len(batch) <= MaxItemCount - 1
        /\ \A k \in 0 .. copied - 1 : buf[Slot(m_WriteIndex, k)] = batch[k + 1]

\* The segment is the oldest part of the content, lies in one piece, and what was
\* copied out of it is still there.
DrainInv ==
    draining # "no" =>
        /\ m_ReadIndex + segment <= MaxItemCount
        /\ segment <= Exist
        /\ Len(got) <= segment
        /\ \A k \in 0 .. Len(got) - 1 : got[k + 1] = buf[m_ReadIndex + k]
        /\ draining = "CopyAllItems" /\ sawWrite < m_ReadIndex =>
                /\ m_ReadIndex + segment = MaxItemCount
                /\ segment + sawWrite <= Exist

IInv == TypeOK /\ ContentInv /\ FillInv /\ DrainInv

\* The ring implements a bounded FIFO of MaxItemCount - 1 items: nothing is
\* lost, duplicated, torn or reordered, and no refusal or "empty" is false.
Fifo == INSTANCE BoundedFifo WITH Capacity <- MaxItemCount - 1, queue <- Content
FifoSpec == Fifo!Spec
=============================================================================
