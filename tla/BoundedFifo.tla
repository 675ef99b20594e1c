---------------------------- MODULE BoundedFifo ----------------------------
(***************************************************************************)
(* What a ring of LFixLenCircleBuf promises to the one thread that fills   *)
(* it and the one thread that drains it: a first-in first-out queue of at  *)
(* most Capacity items, where a batch is taken whole or refused whole and  *)
(* every answer is true at the moment it is given.                         *)
(***************************************************************************)
EXTENDS Integers, Sequences

CONSTANTS
    Item,       \* what a slot may hold: packets, session ids, session pointers
    Capacity,   \* how many items fit: m_sMaxItemCount - 1
    MaxBatch    \* bound: the longest batch anyone offers

VARIABLES
    queue,      \* the items accepted and not yet drained, oldest first
    taken,      \* the items the last successful drain handed over
    answer      \* what the last completed call returned, and for how many items

vars == <<queue, taken, answer>>

Batches == UNION {[1 .. n -> Item] : n \in 0 .. MaxBatch}

Init ==
    /\ queue = <<>>
    /\ taken = <<>>
    /\ answer = <<"none", 0>>

\* A batch is accepted as a whole.
Put(batch) ==
    /\ Len(queue) + Len(batch) <= Capacity
    /\ queue' = queue \o batch
    /\ answer' = <<"added", Len(batch)>>
    /\ UNCHANGED taken

\* A batch is refused only when it does not fit, or when the queue is full.
Refuse(n) ==
    /\ Len(queue) + n > Capacity \/ Len(queue) = Capacity
    /\ answer' = <<"refused", n>>
    /\ UNCHANGED <<queue, taken>>

\* The oldest n items leave together, in the order they came.
Take(n) ==
    /\ n <= Len(queue)
    /\ taken' = SubSeq(queue, 1, n)
    /\ queue' = SubSeq(queue, n + 1, Len(queue))
    /\ answer' = <<"taken", n>>

\* Emptiness is reported only when nothing is queued.
ReportEmpty ==
    /\ queue = <<>>
    /\ answer' = <<"empty", 0>>
    /\ UNCHANGED <<queue, taken>>

\* The place the items were to go to had no room: nothing is lost.
GiveUp ==
    /\ answer' = <<"kept", 0>>
    /\ UNCHANGED <<queue, taken>>

Next ==
    \/ \E batch \in Batches : Put(batch)
    \/ \E n \in 0 .. MaxBatch : Refuse(n)
    \/ \E n \in 0 .. Capacity : Take(n)
    \/ ReportEmpty
    \/ GiveUp

Spec == Init /\ [][Next]_vars
=============================================================================
