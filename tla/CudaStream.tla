----------------------------- MODULE CudaStream -----------------------------
(***************************************************************************)
(* A CUDA stream, as transfer/ uses one: work is enqueued by the host and  *)
(* done by the device strictly in order, one item at a time, at any moment *)
(* after.  A stream is the sequence of the items not done yet.             *)
(*                                                                         *)
(* An item is a DMA copy of one part of a pinned slot to a device buffer,  *)
(* which reads the slot when it is done and not when it is enqueued, or an *)
(* event: the event recorded behind the copies of an expert's transfer     *)
(* ("landed") or behind the last use of a slot ("ready").                  *)
(***************************************************************************)
EXTENDS Sequences, SequencesExt

Copy(slot, part, dest) ==
    [op |-> "copy", slot |-> slot, part |-> part, dest |-> dest]

Landed(dest) == [op |-> "landed", dest |-> dest]

Ready(slot) == [op |-> "ready", slot |-> slot]

IsCopy(item) == item.op = "copy"

\* event.query(): everything enqueued before the event is done.
EventDone(stream, event) == ~Contains(stream, event)

\* The copies the stream still has to make out of a slot.
PendingCopies(stream, slot) ==
    {i \in DOMAIN stream : IsCopy(stream[i]) /\ stream[i].slot = slot}
=============================================================================
