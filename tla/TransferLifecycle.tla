-------------------------- MODULE TransferLifecycle --------------------------
(***************************************************************************)
(* What asynchronous transfer promises its callers.  A transfer is started *)
(* for an expert that is not resident, and the device brings the expert's  *)
(* bytes when it will.  The transfer ends only after they have all         *)
(* arrived, cancelled or not, since until then the device reads the pinned *)
(* memory and writes the buffers.  Its end makes its own expert resident,  *)
(* or, as when the reconstruction fails, moves none; the end of one that   *)
(* was cancelled moves none.                                               *)
(***************************************************************************)
EXTENDS FiniteSets, Naturals

CONSTANTS Keys, MaxConcurrent

VARIABLES
    status,    \* a transfer's status, by expert
    arrived,   \* the experts whose transfer is outstanding with all bytes there
    resident   \* the experts on the GPU

LifecycleInit ==
    /\ status = [k \in Keys |-> "none"]
    /\ arrived = {}
    /\ resident = {}

Outstanding == {k \in Keys : status[k] # "none"}

Become(k, s) == status' = [status EXCEPT ![k] = s]

Start(k) ==
    /\ status[k] = "none" /\ k \notin resident
    /\ Cardinality(Outstanding) < MaxConcurrent
    /\ Become(k, "in_flight")
    /\ UNCHANGED <<arrived, resident>>

\* The device makes progress: what has arrived stays.
Arrives == arrived \subseteq arrived' /\ arrived' \subseteq Outstanding

Cancel(k) ==
    /\ status[k] = "in_flight"
    /\ Become(k, "cancelled")
    /\ UNCHANGED <<arrived, resident>>

\* An expert enters the tier, and may displace one other.
Enters(k) ==
    \/ resident' = resident \cup {k}
    \/ \E v \in resident : resident' = (resident \ {v}) \cup {k}

Ends(k) ==
    /\ k \in arrived
    /\ arrived' = arrived \ {k}
    /\ Become(k, "none")

Finish(k) == status[k] = "in_flight" /\ Ends(k) /\ Enters(k)

Discard(k) == Ends(k) /\ UNCHANGED resident

\* Synchronous transfers, which wait for the device, and demotions move one
\* expert and end no transfer.
Elsewhere ==
    /\ UNCHANGED status /\ Arrives
    /\ \/ UNCHANGED resident
       \/ \E v \in resident : resident' = resident \ {v}
       \/ \E k \in Keys : Enters(k)

LifecycleNext ==
    \/ Elsewhere
    \/ \E k \in Keys : Start(k) \/ Cancel(k) \/ Finish(k) \/ Discard(k)

LifecycleSpec == LifecycleInit /\ [][LifecycleNext]_<<status, arrived, resident>>
=============================================================================
