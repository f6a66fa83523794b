--------------------------- MODULE MetricsReporter ---------------------------
(***************************************************************************)
(* metrics/reporter.py's MetricsReporter: a thread that wakes at intervals *)
(* and reports a snapshot of the collector, started and stopped by one     *)
(* owner while other threads record.                                       *)
(*                                                                         *)
(* Time is left out: a wait may time out at any moment.  join() times out  *)
(* after the reporting interval and two seconds more, which only a thread  *)
(* that is in its report can outlast: one that waits for the event is      *)
(* woken by it.                                                            *)
(***************************************************************************)
EXTENDS MetricsCollector

CONSTANTS
    Loops,     \* the threads that can be created to run _loop
    NoThread   \* _thread before the first start

ASSUME ReporterAssumption == Loops \subseteq Threads /\ NoThread \notin Loops

VARIABLES
    thread,      \* _thread
    loop,        \* where each thread is in _loop
    stop_event,  \* _stop_event
    owner,       \* where the owner is in start() or stop()
    wanted       \* auxiliary: what the owner's last call asked for

rvars == <<cvars, thread, loop, stop_event, owner, wanted>>

RInit ==
    /\ CInit
    /\ thread = NoThread
    /\ loop = [t \in Loops |-> "dead"]
    /\ stop_event = FALSE
    /\ owner = "idle"
    /\ wanted = "stopped"

Alive(t) == t \in Loops /\ loop[t] # "dead"

\* Mutant: start() does not look whether the thread is alive.
StartRegardless ==
    /\ owner = "idle"
    /\ stop_event' = FALSE
    /\ owner' = "create"
    /\ UNCHANGED <<cvars, thread, loop, wanted>>

\* Mutant: start() leaves the event set.
StartUncleared ==
    /\ owner = "idle" /\ ~Alive(thread)
    /\ owner' = "create"
    /\ UNCHANGED <<cvars, thread, loop, stop_event, wanted>>

StartClears ==
    /\ owner = "idle" /\ ~Alive(thread)
    /\ stop_event' = FALSE
    /\ owner' = "create"
    /\ UNCHANGED <<cvars, thread, loop, wanted>>

StartThread(t) ==
    /\ owner = "create" /\ ~Alive(t)
    /\ thread' = t
    /\ loop' = [loop EXCEPT ![t] = "wait"]
    /\ owner' = "idle"
    /\ wanted' = "running"
    /\ UNCHANGED <<cvars, stop_event>>

\* "already running": nothing changes, though the thread may be one that the
\* last stop() did not see end.
StartRefused ==
    /\ owner = "idle" /\ Alive(thread)
    /\ wanted' = IF wanted = "running" THEN "running" ELSE "refused"
    /\ UNCHANGED <<cvars, thread, loop, stop_event, owner>>

StopSets ==
    /\ owner = "idle"
    /\ stop_event' = TRUE
    /\ owner' = "join"
    /\ wanted' = "stopped"
    /\ UNCHANGED <<cvars, thread, loop>>

JoinEnds ==
    /\ owner = "join"
    /\ Alive(thread) => loop[thread] = "report"
    /\ owner' = "idle"
    /\ UNCHANGED <<cvars, thread, loop, stop_event, wanted>>

\* Mutant: the wait's result is ignored.
WakesDeaf(t) ==
    /\ loop[t] = "wait"
    /\ loop' = [loop EXCEPT ![t] = "report"]
    /\ CallSnapshot(t)
    /\ UNCHANGED <<thread, stop_event, owner, wanted>>

Wakes(t) ==
    /\ loop[t] = "wait" /\ ~stop_event
    /\ loop' = [loop EXCEPT ![t] = "report"]
    /\ CallSnapshot(t)
    /\ UNCHANGED <<thread, stop_event, owner, wanted>>

\* The snapshot is logged; an exception here is caught.
Reported(t) ==
    /\ loop[t] = "report" /\ call[t].at = "out"
    /\ loop' = [loop EXCEPT ![t] = "wait"]
    /\ UNCHANGED <<cvars, thread, stop_event, owner, wanted>>

Ends(t) ==
    /\ loop[t] = "wait" /\ stop_event
    /\ loop' = [loop EXCEPT ![t] = "dead"]
    /\ UNCHANGED <<cvars, thread, stop_event, owner, wanted>>

Collecting(A) == A /\ UNCHANGED <<thread, loop, stop_event, owner, wanted>>

RNext ==
    \/ StartClears \/ StartRefused \/ StopSets \/ JoinEnds
    \/ \E t \in Loops : StartThread(t) \/ Wakes(t) \/ Reported(t) \/ Ends(t)
    \/ \E t \in Threads \ Loops :
          \/ \E op \in Calls : Collecting(CallRecord(t, op))
          \/ Collecting(CallReset(t)) \/ Collecting(CallSnapshot(t))
    \/ \E t \in Threads : Collecting(Acquire(t)) \/ Collecting(InSection(t))

\* No thread stops in its section or its loop, and one that waits for the
\* lock gets it although others keep taking it.
RSpec ==
    /\ RInit /\ [][RNext]_rvars
    /\ \A t \in Threads : WF_rvars(Collecting(InSection(t)))
    /\ \A t \in Loops :
          SF_rvars(Collecting(Acquire(t))) /\ WF_rvars(Reported(t) \/ Ends(t))

-----------------------------------------------------------------------------
(* Whatever the owner does, and however late a stopped thread ends, no two  *)
(* threads report, and the one that does is the one a stop() would join.   *)
OneReporter == \A t \in Loops : Alive(t) => t = thread

(* A reporter that was started reports until it is stopped, unless start() *)
(* found the last thread still in its report after a stop() had given up.  *)
KeepsReporting == wanted = "running" => Alive(thread) /\ ~stop_event

(* "Signal the background thread to stop": it ends, even when stop() could *)
(* not wait for it.                                                        *)
StopEnds == stop_event ~> \A t \in Loops : ~Alive(t)
=============================================================================
