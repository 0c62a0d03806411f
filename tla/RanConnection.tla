--------------------------- MODULE RanConnection ---------------------------
(***************************************************************************)
(* RanTrafficRouter.run: the upstream and the downstream loop over RAN's   *)
(* connections, started again after a delay when one of them ends, until   *)
(* the service stops and the RAN core is closed.                           *)
(*                                                                         *)
(* Source: src/src/lib/traffic/ran.py, run and the two loops it starts.    *)
(***************************************************************************)
EXTENDS Naturals

CONSTANT MaxFaults  \* bound on the connections that break or are not made

VARIABLES
    stop,      \* stop_event, which the main program sets
    run,       \* where run is suspended, see Points
    open,      \* the loops that run, "up" and "down"
    core,      \* the RAN core: "open", "closed", or "left" (open, disconnect_task gone)
    swallowed, \* a cancellation of run was taken for that of a loop
    faults     \* consumed bound

ranVars == <<run, open, core, swallowed, faults>>

Loops == {"up", "down"}

\* "wait": asyncio.wait for the loops; "cancel": await the loop it cancelled;
\* "delay"; "closing": await disconnect_task and the pending loop ("raising" if that
\* failed); "acks": await ack_sync_task.
Points == {"off", "wait", "cancel", "delay", "closing", "raising", "acks",
           "over"}

RanTypeOK ==
    /\ run \in Points
    /\ open \subseteq Loops
    /\ core \in {"open", "closed", "left"}
    /\ swallowed \in BOOLEAN
    /\ faults \in 0 .. MaxFaults

RanInit ==
    /\ run = "off"
    /\ open = {}
    /\ core = "open"
    /\ swallowed = FALSE
    /\ faults = 0

\* "while not stop_event.is_set()", and the two loops.
Again ==
    \/ stop  /\ run' = "acks" /\ UNCHANGED open
    \/ ~stop /\ run' = "wait" /\ open' = Loops

Start ==
    /\ run = "off"
    /\ Again
    /\ UNCHANGED <<stop, core, swallowed, faults>>

\* A connection ends, or was not made.  Awaiting the pending loop raises then.
LoopBreaks(l) ==
    /\ l \in open /\ core # "closed"
    /\ faults < MaxFaults
    /\ open' = open \ {l}
    /\ run' = IF run = "closing" THEN "raising" ELSE run
    /\ faults' = faults + 1
    /\ UNCHANGED <<stop, core, swallowed>>

\* The core is closed: the loop ends after the messages it has.
LoopEnds(l) ==
    /\ l \in open /\ core = "closed"
    /\ open' = open \ {l}
    /\ UNCHANGED <<stop, run, core, swallowed, faults>>

\* disconnect_on_stop, a task of its own.
CloseCore ==
    /\ run # "off" /\ stop /\ core = "open"
    /\ core' = "closed"
    /\ UNCHANGED <<stop, run, open, swallowed, faults>>

\* asyncio.wait returns: a loop has ended.
WaitReturns ==
    /\ run = "wait" /\ open # Loops
    /\ run' = IF stop THEN "closing" ELSE IF open # {} THEN "cancel" ELSE "delay"
    /\ UNCHANGED <<stop, open, core, swallowed, faults>>

\* (variant for mutation) the other loop is awaited, but not cancelled
OtherEndsByItself ==
    /\ run = "cancel"
    /\ open = {}
    /\ run' = "delay"
    /\ UNCHANGED <<stop, open, core, swallowed, faults>>

\* "await task": the other loop has ended too, cancelled or by itself.
OtherEnds ==
    /\ run = "cancel"
    /\ open' = {}
    /\ run' = "delay"
    /\ UNCHANGED <<stop, core, swallowed, faults>>

DelayOver ==
    /\ run = "delay"
    /\ Again
    /\ UNCHANGED <<stop, core, swallowed, faults>>

\* (variant for mutation) the pending loop is not awaited
ClosedEarly ==
    /\ run = "closing" /\ core = "closed"
    /\ run' = "over"
    /\ UNCHANGED <<stop, open, core, swallowed, faults>>

\* disconnect_task has returned and the pending loop has ended.
Closed ==
    /\ run \in {"closing", "raising"} /\ core = "closed" /\ open = {}
    /\ run' = "over"
    /\ UNCHANGED <<stop, open, core, swallowed, faults>>

\* ack_sync_task returns by itself once stop_event is set.
AcksOver ==
    /\ run = "acks"
    /\ run' = "over"
    /\ UNCHANGED <<stop, open, core, swallowed, faults>>

\* main cancels run.  Where it awaits the loop it has cancelled itself, its
\* "except asyncio.CancelledError: pass" takes this cancellation too, and run goes
\* on.  Elsewhere it ends, and the loops it started go on without it; but a task it
\* awaits is cancelled with it, disconnect_task or then the pending loop.
RunCancelled ==
    /\ \/ /\ run = "cancel"
          /\ run' = "delay" /\ open' = {} /\ swallowed' = TRUE
          /\ UNCHANGED core
       \/ /\ run \in {"closing", "raising"}
          /\ run' = "over"
          /\ open' = IF core = "closed" THEN {} ELSE open
          /\ core' = IF core = "open" THEN "left" ELSE core
          /\ UNCHANGED swallowed
       \/ /\ run \in {"off", "wait", "delay", "acks"}
          /\ run' = "over"
          /\ UNCHANGED <<open, core, swallowed>>
    /\ UNCHANGED <<stop, faults>>

RanStep ==
    \/ CloseCore \/ WaitReturns \/ OtherEnds \/ DelayOver \/ Closed \/ AcksOver
    \/ \E l \in Loops : LoopEnds(l)
=============================================================================
