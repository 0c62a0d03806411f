----------------------------- MODULE Lifecycle -----------------------------
(***************************************************************************)
(* The service from the start of its MQTT client to its end: main starts   *)
(* the tasks, waits for a stop signal or for one of them to end, gives the *)
(* others a while, and cancels what is left.  Composes the MQTT client,    *)
(* RAN's connections and the upstream pipeline, which share stop_event.    *)
(*                                                                         *)
(* Source: src/src/main.py, from line 205.                                 *)
(***************************************************************************)
EXTENDS Naturals

CONSTANTS Uplinks, MaxFaults

ASSUME MaxFaultsAssumption == MaxFaults \in Nat

VARIABLES
    main,    \* where main is suspended
    tasks,   \* the tasks main created
    pending, \* those asyncio.wait found at work
    router,  \* ChirpstackTrafficRouter.run: "subscribe" or "listen"
    stop,
    client, established, loop, closer,
    place, early, node,
    run, open, core, swallowed,
    faults

Mqtt == INSTANCE MqttClient
Pipe == INSTANCE Pipeline
Ran  == INSTANCE RanConnection

mqttVars == <<client, established, loop, closer>>
pipeVars == <<place, early, node>>
ranVars  == <<run, open, core, swallowed>>
parts    == <<mqttVars, pipeVars, ranVars, faults>>
vars     == <<main, tasks, pending, router, stop, parts>>

\* The health check and the periodic tasks, which wait for stop_event, are left out.
Task == {"mqtt", "router", "ran", "manager"}

Over == {"returned", "raised", "cancelled"}

TypeOK ==
    /\ main \in {"starting", "running", "grace", "bye", "crashed"}
    /\ tasks \in [Task -> {"off", "on"} \cup Over]
    /\ pending \subseteq Task
    /\ router \in {"subscribe", "listen"}
    /\ stop \in BOOLEAN
    /\ Mqtt!MqttTypeOK /\ Pipe!PipeTypeOK /\ Ran!RanTypeOK

\* Line 208; a signal may have come during the first sync of the lists.
Init ==
    /\ main = "starting"
    /\ tasks = [t \in Task |-> IF t = "mqtt" THEN "on" ELSE "off"]
    /\ pending = {}
    /\ router = "subscribe"
    /\ stop \in BOOLEAN
    /\ Mqtt!MqttInit /\ Pipe!PipeInit /\ Ran!RanInit

-----------------------------------------------------------------------------
(* main: start *)

\* get_gateway raises; or it returns, and submit_stats publishes whether or not the
\* MQTT client has connected by now.
StartFails ==
    /\ main = "starting"
    /\ main' = "crashed"
    /\ UNCHANGED <<tasks, pending, router, stop, parts>>

\* The statistics are published and the other tasks created; the service is ready.
Operate ==
    /\ main = "starting" /\ client = "up"
    /\ main' = "running"
    /\ tasks' = [t \in Task |-> IF t = "mqtt" THEN tasks[t] ELSE "on"]
    /\ Ran!Start
    /\ UNCHANGED <<pending, router, mqttVars, pipeVars>>

-----------------------------------------------------------------------------
(* main: shutdown *)

\* asyncio.wait has returned: the tasks still at work are given their time.
GiveTime ==
    /\ main = "running"
    /\ main' = "grace"
    /\ pending' = {t \in Task : tasks[t] = "on"}
    /\ UNCHANGED <<tasks, router, stop, parts>>

\* stop_event_wait or one of the tasks has ended.
Shutdown == (stop \/ \E t \in Task : tasks[t] \in Over) /\ GiveTime

\* A task that is left out has ended: the port of the health check is taken.
HealthRaises == GiveTime

\* A task that is waited for raised: so does wait_for, and that ends main.
WaitRaises ==
    /\ main = "grace"
    /\ \E t \in pending : tasks[t] = "raised"
    /\ main' = "crashed"
    /\ UNCHANGED <<tasks, pending, router, stop, parts>>

\* What a cancellation does to the task.
Cancelled(t) ==
    /\ IF t = "mqtt" THEN Mqtt!RunCancelled ELSE UNCHANGED mqttVars
    /\ IF t = "ran" THEN Ran!RunCancelled ELSE UNCHANGED ranVars
    /\ IF t = "manager" THEN Pipe!Cancel ELSE UNCHANGED pipeVars
    /\ tasks' = [tasks EXCEPT ![t] =
                    IF t = "ran" /\ run = "cancel" THEN @ ELSE "cancelled"]

\* main awaits the end of a task it has cancelled, and does nothing else.
Held == swallowed /\ tasks["ran"] = "on"

\* (variant for mutation) the task is shielded from the cancellation
TimesOutShielded(t) ==
    /\ main = "grace"
    /\ t \in pending /\ tasks[t] = "on"
    /\ ~Held
    /\ UNCHANGED vars

\* wait_for's time is up: it cancels the task.  The order of pending, a set, and
\* when main comes to a task that has ended make no difference.
TimesOut(t) ==
    /\ main = "grace"
    /\ t \in pending /\ tasks[t] = "on"
    /\ ~Held
    /\ Cancelled(t)
    /\ UNCHANGED <<main, pending, router, stop, faults>>

\* The loops after it find every pending task ended.
Bye ==
    /\ main = "grace"
    /\ \A t \in pending : tasks[t] \in Over \ {"raised"}
    /\ main' = "bye"
    /\ UNCHANGED <<tasks, pending, router, stop, parts>>

MainStep ==
    \/ StartFails \/ Operate \/ Shutdown \/ WaitRaises \/ Bye
    \/ \E t \in Task : TimesOut(t)

-----------------------------------------------------------------------------
(* The tasks *)

Alive == main \notin {"bye", "crashed"}
On(t) == Alive /\ tasks[t] = "on"
Ends(t, how) == tasks' = [tasks EXCEPT ![t] = how]

\* STOP_SIGNALS: stop_all.
Signal ==
    /\ Alive
    /\ \E caught \in SUBSET Pipe!Nodes : Pipe!StopSet(caught)
    /\ UNCHANGED <<main, pending, tasks, router, mqttVars, ranVars, faults>>

\* disconnect_on_stop is a task of its own: it goes on when run was cancelled.
MqttRuns ==
    /\ Alive
    /\ Mqtt!MqttStep
    /\ IF loop # "over" /\ loop' = "over" THEN Ends("mqtt", "returned")
                                          ELSE UNCHANGED tasks
    /\ UNCHANGED <<main, pending, router, pipeVars, ranVars>>

MqttBreaks ==
    /\ Alive
    /\ Mqtt!Break
    /\ UNCHANGED <<main, pending, tasks, router, pipeVars, ranVars>>

\* ChirpstackTrafficRouter.run: subscribe, once, before the loop.
RouterSubscribes ==
    /\ On("router") /\ router = "subscribe" /\ client = "up"
    /\ router' = "listen"
    /\ UNCHANGED <<main, tasks, pending, stop, parts>>

RouterRaises ==
    /\ On("router") /\ router = "subscribe" /\ client # "up"
    /\ Ends("router", "raised")
    /\ UNCHANGED <<main, pending, router, stop, parts>>

RouterReturns ==
    /\ On("router") /\ router = "listen" /\ stop
    /\ Ends("router", "returned")
    /\ UNCHANGED <<main, pending, router, stop, parts>>

\* The loops and disconnect_on_stop go on when run was cancelled.
RanRuns ==
    /\ Alive
    /\ Ran!RanStep
    /\ IF run # "over" /\ run' = "over"
       THEN Ends("ran", IF run = "raising" THEN "raised" ELSE "returned")
       ELSE UNCHANGED tasks
    /\ UNCHANGED <<main, pending, router, mqttVars, pipeVars>>

LoopBreaks(l) ==
    /\ Alive
    /\ Ran!LoopBreaks(l)
    /\ UNCHANGED <<main, pending, tasks, router, mqttVars, pipeVars>>

Receives(m) ==
    /\ Alive
    /\ "up" \in open
    /\ Pipe!Receive(m)
    /\ UNCHANGED <<main, pending, tasks, router, mqttVars, ranVars, faults>>

\* The nodes are tasks of their own, like their handlers.
NodesRun ==
    /\ Alive /\ tasks["manager"] # "off"
    /\ Pipe!PipeStep
    /\ UNCHANGED <<main, pending, tasks, router, mqttVars, ranVars, faults>>

\* handle_upstream publishes or rejects; handle_upstream_ack_or_reject needs
\* self.upstream, which is None before the upstream loop has connected and after it
\* has ended, and raises if the send does.
HandlersRun ==
    /\ Alive
    /\ \E m \in Uplinks :
          \/ Pipe!Handle(1, m, TRUE)
          \/ client # "up" /\ Pipe!Handle(1, m, FALSE)
          \/ "up" \in open /\ Pipe!Handle(2, m, TRUE)
          \/ Pipe!Handle(2, m, FALSE)
    /\ UNCHANGED <<main, pending, tasks, router, mqttVars, ranVars, faults>>

\* gather: the pipelines have waited for stop_event and their nodes.
ManagerReturns ==
    /\ On("manager") /\ stop
    /\ \A n \in Pipe!Nodes : node[n] = "over"
    /\ Ends("manager", "returned")
    /\ UNCHANGED <<main, pending, router, stop, parts>>

RouterRuns == RouterSubscribes \/ RouterRaises \/ RouterReturns

Work == \/ MainStep \/ MqttRuns \/ RanRuns \/ RouterRuns
        \/ NodesRun \/ HandlersRun \/ ManagerReturns

Next ==
    \/ Work \/ Signal \/ HealthRaises \/ MqttBreaks
    \/ \E l \in Ran!Loops : LoopBreaks(l)
    \/ \E m \in Uplinks : Receives(m)

Spec == Init /\ [][Next]_vars

\* The event loop runs what is ready, calls return and timeouts pass.
LiveSpec == Spec /\ WF_vars(Work)

-----------------------------------------------------------------------------
(* Properties *)

\* An uplink received before the stop signal is not left behind: when the
\* pipelines return, RAN has its answer, or a handler raised, or the second node
\* had left when handle_upstream returned (PipelineNode.run and join).  Not so one
\* that the signal found in the queue of a node whose get had just timed out.
Drained ==
    tasks["manager"] = "returned" =>
        \A m \in early : place[m] \in {"answered", "failed", "results"}

\* A shutdown that cancelled no task leaves nothing at work: RAN's loops and the
\* nodes have ended and the MQTT client is not connected, wherever the signal
\* found them (disconnect_on_stop of the client and of the router).  The RAN core
\* may still be open: run does not await disconnect_task after a delay (ran.py:431).
OrderlyStop ==
    main = "bye" /\ ~swallowed /\ (\A t \in Task : tasks[t] # "cancelled") =>
        open = {} /\ client # "up" /\ \A n \in Pipe!Nodes : node[n] = "over"

\* "Reconnect automatically until the client is stopped" (mqtt.py:171), and the same
\* of RAN's two loops, of which run has to end the one that is left before it starts
\* both again (ran.py:410-429): a service that runs on comes to have all its
\* connections, whenever and whichever breaks.  (The router's subscription is
\* another matter: nothing makes it on the new client.)
ConnectsAgain ==
    <>[](main = "running" /\ ~stop) => <>[](client = "up" /\ open = Ran!Loops)

\* After a stop signal, or the end of a task, the service ends, whatever its tasks
\* are doing (main.py:257-272); unless, without a signal, the RAN router takes its
\* cancellation for that of the loop it waits for: it goes on, and main waits for
\* it (ran.py:419).
ServiceEnds == (stop \/ main = "grace") ~> (~Alive \/ (swallowed /\ ~stop))
=============================================================================
