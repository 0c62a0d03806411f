----------------------------- MODULE MqttClient -----------------------------
(***************************************************************************)
(* MQTTClient.run: connect, hand on messages, reconnect after an error     *)
(* until the client is stopped.                                            *)
(*                                                                         *)
(* Source: src/src/lib/mqtt.py.                                            *)
(***************************************************************************)
EXTENDS Naturals

CONSTANT MaxFaults  \* bound on the connections that break or are not made

VARIABLES
    stop,        \* stop_event, which the main program sets
    client,      \* self._client: "new", "up", or "lost"
    established, \* _connection_established
    loop,        \* where run is: "work" (_subscribe_worker), "sleep", "join", "over"
    closer,      \* disconnect_on_stop: "wait" or "over"
    faults       \* consumed bound

mqttVars == <<client, established, loop, closer, faults>>

MqttTypeOK ==
    /\ client \in {"new", "up", "lost"}
    /\ established \in BOOLEAN
    /\ loop \in {"work", "sleep", "join", "over"}
    /\ closer \in {"wait", "over"}
    /\ faults \in 0 .. MaxFaults

MqttInit ==
    /\ client = "new"
    /\ established = FALSE
    /\ loop = IF stop THEN "join" ELSE "work"
    /\ closer = "wait"
    /\ faults = 0

\* "while not stop_event.is_set()"
Again == loop' = IF stop THEN "join" ELSE "work"

\* _subscribe_worker is connected; from here it waits for messages until an error.
Connect ==
    /\ loop = "work" /\ client = "new"
    /\ client' = "up"
    /\ established' = TRUE
    /\ UNCHANGED <<stop, loop, closer, faults>>

\* MqttError: the connection was not made, or it is lost and the message
\* iteration ends.
HandleError ==
    /\ loop = "work" /\ client \in {"new", "lost"}
    /\ client = "new" => faults < MaxFaults
    /\ faults' = IF client = "new" THEN faults + 1 ELSE faults
    /\ client' = "lost"
    /\ established' = FALSE
    /\ loop' = IF stop THEN "join" ELSE "sleep"
    /\ UNCHANGED <<stop, closer>>

\* The delay is over, or stop_event ends it: _create_client in both cases.
Reconnect ==
    /\ loop = "sleep"
    /\ client' = "new"
    /\ Again
    /\ UNCHANGED <<stop, established, closer, faults>>

\* disconnect_on_stop: nothing to do unless the connection is established.
CloseOnStop ==
    /\ stop /\ closer = "wait"
    /\ closer' = "over"
    /\ client' = IF established THEN "lost" ELSE client
    /\ UNCHANGED <<stop, established, loop, faults>>

\* await disconnect_task
RunReturns ==
    /\ loop = "join" /\ closer = "over"
    /\ loop' = "over"
    /\ UNCHANGED <<stop, client, established, closer, faults>>

\* main cancels run: _subscribe_worker disconnects as it is left.
RunCancelled ==
    /\ loop # "over"
    /\ loop' = "over"
    /\ client' = IF loop = "work" THEN "lost" ELSE client
    /\ UNCHANGED <<stop, established, closer, faults>>

\* The network or the broker ends the connection.
Break ==
    /\ client = "up" /\ faults < MaxFaults
    /\ client' = "lost"
    /\ faults' = faults + 1
    /\ UNCHANGED <<stop, established, loop, closer>>

MqttStep == Connect \/ HandleError \/ Reconnect \/ CloseOnStop \/ RunReturns
=============================================================================
