------------------------------ MODULE Pipeline ------------------------------
(***************************************************************************)
(* The upstream pipeline: two PipelineNodes, handle_upstream and           *)
(* handle_upstream_ack_or_reject, each with its queue and its pool, and    *)
(* how the nodes leave when stop_event is set.                             *)
(*                                                                         *)
(* Source: src/src/lib/traffic/manager.py, async_pool.py.                  *)
(***************************************************************************)
CONSTANT Uplinks  \* the messages RAN sends, fewer than a pool has places

VARIABLES
    stop,   \* stop_event, which the main program sets
    place,  \* where each uplink is
    early,  \* those received before stop_event was set, see StopSet
    node    \* the two nodes: "loop", "join" (Pool.join), "over"

pipeVars == <<place, early, node>>

Nodes == {1, 2}

\* The queue a node reads and its handlers.
Rx(n)      == IF n = 1 THEN "rx" ELSE "results"
Handler(n) == IF n = 1 THEN "handler" ELSE "answering"

\* "out": RAN has not sent it.  "failed": a handler raised.  "answered": RAN has
\* an ack or a reject.  "cut": its handler was cancelled.
Places == {"out", "rx", "handler", "results", "answering", "failed", "answered", "cut"}

PipeTypeOK ==
    /\ place \in [Uplinks -> Places]
    /\ early \subseteq Uplinks
    /\ node \in [Nodes -> {"loop", "join", "over"}]

PipeInit ==
    /\ place = [m \in Uplinks |-> "out"]
    /\ early = {}
    /\ node = [n \in Nodes |-> "loop"]

At(p) == {m \in Uplinks : place[m] = p}

\* The RAN router puts an uplink into uplinks_rx.
Receive(m) ==
    /\ place[m] = "out"
    /\ place' = [place EXCEPT ![m] = "rx"]
    /\ early' = IF stop THEN early ELSE early \cup {m}
    /\ UNCHANGED <<stop, node>>

\* rx.get() and Pool.add.
Take(n, m) ==
    /\ node[n] = "loop"
    /\ place[m] = Rx(n)
    /\ place' = [place EXCEPT ![m] = Handler(n)]
    /\ UNCHANGED <<stop, early, node>>

\* stop_event is set.  It may find a node between the time-out of its get and its
\* look at the event, some turns of the event loop (wait_for cancels the get): what
\* came into the queue of such a node meanwhile stays there.
StopSet(caught) ==
    /\ ~stop
    /\ caught \subseteq {n \in Nodes : node[n] = "loop" /\ At(Rx(n)) # {}}
    /\ stop' = TRUE
    /\ node' = [n \in Nodes |-> IF n \in caught THEN "join" ELSE node[n]]
    /\ early' = {m \in early : \A n \in caught : place[m] # Rx(n)}
    /\ UNCHANGED place

\* (variant for mutation) stop_event is looked at before the queue
LeaveAtOnce(n) ==
    /\ node[n] = "loop"
    /\ stop
    /\ node' = [node EXCEPT ![n] = "join"]
    /\ UNCHANGED <<stop, place, early>>

\* The queue was empty for 0.1 s and stop_event is set.
Leave(n) ==
    /\ node[n] = "loop"
    /\ stop
    /\ At(Rx(n)) = {}
    /\ node' = [node EXCEPT ![n] = "join"]
    /\ UNCHANGED <<stop, place, early>>

\* Pool.join
Joined(n) ==
    /\ node[n] = "join"
    /\ At(Handler(n)) = {}
    /\ node' = [node EXCEPT ![n] = "over"]
    /\ UNCHANGED <<stop, place, early>>

\* (variant for mutation) the last node puts its result somewhere too
HandleAlwaysPuts(n, m, ok) ==
    /\ place[m] = Handler(n)
    /\ place' = [place EXCEPT ![m] = CASE ~ok   -> "failed"
                                       [] n = 1 -> "results"
                                       [] n = 2 -> "None"]
    /\ UNCHANGED <<stop, early, node>>

\* _handle_item: the result goes to the next queue, whoever still reads it; an
\* exception is logged and the item dropped.
Handle(n, m, ok) ==
    /\ place[m] = Handler(n)
    /\ place' = [place EXCEPT ![m] = CASE ~ok   -> "failed"
                                       [] n = 1 -> "results"
                                       [] n = 2 -> "answered"]
    /\ UNCHANGED <<stop, early, node>>

\* TrafficManager.run is cancelled.  Pipeline.run passes it on to its nodes if it
\* is past stop_event.wait(), and a node to the handlers it waits for; else the
\* nodes go on.
Cancel ==
    /\ IF stop
       THEN /\ node' = [n \in Nodes |-> "over"]
            /\ place' = [m \in Uplinks |->
                  IF \E n \in Nodes : node[n] = "join" /\ place[m] = Handler(n)
                  THEN "cut" ELSE place[m]]
       ELSE UNCHANGED <<place, node>>
    /\ UNCHANGED <<stop, early>>

PipeStep ==
    \E n \in Nodes :
        \/ Leave(n) \/ Joined(n)
        \/ \E m \in Uplinks : Take(n, m)
=============================================================================
