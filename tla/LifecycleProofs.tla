-------------------------- MODULE LifecycleProofs --------------------------
(***************************************************************************)
(* Proofs about Lifecycle, for any number of uplinks and of faults.        *)
(***************************************************************************)
EXTENDS Lifecycle, TLAPS

-----------------------------------------------------------------------------
(* Types *)

LEMMA TypeInit == ASSUME Init PROVE TypeOK
<1>1. 0 \in 0 .. MaxFaults
  BY MaxFaultsAssumption
<1>2. tasks \in [Task -> {"off", "on"} \cup Over]
  BY DEF Init, Task
<1>3. Mqtt!MqttTypeOK
  BY <1>1 DEF Init, Mqtt!MqttInit, Mqtt!MqttTypeOK
<1>4. Pipe!PipeTypeOK
  BY DEF Init, Pipe!PipeInit, Pipe!PipeTypeOK, Pipe!Places, Pipe!Nodes
<1>5. Ran!RanTypeOK
  BY <1>1 DEF Init, Ran!RanInit, Ran!RanTypeOK, Ran!Points, Ran!Loops
<1> QED BY <1>2, <1>3, <1>4, <1>5 DEF Init, TypeOK

LEMMA PartsType ==
    ASSUME TypeOK, UNCHANGED parts
    PROVE  Mqtt!MqttTypeOK' /\ Pipe!PipeTypeOK' /\ Ran!RanTypeOK'
<1>1. Mqtt!MqttTypeOK'
  BY DEF TypeOK, parts, mqttVars, Mqtt!MqttTypeOK
<1>2. Pipe!PipeTypeOK'
  BY DEF TypeOK, parts, pipeVars, Pipe!PipeTypeOK
<1>3. Ran!RanTypeOK'
  BY DEF TypeOK, parts, ranVars, Ran!RanTypeOK
<1> QED BY <1>1, <1>2, <1>3

\* main's own steps, but for those that start or cancel a task
LEMMA TypeMain ==
    ASSUME TypeOK, StartFails \/ GiveTime \/ WaitRaises \/ Bye
    PROVE  TypeOK'
<1>1. Mqtt!MqttTypeOK' /\ Pipe!PipeTypeOK' /\ Ran!RanTypeOK'
  BY PartsType DEF StartFails, GiveTime, WaitRaises, Bye
<1> QED BY <1>1 DEF TypeOK, StartFails, GiveTime, WaitRaises, Bye

LEMMA TypeOperate == ASSUME TypeOK, Operate PROVE TypeOK'
BY DEF TypeOK, Operate, Task, mqttVars, pipeVars, Mqtt!MqttTypeOK, Pipe!PipeTypeOK,
       Ran!RanTypeOK, Ran!Start, Ran!Again, Ran!Points, Ran!Loops

LEMMA TypeTimesOut == ASSUME TypeOK, NEW t \in Task, TimesOut(t) PROVE TypeOK'
<1>1. /\ main' \in {"starting", "running", "grace", "bye", "crashed"}
      /\ pending' \subseteq Task
      /\ router' \in {"subscribe", "listen"}
      /\ stop' \in BOOLEAN
  BY DEF TypeOK, TimesOut
<1>2. tasks' \in [Task -> {"off", "on"} \cup Over]
  BY DEF TypeOK, TimesOut, Cancelled, Over
<1>3. Mqtt!MqttTypeOK'
  BY DEF TypeOK, TimesOut, Cancelled, mqttVars, Mqtt!MqttTypeOK, Mqtt!RunCancelled
<1>4. Pipe!PipeTypeOK'
  BY DEF TypeOK, TimesOut, Cancelled, pipeVars, Pipe!PipeTypeOK, Pipe!Cancel, Pipe!Places
<1>5. Ran!RanTypeOK'
  BY DEF TypeOK, TimesOut, Cancelled, ranVars, Ran!RanTypeOK, Ran!RunCancelled,
         Ran!Points
<1> QED BY <1>1, <1>2, <1>3, <1>4, <1>5 DEF TypeOK

\* One more fault within the bound.
LEMMA FaultCounted ==
    ASSUME faults \in 0 .. MaxFaults, faults < MaxFaults
    PROVE  faults + 1 \in 0 .. MaxFaults
BY MaxFaultsAssumption

LEMMA TypeMqtt ==
    ASSUME TypeOK, MqttRuns \/ MqttBreaks
    PROVE  TypeOK'
<1>1. /\ main' \in {"starting", "running", "grace", "bye", "crashed"}
      /\ pending' \subseteq Task
      /\ router' \in {"subscribe", "listen"}
      /\ stop' \in BOOLEAN
  BY DEF TypeOK, MqttRuns, MqttBreaks, Mqtt!MqttStep, Mqtt!Connect, Mqtt!HandleError,
         Mqtt!Reconnect, Mqtt!CloseOnStop, Mqtt!RunReturns, Mqtt!Break
<1>2. tasks' \in [Task -> {"off", "on"} \cup Over]
  BY DEF TypeOK, MqttRuns, MqttBreaks, Ends, Over, Task
<1>3. Mqtt!MqttTypeOK'
  <2>0. faults < MaxFaults => faults + 1 \in 0 .. MaxFaults
    BY FaultCounted DEF TypeOK, Mqtt!MqttTypeOK
  <2>1. CASE MqttBreaks
    BY <2>0, <2>1 DEF TypeOK, MqttBreaks, Mqtt!MqttTypeOK, Mqtt!Break
  <2>2. CASE Mqtt!HandleError
    <3>1. faults' \in 0 .. MaxFaults
      BY <2>0, <2>2 DEF TypeOK, Mqtt!MqttTypeOK, Mqtt!HandleError
    <3> QED BY <2>2, <3>1 DEF TypeOK, Mqtt!MqttTypeOK, Mqtt!HandleError
  <2>3. CASE Mqtt!Connect \/ Mqtt!Reconnect \/ Mqtt!CloseOnStop \/ Mqtt!RunReturns
    BY <2>3 DEF TypeOK, Mqtt!MqttTypeOK, Mqtt!Connect, Mqtt!Reconnect, Mqtt!Again,
                Mqtt!CloseOnStop, Mqtt!RunReturns
  <2> QED BY <2>1, <2>2, <2>3 DEF MqttRuns, Mqtt!MqttStep
<1>4. Pipe!PipeTypeOK' /\ Ran!RanTypeOK'
  BY <1>3 DEF TypeOK, MqttRuns, MqttBreaks, pipeVars, ranVars, Mqtt!MqttTypeOK,
              Pipe!PipeTypeOK, Ran!RanTypeOK
<1> QED BY <1>1, <1>2, <1>3, <1>4 DEF TypeOK

LEMMA TypeRan ==
    ASSUME TypeOK, RanRuns \/ \E l \in Ran!Loops : LoopBreaks(l)
    PROVE  TypeOK'
<1>1. /\ main' \in {"starting", "running", "grace", "bye", "crashed"}
      /\ pending' \subseteq Task
      /\ router' \in {"subscribe", "listen"}
      /\ stop' \in BOOLEAN
  BY DEF TypeOK, RanRuns, LoopBreaks, Ran!RanStep, Ran!CloseCore, Ran!WaitReturns,
         Ran!OtherEnds, Ran!DelayOver, Ran!Closed, Ran!AcksOver, Ran!LoopEnds,
         Ran!LoopBreaks
<1>2. tasks' \in [Task -> {"off", "on"} \cup Over]
  BY DEF TypeOK, RanRuns, LoopBreaks, Ends, Over, Task
<1>3. Ran!RanTypeOK'
  <2>1. CASE \E l \in Ran!Loops : LoopBreaks(l)
    BY <2>1, MaxFaultsAssumption
       DEF TypeOK, LoopBreaks, Ran!RanTypeOK, Ran!LoopBreaks, Ran!Points
  <2>2. CASE RanRuns
    BY <2>2 DEF TypeOK, RanRuns, Ran!RanTypeOK, Ran!RanStep, Ran!CloseCore,
                Ran!WaitReturns, Ran!OtherEnds, Ran!DelayOver, Ran!Again, Ran!Closed,
                Ran!AcksOver, Ran!LoopEnds, Ran!Points
  <2> QED BY <2>1, <2>2
<1>4. Pipe!PipeTypeOK' /\ Mqtt!MqttTypeOK'
  BY <1>3 DEF TypeOK, RanRuns, LoopBreaks, pipeVars, mqttVars, Mqtt!MqttTypeOK,
              Pipe!PipeTypeOK, Ran!RanTypeOK
<1> QED BY <1>1, <1>2, <1>3, <1>4 DEF TypeOK

LEMMA TypePipe ==
    ASSUME TypeOK, NodesRun \/ HandlersRun \/ \E m \in Uplinks : Receives(m)
    PROVE  TypeOK'
<1>1. /\ main' \in {"starting", "running", "grace", "bye", "crashed"}
      /\ pending' \subseteq Task
      /\ router' \in {"subscribe", "listen"}
      /\ stop' \in BOOLEAN
      /\ tasks' \in [Task -> {"off", "on"} \cup Over]
  BY DEF TypeOK, NodesRun, HandlersRun, Receives, Pipe!PipeStep, Pipe!Take, Pipe!Leave,
         Pipe!Joined, Pipe!Handle, Pipe!Receive
<1>2. Pipe!PipeTypeOK'
  <2>1. CASE \E m \in Uplinks : Receives(m)
    BY <2>1 DEF TypeOK, Receives, Pipe!PipeTypeOK, Pipe!Receive, Pipe!Places
  <2>2. CASE HandlersRun
    BY <2>2 DEF TypeOK, HandlersRun, Pipe!PipeTypeOK, Pipe!Handle, Pipe!Places
  <2>3. CASE NodesRun
    BY <2>3 DEF TypeOK, NodesRun, Pipe!PipeTypeOK, Pipe!PipeStep, Pipe!Take, Pipe!Leave,
                Pipe!Joined, Pipe!Places, Pipe!Handler, Pipe!Nodes
  <2> QED BY <2>1, <2>2, <2>3
<1>3. Mqtt!MqttTypeOK' /\ Ran!RanTypeOK'
  BY DEF TypeOK, NodesRun, HandlersRun, Receives, mqttVars, ranVars, Mqtt!MqttTypeOK,
         Ran!RanTypeOK
<1> QED BY <1>1, <1>2, <1>3 DEF TypeOK

LEMMA TypeTask ==
    ASSUME TypeOK, RouterRuns \/ ManagerReturns
    PROVE  TypeOK'
<1>1. Mqtt!MqttTypeOK' /\ Pipe!PipeTypeOK' /\ Ran!RanTypeOK'
  BY PartsType DEF RouterRuns, RouterSubscribes, RouterRaises, RouterReturns, ManagerReturns
<1>2. tasks' \in [Task -> {"off", "on"} \cup Over]
  BY DEF TypeOK, RouterRuns, RouterSubscribes, RouterRaises, RouterReturns, ManagerReturns,
         Ends, Task, Over
<1> QED BY <1>1, <1>2 DEF TypeOK, RouterRuns, RouterSubscribes, RouterRaises, RouterReturns,
                          ManagerReturns

LEMMA TypeSignal == ASSUME TypeOK, Signal PROVE TypeOK'
<1>1. PICK caught \in SUBSET Pipe!Nodes : Pipe!StopSet(caught)
  BY DEF Signal
<1>2. Pipe!PipeTypeOK'
  BY <1>1 DEF TypeOK, Pipe!PipeTypeOK, Pipe!StopSet
<1>3. Mqtt!MqttTypeOK' /\ Ran!RanTypeOK'
  BY DEF TypeOK, Signal, mqttVars, ranVars, Mqtt!MqttTypeOK, Ran!RanTypeOK
<1> QED BY <1>1, <1>2, <1>3 DEF TypeOK, Signal, Pipe!StopSet

LEMMA TypeNext == ASSUME TypeOK, [Next]_vars PROVE TypeOK'
<1>1. CASE UNCHANGED vars
  BY <1>1 DEF TypeOK, vars, parts, mqttVars, pipeVars, ranVars, Mqtt!MqttTypeOK,
              Pipe!PipeTypeOK, Ran!RanTypeOK
<1>2. CASE Next
  BY <1>2, TypeMain, TypeOperate, TypeTimesOut, TypeMqtt, TypeRan, TypePipe, TypeTask,
     TypeSignal
     DEF Next, Work, MainStep, Shutdown, HealthRaises
<1> QED BY <1>1, <1>2

\* Every variable keeps its type.
THEOREM TypeCorrect == Spec => []TypeOK
<1>1. Init => TypeOK BY TypeInit
<1>2. TypeOK /\ [Next]_vars => TypeOK' BY TypeNext
<1> QED BY <1>1, <1>2, PTL DEF Spec
-----------------------------------------------------------------------------
(* The inductive invariant *)

\* The manager is started once, and its nodes empty their queues before they leave.
PipeInv ==
    /\ main = "starting" => tasks["manager"] = "off"
    /\ \A m \in early : place[m] # "out"
    /\ tasks["manager"] # "cancelled" =>
          /\ node[1] # "loop" => stop /\ \A m \in early : place[m] # "rx"
          /\ \A n \in Pipe!Nodes :
                node[n] = "over" => \A m \in Uplinks : place[m] # Pipe!Handler(n)
          /\ \A m \in Uplinks : place[m] # "cut"
    /\ tasks["manager"] = "returned" => \A n \in Pipe!Nodes : node[n] = "over"

\* The client is connected in _subscribe_worker only.
MqttInv ==
    /\ loop # "work" => client # "up"
    /\ tasks["mqtt"] \in Over => loop = "over"

\* run leaves no loop behind unless it is cancelled.
RanInv ==
    /\ run \in {"off", "delay", "acks"} => open = {}
    /\ run = "over" /\ tasks["ran"] # "cancelled" => open = {}
    /\ tasks["ran"] \in Over => run = "over"

\* main waits for what was at work, and for nothing else.
MainInv ==
    /\ tasks["mqtt"] \notin {"off", "raised"} /\ tasks["manager"] # "raised"
    /\ main \in {"running", "grace", "bye"} => \A t \in Task : tasks[t] # "off"
    /\ main \in {"grace", "bye"} => \A t \in Task \ pending : tasks[t] \in Over
    /\ main = "bye" => \A t \in pending : tasks[t] \in {"returned", "cancelled"}

-----------------------------------------------------------------------------
(* The pipeline *)

\* A step that leaves the pipeline, its manager and stop_event alone.
LEMMA PipeFrame ==
    ASSUME PipeInv, UNCHANGED <<pipeVars, stop>>, tasks'["manager"] = tasks["manager"],
           main' = "starting" => main = "starting"
    PROVE  PipeInv'
BY DEF PipeInv, pipeVars, Pipe!Nodes, Pipe!Handler

LEMMA PipeReceives == ASSUME TypeOK, PipeInv, NEW m \in Uplinks, Receives(m) PROVE PipeInv'
<1>1. /\ place[m] = "out"
      /\ place' = [place EXCEPT ![m] = "rx"]
      /\ early' = IF stop THEN early ELSE early \cup {m}
      /\ UNCHANGED <<main, tasks, stop, node>>
  BY DEF Receives, Pipe!Receive
<1>2. /\ place \in [Uplinks -> Pipe!Places]
      /\ early \subseteq Uplinks
  BY DEF TypeOK, Pipe!PipeTypeOK
<1>3. \A u \in early' : place'[u] # "out"
  BY <1>1, <1>2 DEF PipeInv
<1>4. m \notin early
  BY <1>1 DEF PipeInv
<1>5. tasks["manager"] # "cancelled" /\ node[1] # "loop" =>
          \A u \in early' : place'[u] # "rx"
  BY <1>1, <1>2, <1>4 DEF PipeInv
<1>6. \A n \in Pipe!Nodes : "rx" # Pipe!Handler(n)
  BY DEF Pipe!Handler
<1>7. \A u \in Uplinks : place'[u] = place[u] \/ place'[u] = "rx"
  BY <1>1, <1>2
<1> QED BY <1>1, <1>3, <1>5, <1>6, <1>7 DEF PipeInv, Pipe!Nodes, Pipe!Handler

LEMMA PipeTake ==
    ASSUME TypeOK, PipeInv, NodesRun, NEW n \in Pipe!Nodes, NEW m \in Uplinks,
           Pipe!Take(n, m)
    PROVE  PipeInv'
<1>1. /\ node[n] = "loop"
      /\ place' = [place EXCEPT ![m] = Pipe!Handler(n)]
      /\ UNCHANGED <<main, tasks, stop, early, node>>
  BY DEF NodesRun, Pipe!Take
<1>2. /\ place \in [Uplinks -> Pipe!Places]
      /\ early \subseteq Uplinks
  BY DEF TypeOK, Pipe!PipeTypeOK
<1>3. \A u \in Uplinks : place'[u] = place[u] \/ place'[u] = Pipe!Handler(n)
  BY <1>1, <1>2
<1>4. Pipe!Handler(n) \notin {"out", "rx", "cut"}
  BY DEF Pipe!Handler
<1>5. \A i \in Pipe!Nodes : i # n => Pipe!Handler(i) # Pipe!Handler(n)
  BY DEF Pipe!Handler, Pipe!Nodes
<1> QED BY <1>1, <1>2, <1>3, <1>4, <1>5 DEF PipeInv, Pipe!Handler

LEMMA PipeLeaves ==
    ASSUME TypeOK, PipeInv, NodesRun, NEW n \in Pipe!Nodes,
           Pipe!Leave(n) \/ Pipe!Joined(n)
    PROVE  PipeInv'
<1>1. /\ UNCHANGED <<main, tasks, stop, early, place>>
      /\ early \subseteq Uplinks
      /\ node \in [Pipe!Nodes -> {"loop", "join", "over"}]
  BY DEF NodesRun, Pipe!Leave, Pipe!Joined, TypeOK, Pipe!PipeTypeOK
<1>2. CASE Pipe!Leave(n)
  <2>1. /\ node[n] = "loop" /\ stop
        /\ node' = [node EXCEPT ![n] = "join"]
        /\ \A u \in Uplinks : place[u] # Pipe!Rx(n)
    BY <1>2 DEF Pipe!Leave, Pipe!At
  <2>2. n = 1 => \A u \in early : place[u] # "rx"
    BY <1>1, <2>1 DEF Pipe!Rx
  <2> QED BY <1>1, <2>1, <2>2 DEF PipeInv, Pipe!Nodes, Pipe!Handler
<1>3. CASE Pipe!Joined(n)
  <2>1. /\ node[n] = "join"
        /\ node' = [node EXCEPT ![n] = "over"]
        /\ \A u \in Uplinks : place[u] # Pipe!Handler(n)
    BY <1>3 DEF Pipe!Joined, Pipe!At
  <2> QED BY <1>1, <2>1 DEF PipeInv, Pipe!Nodes, Pipe!Handler
<1> QED BY <1>2, <1>3

LEMMA PipeHandlers == ASSUME TypeOK, PipeInv, HandlersRun PROVE PipeInv'
<1>0. PICK m \in Uplinks : \E n \in Pipe!Nodes, ok \in BOOLEAN : Pipe!Handle(n, m, ok)
  BY DEF HandlersRun, Pipe!Nodes
<1>1. \E p \in {"failed", "results", "answered"} : place' = [place EXCEPT ![m] = p]
  BY <1>0 DEF Pipe!Handle, Pipe!Nodes
<1>2. /\ UNCHANGED <<main, tasks, stop, early, node>>
      /\ place \in [Uplinks -> Pipe!Places]
      /\ early \subseteq Uplinks
  BY <1>0 DEF HandlersRun, Pipe!Handle, TypeOK, Pipe!PipeTypeOK
<1>3. \A u \in Uplinks :
          place'[u] = place[u] \/ place'[u] \in {"failed", "results", "answered"}
  BY <1>1, <1>2
<1> QED BY <1>2, <1>3 DEF PipeInv, Pipe!Nodes, Pipe!Handler

\* A node the signal catches leaves, and early no longer counts what is in its queue.
LEMMA PipeStops == ASSUME TypeOK, PipeInv, Signal PROVE PipeInv'
<1>1. PICK caught \in SUBSET Pipe!Nodes : Pipe!StopSet(caught)
  BY DEF Signal
<1>2. /\ UNCHANGED <<main, tasks, place>>
      /\ stop' /\ ~stop
      /\ early' = {m \in early : \A n \in caught : place[m] # Pipe!Rx(n)}
      /\ \A n \in Pipe!Nodes :
            /\ node'[n] = node[n] \/ (n \in caught /\ node'[n] = "join")
            /\ node'[n] # "loop" => node[n] # "loop" \/ n \in caught
  BY <1>1 DEF Signal, Pipe!StopSet
<1>3. 1 \in caught => \A m \in early' : place[m] # "rx"
  BY <1>2 DEF Pipe!Rx
<1> QED BY <1>2, <1>3 DEF PipeInv, Pipe!Nodes, Pipe!Handler

LEMMA PipeNext == ASSUME TypeOK, PipeInv, [Next]_vars PROVE PipeInv'
<1>1. CASE UNCHANGED vars
  BY <1>1, PipeFrame DEF vars, parts
<1>2. CASE StartFails \/ GiveTime \/ WaitRaises \/ Bye
  BY <1>2, PipeFrame DEF StartFails, GiveTime, WaitRaises, Bye, parts
<1>3. CASE Operate
  BY <1>3 DEF Operate, Ran!Start, PipeInv, pipeVars, Task, Pipe!Nodes, Pipe!Handler
<1>4. ASSUME NEW t \in Task, TimesOut(t) PROVE PipeInv'
  <2>1. CASE t = "manager"
    BY <1>4, <2>1
       DEF TimesOut, Cancelled, Pipe!Cancel, PipeInv, TypeOK, Pipe!PipeTypeOK, Task
  <2>2. CASE t # "manager"
    <3>1. UNCHANGED <<pipeVars, stop, main>>
      BY <1>4, <2>2 DEF TimesOut, Cancelled
    <3>2. tasks'["manager"] = tasks["manager"]
      BY <1>4, <2>2 DEF TimesOut, Cancelled, TypeOK
    <3> QED BY <3>1, <3>2, PipeFrame
  <2> QED BY <2>1, <2>2
<1>5. CASE MqttRuns \/ MqttBreaks \/ RouterRuns
  <2>1. UNCHANGED <<pipeVars, stop, main>>
    BY <1>5 DEF MqttRuns, MqttBreaks, RouterRuns, RouterSubscribes, RouterRaises,
                RouterReturns, parts, Mqtt!MqttStep, Mqtt!Connect, Mqtt!HandleError,
                Mqtt!Reconnect, Mqtt!CloseOnStop, Mqtt!RunReturns, Mqtt!Break
  <2>2. tasks'["manager"] = tasks["manager"]
    BY <1>5 DEF MqttRuns, MqttBreaks, RouterRuns, RouterSubscribes, RouterRaises,
                RouterReturns, Ends, TypeOK, Task
  <2> QED BY <2>1, <2>2, PipeFrame
<1>6. CASE RanRuns \/ \E l \in Ran!Loops : LoopBreaks(l)
  <2>1. UNCHANGED <<pipeVars, stop, main>>
    BY <1>6 DEF RanRuns, LoopBreaks, Ran!RanStep, Ran!CloseCore, Ran!WaitReturns,
                Ran!OtherEnds, Ran!DelayOver, Ran!Closed, Ran!AcksOver, Ran!LoopEnds,
                Ran!LoopBreaks
  <2>2. tasks'["manager"] = tasks["manager"]
    BY <1>6 DEF RanRuns, LoopBreaks, Ends, TypeOK, Task
  <2> QED BY <2>1, <2>2, PipeFrame
<1>7. CASE NodesRun
  BY <1>7, PipeTake, PipeLeaves DEF NodesRun, Pipe!PipeStep
<1>8. CASE Signal
  BY <1>8, PipeStops
<1>9. CASE ManagerReturns
  BY <1>9 DEF ManagerReturns, On, Alive, Ends, PipeInv, parts, pipeVars, TypeOK, Task,
              Pipe!Nodes, Pipe!Handler
<1> QED BY <1>1, <1>2, <1>3, <1>4, <1>5, <1>6, <1>7, <1>8, <1>9, PipeHandlers,
           PipeReceives
        DEF Next, Work, MainStep, Shutdown, HealthRaises

LEMMA PipeInit == ASSUME Init PROVE PipeInv
BY DEF Init, PipeInv, Pipe!PipeInit, Pipe!Nodes, Task

LEMMA PipeDrained == ASSUME TypeOK, PipeInv PROVE Drained
<1>1. /\ place \in [Uplinks -> Pipe!Places]
      /\ early \subseteq Uplinks
  BY DEF TypeOK, Pipe!PipeTypeOK
<1> SUFFICES ASSUME tasks["manager"] = "returned", NEW m \in early
             PROVE  place[m] \in {"answered", "failed", "results"}
  BY DEF Drained
<1>2. node[1] = "over" /\ node[2] = "over"
  BY DEF PipeInv, Pipe!Nodes
<1>3. place[m] \notin {"out", "rx", "cut"}
  BY <1>1, <1>2 DEF PipeInv
<1>4. place[m] # Pipe!Handler(1) /\ place[m] # Pipe!Handler(2)
  BY <1>1, <1>2 DEF PipeInv, Pipe!Nodes
<1> QED BY <1>1, <1>3, <1>4 DEF Pipe!Places, Pipe!Handler

\* Whatever the number of uplinks and however the other tasks end, an uplink received
\* before the stop signal is answered, or fails in a handler, or its result comes
\* after the second node has left.
THEOREM UplinksDrained == Spec => []Drained
<1>1. Init => TypeOK /\ PipeInv BY TypeInit, PipeInit
<1>2. TypeOK /\ PipeInv /\ [Next]_vars => TypeOK' /\ PipeInv' BY TypeNext, PipeNext
<1>3. TypeOK /\ PipeInv => Drained BY PipeDrained
<1> QED BY <1>1, <1>2, <1>3, PTL DEF Spec

-----------------------------------------------------------------------------
(* The MQTT client *)

LEMMA MqttFrame ==
    ASSUME MqttInv, UNCHANGED mqttVars, tasks'["mqtt"] = tasks["mqtt"]
    PROVE  MqttInv'
BY DEF MqttInv, mqttVars

LEMMA MqttInit == ASSUME Init PROVE MqttInv
BY DEF Init, MqttInv, Mqtt!MqttInit, Task, Over

LEMMA MqttRun == ASSUME TypeOK, MqttInv, MqttRuns PROVE MqttInv'
<1>1. Mqtt!MqttStep
  BY DEF MqttRuns
<1>2. tasks'["mqtt"] = tasks["mqtt"] \/ loop' = "over"
  BY DEF MqttRuns, Ends
<1>3. loop = "over" => loop' = "over"
  BY <1>1 DEF Mqtt!MqttStep, Mqtt!Connect, Mqtt!HandleError, Mqtt!Reconnect,
              Mqtt!CloseOnStop, Mqtt!RunReturns
<1>4. tasks'["mqtt"] \in Over => loop' = "over"
  BY <1>2, <1>3 DEF MqttInv
<1> QED BY <1>1, <1>4
        DEF MqttInv, Mqtt!MqttStep, Mqtt!Connect, Mqtt!HandleError, Mqtt!Reconnect,
            Mqtt!Again, Mqtt!CloseOnStop, Mqtt!RunReturns

LEMMA MqttNext == ASSUME TypeOK, MqttInv, [Next]_vars PROVE MqttInv'
<1>1. CASE UNCHANGED vars
  BY <1>1, MqttFrame DEF vars, parts
<1>2. CASE StartFails \/ GiveTime \/ WaitRaises \/ Bye \/ Signal
  BY <1>2, MqttFrame DEF StartFails, GiveTime, WaitRaises, Bye, Signal, parts
<1>3. CASE Operate
  BY <1>3, MqttFrame DEF Operate, Task
<1>4. ASSUME NEW t \in Task, TimesOut(t) PROVE MqttInv'
  <2>1. CASE t = "mqtt"
    BY <1>4, <2>1 DEF TimesOut, Cancelled, Mqtt!RunCancelled, MqttInv, TypeOK
  <2>2. CASE t # "mqtt"
    <3>1. UNCHANGED mqttVars
      BY <1>4, <2>2 DEF TimesOut, Cancelled
    <3>2. tasks'["mqtt"] = tasks["mqtt"]
      BY <1>4, <2>2 DEF TimesOut, Cancelled, TypeOK
    <3> QED BY <3>1, <3>2, MqttFrame
  <2> QED BY <2>1, <2>2
<1>5. CASE MqttBreaks
  BY <1>5 DEF MqttBreaks, Mqtt!Break, MqttInv
<1>6. CASE RouterRuns \/ ManagerReturns
  BY <1>6, MqttFrame
     DEF RouterRuns, RouterSubscribes, RouterRaises, RouterReturns, ManagerReturns, Ends,
         parts, TypeOK, Task
<1>7. CASE RanRuns \/ \E l \in Ran!Loops : LoopBreaks(l)
  BY <1>7, MqttFrame DEF RanRuns, LoopBreaks, Ends, TypeOK, Task
<1>8. CASE NodesRun \/ HandlersRun \/ \E m \in Uplinks : Receives(m)
  BY <1>8, MqttFrame DEF NodesRun, HandlersRun, Receives
<1> QED BY <1>1, <1>2, <1>3, <1>4, <1>5, <1>6, <1>7, <1>8, MqttRun
        DEF Next, Work, MainStep, Shutdown, HealthRaises

-----------------------------------------------------------------------------
(* RAN's connections *)

LEMMA RanFrame ==
    ASSUME RanInv, UNCHANGED ranVars, tasks'["ran"] = tasks["ran"]
    PROVE  RanInv'
BY DEF RanInv, ranVars

LEMMA RanInit == ASSUME Init PROVE RanInv
BY DEF Init, RanInv, Ran!RanInit, Task, Over

LEMMA RanRun == ASSUME TypeOK, RanInv, RanRuns PROVE RanInv'
<1>1. Ran!RanStep
  BY DEF RanRuns
<1>2. tasks'["ran"] = tasks["ran"] \/ run' = "over"
  BY DEF RanRuns, Ends
<1>3. run = "over" => run' = "over" /\ tasks' = tasks
  BY <1>1 DEF RanRuns, Ran!RanStep, Ran!CloseCore, Ran!WaitReturns, Ran!OtherEnds,
              Ran!DelayOver, Ran!Closed, Ran!AcksOver, Ran!LoopEnds
<1>4. run' \in {"off", "delay", "acks"} => open' = {}
  BY <1>1 DEF RanInv, Ran!RanStep, Ran!CloseCore, Ran!WaitReturns, Ran!OtherEnds,
              Ran!DelayOver, Ran!Again, Ran!Closed, Ran!AcksOver, Ran!LoopEnds, Ran!Loops
<1>5. run' = "over" /\ tasks'["ran"] # "cancelled" => open' = {}
  BY <1>1, <1>3 DEF RanInv, Ran!RanStep, Ran!CloseCore, Ran!WaitReturns, Ran!OtherEnds,
              Ran!DelayOver, Ran!Again, Ran!Closed, Ran!AcksOver, Ran!LoopEnds
<1> QED BY <1>2, <1>3, <1>4, <1>5 DEF RanInv

LEMMA RanNext == ASSUME TypeOK, RanInv, [Next]_vars PROVE RanInv'
<1>1. CASE UNCHANGED vars
  BY <1>1, RanFrame DEF vars, parts
<1>2. CASE StartFails \/ GiveTime \/ WaitRaises \/ Bye \/ Signal
  BY <1>2, RanFrame DEF StartFails, GiveTime, WaitRaises, Bye, Signal, parts
<1>3. CASE Operate
  BY <1>3 DEF Operate, Task, Over, RanInv, Ran!Start, Ran!Again
<1>4. ASSUME NEW t \in Task, TimesOut(t) PROVE RanInv'
  <2>1. CASE t = "ran"
    BY <1>4, <2>1 DEF TimesOut, Cancelled, Ran!RunCancelled, RanInv, TypeOK, Over
  <2>2. CASE t # "ran"
    <3>1. UNCHANGED ranVars
      BY <1>4, <2>2 DEF TimesOut, Cancelled
    <3>2. tasks'["ran"] = tasks["ran"]
      BY <1>4, <2>2 DEF TimesOut, Cancelled, TypeOK
    <3> QED BY <3>1, <3>2, RanFrame
  <2> QED BY <2>1, <2>2
<1>5. CASE MqttRuns \/ MqttBreaks
  BY <1>5, RanFrame DEF MqttRuns, MqttBreaks, Ends, TypeOK, Task
<1>6. CASE RouterRuns \/ ManagerReturns
  BY <1>6, RanFrame
     DEF RouterRuns, RouterSubscribes, RouterRaises, RouterReturns, ManagerReturns, Ends,
         parts, TypeOK, Task
<1>7. CASE \E l \in Ran!Loops : LoopBreaks(l)
  BY <1>7 DEF LoopBreaks, Ran!LoopBreaks, RanInv
<1>8. CASE NodesRun \/ HandlersRun \/ \E m \in Uplinks : Receives(m)
  BY <1>8, RanFrame DEF NodesRun, HandlersRun, Receives
<1> QED BY <1>1, <1>2, <1>3, <1>4, <1>5, <1>6, <1>7, <1>8, RanRun
        DEF Next, Work, MainStep, Shutdown, HealthRaises

-----------------------------------------------------------------------------
(* main, and the end *)

LEMMA MainInit == ASSUME Init PROVE MainInv
BY DEF Init, MainInv, Task

\* Steps of the tasks: those that are over stay so, and only the router and run raise.
LEMMA MainFrame ==
    ASSUME TypeOK, MainInv, UNCHANGED <<main, pending>>,
           \A t \in Task : tasks'[t] = tasks[t] \/ tasks'[t] \in Over,
           \A t \in Task : tasks[t] \in Over => tasks'[t] = tasks[t],
           \A t \in {"mqtt", "manager"} : tasks'[t] = tasks[t] \/ tasks'[t] # "raised"
    PROVE  MainInv'
<1>1. pending \subseteq Task
  BY DEF TypeOK
<1> QED BY <1>1 DEF MainInv, Over, Task

LEMMA MainNext ==
    ASSUME TypeOK, PipeInv, MqttInv, RanInv, MainInv, [Next]_vars
    PROVE  MainInv'
<1>0. tasks \in [Task -> {"off", "on"} \cup Over] /\ pending \subseteq Task
  BY DEF TypeOK
<1>1. CASE UNCHANGED vars
  BY <1>1 DEF vars, MainInv
<1>2. CASE StartFails \/ WaitRaises
  BY <1>2 DEF StartFails, WaitRaises, MainInv
<1>3. CASE GiveTime
  BY <1>0, <1>3 DEF GiveTime, MainInv, Over
<1>4. CASE Bye
  BY <1>0, <1>4 DEF Bye, MainInv, Over
<1>5. CASE Operate
  BY <1>0, <1>5 DEF Operate, MainInv, Task, MqttInv
<1>6. ASSUME NEW t \in Task, TimesOut(t) PROVE MainInv'
  BY <1>0, <1>6, MainFrame DEF TimesOut, Cancelled, Over, Task
<1>7. CASE Signal \/ NodesRun \/ HandlersRun \/ \E m \in Uplinks : Receives(m)
  BY <1>7, MainFrame DEF Signal, NodesRun, HandlersRun, Receives
<1>8. CASE MqttBreaks \/ \E l \in Ran!Loops : LoopBreaks(l)
  BY <1>8, MainFrame DEF MqttBreaks, LoopBreaks
<1>9. CASE RouterRuns \/ ManagerReturns
  BY <1>0, <1>9, MainFrame
     DEF RouterRuns, RouterSubscribes, RouterRaises, RouterReturns, ManagerReturns, On,
         Ends, Over, Task
<1>10. CASE MqttRuns
  BY <1>0, <1>10, MainFrame DEF MqttRuns, Ends, Over, Task, MqttInv
<1>11. CASE RanRuns
  BY <1>0, <1>11, MainFrame DEF RanRuns, Ends, Over, Task, RanInv
<1> QED BY <1>1, <1>2, <1>3, <1>4, <1>5, <1>6, <1>7, <1>8, <1>9, <1>10, <1>11
        DEF Next, Work, MainStep, Shutdown, HealthRaises

LEMMA EndIsOrderly ==
    ASSUME TypeOK, PipeInv, MqttInv, RanInv, MainInv
    PROVE  OrderlyStop
<1> SUFFICES ASSUME main = "bye", \A t \in Task : tasks[t] # "cancelled"
             PROVE  open = {} /\ client # "up" /\ \A n \in Pipe!Nodes : node[n] = "over"
  BY DEF OrderlyStop
<1>1. \A t \in Task : tasks[t] \in Over
  BY DEF MainInv, Over
<1>2. tasks["ran"] # "cancelled" /\ run = "over"
  BY <1>1 DEF RanInv, Task
<1>3. loop = "over"
  BY <1>1 DEF MqttInv, Task
<1>4. tasks["manager"] = "returned"
  BY <1>1 DEF MainInv, Over, Task
<1> QED BY <1>2, <1>3, <1>4 DEF RanInv, MqttInv, PipeInv

\* Wherever a stop signal finds the tasks, and for any number of uplinks and broken
\* connections: a shutdown that cancels none of them leaves no loop of RAN's, no node
\* and no MQTT connection at work.
THEOREM EndsOrderly == Spec => []OrderlyStop
<1> DEFINE Inv == TypeOK /\ PipeInv /\ MqttInv /\ RanInv /\ MainInv
<1>1. Init => Inv
  BY TypeInit, PipeInit, MqttInit, RanInit, MainInit
<1>2. Inv /\ [Next]_vars => Inv'
  BY TypeNext, PipeNext, MqttNext, RanNext, MainNext
<1>3. Inv => OrderlyStop
  BY EndIsOrderly
<1> HIDE DEF Inv
<1> QED BY <1>1, <1>2, <1>3, PTL DEF Spec
=============================================================================
