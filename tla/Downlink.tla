------------------------------ MODULE Downlink ------------------------------
(***************************************************************************)
(* The downlink path of the bridge: ChirpStack -> ChirpstackTrafficRouter  *)
(* -> RAN, and RAN's result back to ChirpStack as a DownlinkTxAck.         *)
(*                                                                         *)
(* Source: src/src/lib/traffic/chirpstack.py (frames, device contexts,     *)
(* transmission acks), ran.py (transactions, results), manager.py (the two *)
(* one-node pipelines).                                                    *)
(*                                                                         *)
(* As in Upstream, a step is what one task does between two awaits that    *)
(* can suspend.  A run is shorter than the 100 s that contexts and counts  *)
(* of ignored items live; transactions (60 s) may expire in it.            *)
(***************************************************************************)
EXTENDS Naturals, Sequences, FiniteSets

CONSTANTS
    Frames,        \* DownlinkFrames of ChirpStack, one downlink_id each
    Contexts,      \* context ids of uplinks
    NoContext,     \* the frame has none
    ContextOf,     \* tx_info.context of a frame
    Kind,          \* what its payload is, see Kinds
    MaxItems,      \* bound on the items of a frame (RX1, RX2)
    Items,         \* number of items of a frame
    StepPoolSize,  \* Pipeline's step_pool_size (64)
    MaxResults,    \* bound on the results RAN sends for a transaction
    MaxFaults      \* bound on failed calls, lost connections, expired entries

Kinds == {"join_accept", "data", "other"}

ASSUME ContextAssumption == /\ NoContext \notin Contexts
                            /\ ContextOf \in [Frames -> Contexts \cup {NoContext}]
ASSUME KindAssumption    == Kind \in [Frames -> Kinds]
ASSUME ItemsAssumption   == /\ MaxItems \in Nat \ {0}
                            /\ Items \in [Frames -> 1 .. MaxItems]
ASSUME BoundAssumption   == /\ StepPoolSize \in Nat \ {0}
                            /\ MaxResults \in Nat
                            /\ MaxFaults \in Nat

VARIABLES
    state,       \* where a frame (its first item) is
    contexts,    \* keys of _chirpstack_context_to_device
    lookup,      \* what the lists have at the DevAddr of the payload
    ignored,     \* _ignored_downlinks_count
    downQ,       \* _downlinks_from_chirpstack
    downstream,  \* RanTrafficRouter.downstream is not None
    tracked,     \* keys of _downstream_transaction_to_id
    atRan,       \* frames whose downstream message RAN has
    reported,    \* results RAN sent for a frame, in order
    resultQ,     \* _downlink_results_from_ran
    publishing,  \* the TxAcks handlers are suspended publishing
    txAcks,      \* TxAcks ChirpStack received for a frame, in order
    faults       \* consumed bound

frameVars  == <<state, contexts, lookup, ignored, downQ>>
ranVars    == <<downstream, tracked, atRan, reported>>
resultVars == <<resultQ, publishing, txAcks>>
vars       == <<frameVars, ranVars, resultVars, faults>>

-----------------------------------------------------------------------------
(* State spaces *)

States == {"new",
           "syncing",      \* the device of a JoinAccept is pulled
           "queued", "sending",
           "sent",
           "skipped",      \* no device context
           "lost"}         \* an exception, or no connection: nobody is told
Lookups  == {"device", "group", "nobody"}
Codes    == {"Success", "TooLate", "Other"}
Statuses == {"OK", "TOO_LATE", "ERROR"}
Result   == [frame : Frames, status : Statuses]
TxAck    == [frame : Frames, status : Statuses, length : 1 .. MaxItems]

TypeOK ==
    /\ state \in [Frames -> States]
    /\ contexts \in SUBSET Contexts
    /\ lookup \in [Frames -> Lookups]
    /\ ignored \in [Frames -> 0 .. MaxItems - 1]
    /\ downQ \in Seq(Frames)
    /\ downstream \in BOOLEAN
    /\ tracked \in SUBSET Frames
    /\ atRan \in SUBSET Frames
    /\ reported \in [Frames -> Seq(Codes)]
    /\ resultQ \in Seq(Result)
    /\ publishing \in SUBSET TxAck
    /\ txAcks \in [Frames -> Seq(TxAck)]
    /\ faults \in 0 .. MaxFaults

\* The uplinks the frames answer went to ChirpStack before; the context of one
\* may be gone.
Init ==
    /\ state = [f \in Frames |-> "new"]
    /\ contexts \in SUBSET Contexts
    /\ lookup \in [Frames -> Lookups]
    /\ \A f \in Frames : Kind[f] # "data" => lookup[f] = "nobody"
    /\ ignored = [f \in Frames |-> 0]
    /\ downQ = << >>
    /\ downstream = TRUE
    /\ tracked = {}
    /\ atRan = {}
    /\ reported = [f \in Frames |-> << >>]
    /\ resultQ = << >>
    /\ publishing = {}
    /\ txAcks = [f \in Frames |-> << >>]
    /\ faults = 0

Fault == faults < MaxFaults /\ faults' = faults + 1

-----------------------------------------------------------------------------
(* ChirpstackTrafficRouter: one loop handles the frames one by one *)

LoopFree == \A f \in Frames : state[f] # "syncing"

\* (variant for mutation) get instead of pop
ContextKept(f) == contexts

\* The device context of an uplink is good for one frame.
ContextPopped(f) == contexts \ {ContextOf[f]}

\* (variant for mutation) all items are counted
AllItems(f) == Items[f]

\* All items but the first are only counted, whatever becomes of the first.  (A
\* frame that is not LoRa raises before anything is touched.)
IgnoredItems(f) == Items[f] - 1

\* _fetch_downlink_device_context finds one at once: of the uplink the frame
\* answers, or, for a payload with a DevAddr, in the lists.
HasDeviceContext(f) ==
    /\ Kind[f] # "join_accept"
    /\ \/ ContextOf[f] \in contexts
       \/ Kind[f] = "data" /\ lookup[f] # "nobody"

MustSync(f) == Kind[f] = "join_accept" /\ ContextOf[f] \in contexts

Take(f) ==
    /\ state[f] = "new"
    /\ LoopFree
    /\ contexts' = ContextPopped(f)

Count(f) == ignored' = [ignored EXCEPT ![f] = IgnoredItems(f)]

Queue(f) ==
    /\ state' = [state EXCEPT ![f] = "queued"]
    /\ downQ' = Append(downQ, f)

\* _process_downlink_frame without a suspension.
ProcessFrame(f) ==
    /\ Take(f)
    /\ Count(f)
    /\ \/ /\ HasDeviceContext(f)
          /\ Queue(f)
       \/ /\ ~HasDeviceContext(f) /\ ~MustSync(f)
          /\ state' = [state EXCEPT ![f] = "skipped"]
          /\ UNCHANGED downQ
    /\ UNCHANGED <<lookup, ranVars, resultVars, faults>>

\* A JoinAccept: Device.sync_from_remote pulls the new address first.
SyncJoined(f) ==
    /\ Take(f)
    /\ MustSync(f)
    /\ state' = [state EXCEPT ![f] = "syncing"]
    /\ UNCHANGED <<lookup, ignored, downQ, ranVars, resultVars, faults>>

\* (variant for mutation) the items are not counted after the suspension
SyncedUncounted(f) ==
    /\ state[f] = "syncing"
    /\ Queue(f)
    /\ UNCHANGED <<contexts, lookup, ignored, ranVars, resultVars, faults>>

Synced(f) ==
    /\ state[f] = "syncing"
    /\ Count(f)
    /\ Queue(f)
    /\ UNCHANGED <<contexts, lookup, ranVars, resultVars, faults>>

\* A call to ChirpStack raised: the loop logs it, the frame is gone, and so is
\* its context.
SyncFails(f) ==
    /\ state[f] = "syncing"
    /\ Fault
    /\ state' = [state EXCEPT ![f] = "lost"]
    /\ UNCHANGED <<contexts, lookup, ignored, downQ, ranVars, resultVars>>

-----------------------------------------------------------------------------
(* RanTrafficRouter.handle_downstream *)

Sending == {f \in Frames : state[f] = "sending"}

\* Cache.set cleans first: one expired entry, the oldest, may go.
Clean(kept) ==
    \/ kept = tracked /\ UNCHANGED faults
    \/ Fault /\ \E f \in tracked : kept = tracked \ {f}

\* (variants for mutation) the transaction is not noted; a downlink that finds
\* the pool full is dropped
HandleDownstreamUntracked ==
    /\ downQ # << >>
    /\ Cardinality(Sending) < StepPoolSize
    /\ downQ' = Tail(downQ)
    /\ state' = [state EXCEPT ![Head(downQ)] = IF downstream THEN "sending"
                                                             ELSE "lost"]
    /\ UNCHANGED <<contexts, lookup, ignored, downstream, tracked, atRan, reported,
                   resultVars, faults>>

HandleDownstreamDrops ==
    /\ downQ # << >>
    /\ downQ' = Tail(downQ)
    /\ \E kept \in SUBSET tracked :
          /\ Clean(kept)
          /\ tracked' = kept \cup {Head(downQ)}
    /\ state' = [state EXCEPT ![Head(downQ)] =
                    IF downstream /\ Cardinality(Sending) < StepPoolSize
                    THEN "sending" ELSE "lost"]
    /\ UNCHANGED <<contexts, lookup, ignored, downstream, atRan, reported,
                   resultVars>>

\* transaction_id is fresh (a cycle of 2^32): the frame stands for it.  It is
\* noted before the connection is looked at.
HandleDownstream ==
    /\ downQ # << >>
    /\ Cardinality(Sending) < StepPoolSize
    /\ downQ' = Tail(downQ)
    /\ \E kept \in SUBSET tracked :
          /\ Clean(kept)
          /\ tracked' = kept \cup {Head(downQ)}
    /\ state' = [state EXCEPT ![Head(downQ)] = IF downstream THEN "sending"
                                                             ELSE "lost"]
    /\ UNCHANGED <<contexts, lookup, ignored, downstream, atRan, reported,
                   resultVars>>

\* The message reaches RAN, perhaps before the send returns.
RanReceives(f) ==
    /\ state[f] = "sending"
    /\ f \notin atRan
    /\ atRan' = atRan \cup {f}
    /\ UNCHANGED <<frameVars, downstream, tracked, reported, resultVars, faults>>

SendReturns(f) ==
    /\ state[f] = "sending"
    /\ state' = [state EXCEPT ![f] = "sent"]
    /\ atRan' = atRan \cup {f}
    /\ UNCHANGED <<contexts, lookup, ignored, downQ, downstream, tracked, reported,
                   resultVars, faults>>

\* The downstream loop ends: downstream is None, and a suspended send raises.
ConnectionLost ==
    /\ downstream
    /\ Fault
    /\ downstream' = FALSE
    /\ state' = [f \in Frames |-> IF f \in Sending THEN "lost" ELSE state[f]]
    /\ UNCHANGED <<contexts, lookup, ignored, downQ, tracked, atRan, reported,
                   resultVars>>

Reconnected ==
    /\ ~downstream
    /\ downstream' = TRUE
    /\ UNCHANGED <<frameVars, tracked, atRan, reported, resultVars, faults>>

-----------------------------------------------------------------------------
(* RanTrafficRouter._handle_downstream_result_message *)

Status(code) == CASE code = "Success" -> "OK"
                  [] code = "TooLate" -> "TOO_LATE"
                  [] OTHER            -> "ERROR"

\* (variant for mutation) get instead of pop
Kept(f) == tracked

Popped(f) == tracked \ {f}

\* RAN sends a result, perhaps again and with another code; one whose
\* transaction is not tracked (any more) is ignored.
ReceiveResult(f, code) ==
    /\ downstream
    /\ f \in atRan
    /\ Len(reported[f]) < MaxResults
    /\ reported' = [reported EXCEPT ![f] = Append(@, code)]
    /\ tracked' = Popped(f)
    /\ resultQ' = IF f \in tracked
                  THEN Append(resultQ, [frame |-> f, status |-> Status(code)])
                  ELSE resultQ
    /\ UNCHANGED <<frameVars, downstream, atRan, publishing, txAcks, faults>>

-----------------------------------------------------------------------------
(* ChirpstackTrafficRouter.handle_downstream_result *)

\* One status for the first item, IGNORED for each that was counted.
HandleResult ==
    /\ resultQ # << >>
    /\ Cardinality(publishing) < StepPoolSize
    /\ resultQ' = Tail(resultQ)
    /\ LET r == Head(resultQ)
       IN publishing' = publishing \cup
              {[frame |-> r.frame, status |-> r.status,
                length |-> 1 + ignored[r.frame]]}
    /\ UNCHANGED <<frameVars, ranVars, txAcks, faults>>

TxAckPublished(a) ==
    /\ publishing' = publishing \ {a}
    /\ txAcks' = [txAcks EXCEPT ![a.frame] = Append(@, a)]
    /\ UNCHANGED <<frameVars, ranVars, resultQ, faults>>

TxAckFails(a) ==
    /\ Fault
    /\ publishing' = publishing \ {a}
    /\ UNCHANGED <<frameVars, ranVars, resultQ, txAcks>>

-----------------------------------------------------------------------------
Next ==
    \/ \E f \in Frames :
          \/ ProcessFrame(f) \/ SyncJoined(f) \/ Synced(f) \/ SyncFails(f)
          \/ RanReceives(f) \/ SendReturns(f)
          \/ \E code \in Codes : ReceiveResult(f, code)
    \/ HandleDownstream \/ HandleResult
    \/ ConnectionLost \/ Reconnected
    \/ \E a \in publishing : TxAckPublished(a) \/ TxAckFails(a)

Spec == Init /\ [][Next]_vars

\* Tasks get to run, and calls return or raise.  Nothing is assumed of what
\* ChirpStack sends, nor that RAN ever reports a result.
Fairness ==
    /\ \A f \in Frames : WF_vars(Synced(f)) /\ WF_vars(SendReturns(f))
    /\ WF_vars(HandleDownstream)
    /\ WF_vars(HandleResult)
    /\ WF_vars(Reconnected)
    /\ WF_vars(\E a \in publishing : TxAckPublished(a))

LiveSpec == Spec /\ Fairness

-----------------------------------------------------------------------------
(* Safety *)

\* A frame is acked at most once, however often RAN reports on it, and with
\* what RAN reported first of it.
OneTruthfulTxAck ==
    \A f \in Frames :
        /\ Len(txAcks[f]) <= 1
        /\ txAcks[f] # << >> =>
              /\ txAcks[f][1].status = "OK" <=> reported[f][1] = "Success"
              /\ txAcks[f][1].status = "TOO_LATE" <=> reported[f][1] = "TooLate"

\* "ack_statuses" must have the length of the request (chirpstack.py:267): for
\* every frame, however its count, its transaction and RAN's result interleave
\* with those of other frames.
TxAckAligned ==
    \A f \in Frames : \A k \in DOMAIN txAcks[f] : txAcks[f][k].length = Items[f]

\* One join is accepted once: of the JoinAccepts that answer it at most one gets
\* to RAN, although pulling the device suspends between taking its context and
\* sending.
OneAcceptPerJoin ==
    \A f, g \in Frames :
        /\ f # g
        /\ Kind[f] = "join_accept" /\ Kind[g] = "join_accept"
        /\ ContextOf[f] = ContextOf[g]
        => ~(f \in atRan /\ g \in atRan)

-----------------------------------------------------------------------------
(* Liveness *)

\* Once the router has a frame's device, RAN gets the frame, and what RAN
\* reports of it, even before the send returned, reaches ChirpStack: unless a
\* call failed, the connection broke or the transaction expired.
GetsToRan ==
    \A f \in Frames : state[f] \in {"syncing", "queued"} ~>
                          f \in atRan \/ faults > 0
ReportReachesChirpStack ==
    \A f \in Frames : reported[f] # << >> ~> txAcks[f] # << >> \/ faults > 0
=============================================================================
