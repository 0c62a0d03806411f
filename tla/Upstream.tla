------------------------------ MODULE Upstream ------------------------------
(***************************************************************************)
(* The uplink path of the bridge: RAN -> RanTrafficRouter -> ChirpStack    *)
(* and the answer (ack or reject) back to RAN.                             *)
(*                                                                         *)
(* Source: src/src/lib/traffic/ran.py (deduplication, MIC tries, answers,  *)
(* ack waiters), chirpstack.py (MIC check, forwarding), manager.py (the    *)
(* two-node pipeline that runs them) and async_pool.py (its task pools).   *)
(*                                                                         *)
(* All of it runs on one asyncio loop, so a step is what one task does     *)
(* between two awaits that can suspend.  Every await on a socket (a send   *)
(* to RAN, a publish to MQTT) is a step boundary: its task waits in a      *)
(* state of its own while the other tasks go on.                           *)
(***************************************************************************)
EXTENDS Naturals, Sequences, FiniteSets

CONSTANTS
    Transactions,   \* UpstreamMessages of RAN, one transaction_id each
    Contexts,       \* distinct phy_payload_no_mic (context_id is its md5)
    ContextOf,      \* the payload a transaction carries
    Kind,           \* what the payload parses to, see Kinds
    MaxMics,        \* bound on the length of mic_challenge
    Challenges,     \* len(mic_challenge) of a transaction
    StepPoolSize,   \* Pipeline's step_pool_size (64)
    SubmitPoolSize, \* _ack_submitters_pool (64)
    CacheExpires,   \* TRUE if a run may outlast the ttl (60 s) of the caches
    MaxFaults,      \* bound on lost connections and failed publishes
    MaxSyncs        \* bound on device list changes during a run

Kinds == {"join", "data", "other", "malformed"}
Mics  == 1 .. MaxMics

ASSUME ContextAssumption   == ContextOf \in [Transactions -> Contexts]
ASSUME KindAssumption      == Kind \in [Contexts -> Kinds]
ASSUME ChallengeAssumption == /\ MaxMics \in Nat
                              /\ Challenges \in [Transactions -> Mics]
ASSUME BoundAssumption     == /\ StepPoolSize \in Nat \ {0}
                              /\ SubmitPoolSize \in Nat \ {0}
                              /\ CacheExpires \in BOOLEAN
                              /\ MaxFaults \in Nat
                              /\ MaxSyncs \in Nat

VARIABLES
    upstream,    \* RanTrafficRouter.upstream is not None
    role,        \* what _handle_upstream_message took a transaction for
    known,       \* keys of _context_id_to_upstream_id
    live,        \* keys of _upstream_id_to_transaction_id
    tracked,     \* keys of _mic_tries_count
    micTries,    \* its values
    challenge,   \* where the uplink of one MIC of a transaction is
    uplinkQ,     \* _uplinks_from_ran, rx of the first pipeline node
    resultQ,     \* the queue between the two nodes
    device,      \* what the device list says of the payload's device
    forwarded,   \* <<context, mic>> published on the gateway's "up" topic
    contexts,    \* keys of _chirpstack_context_to_device
    ackCache,    \* UplinkAckSync._cache: the MIC of the ack, 0 if none
    waiter,      \* the Future of make_ack_waiter
    submitter,   \* the handler or task that answers a duplicate
    dupMic,      \* the MIC of the ack a duplicate is answered with
    ackSync,     \* the UplinkAckSync.run task is alive
    sent,        \* answers RAN received for a transaction, in order
    faults, syncs  \* consumed bounds

ranVars    == <<upstream, role, known, live, tracked, micTries, sent>>
pipeVars   == <<challenge, uplinkQ, resultQ, forwarded, contexts>>
dupVars    == <<ackCache, waiter, submitter, dupMic, ackSync>>
vars       == <<ranVars, pipeVars, dupVars, device, faults, syncs>>

-----------------------------------------------------------------------------
(* State spaces *)

\* upstream_id is random and fresh (ran.py:133-137): the transaction that got
\* it stands for it, so an uplink is named by <<transaction, mic>>.
Uplinks == Transactions \X Mics

Sending == {"send_ack", "send_mic_failed", "send_other"}
ChallengeStates ==
    {"none", "queued", "publishing", "result"} \cup Sending \cup
    {"counted",                          \* taken off micTries, no answer
     "acked", "mic_failed", "refused",   \* answered
     "dropped",                          \* its upstream_id is closed
     "lost"}                             \* its handler raised

Verdicts == {"Ack", "MicChallengeFail", "DeviceNotFound", "NotSupported",
             "InternalError"}
Result == [uplink : Uplinks, verdict : Verdicts]

\* What the list says of a payload's device: the keys it has and which MIC they
\* verify (0: none); NoDevice too if the payload does not parse.
NoDevice == [found |-> FALSE, hasKey |-> FALSE, verifies |-> 0]
Device   == {NoDevice} \cup
            [found : {TRUE}, hasKey : BOOLEAN, verifies : 0 .. MaxMics]

AnswerKinds == {"ack", "mic_failed", "other"}
Answer == [kind : AnswerKinds, mic : 0 .. MaxMics]

\* The upstream loop itself is suspended in the first two.
LoopStates      == {"send_cached", "pool_wait"}
DupSending      == {"send_cached", "send_ack", "send_reject"}
PoolStates      == {"waiting", "timed_out", "send_ack", "send_reject"}
SubmitterStates == {"none", "done"} \cup LoopStates \cup PoolStates
WaiterStates    == {"none", "pending", "set", "cancelled"}

TypeOK ==
    /\ upstream \in BOOLEAN
    /\ role \in [Transactions -> {"new", "original", "duplicate"}]
    /\ known \in SUBSET Contexts
    /\ live \in SUBSET Transactions
    /\ tracked \in SUBSET Transactions
    /\ micTries \in [Transactions -> Nat]
    /\ challenge \in [Uplinks -> ChallengeStates]
    /\ uplinkQ \in Seq(Uplinks)
    /\ resultQ \in Seq(Result)
    /\ device \in [Contexts -> Device]
    /\ forwarded \in SUBSET (Contexts \X Mics)
    /\ contexts \in SUBSET Contexts
    /\ ackCache \in [Contexts -> 0 .. MaxMics]
    /\ waiter \in [Transactions -> WaiterStates]
    /\ submitter \in [Transactions -> SubmitterStates]
    /\ dupMic \in [Transactions -> 0 .. MaxMics]
    /\ ackSync \in BOOLEAN
    /\ sent \in [Transactions -> Seq(Answer)]
    /\ faults \in 0 .. MaxFaults
    /\ syncs \in 0 .. MaxSyncs

Init ==
    /\ upstream = TRUE
    /\ role = [t \in Transactions |-> "new"]
    /\ known = {}
    /\ live = {}
    /\ tracked = {}
    /\ micTries = [t \in Transactions |-> 0]
    /\ challenge = [u \in Uplinks |-> "none"]
    /\ uplinkQ = << >>
    /\ resultQ = << >>
    /\ device \in [Contexts -> Device]
    /\ \A c \in Contexts : Kind[c] = "malformed" => device[c] = NoDevice
    /\ forwarded = {}
    /\ contexts = {}
    /\ ackCache = [c \in Contexts |-> 0]
    /\ waiter = [t \in Transactions |-> "none"]
    /\ submitter = [t \in Transactions |-> "none"]
    /\ dupMic = [t \in Transactions |-> 0]
    /\ ackSync = TRUE
    /\ sent = [t \in Transactions |-> << >>]
    /\ faults = 0
    /\ syncs = 0

-----------------------------------------------------------------------------
(* Helpers *)

\* Cache.set cleans first: at most one expired entry goes (cache.py:31-49).
\* Time is abstract here, so whether one has expired, and which, is open.
AfterClean(keys) ==
    {keys} \cup (IF CacheExpires THEN {keys \ {k} : k \in keys} ELSE {})

\* _handle_upstream_message is awaited in the loop over the stream.
LoopBusy == \E t \in Transactions : submitter[t] \in LoopStates

Publishing == {u \in Uplinks : challenge[u] = "publishing"}
Answering  == {u \in Uplinks : challenge[u] \in Sending}

\* (variant for mutation) a submitter that ended keeps its slot
SubmittingForever ==
    {t \in Transactions : /\ role[t] = "duplicate"
                          /\ submitter[t] \in PoolStates \cup {"done"}}

Submitting == {t \in Transactions : submitter[t] \in PoolStates}

Answered(t, kind) == \E k \in DOMAIN sent[t] : sent[t][k].kind = kind

Send(t, kind, mic) ==
    sent' = [sent EXCEPT ![t] = Append(@, [kind |-> kind, mic |-> mic])]

\* Leaving "async with ran_core.upstream()" closes the socket: a send that
\* is suspended on it raises, and so ends its handler or submitter; so does
\* the handler the loop was in.
DropConnection ==
    /\ upstream' = FALSE
    /\ submitter' = [t \in Transactions |->
                       IF submitter[t] \in LoopStates \cup DupSending
                       THEN "done" ELSE submitter[t]]

LoseSends(ch) ==
    [u \in Uplinks |-> IF ch[u] \in Sending THEN "lost" ELSE ch[u]]

-----------------------------------------------------------------------------
(* RanTrafficRouter._handle_upstream_message: the loop over the stream *)

CanReceive(t) == upstream /\ ~LoopBusy /\ role[t] = "new"

\* (variant for mutation) the tries are counted from zero
TotalChallengesFromZero(t) == Challenges[t] - 1

\* total_challenges = len(upstream_message.mic_challenge)
TotalChallenges(t) == Challenges[t]

\* The state written before the uplinks are queued.
Register(t) ==
    /\ ContextOf[t] \notin known
    /\ role' = [role EXCEPT ![t] = "original"]
    /\ \E kept \in AfterClean(known) : known' = kept \cup {ContextOf[t]}
    /\ \E kept \in AfterClean(live) : live' = kept \cup {t}
    /\ tracked' = tracked \cup {t}
    /\ micTries' = [micTries EXCEPT ![t] = TotalChallenges(t)]

ReceiveNew(t) ==
    /\ CanReceive(t)
    /\ Kind[ContextOf[t]] # "malformed"
    /\ Register(t)
    /\ challenge' = [u \in Uplinks |->
                       IF u[1] = t /\ u[2] <= Challenges[t]
                       THEN "queued" ELSE challenge[u]]
    /\ uplinkQ' = uplinkQ \o [i \in 1 .. Challenges[t] |-> <<t, i>>]
    /\ UNCHANGED <<upstream, sent, resultQ, forwarded, contexts, dupVars, device,
                   faults, syncs>>

\* PHYPayload.parse raises after the bookkeeping: the exception leaves the
\* loop over the stream and ends the connection.
ReceiveMalformed(t) ==
    /\ CanReceive(t)
    /\ Kind[ContextOf[t]] = "malformed"
    /\ Register(t)
    /\ DropConnection
    /\ challenge' = LoseSends(challenge)
    /\ UNCHANGED <<sent, uplinkQ, resultQ, forwarded, contexts, ackCache, waiter,
                   dupMic, ackSync, device, faults, syncs>>

ReceiveDuplicate(t) ==
    /\ CanReceive(t)
    /\ ContextOf[t] \in known
    /\ role' = [role EXCEPT ![t] = "duplicate"]
    /\ \/ /\ ackCache[ContextOf[t]] # 0
          /\ submitter' = [submitter EXCEPT ![t] = "send_cached"]
          /\ dupMic' = [dupMic EXCEPT ![t] = ackCache[ContextOf[t]]]
          /\ UNCHANGED waiter
       \/ /\ ackCache[ContextOf[t]] = 0
          /\ submitter' = [submitter EXCEPT ![t] = "pool_wait"]
          /\ waiter' = [waiter EXCEPT ![t] = "pending"]
          /\ UNCHANGED dupMic
    /\ UNCHANGED <<upstream, known, live, tracked, micTries, sent, pipeVars,
                   ackCache, ackSync, device, faults, syncs>>

-----------------------------------------------------------------------------
(* First pipeline node: ChirpstackTrafficRouter.handle_upstream *)

\* (A device found by its address has its session key: ChirpStack gives both.)
Verdict(u) ==
    LET c == ContextOf[u[1]]
        d == device[c]
    IN CASE Kind[c] = "other"                 -> "NotSupported"
         [] Kind[c] # "other" /\ ~d.found     -> "DeviceNotFound"
         [] Kind[c] = "join" /\ d.found /\ ~d.hasKey
                                              -> "InternalError"
         [] OTHER -> IF d.verifies = u[2] THEN "Ack" ELSE "MicChallengeFail"

\* The node takes an uplink when its pool has room; the handler runs up to
\* its publish, or to its reject, without suspending.
HandleUplink ==
    /\ uplinkQ # << >>
    /\ Cardinality(Publishing) < StepPoolSize
    /\ uplinkQ' = Tail(uplinkQ)
    /\ LET u == Head(uplinkQ)
           v == Verdict(u)
       IN \/ /\ v = "Ack"
             /\ challenge' = [challenge EXCEPT ![u] = "publishing"]
             /\ \E kept \in AfterClean(contexts) :
                    contexts' = kept \cup {ContextOf[u[1]]}
             /\ UNCHANGED resultQ
          \/ /\ v # "Ack"
             /\ challenge' = [challenge EXCEPT ![u] = "result"]
             /\ resultQ' = Append(resultQ, [uplink |-> u, verdict |-> v])
             /\ UNCHANGED contexts
    /\ UNCHANGED <<ranVars, forwarded, dupVars, device, faults, syncs>>

\* What the frame carries that is looked at here: the payload and its MIC.
Frame(u) == <<ContextOf[u[1]], u[2]>>

\* publish() returned: the ack is put in the queue of the second node.
Published(u) ==
    /\ challenge[u] = "publishing"
    /\ forwarded' = forwarded \cup {Frame(u)}
    /\ challenge' = [challenge EXCEPT ![u] = "result"]
    /\ resultQ' = Append(resultQ, [uplink |-> u, verdict |-> "Ack"])
    /\ UNCHANGED <<ranVars, uplinkQ, contexts, dupVars, device, faults, syncs>>

\* (variant for mutation) the error of publish() is swallowed in the handler
PublishFailsAcked(u) ==
    /\ challenge[u] = "publishing"
    /\ faults < MaxFaults
    /\ faults' = faults + 1
    /\ challenge' = [challenge EXCEPT ![u] = "result"]
    /\ resultQ' = Append(resultQ, [uplink |-> u, verdict |-> "Ack"])
    /\ UNCHANGED <<ranVars, uplinkQ, forwarded, contexts, dupVars, device, syncs>>

\* publish() raised: PipelineNode logs it and there is no result.
PublishFails(u) ==
    /\ challenge[u] = "publishing"
    /\ faults < MaxFaults
    /\ faults' = faults + 1
    /\ challenge' = [challenge EXCEPT ![u] = "lost"]
    /\ UNCHANGED <<ranVars, uplinkQ, resultQ, forwarded, contexts, dupVars,
                   device, syncs>>

-----------------------------------------------------------------------------
(* Second node: RanTrafficRouter.handle_upstream_ack_or_reject *)

\* The handler is suspended in self.upstream.send_upstream_...; without a
\* connection self.upstream is None and the call raises.
StartSend(u, state) ==
    /\ challenge' = [challenge EXCEPT ![u] = IF upstream THEN state ELSE "lost"]
    /\ UNCHANGED micTries

\* (variants for mutation) a failure counts twice; it is not counted
CountFailureTwice(u) ==
    /\ micTries' = [micTries EXCEPT ![u[1]] = @ - 2]
    /\ challenge' = [challenge EXCEPT ![u] = "counted"]

CountFailureNot(u) ==
    /\ challenge' = [challenge EXCEPT ![u] = "counted"]
    /\ UNCHANGED micTries

CountFailure(u) ==
    /\ micTries' = [micTries EXCEPT ![u[1]] = @ - 1]
    /\ challenge' = [challenge EXCEPT ![u] = "counted"]

\* (variants for mutation) the last try is taken one too early, or too late
LastTryTooEarly(t) == micTries[t] <= 2
LastTryTooLate(t)  == micTries[t] = 0

\* "Means this mic-challenge try is last try": no other uplink of the
\* transaction is left to fail or to be acked.
LastTry(t) == micTries[t] = 1

\* UplinkAckSync.set_ack: Cache.set again, so another entry may expire.
SetAck(c, mic) ==
    \E kept \in AfterClean({d \in Contexts : ackCache[d] # 0}) :
        ackCache' = [d \in Contexts |-> IF d = c THEN mic
                                        ELSE IF d \in kept THEN ackCache[d]
                                        ELSE 0]

Closed(u) == u[1] \notin tracked \/ u[1] \notin live

HandleResult ==
    /\ resultQ # << >>
    /\ Cardinality(Answering) < StepPoolSize
    /\ resultQ' = Tail(resultQ)
    /\ LET u == Head(resultQ).uplink
           v == Head(resultQ).verdict
       IN \/ /\ Closed(u)
             /\ challenge' = [challenge EXCEPT ![u] = "dropped"]
             /\ UNCHANGED <<ackCache, micTries>>
          \/ /\ ~Closed(u) /\ v = "Ack"
             /\ SetAck(ContextOf[u[1]], u[2])
             /\ StartSend(u, "send_ack")
          \/ /\ ~Closed(u) /\ v = "MicChallengeFail"
             /\ IF LastTry(u[1]) THEN StartSend(u, "send_mic_failed")
                                ELSE CountFailure(u)
             /\ UNCHANGED ackCache
          \/ /\ ~Closed(u) /\ v \in {"DeviceNotFound", "NotSupported"}
             /\ StartSend(u, "send_other")
             /\ UNCHANGED ackCache
          \/ /\ ~Closed(u) /\ v = "InternalError"
             /\ CountFailure(u)
             /\ UNCHANGED ackCache
    /\ UNCHANGED <<upstream, role, known, live, tracked, sent, uplinkQ,
                   forwarded, contexts, waiter, submitter, dupMic, ackSync, device,
                   faults, syncs>>

\* The send returned; "del" of an entry that is gone raises KeyError, which
\* PipelineNode logs: either way the entry is gone.
AnswerSent(u) ==
    /\ \/ /\ challenge[u] = "send_ack"
          /\ Send(u[1], "ack", u[2])
          /\ challenge' = [challenge EXCEPT ![u] = "acked"]
       \/ /\ challenge[u] = "send_mic_failed"
          /\ Send(u[1], "mic_failed", 0)
          /\ challenge' = [challenge EXCEPT ![u] = "mic_failed"]
       \/ /\ challenge[u] = "send_other"
          /\ Send(u[1], "other", 0)
          /\ challenge' = [challenge EXCEPT ![u] = "refused"]
    /\ tracked' = tracked \ {u[1]}
    /\ UNCHANGED <<upstream, role, known, live, micTries, uplinkQ, resultQ,
                   forwarded, contexts, dupVars, device, faults, syncs>>

-----------------------------------------------------------------------------
(* UplinkAckSync and _submit_ack_when_available: answers to duplicates *)

\* _ack_submitters_pool.add got a slot and started the submitter.
SubmitterAdded(t) ==
    /\ submitter[t] = "pool_wait"
    /\ Cardinality(Submitting) < SubmitPoolSize
    /\ submitter' = [submitter EXCEPT ![t] = "waiting"]
    /\ UNCHANGED <<ranVars, pipeVars, ackCache, waiter, dupMic, ackSync, device,
                   faults, syncs>>

\* One pass of __loop_pass: no await, so atomic.  A waiter is in the sets it
\* walks until its done callback has run.  set_result on a cancelled one
\* raises InvalidStateError: the pass stops there and the task ends.
Ready(state) == {t \in Transactions : /\ waiter[t] = state
                                      /\ ackCache[ContextOf[t]] # 0}

Resolve(ts) ==
    /\ waiter' = [t \in Transactions |-> IF t \in ts THEN "set" ELSE waiter[t]]
    /\ dupMic' = [t \in Transactions |->
                    IF t \in ts THEN ackCache[ContextOf[t]] ELSE dupMic[t]]

AckSyncPass ==
    /\ ackSync
    /\ \/ /\ Ready("pending") # {} /\ Ready("cancelled") = {}
          /\ Resolve(Ready("pending"))
          /\ UNCHANGED ackSync
       \/ /\ Ready("cancelled") # {}
          /\ \E ts \in SUBSET Ready("pending") : Resolve(ts)
          /\ ackSync' = FALSE
    /\ UNCHANGED <<ranVars, pipeVars, ackCache, submitter, device, faults, syncs>>

\* wait_for returned the ack.
WaiterResolved(t) ==
    /\ submitter[t] = "waiting"
    /\ waiter[t] = "set"
    /\ submitter' = [submitter EXCEPT ![t] = IF upstream THEN "send_ack"
                                                         ELSE "done"]
    /\ UNCHANGED <<ranVars, pipeVars, ackCache, waiter, dupMic, ackSync, device,
                   faults, syncs>>

\* 20 s are over: wait_for cancels the future; the callback that takes it out
\* of the waiters is only scheduled.
WaiterTimeout(t) ==
    /\ submitter[t] = "waiting"
    /\ waiter[t] = "pending"
    /\ waiter' = [waiter EXCEPT ![t] = "cancelled"]
    /\ submitter' = [submitter EXCEPT ![t] = "timed_out"]
    /\ UNCHANGED <<ranVars, pipeVars, ackCache, dupMic, ackSync, device, faults,
                   syncs>>

\* (variant for mutation) the duplicate is given up without a reject
TimeoutRaisedSilently(t) ==
    /\ submitter[t] = "timed_out"
    /\ waiter' = [waiter EXCEPT ![t] = "none"]
    /\ submitter' = [submitter EXCEPT ![t] = "done"]
    /\ UNCHANGED <<ranVars, pipeVars, ackCache, dupMic, ackSync, device, faults,
                   syncs>>

\* The callback ran and the submitter sees TimeoutError.
TimeoutRaised(t) ==
    /\ submitter[t] = "timed_out"
    /\ waiter' = [waiter EXCEPT ![t] = "none"]
    /\ submitter' = [submitter EXCEPT ![t] = IF upstream THEN "send_reject"
                                                         ELSE "done"]
    /\ UNCHANGED <<ranVars, pipeVars, ackCache, dupMic, ackSync, device, faults,
                   syncs>>

DuplicateSent(t) ==
    /\ \/ submitter[t] \in {"send_cached", "send_ack"} /\ Send(t, "ack", dupMic[t])
       \/ submitter[t] = "send_reject" /\ Send(t, "mic_failed", 0)
    /\ submitter' = [submitter EXCEPT ![t] = "done"]
    /\ UNCHANGED <<upstream, role, known, live, tracked, micTries, pipeVars,
                   ackCache, waiter, dupMic, ackSync, device, faults, syncs>>

-----------------------------------------------------------------------------
(* Connection and device list *)

ConnectionLost ==
    /\ upstream
    /\ faults < MaxFaults
    /\ faults' = faults + 1
    /\ DropConnection
    /\ challenge' = LoseSends(challenge)
    /\ UNCHANGED <<role, known, live, tracked, micTries, sent, uplinkQ, resultQ,
                   forwarded, contexts, ackCache, waiter, dupMic, ackSync, device,
                   syncs>>

\* RanTrafficRouter.run starts both loops again after its delay.
Reconnected ==
    /\ ~upstream
    /\ upstream' = TRUE
    /\ UNCHANGED <<role, known, live, tracked, micTries, sent, pipeVars, dupVars,
                   device, faults, syncs>>

\* A device list sync or a join changed what the payload's device verifies.
DeviceSynced(c) ==
    /\ Kind[c] # "malformed"
    /\ syncs < MaxSyncs
    /\ syncs' = syncs + 1
    /\ \E d \in Device : d # device[c] /\ device' = [device EXCEPT ![c] = d]
    /\ UNCHANGED <<ranVars, pipeVars, dupVars, faults>>

Next ==
    \/ \E t \in Transactions :
          \/ ReceiveNew(t) \/ ReceiveMalformed(t) \/ ReceiveDuplicate(t)
          \/ SubmitterAdded(t) \/ WaiterResolved(t) \/ WaiterTimeout(t)
          \/ TimeoutRaised(t) \/ DuplicateSent(t)
    \/ \E u \in Uplinks : Published(u) \/ PublishFails(u) \/ AnswerSent(u)
    \/ HandleUplink \/ HandleResult \/ AckSyncPass
    \/ ConnectionLost \/ Reconnected
    \/ \E c \in Contexts : DeviceSynced(c)

Spec == Init /\ [][Next]_vars

-----------------------------------------------------------------------------
(* Fairness: tasks of one asyncio loop all get to run, socket writes and     *)
(* publishes return or raise, timers fire, RanTrafficRouter.run reconnects.  *)
(* Nothing is assumed of RAN's messages, of faults or of device list syncs.  *)

Fairness ==
    /\ \A t \in Transactions : /\ WF_vars(SubmitterAdded(t))
                               /\ WF_vars(WaiterResolved(t))
                               /\ WF_vars(WaiterTimeout(t))
                               /\ WF_vars(TimeoutRaised(t))
                               /\ WF_vars(DuplicateSent(t))
    /\ \A u \in Uplinks : /\ WF_vars(Published(u))
                          /\ WF_vars(AnswerSent(u))
    /\ WF_vars(HandleUplink)
    /\ WF_vars(HandleResult)
    /\ WF_vars(AckSyncPass)
    /\ WF_vars(Reconnected)

LiveSpec == Spec /\ Fairness

-----------------------------------------------------------------------------
(* Safety *)

\* RAN is never told of one transaction both that its MIC challenge is solved
\* and that it failed, whatever is lost, expires or changes in between: the
\* tries of _mic_tries_count are shared by concurrent handlers that suspend
\* between reading and deleting them (ran.py:202-255).
NoAckAndMicFailed ==
    \A t \in Transactions : ~(Answered(t, "ack") /\ Answered(t, "mic_failed"))

\* The router gives up on an original only when the uplink of every MIC of the
\* challenge has come back as a failure (ran.py:224-236), even if several of
\* them are handled at once.
MicFailedMeansAllTried ==
    \A t \in Transactions :
        role[t] = "original" /\ Answered(t, "mic_failed") =>
            \E last \in 1 .. Challenges[t] :
                /\ challenge[<<t, last>>] = "mic_failed"
                /\ \A i \in (1 .. Challenges[t]) \ {last} :
                       challenge[<<t, i>>] = "counted"

\* An ack, of an original or of a duplicate (from the ack cache or from a
\* waiter), names a MIC under which the payload really went to ChirpStack.
AckMeansForwarded ==
    \A t \in Transactions : \A k \in DOMAIN sent[t] :
        sent[t][k].kind = "ack" => <<ContextOf[t], sent[t][k].mic>> \in forwarded

\* As long as the device list stands still, answers to one transaction never
\* disagree (a refusal may be repeated, one per MIC being handled, but is not
\* contradicted), with lost connections, failed publishes and expired entries.
AnswersAgree ==
    syncs = 0 =>
        \A t \in Transactions :
            \A j, k \in DOMAIN sent[t] : sent[t][j] = sent[t][k]

\* Without faults an entry of _mic_tries_count always has an uplink left that
\* will close it: no original is forgotten.  (A failed publish, a lost send, an
\* InternalError or an expired entry do leave one behind for good.)
Pending == {"queued", "publishing", "result"} \cup Sending
NoOrphan ==
    faults = 0 =>
        \A t \in tracked : \E i \in 1 .. Challenges[t] : challenge[<<t, i>>] \in Pending

\* The uplink path is an implementation of UplinkContract: whatever handlers,
\* queues, caches, timers, faults and device list changes do, what RAN is told
\* of a message is one reject of its challenge or else honest acks and
\* refusals, at most one per MIC, and ChirpStack sees only what RAN delivered.
Contract == INSTANCE UplinkContract
                WITH heard  <- {t \in Transactions : role[t] # "new"},
                     frames <- forwarded,
                     told   <- sent
ContractKept == Contract!Spec

\* "Copy, because future's done_callback will call .discard() on result set"
\* (ran.py:84): the pass relies on finished futures leaving the set at once.
\* They leave it one loop iteration later, and a pass that meets a timed out
\* one ends the task for good.
AckSyncAlive == ackSync

-----------------------------------------------------------------------------
(* Liveness *)

\* Every original is answered, unless a publish failed or the connection broke.
OriginalAnswered ==
    \A t \in Transactions :
        role[t] = "original" ~> sent[t] # << >> \/ faults > 0

\* So is every duplicate, even if the ack sync task died: its 20 s timer runs.
DuplicateAnswered ==
    \A t \in Transactions :
        role[t] = "duplicate" ~> sent[t] # << >> \/ faults > 0

\* The loop over the stream never stays blocked on a full submitter pool or on
\* a send, with faults too: the timers bound how long a slot is taken.
LoopComesBack == LoopBusy ~> ~LoopBusy
=============================================================================
