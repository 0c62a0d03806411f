------------------------ MODULE UplinkContractProofs ------------------------
(***************************************************************************)
(* Proof that Upstream implements UplinkContract, and with it that an ack  *)
(* names a MIC under which the payload went to ChirpStack, for every value *)
(* of the constants.                                                       *)
(*                                                                         *)
(* Two more facts than those of UpstreamProofs are needed.  Whatever an    *)
(* ack can be taken from - a result, a send under way, the ack cache, a    *)
(* waiter's future, a duplicate being answered - names a forwarded frame   *)
(* (AckSources).  And an original has as many answers as it has uplinks    *)
(* that were answered (AnswerCount), which bounds them by its MICs.        *)
(***************************************************************************)
EXTENDS UpstreamProofs

Final == {"acked", "mic_failed", "refused"}
FinalMics(t) == {i \in 1 .. Challenges[t] : challenge[<<t, i>>] \in Final}

ResultsForwarded ==
    \A k \in 1 .. Len(resultQ) :
        resultQ[k].verdict = "Ack" => Frame(resultQ[k].uplink) \in forwarded

SendsForwarded ==
    \A u \in Uplinks : challenge[u] = "send_ack" => Frame(u) \in forwarded

CacheForwarded ==
    \A c \in Contexts : ackCache[c] # 0 => <<c, ackCache[c]>> \in forwarded

DuplicatesForwarded ==
    \A t \in Transactions :
        waiter[t] = "set" \/ submitter[t] \in {"send_cached", "send_ack"} =>
            <<ContextOf[t], dupMic[t]>> \in forwarded

AckSources == /\ ResultsForwarded
              /\ SendsForwarded
              /\ CacheForwarded
              /\ DuplicatesForwarded

AnswerCount ==
    \A t \in Transactions :
        role[t] = "original" => Len(sent[t]) = Cardinality(FinalMics(t))

CInv == AckSources /\ AnswerCount

\* What a step of Upstream is to do.
Implements == CInv' /\ [Contract!Next]_(Contract!vars)

-----------------------------------------------------------------------------
(* The initial state *)

LEMMA InitCInv == Init => CInv /\ Contract!Init
  <1> SUFFICES ASSUME Init PROVE CInv /\ Contract!Init
    OBVIOUS
  <1>1. AckSources
    BY DEF Init, AckSources, ResultsForwarded, SendsForwarded, CacheForwarded,
           DuplicatesForwarded, Uplinks
  <1>2. AnswerCount
    BY DEF Init, AnswerCount
  <1>3. Contract!Init
    BY DEF Init, Contract!Init
  <1>4. QED
    BY <1>1, <1>2, <1>3 DEF CInv

-----------------------------------------------------------------------------
(* Steps the contract does not see *)

\* No answer, no frame, no message: the mapped state stands still.
LEMMA SilentStep ==
    ASSUME CInv, AckSources', UNCHANGED <<role, sent, forwarded>>,
           \A t \in Transactions : role[t] = "original" => FinalMics(t)' = FinalMics(t)
    PROVE  Implements
  <1>1. AnswerCount'
    BY DEF CInv, AnswerCount
  <1>2. UNCHANGED Contract!vars
    BY DEF Contract!vars
  <1>3. QED
    BY <1>1, <1>2 DEF CInv, Implements

\* The steps of a submitter, a new connection, a new device list.
LEMMA SubmitterStep ==
    ASSUME IInv, CInv, UNCHANGED <<ranVars, pipeVars, ackCache>>,
           \A t \in Transactions :
              waiter'[t] = "set" \/ submitter'[t] \in {"send_cached", "send_ack"} =>
                 <<ContextOf[t], dupMic'[t]>> \in forwarded
    PROVE  Implements
  <1>1. AckSources'
    BY DEF CInv, AckSources, ResultsForwarded, SendsForwarded, CacheForwarded,
           DuplicatesForwarded, Frame, pipeVars
  <1>2. QED
    BY <1>1, SilentStep DEF FinalMics, ranVars, pipeVars

LEMMA SubmitterAddedStep ==
    ASSUME IInv, CInv, NEW t \in Transactions, SubmitterAdded(t)
    PROVE  Implements
  BY SubmitterStep
  DEF SubmitterAdded, IInv, TypeOK, CInv, AckSources, DuplicatesForwarded

LEMMA WaiterResolvedStep ==
    ASSUME IInv, CInv, NEW t \in Transactions, WaiterResolved(t)
    PROVE  Implements
  BY SubmitterStep
  DEF WaiterResolved, IInv, TypeOK, CInv, AckSources, DuplicatesForwarded

LEMMA WaiterTimeoutStep ==
    ASSUME IInv, CInv, NEW t \in Transactions, WaiterTimeout(t)
    PROVE  Implements
  BY SubmitterStep
  DEF WaiterTimeout, IInv, TypeOK, CInv, AckSources, DuplicatesForwarded

LEMMA TimeoutRaisedStep ==
    ASSUME IInv, CInv, NEW t \in Transactions, TimeoutRaised(t)
    PROVE  Implements
  BY SubmitterStep
  DEF TimeoutRaised, IInv, TypeOK, CInv, AckSources, DuplicatesForwarded

\* A pass hands out acks of the cache, which are of forwarded frames.
LEMMA AckSyncPassStep ==
    ASSUME IInv, CInv, AckSyncPass
    PROVE  Implements
  <1>1. PICK ts \in SUBSET Ready("pending") : Resolve(ts)
    BY DEF AckSyncPass
  <1>2. \A t \in Transactions : ContextOf[t] \in Contexts
    BY ContextAssumption
  <1>3. \A t \in ts : t \in Transactions /\ ackCache[ContextOf[t]] # 0
    BY DEF Ready
  <1>4. \A t \in Transactions :
           waiter'[t] = "set" \/ submitter'[t] \in {"send_cached", "send_ack"} =>
              <<ContextOf[t], dupMic'[t]>> \in forwarded
    <2> TAKE t \in Transactions
    <2>1. CASE t \in ts
      BY <1>1, <1>2, <1>3, <2>1
      DEF Resolve, CInv, AckSources, CacheForwarded
    <2>2. CASE t \notin ts
      BY <1>1, <2>2
      DEF Resolve, AckSyncPass, CInv, AckSources, DuplicatesForwarded
    <2>3. QED
      BY <2>1, <2>2
  <1>5. QED
    BY <1>4, SubmitterStep DEF AckSyncPass

LEMMA ReconnectedStep ==
    ASSUME IInv, CInv, Reconnected
    PROVE  Implements
  <1>1. AckSources'
    BY DEF Reconnected, CInv, AckSources, ResultsForwarded, SendsForwarded,
           CacheForwarded, DuplicatesForwarded, Frame, pipeVars, dupVars
  <1>2. QED
    BY <1>1, SilentStep DEF Reconnected, FinalMics, pipeVars

LEMMA DeviceSyncedStep ==
    ASSUME IInv, CInv, NEW c \in Contexts, DeviceSynced(c)
    PROVE  Implements
  <1>1. UNCHANGED <<ranVars, pipeVars, dupVars>>
    BY DEF DeviceSynced
  <1>2. QED
    BY <1>1, SubmitterStep DEF dupVars, CInv, AckSources, DuplicatesForwarded

\* A lost connection ends sends, it adds no source of acks.
LEMMA LoseSendsFinal ==
    ASSUME IInv, challenge' = LoseSends(challenge)
    PROVE  /\ \A u \in Uplinks : challenge'[u] # "send_ack"
           /\ \A t \in Transactions : FinalMics(t)' = FinalMics(t)
  <1>1. \A u \in Uplinks :
           /\ challenge[u] \notin Sending => challenge'[u] = challenge[u]
           /\ challenge[u] \in Sending => challenge'[u] = "lost"
    BY LoseSendsFacts DEF IInv
  <1>2. \A t \in Transactions : \A i \in 1 .. Challenges[t] : <<t, i>> \in Uplinks
    BY UplinkPairs, ChallengesType
  <1>3. \A t \in Transactions : FinalMics(t)' = FinalMics(t)
    BY <1>1, <1>2 DEF FinalMics, Final, Sending
  <1>4. QED
    BY <1>1, <1>3 DEF Sending

LEMMA DropConnectionSources ==
    ASSUME IInv, CInv, DropConnection, challenge' = LoseSends(challenge),
           UNCHANGED <<resultQ, forwarded, ackCache, waiter, dupMic>>
    PROVE  AckSources'
  <1>1. SendsForwarded'
    BY LoseSendsFinal DEF SendsForwarded
  <1>2. ResultsForwarded' /\ CacheForwarded'
    BY DEF CInv, AckSources, ResultsForwarded, CacheForwarded, Frame
  <1>3. DuplicatesForwarded'
    <2>1. \A t \in Transactions : submitter'[t] \notin {"send_cached", "send_ack"}
      BY DEF DropConnection, LoopStates, DupSending
    <2>2. QED
      BY <2>1 DEF CInv, AckSources, DuplicatesForwarded
  <1>4. QED
    BY <1>1, <1>2, <1>3 DEF AckSources

LEMMA ConnectionLostStep ==
    ASSUME IInv, CInv, ConnectionLost
    PROVE  Implements
  <1>1. AckSources'
    BY DropConnectionSources DEF ConnectionLost
  <1>2. QED
    BY <1>1, LoseSendsFinal, SilentStep DEF ConnectionLost

-----------------------------------------------------------------------------
(* A message is heard *)

LEMMA HearStep ==
    ASSUME NEW t \in Transactions, role[t] = "new",
           role' \in [Transactions -> {"new", "original", "duplicate"}],
           role'[t] # "new",
           \A s \in Transactions \ {t} : role'[s] = role[s],
           UNCHANGED <<forwarded, sent>>
    PROVE  Contract!Next
  <1>1. {s \in Transactions : role'[s] # "new"}
            = {s \in Transactions : role[s] # "new"} \cup {t}
    OBVIOUS
  <1>2. Contract!Hear(t)
    BY <1>1 DEF Contract!Hear
  <1>3. QED
    BY <1>2 DEF Contract!Next

LEMMA ReceiveDuplicateStep ==
    ASSUME IInv, CInv, NEW t \in Transactions, ReceiveDuplicate(t)
    PROVE  Implements
  <1>1. role[t] = "new" /\ ContextOf[t] \in Contexts
    BY ContextAssumption DEF ReceiveDuplicate, CanReceive
  <1>2. /\ role' \in [Transactions -> {"new", "original", "duplicate"}]
        /\ role'[t] = "duplicate"
        /\ \A s \in Transactions \ {t} : role'[s] = role[s]
    BY DEF ReceiveDuplicate, IInv, TypeOK
  <1>3. Contract!Next
    BY <1>1, <1>2, HearStep DEF ReceiveDuplicate, pipeVars
  <1>4. ResultsForwarded' /\ SendsForwarded' /\ CacheForwarded'
    BY DEF ReceiveDuplicate, CInv, AckSources, ResultsForwarded, SendsForwarded,
           CacheForwarded, Frame, pipeVars
  <1>5. DuplicatesForwarded'
    BY <1>1 DEF ReceiveDuplicate, IInv, TypeOK, CInv, AckSources,
                DuplicatesForwarded, CacheForwarded, pipeVars
  <1>6. AnswerCount'
    BY <1>2 DEF ReceiveDuplicate, CInv, AnswerCount, FinalMics, pipeVars
  <1>7. QED
    BY <1>3, <1>4, <1>5, <1>6 DEF CInv, AckSources, Implements

\* A new original has no answer and no uplink that had one.
LEMMA RegisteredCount ==
    ASSUME IInv, CInv, NEW t \in Transactions, Registered(t), sent' = sent,
           FinalMics(t)' = {},
           \A s \in Transactions \ {t} : FinalMics(s)' = FinalMics(s)
    PROVE  AnswerCount'
  BY FS_EmptySet DEF Registered, CInv, AnswerCount

LEMMA ReceiveNewStep ==
    ASSUME IInv, CInv, NEW t \in Transactions, ReceiveNew(t)
    PROVE  Implements
  <1>1. Registered(t) /\ role[t] = "new"
    BY RegisterFacts DEF ReceiveNew, CanReceive
  <1>2. Contract!Next
    BY <1>1, HearStep DEF ReceiveNew, Registered
  <1>3. /\ \A s \in Transactions \ {t} : \A m \in Mics :
             challenge'[<<s, m>>] = challenge[<<s, m>>]
        /\ \A m \in Mics : challenge'[<<t, m>>] \in {"queued", "none"}
    BY <1>1, UplinkPairs DEF IInv, TypeOK, ReceiveNew, Registered
  <1>4. FinalMics(t)' = {}
    BY <1>3, ChallengesType DEF FinalMics, Final
  <1>5. \A s \in Transactions \ {t} : FinalMics(s)' = FinalMics(s)
    BY <1>3, ChallengesType DEF FinalMics
  <1>6. AnswerCount'
    BY <1>1, <1>4, <1>5, RegisteredCount DEF ReceiveNew
  <1>7. SendsForwarded'
    BY DEF ReceiveNew, IInv, TypeOK, CInv, AckSources, SendsForwarded, Frame
  <1>8. ResultsForwarded' /\ CacheForwarded' /\ DuplicatesForwarded'
    BY DEF ReceiveNew, CInv, AckSources, ResultsForwarded, CacheForwarded,
           DuplicatesForwarded, Frame, dupVars
  <1>9. QED
    BY <1>2, <1>6, <1>7, <1>8 DEF CInv, AckSources, Implements

LEMMA ReceiveMalformedStep ==
    ASSUME IInv, CInv, NEW t \in Transactions, ReceiveMalformed(t)
    PROVE  Implements
  <1>1. Registered(t) /\ role[t] = "new"
    BY RegisterFacts DEF ReceiveMalformed, CanReceive
  <1>2. Contract!Next
    BY <1>1, HearStep DEF ReceiveMalformed, Registered
  <1>3. \A s \in Transactions : FinalMics(s)' = FinalMics(s)
    BY LoseSendsFinal DEF ReceiveMalformed
  <1>4. FinalMics(t) = {}
    BY <1>1, ChallengesType DEF FinalMics, Final, Registered
  <1>5. AnswerCount'
    BY <1>1, <1>3, <1>4, RegisteredCount DEF ReceiveMalformed
  <1>6. AckSources'
    BY DropConnectionSources DEF ReceiveMalformed
  <1>7. QED
    BY <1>2, <1>5, <1>6 DEF CInv, Implements

-----------------------------------------------------------------------------
(* The pipeline *)

\* An uplink moves between states that are not final.
LEMMA FinalKept ==
    ASSUME IInv, NEW u \in Uplinks, NEW state, state \notin Final,
           challenge[u] \notin Final,
           challenge' = [challenge EXCEPT ![u] = state]
    PROVE  \A t \in Transactions : FinalMics(t)' = FinalMics(t)
  <1>1. \A w \in Uplinks : challenge'[w] \in Final <=> challenge[w] \in Final
    BY DEF IInv, TypeOK
  <1>2. \A t \in Transactions : \A i \in 1 .. Challenges[t] : <<t, i>> \in Uplinks
    BY UplinkPairs, ChallengesType
  <1>3. QED
    BY <1>1, <1>2 DEF FinalMics

\* A result is appended; if it is an ack, its frame was forwarded.
LEMMA AppendResult ==
    ASSUME IInv, CInv, NEW u \in Uplinks, NEW v \in Verdicts,
           resultQ' = Append(resultQ, [uplink |-> u, verdict |-> v]),
           forwarded \subseteq forwarded',
           v = "Ack" => Frame(u) \in forwarded'
    PROVE  ResultsForwarded'
  <1> DEFINE r == [uplink |-> u, verdict |-> v]
  <1>1. r \in Result /\ r.uplink = u /\ r.verdict = v
    BY DEF Result
  <1>2. resultQ \in Seq(Result) /\ resultQ' = Append(resultQ, r)
    BY DEF IInv, TypeOK
  <1> HIDE DEF r
  <1>3. /\ Len(resultQ') = Len(resultQ) + 1
        /\ \A k \in 1 .. Len(resultQ) : resultQ'[k] = resultQ[k]
        /\ resultQ'[Len(resultQ) + 1] = r
        /\ Len(resultQ) \in Nat
    BY <1>1, <1>2, AppendProperties, LenProperties
  <1>4. ResultsForwarded
    BY DEF CInv, AckSources
  <1>5. SUFFICES ASSUME NEW k \in 1 .. Len(resultQ'), resultQ'[k].verdict = "Ack"
                 PROVE  Frame(resultQ'[k].uplink) \in forwarded'
    BY DEF ResultsForwarded, Frame
  <1>6. CASE k \in 1 .. Len(resultQ)
    BY <1>3, <1>4, <1>5, <1>6 DEF ResultsForwarded, Frame
  <1>7. CASE k = Len(resultQ) + 1
    BY <1>1, <1>3, <1>5, <1>7
  <1>8. QED
    BY <1>3, <1>6, <1>7

\* The tail of the results still names forwarded frames, and so does its head.
LEMMA HeadTailForwarded ==
    ASSUME IInv, CInv, resultQ # << >>
    PROVE  /\ \A k \in 1 .. Len(Tail(resultQ)) :
                 Tail(resultQ)[k].verdict = "Ack" =>
                    Frame(Tail(resultQ)[k].uplink) \in forwarded
           /\ Head(resultQ).verdict = "Ack" =>
                 Frame(Head(resultQ).uplink) \in forwarded
  <1>1. resultQ \in Seq(Result)
    BY DEF IInv, TypeOK
  <1>2. /\ Len(resultQ) \in Nat \ {0} /\ Head(resultQ) = resultQ[1]
        /\ Len(Tail(resultQ)) = Len(resultQ) - 1
        /\ \A k \in 1 .. Len(Tail(resultQ)) : Tail(resultQ)[k] = resultQ[k + 1]
    BY <1>1, EmptySeq, HeadTailProperties
  <1>3. \A k \in 1 .. Len(Tail(resultQ)) : k + 1 \in 1 .. Len(resultQ)
    BY <1>2
  <1>4. QED
    BY <1>2, <1>3 DEF CInv, AckSources, ResultsForwarded

LEMMA HandleUplinkStep ==
    ASSUME IInv, CInv, HandleUplink
    PROVE  Implements
  <1> DEFINE u == Head(uplinkQ)
             v == Verdict(u)
  <1>1. u \in Uplinks /\ challenge[u] = "queued"
    BY HeadOfUplinks DEF HandleUplink
  <1>2. v \in Verdicts
    BY DEF Verdict, Verdicts
  <1>3. \/ /\ challenge' = [challenge EXCEPT ![u] = "publishing"]
           /\ UNCHANGED resultQ
        \/ /\ v # "Ack"
           /\ challenge' = [challenge EXCEPT ![u] = "result"]
           /\ resultQ' = Append(resultQ, [uplink |-> u, verdict |-> v])
    BY DEF HandleUplink
  <1>4. UNCHANGED <<ranVars, forwarded, dupVars>>
    BY DEF HandleUplink
  <1> HIDE DEF u, v
  <1>5. \A t \in Transactions : FinalMics(t)' = FinalMics(t)
    BY <1>1, <1>3, FinalKept DEF Final
  <1>6. SendsForwarded'
    BY <1>1, <1>3, <1>4 DEF IInv, TypeOK, CInv, AckSources, SendsForwarded, Frame
  <1>7. ResultsForwarded'
    <2>1. CASE UNCHANGED resultQ
      BY <1>4, <2>1 DEF CInv, AckSources, ResultsForwarded, Frame
    <2>2. CASE v # "Ack" /\ resultQ' = Append(resultQ, [uplink |-> u, verdict |-> v])
      BY <1>1, <1>2, <1>4, <2>2, AppendResult
    <2>3. QED
      BY <1>3, <2>1, <2>2
  <1>8. CacheForwarded' /\ DuplicatesForwarded'
    BY <1>4 DEF CInv, AckSources, CacheForwarded, DuplicatesForwarded, dupVars
  <1>9. QED
    BY <1>4, <1>5, <1>6, <1>7, <1>8, SilentStep DEF AckSources, ranVars

LEMMA PublishFailsStep ==
    ASSUME IInv, CInv, NEW u \in Uplinks, PublishFails(u)
    PROVE  Implements
  <1>1. \A t \in Transactions : FinalMics(t)' = FinalMics(t)
    BY FinalKept DEF PublishFails, Final
  <1>2. SendsForwarded'
    BY DEF PublishFails, IInv, TypeOK, CInv, AckSources, SendsForwarded, Frame
  <1>3. ResultsForwarded' /\ CacheForwarded' /\ DuplicatesForwarded'
    BY DEF PublishFails, CInv, AckSources, ResultsForwarded, CacheForwarded,
           DuplicatesForwarded, Frame, dupVars
  <1>4. QED
    BY <1>1, <1>2, <1>3, SilentStep DEF PublishFails, AckSources, ranVars

LEMMA PublishedStep ==
    ASSUME IInv, CInv, NEW u \in Uplinks, Published(u)
    PROVE  Implements
  <1>1. /\ forwarded' = forwarded \cup {Frame(u)}
        /\ challenge' = [challenge EXCEPT ![u] = "result"]
        /\ resultQ' = Append(resultQ, [uplink |-> u, verdict |-> "Ack"])
        /\ UNCHANGED <<ranVars, dupVars>>
    BY DEF Published
  <1>2. \A t \in Transactions : FinalMics(t)' = FinalMics(t)
    BY FinalKept DEF Published, Final
  <1>3. AnswerCount'
    BY <1>1, <1>2 DEF CInv, AnswerCount, ranVars
  <1>4. ResultsForwarded'
    BY <1>1, AppendResult DEF Verdicts
  <1>5. SendsForwarded'
    BY <1>1 DEF IInv, TypeOK, CInv, AckSources, SendsForwarded, Frame
  <1>6. CacheForwarded' /\ DuplicatesForwarded'
    BY <1>1 DEF CInv, AckSources, CacheForwarded, DuplicatesForwarded, dupVars
  <1>7. Contract!Next
    <2> DEFINE t == u[1]
               m == u[2]
    <2>1. t \in Transactions /\ m \in Mics /\ u = <<t, m>>
      BY UplinkPairs
    <2>2. role[t] = "original" /\ m <= Challenges[t]
      BY <2>1 DEF Published, IInv, ChallengeOK
    <2>3. Contract!Forward(t, m)
      BY <1>1, <2>1, <2>2 DEF Contract!Forward, Frame, ranVars
    <2>4. QED
      BY <2>1, <2>3 DEF Contract!Next, Mics
  <1>8. QED
    BY <1>3, <1>4, <1>5, <1>6, <1>7 DEF CInv, AckSources, Implements

LEMMA HandleResultStep ==
    ASSUME IInv, CInv, HandleResult
    PROVE  Implements
  <1> DEFINE u == Head(resultQ).uplink
             v == Head(resultQ).verdict
  <1>1. u \in Uplinks /\ challenge[u] = "result"
    BY HeadOfResults DEF HandleResult, Result
  <1>2. v = "Ack" => Frame(u) \in forwarded
    BY HeadTailForwarded DEF HandleResult
  <1>3. ResultsForwarded'
    BY HeadTailForwarded DEF HandleResult, ResultsForwarded, Frame
  <1>4. PICK state : /\ challenge' = [challenge EXCEPT ![u] = state]
                     /\ state \notin Final
                     /\ state = "send_ack" => v = "Ack"
    BY Zenon DEF HandleResult, StartSend, CountFailure, Final
  <1>5. UNCHANGED <<role, sent, forwarded, waiter, submitter, dupMic>>
    BY DEF HandleResult
  <1>6. \/ UNCHANGED ackCache
        \/ v = "Ack" /\ SetAck(ContextOf[u[1]], u[2])
    BY DEF HandleResult
  <1> HIDE DEF u, v
  <1>7. \A t \in Transactions : FinalMics(t)' = FinalMics(t)
    BY <1>1, <1>4, FinalKept DEF Final
  <1>8. SendsForwarded'
    BY <1>1, <1>2, <1>4, <1>5
    DEF IInv, TypeOK, CInv, AckSources, SendsForwarded, Frame
  <1>9. CacheForwarded'
    BY <1>2, <1>5, <1>6 DEF CInv, AckSources, CacheForwarded, SetAck, Frame
  <1>10. DuplicatesForwarded'
    BY <1>5 DEF CInv, AckSources, DuplicatesForwarded
  <1>11. QED
    BY <1>3, <1>5, <1>7, <1>8, <1>9, <1>10, SilentStep DEF AckSources

-----------------------------------------------------------------------------
(* Answers *)

\* A duplicate had no answer before, and its ack is of a forwarded frame.
LEMMA DuplicateSentStep ==
    ASSUME IInv, CInv, NEW t \in Transactions, DuplicateSent(t)
    PROVE  Implements
  <1>1. role[t] \notin {"original", "new"} /\ sent[t] = << >>
    BY DEF DuplicateSent, IInv, OriginalOK, OthersOK
  <1>2. UNCHANGED <<role, pipeVars, ackCache, waiter, dupMic>>
    BY DEF DuplicateSent
  <1>3. AnswerCount'
    <2>1. \A s \in Transactions \ {t} : sent'[s] = sent[s]
      BY DEF DuplicateSent, Send, IInv, TypeOK
    <2>2. QED
      BY <1>1, <1>2, <2>1 DEF CInv, AnswerCount, FinalMics, pipeVars
  <1>4. AckSources'
    BY <1>2 DEF DuplicateSent, IInv, TypeOK, CInv, AckSources, ResultsForwarded,
                SendsForwarded, CacheForwarded, DuplicatesForwarded, Frame, pipeVars
  <1>5. Challenges[t] > Len(sent[t]) /\ ~Contract!GivenUp(t)
    <2>1. Len(sent[t]) = 0 /\ DOMAIN sent[t] = {}
      BY <1>1
    <2>2. Challenges[t] \in Nat /\ Challenges[t] >= 1
      BY ChallengesType DEF Mics
    <2>3. QED
      BY <2>1, <2>2 DEF Contract!GivenUp
  <1>6. UNCHANGED <<{s \in Transactions : role[s] # "new"}, forwarded>>
    BY <1>2 DEF pipeVars
  <1>7. CASE submitter[t] \in {"send_cached", "send_ack"} /\ Send(t, "ack", dupMic[t])
    <2>1. <<ContextOf[t], dupMic[t]>> \in forwarded
      BY <1>7 DEF CInv, AckSources, DuplicatesForwarded
    <2>2. dupMic[t] \in 1 .. MaxMics
      BY <2>1 DEF IInv, TypeOK, Mics
    <2>3. Contract!Ack(t, dupMic[t])
      BY <1>1, <1>5, <1>6, <1>7, <2>1 DEF Contract!Ack, Contract!Tell, Send
    <2>4. QED
      BY <1>3, <1>4, <2>2, <2>3 DEF CInv, Implements, Contract!Next
  <1>8. CASE submitter[t] = "send_reject" /\ Send(t, "mic_failed", 0)
    <2>1. Contract!GiveUp(t)
      BY <1>1, <1>5, <1>6, <1>8 DEF Contract!GiveUp, Contract!Tell, Send
    <2>2. QED
      BY <1>3, <1>4, <2>1 DEF CInv, Implements, Contract!Next
  <1>9. QED
    BY <1>7, <1>8 DEF DuplicateSent

\* The uplink that answers is not final yet, so the answers are fewer than the
\* MICs, and there is one more when it is.
LEMMA OneMoreFinal ==
    ASSUME IInv, CInv, NEW t \in Transactions, NEW m \in Mics,
           role[t] = "original", challenge[<<t, m>>] \in Sending,
           NEW state \in Final, challenge' = [challenge EXCEPT ![<<t, m>>] = state]
    PROVE  /\ Len(sent[t]) < Challenges[t]
           /\ Cardinality(FinalMics(t)') = Len(sent[t]) + 1
           /\ \A s \in Transactions \ {t} : FinalMics(s)' = FinalMics(s)
  <1>1. Challenges[t] \in Nat /\ m \in 1 .. Challenges[t]
    BY ChallengesType DEF IInv, ChallengeOK, Sending, Mics
  <1>2. FinalMics(t) \in SUBSET (1 .. Challenges[t]) /\ m \notin FinalMics(t)
    BY DEF FinalMics, Final, Sending
  <1>3. Len(sent[t]) = Cardinality(FinalMics(t)) /\ Len(sent[t]) \in Nat
    <2>1. sent[t] \in Seq(Answer)
      BY DEF IInv, TypeOK
    <2>2. QED
      BY <2>1, LenProperties DEF CInv, AnswerCount
  <1>4. /\ Cardinality(FinalMics(t)) + 1 <= Challenges[t]
        /\ Cardinality(FinalMics(t) \cup {m}) = Cardinality(FinalMics(t)) + 1
    BY <1>1, <1>2, CountedLess
  <1>5. /\ challenge'[<<t, m>>] \in Final
        /\ \A w \in Uplinks \ {<<t, m>>} : challenge'[w] = challenge[w]
    BY UplinkPairs DEF IInv, TypeOK
  <1>6. \A s \in Transactions : \A i \in 1 .. Challenges[s] :
           <<s, i>> \in Uplinks /\ (<<s, i>> = <<t, m>> <=> s = t /\ i = m)
    BY UplinkPairs, ChallengesType
  <1>7. FinalMics(t)' = FinalMics(t) \cup {m}
    BY <1>1, <1>5, <1>6 DEF FinalMics
  <1>8. \A s \in Transactions \ {t} : FinalMics(s)' = FinalMics(s)
    BY <1>5, <1>6 DEF FinalMics
  <1>9. Cardinality(FinalMics(t)') = Cardinality(FinalMics(t)) + 1
    BY <1>4, <1>7
  <1>10. Len(sent[t]) < Challenges[t]
    BY <1>1, <1>3, <1>4
  <1>11. QED
    BY <1>3, <1>8, <1>9, <1>10

\* An original was not given up while one of its uplinks still answers; if that
\* one gives it up, nothing was said before.
LEMMA NotGivenUp ==
    ASSUME IInv, CInv, NEW t \in Transactions, NEW m \in Mics,
           role[t] = "original", challenge[<<t, m>>] \in Sending
    PROVE  /\ ~Contract!GivenUp(t)
           /\ challenge[<<t, m>>] = "send_mic_failed" => sent[t] = << >>
  <1>1. m \in 1 .. Challenges[t] /\ 1 .. Challenges[t] \subseteq Mics
    BY ChallengesType DEF IInv, ChallengeOK, Sending, Mics
  <1>2. ~Contract!GivenUp(t)
    <2> SUFFICES ASSUME Contract!GivenUp(t) PROVE FALSE
      OBVIOUS
    <2>1. PICK k \in DOMAIN sent[t] : sent[t][k].kind = "mic_failed"
      BY DEF Contract!GivenUp
    <2>2. PICK i \in Mics : challenge[<<t, i>>] = "mic_failed"
      BY <2>1 DEF IInv, OriginalOK
    <2>3. i # m
      BY <2>2 DEF Sending
    <2>4. challenge[<<t, m>>] = "counted"
      BY <1>1, <2>2, <2>3 DEF IInv, LastStanding
    <2>5. QED
      BY <2>4 DEF Sending
  <1>3. ASSUME challenge[<<t, m>>] = "send_mic_failed" PROVE sent[t] = << >>
    <2>1. \A i \in 1 .. Challenges[t] : i # m => challenge[<<t, i>>] = "counted"
      BY <1>3 DEF IInv, LastStanding
    <2>2. FinalMics(t) = {}
      BY <1>3, <2>1 DEF FinalMics, Final
    <2>3. Len(sent[t]) = 0
      BY <2>2, FS_EmptySet DEF CInv, AnswerCount
    <2>4. sent[t] \in Seq(Answer)
      BY DEF IInv, TypeOK
    <2>5. QED
      BY <2>3, <2>4, EmptySeq
  <1>4. QED
    BY <1>2, <1>3

LEMMA AnswerSentStep ==
    ASSUME IInv, CInv, NEW u \in Uplinks, AnswerSent(u)
    PROVE  Implements
  <1> DEFINE t == u[1]
             m == u[2]
  <1>1. t \in Transactions /\ m \in Mics /\ u = <<t, m>>
    BY UplinkPairs
  <1>2. challenge[u] \in Sending
    BY DEF AnswerSent, Sending
  <1>3. role[t] = "original"
    BY <1>1, <1>2 DEF IInv, ChallengeOK, Sending
  <1>4. \/ /\ challenge[u] = "send_ack" /\ Send(t, "ack", m)
           /\ challenge' = [challenge EXCEPT ![u] = "acked"]
        \/ /\ challenge[u] = "send_mic_failed" /\ Send(t, "mic_failed", 0)
           /\ challenge' = [challenge EXCEPT ![u] = "mic_failed"]
        \/ /\ challenge[u] = "send_other" /\ Send(t, "other", 0)
           /\ challenge' = [challenge EXCEPT ![u] = "refused"]
    BY DEF AnswerSent
  <1>5. UNCHANGED <<role, resultQ, forwarded, dupVars>>
    BY DEF AnswerSent
  <1> HIDE DEF t, m
  <1>6. PICK state \in Final : challenge' = [challenge EXCEPT ![u] = state]
    BY <1>4 DEF Final
  <1>7. /\ Len(sent[t]) < Challenges[t]
        /\ Cardinality(FinalMics(t)') = Len(sent[t]) + 1
        /\ \A s \in Transactions \ {t} : FinalMics(s)' = FinalMics(s)
    BY <1>1, <1>2, <1>3, <1>6, OneMoreFinal
  <1>8. /\ ~Contract!GivenUp(t)
        /\ challenge[u] = "send_mic_failed" => sent[t] = << >>
    BY <1>1, <1>2, <1>3, NotGivenUp
  <1>9. PICK a : sent' = [sent EXCEPT ![t] = Append(@, a)]
    BY <1>4 DEF Send
  <1>10. AnswerCount'
    <2>1. sent[t] \in Seq(Answer) /\ sent \in [Transactions -> Seq(Answer)]
      BY <1>1 DEF IInv, TypeOK
    <2>2. Len(sent'[t]) = Len(sent[t]) + 1
          /\ \A s \in Transactions \ {t} : sent'[s] = sent[s]
      BY <1>1, <1>9, <2>1
    <2>3. QED
      BY <1>5, <1>7, <2>2 DEF CInv, AnswerCount
  <1>11. SendsForwarded'
    BY <1>5, <1>6 DEF IInv, TypeOK, CInv, AckSources, SendsForwarded, Frame, Final
  <1>12. ResultsForwarded' /\ CacheForwarded' /\ DuplicatesForwarded'
    BY <1>5 DEF CInv, AckSources, ResultsForwarded, CacheForwarded,
                DuplicatesForwarded, Frame, dupVars
  <1>13. Contract!Next
    <2>1. UNCHANGED <<{s \in Transactions : role[s] # "new"}, forwarded>>
      BY <1>5
    <2>2. t \in {s \in Transactions : role[s] # "new"}
      BY <1>1, <1>3
    <2>3. CASE challenge[u] = "send_ack" /\ Send(t, "ack", m)
      <3>1. <<ContextOf[t], m>> \in forwarded
        BY <2>3, <1>1 DEF CInv, AckSources, SendsForwarded, Frame
      <3>2. Contract!Ack(t, m)
        BY <1>7, <1>8, <2>1, <2>2, <2>3, <3>1 DEF Contract!Ack, Contract!Tell, Send
      <3>3. QED
        BY <1>1, <3>2 DEF Contract!Next, Mics
    <2>4. CASE challenge[u] = "send_mic_failed" /\ Send(t, "mic_failed", 0)
      <3>1. Contract!GiveUp(t)
        BY <1>7, <1>8, <2>1, <2>2, <2>4 DEF Contract!GiveUp, Contract!Tell, Send
      <3>2. QED
        BY <1>1, <3>1 DEF Contract!Next
    <2>5. CASE challenge[u] = "send_other" /\ Send(t, "other", 0)
      <3>1. Contract!Refuse(t)
        BY <1>7, <1>8, <2>1, <2>2, <2>5 DEF Contract!Refuse, Contract!Tell, Send
      <3>2. QED
        BY <1>1, <3>1 DEF Contract!Next
    <2>6. QED
      BY <1>4, <2>3, <2>4, <2>5
  <1>14. QED
    BY <1>10, <1>11, <1>12, <1>13 DEF CInv, AckSources, Implements

-----------------------------------------------------------------------------
(* Theorems *)

LEMMA NextImplements == IInv /\ CInv /\ [Next]_vars => Implements
  <1> SUFFICES ASSUME IInv, CInv, [Next]_vars PROVE Implements
    OBVIOUS
  <1>1. CASE UNCHANGED vars
    <2>1. AckSources'
      BY <1>1 DEF vars, CInv, AckSources, ResultsForwarded, SendsForwarded,
           CacheForwarded, DuplicatesForwarded, Frame, pipeVars, dupVars
    <2>2. QED
      BY <1>1, <2>1, SilentStep DEF vars, ranVars, pipeVars, FinalMics
  <1>2. ASSUME NEW t \in Transactions,
               \/ ReceiveNew(t) \/ ReceiveMalformed(t) \/ ReceiveDuplicate(t)
               \/ SubmitterAdded(t) \/ WaiterResolved(t) \/ WaiterTimeout(t)
               \/ TimeoutRaised(t) \/ DuplicateSent(t)
        PROVE  Implements
    BY <1>2, ReceiveNewStep, ReceiveMalformedStep, ReceiveDuplicateStep,
       SubmitterAddedStep, WaiterResolvedStep, WaiterTimeoutStep,
       TimeoutRaisedStep, DuplicateSentStep
  <1>3. ASSUME NEW u \in Uplinks, Published(u) \/ PublishFails(u) \/ AnswerSent(u)
        PROVE  Implements
    BY <1>3, PublishedStep, PublishFailsStep, AnswerSentStep
  <1>4. CASE \/ HandleUplink \/ HandleResult \/ AckSyncPass
             \/ ConnectionLost \/ Reconnected
    BY <1>4, HandleUplinkStep, HandleResultStep, AckSyncPassStep,
       ConnectionLostStep, ReconnectedStep
  <1>5. ASSUME NEW c \in Contexts, DeviceSynced(c) PROVE Implements
    BY <1>5, DeviceSyncedStep
  <1>6. QED
    BY <1>1, <1>2, <1>3, <1>4, <1>5 DEF Next

\* The uplink path implements its contract (ran.py, chirpstack.py, manager.py
\* against UplinkContract): every step is one of the contract, or none of it.
THEOREM ImplementsContract == Spec => ContractKept
  <1>1. Init => CInv /\ Contract!Init
    BY InitCInv
  <1>2. IInv /\ CInv /\ [Next]_vars => CInv' /\ [Contract!Next]_(Contract!vars)
    BY NextImplements DEF Implements
  <1>3. Spec => []IInv
    BY InductiveInvariant
  <1>4. QED
    BY <1>1, <1>2, <1>3, PTL DEF Spec, ContractKept, Contract!Spec

\* What an ack names went to ChirpStack, for originals and duplicates alike,
\* whether the ack came from a handler, the ack cache or a waiter's future.
THEOREM AcksAreHonest == Spec => []AckMeansForwarded
  <1>1. Init => AckMeansForwarded
    BY DEF Init, AckMeansForwarded
  <1>2. IInv /\ AckMeansForwarded /\ [Contract!Next]_(Contract!vars)
            => AckMeansForwarded'
    <2> SUFFICES ASSUME IInv, AckMeansForwarded, [Contract!Next]_(Contract!vars)
                 PROVE  AckMeansForwarded'
      OBVIOUS
    <2>1. ASSUME NEW t \in Transactions, Contract!Hear(t) PROVE AckMeansForwarded'
      BY <2>1 DEF Contract!Hear, AckMeansForwarded
    <2>2. ASSUME NEW t \in Transactions, NEW m \in 1 .. MaxMics, Contract!Forward(t, m)
          PROVE  AckMeansForwarded'
      BY <2>2 DEF Contract!Forward, AckMeansForwarded
    <2>3. ASSUME NEW t \in Transactions, NEW kind, NEW m, Contract!Tell(t, kind, m),
                 kind = "ack" => <<ContextOf[t], m>> \in forwarded
          PROVE  AckMeansForwarded'
      <3>1. sent \in [Transactions -> Seq(Answer)]
        BY DEF IInv, TypeOK
      <3>2. sent' = [sent EXCEPT ![t] = Append(@, [kind |-> kind, mic |-> m])]
            /\ UNCHANGED forwarded
        BY <2>3 DEF Contract!Tell
      <3> SUFFICES ASSUME NEW s \in Transactions, NEW k \in DOMAIN sent'[s],
                          sent'[s][k].kind = "ack"
                   PROVE  <<ContextOf[s], sent'[s][k].mic>> \in forwarded
        BY <3>2 DEF AckMeansForwarded
      <3>3. CASE s # t
        BY <3>1, <3>2, <3>3 DEF AckMeansForwarded
      <3>4. CASE s = t
        <4> DEFINE a == [kind |-> kind, mic |-> m]
        <4>1. sent'[t] = Append(sent[t], a) /\ sent[t] \in Seq(Answer)
          BY <3>1, <3>2
        <4>2. CASE k \in DOMAIN sent[t]
          <5>1. sent'[t][k] = sent[t][k]
            BY <4>1, <4>2
          <5>2. sent[t][k].kind = "ack" => <<ContextOf[t], sent[t][k].mic>> \in forwarded
            BY <4>2 DEF AckMeansForwarded
          <5>3. QED
            BY <3>4, <5>1, <5>2
        <4>3. CASE k \notin DOMAIN sent[t]
          <5>1. sent'[t][k] = a
            BY <3>4, <4>1, <4>3
          <5>2. QED
            BY <2>3, <3>4, <5>1
        <4>4. QED
          BY <4>2, <4>3
      <3>5. QED
        BY <3>3, <3>4
    <2>4. CASE UNCHANGED Contract!vars
      BY <2>4 DEF Contract!vars, AckMeansForwarded
    <2>5. QED
      BY <2>1, <2>2, <2>3, <2>4
      DEF Contract!Next, Contract!Ack, Contract!GiveUp, Contract!Refuse
  <1>3. Spec => []IInv /\ ContractKept
    BY InductiveInvariant, ImplementsContract, PTL
  <1>4. QED
    BY <1>1, <1>2, <1>3, PTL DEF Spec, ContractKept, Contract!Spec
=============================================================================
