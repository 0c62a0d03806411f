--------------------------- MODULE UpstreamProofs ---------------------------
(***************************************************************************)
(* Proofs about Upstream: type correctness, and that RAN is never told of  *)
(* a transaction both that its MIC challenge is solved and that it failed, *)
(* for any number of transactions, payloads, MICs, pool slots and faults.  *)
(*                                                                         *)
(* The argument is a count.  While a transaction is tracked, micTries plus *)
(* the failures already counted make up its MIC challenges (TriesCount).   *)
(* So the handler that finds one try left is the last one standing: all    *)
(* other uplinks of the transaction have been counted as failures          *)
(* (LastStanding), and a counted uplink is never answered.                 *)
(***************************************************************************)
EXTENDS Upstream, FiniteSetTheorems, SequenceTheorems, TLAPS

Counted(t) == {i \in 1 .. Challenges[t] : challenge[<<t, i>>] = "counted"}

\* Each queue holds uplinks that wait in it, once.
QueueOK ==
    /\ \A k \in 1 .. Len(uplinkQ) : challenge[uplinkQ[k]] = "queued"
    /\ \A k \in 1 .. Len(resultQ) : challenge[resultQ[k].uplink] = "result"
    /\ \A j, k \in 1 .. Len(uplinkQ) : j # k => uplinkQ[j] # uplinkQ[k]
    /\ \A j, k \in 1 .. Len(resultQ) : j # k => resultQ[j].uplink # resultQ[k].uplink

\* Uplinks are those of originals, and stay within the challenge.
ChallengeOK ==
    \A t \in Transactions : \A m \in Mics :
        challenge[<<t, m>>] # "none" => role[t] = "original" /\ m <= Challenges[t]

TriesCount ==
    \A t \in tracked :
        /\ role[t] = "original"
        /\ micTries[t] + Cardinality(Counted(t)) = Challenges[t]

LastStanding ==
    \A t \in Transactions : \A m \in Mics :
        challenge[<<t, m>>] \in {"send_mic_failed", "mic_failed"} =>
            \A i \in 1 .. Challenges[t] : i # m => challenge[<<t, i>>] = "counted"

\* Answers to an original come from its uplinks.
OriginalOK ==
    \A t \in Transactions :
        role[t] = "original" =>
            /\ submitter[t] = "none"
            /\ \A k \in DOMAIN sent[t] :
                  /\ sent[t][k].kind = "mic_failed" =>
                        \E m \in Mics : challenge[<<t, m>>] = "mic_failed"
                  /\ sent[t][k].kind = "ack" =>
                        \E m \in Mics : challenge[<<t, m>>] = "acked"

\* Anything else has had at most one answer, a duplicate's when it is done.
OthersOK ==
    \A t \in Transactions :
        role[t] # "original" =>
            /\ Len(sent[t]) <= 1
            /\ submitter[t] # "done" => sent[t] = << >>
            /\ role[t] = "new" => submitter[t] = "none"

IInv == /\ TypeOK
        /\ QueueOK
        /\ ChallengeOK
        /\ TriesCount
        /\ LastStanding
        /\ OriginalOK
        /\ OthersOK

-----------------------------------------------------------------------------
(* Facts about counting *)

LEMMA CountedType ==
    ASSUME NEW n \in Nat, NEW S \in SUBSET (1 .. n)
    PROVE  IsFiniteSet(S) /\ Cardinality(S) \in Nat /\ Cardinality(S) <= n
  <1>1. IsFiniteSet(1 .. n) /\ Cardinality(1 .. n) = n
    BY FS_Interval
  <1>2. QED
    BY <1>1, FS_Subset, FS_CardinalityType

\* A set that leaves an element of 1 .. n out has fewer than n elements.
LEMMA CountedLess ==
    ASSUME NEW n \in Nat, NEW S \in SUBSET (1 .. n), NEW i \in (1 .. n) \ S
    PROVE  /\ Cardinality(S) + 1 <= n
           /\ Cardinality(S \cup {i}) = Cardinality(S) + 1
  <1>1. IsFiniteSet(S)
    BY CountedType
  <1>2. Cardinality(S \cup {i}) = Cardinality(S) + 1
    BY <1>1, FS_AddElement
  <1>3. S \cup {i} \in SUBSET (1 .. n)
    OBVIOUS
  <1>4. Cardinality(S \cup {i}) <= n
    BY <1>3, CountedType
  <1>5. QED
    BY <1>2, <1>4

\* One that leaves i out and has n - 1 elements leaves only i out.
LEMMA CountedAllBut ==
    ASSUME NEW n \in Nat, NEW S \in SUBSET (1 .. n), NEW i \in (1 .. n) \ S,
           Cardinality(S) + 1 = n
    PROVE  S = (1 .. n) \ {i}
  <1>1. IsFiniteSet(1 .. n) /\ Cardinality(1 .. n) = n
    BY FS_Interval
  <1>2. IsFiniteSet((1 .. n) \ {i}) /\ Cardinality((1 .. n) \ {i}) = n - 1
    BY <1>1, FS_RemoveElement
  <1>3. S \in SUBSET ((1 .. n) \ {i})
    OBVIOUS
  <1>4. Cardinality(S) = n - 1
    BY CountedType
  <1>5. QED
    BY <1>2, <1>3, <1>4, FS_Subset

-----------------------------------------------------------------------------
(* The initial state *)

LEMMA ChallengesType ==
    ASSUME NEW t \in Transactions
    PROVE  /\ Challenges[t] \in Nat
           /\ 1 .. Challenges[t] \subseteq Mics
           /\ Challenges[t] \in Mics
  BY ChallengeAssumption DEF Mics

LEMMA InitIInv == Init => IInv
  <1> SUFFICES ASSUME Init PROVE IInv
    OBVIOUS
  <1>1. TypeOK
    BY BoundAssumption, ChallengeAssumption
    DEF Init, TypeOK, Uplinks, ChallengeStates, Sending, Result, SubmitterStates,
        WaiterStates, LoopStates, PoolStates
  <1>2. QueueOK
    BY DEF Init, QueueOK
  <1>3. ChallengeOK
    BY DEF Init, ChallengeOK, Uplinks
  <1>4. TriesCount
    BY DEF Init, TriesCount
  <1>5. LastStanding
    BY DEF Init, LastStanding, Uplinks
  <1>6. OriginalOK
    BY DEF Init, OriginalOK
  <1>7. OthersOK
    BY DEF Init, OthersOK
  <1>8. QED
    BY <1>1, <1>2, <1>3, <1>4, <1>5, <1>6, <1>7 DEF IInv

-----------------------------------------------------------------------------
(* Facts about the helpers of Upstream *)

LEMMA AfterCleanSubset ==
    ASSUME NEW keys, NEW kept \in AfterClean(keys)
    PROVE  kept \subseteq keys
  BY DEF AfterClean

LEMMA UplinkPairs ==
    /\ \A u \in Uplinks : /\ u[1] \in Transactions
                         /\ u[2] \in Mics
                         /\ u = <<u[1], u[2]>>
    /\ \A t \in Transactions : \A m \in Mics :
          /\ <<t, m>> \in Uplinks
          /\ <<t, m>>[1] = t
          /\ <<t, m>>[2] = m
  BY DEF Uplinks

\* A transaction nobody took yet has no uplinks.
LEMMA NewHasNone ==
    ASSUME ChallengeOK, NEW t \in Transactions, role[t] # "original",
           NEW m \in Mics
    PROVE  challenge[<<t, m>>] = "none"
  BY DEF ChallengeOK

-----------------------------------------------------------------------------
(* Actions on the connection and the answers to duplicates: they leave the   *)
(* queues and the tries alone.                                               *)

\* The steps of a submitter before its send change nothing but its own state.
LEMMA SubmitterKeepsIInv ==
    ASSUME IInv, TypeOK',
           UNCHANGED <<role, tracked, micTries, challenge, uplinkQ, resultQ, sent>>,
           \A t \in Transactions :
               \/ submitter'[t] = submitter[t]
               \/ submitter[t] \notin {"none", "done"}
    PROVE  IInv'
  <1>1. QueueOK' /\ ChallengeOK' /\ LastStanding'
    BY DEF IInv, QueueOK, ChallengeOK, LastStanding
  <1>2. TriesCount'
    BY DEF IInv, TriesCount, Counted
  <1>3. OriginalOK'
    BY DEF IInv, OriginalOK
  <1>4. OthersOK'
    BY DEF IInv, OthersOK
  <1>5. QED
    BY <1>1, <1>2, <1>3, <1>4 DEF IInv

LEMMA SubmitterAddedIInv ==
    ASSUME IInv, NEW t \in Transactions, SubmitterAdded(t)
    PROVE  IInv'
  <1>1. TypeOK'
    BY DEF IInv, TypeOK, SubmitterAdded, ranVars, pipeVars, SubmitterStates,
           PoolStates
  <1>2. QED
    BY <1>1, SubmitterKeepsIInv
    DEF SubmitterAdded, ranVars, pipeVars, IInv, TypeOK

LEMMA AckSyncPassIInv ==
    ASSUME IInv, AckSyncPass
    PROVE  IInv'
  <1>1. \A ts \in SUBSET Transactions : Resolve(ts) =>
           /\ waiter' \in [Transactions -> WaiterStates]
           /\ dupMic' \in [Transactions -> 0 .. MaxMics]
    BY ContextAssumption DEF IInv, TypeOK, Resolve, WaiterStates
  <1>2. \E ts \in SUBSET Transactions : Resolve(ts)
    BY DEF AckSyncPass, Ready
  <1>3. TypeOK'
    BY <1>1, <1>2 DEF IInv, TypeOK, AckSyncPass, ranVars, pipeVars
  <1>4. QED
    BY <1>3, SubmitterKeepsIInv DEF AckSyncPass, ranVars, pipeVars

LEMMA WaiterResolvedIInv ==
    ASSUME IInv, NEW t \in Transactions, WaiterResolved(t)
    PROVE  IInv'
  <1>1. TypeOK'
    BY DEF IInv, TypeOK, WaiterResolved, ranVars, pipeVars, SubmitterStates,
           PoolStates
  <1>2. QED
    BY <1>1, SubmitterKeepsIInv
    DEF WaiterResolved, ranVars, pipeVars, IInv, TypeOK

LEMMA WaiterTimeoutIInv ==
    ASSUME IInv, NEW t \in Transactions, WaiterTimeout(t)
    PROVE  IInv'
  <1>1. TypeOK'
    BY DEF IInv, TypeOK, WaiterTimeout, ranVars, pipeVars, SubmitterStates,
           PoolStates, WaiterStates
  <1>2. QED
    BY <1>1, SubmitterKeepsIInv
    DEF WaiterTimeout, ranVars, pipeVars, IInv, TypeOK

LEMMA TimeoutRaisedIInv ==
    ASSUME IInv, NEW t \in Transactions, TimeoutRaised(t)
    PROVE  IInv'
  <1>1. TypeOK'
    BY DEF IInv, TypeOK, TimeoutRaised, ranVars, pipeVars, SubmitterStates,
           PoolStates, WaiterStates
  <1>2. QED
    BY <1>1, SubmitterKeepsIInv
    DEF TimeoutRaised, ranVars, pipeVars, IInv, TypeOK

-----------------------------------------------------------------------------
(* The other actions on the connection, the device list and duplicates       *)

LEMMA DuplicateSentIInv ==
    ASSUME IInv, NEW t \in Transactions, DuplicateSent(t)
    PROVE  IInv'
  <1> USE DEF DuplicateSent, pipeVars
  <1> DEFINE ack    == [kind |-> "ack", mic |-> dupMic[t]]
             reject == [kind |-> "mic_failed", mic |-> 0]
  <1>0. ack \in Answer /\ reject \in Answer
    BY ChallengeAssumption DEF IInv, TypeOK, Answer, AnswerKinds
  <1>1. PICK a \in Answer : sent' = [sent EXCEPT ![t] = Append(@, a)]
    BY <1>0 DEF Send
  <1>2. role[t] # "original" /\ sent[t] = << >>
    BY DEF IInv, OriginalOK, OthersOK
  <1>3. sent'[t] = <<a>> /\ sent' \in [Transactions -> Seq(Answer)]
    BY <1>1, <1>2 DEF IInv, TypeOK
  <1>4. TypeOK'
    BY <1>3 DEF IInv, TypeOK, SubmitterStates
  <1>5. QueueOK' /\ ChallengeOK' /\ LastStanding'
    BY DEF IInv, QueueOK, ChallengeOK, LastStanding
  <1>6. TriesCount'
    BY DEF IInv, TriesCount, Counted
  <1>7. OriginalOK'
    <2>1. UNCHANGED <<role, challenge>>
      OBVIOUS
    <2>2. \A s \in Transactions \ {t} :
             sent'[s] = sent[s] /\ submitter'[s] = submitter[s]
      BY <1>1 DEF IInv, TypeOK
    <2>3. role[t] # "original" /\ OriginalOK
      BY <1>2 DEF IInv
    <2>4. QED
      BY <2>1, <2>2, <2>3 DEF OriginalOK
  <1>8. OthersOK'
    BY <1>1, <1>3 DEF IInv, TypeOK, OthersOK
  <1>9. QED
    BY <1>4, <1>5, <1>6, <1>7, <1>8 DEF IInv

\* A lost connection ends sends: it loses no queued uplink, no result, no
\* count and no answer that was given.
LEMMA LoseSendsFacts ==
    ASSUME TypeOK, challenge' = LoseSends(challenge)
    PROVE  /\ challenge' \in [Uplinks -> ChallengeStates]
           /\ \A u \in Uplinks :
                /\ challenge[u] \notin Sending => challenge'[u] = challenge[u]
                /\ challenge[u] \in Sending => challenge'[u] = "lost"
  BY DEF TypeOK, LoseSends, ChallengeStates

LEMMA LoseSendsKeeps ==
    ASSUME IInv, challenge' = LoseSends(challenge),
           UNCHANGED <<uplinkQ, resultQ>>
    PROVE  /\ QueueOK'
           /\ LastStanding'
           /\ \A t \in Transactions : Counted(t)' = Counted(t)
  <1> USE LoseSendsFacts
  <1>1. \A k \in 1 .. Len(uplinkQ) : uplinkQ[k] \in Uplinks
    BY ElementOfSeq DEF IInv, TypeOK
  <1>2. \A k \in 1 .. Len(resultQ) : resultQ[k] \in Result /\ resultQ[k].uplink \in Uplinks
    <2>1. \A k \in 1 .. Len(resultQ) : resultQ[k] \in Result
      BY ElementOfSeq DEF IInv, TypeOK
    <2>2. QED
      BY <2>1 DEF Result
  <1>3. QueueOK'
    BY <1>1, <1>2 DEF IInv, QueueOK, Sending
  <1>4. \A t \in Transactions : \A i \in 1 .. Challenges[t] :
           /\ <<t, i>> \in Uplinks
           /\ challenge'[<<t, i>>] = "counted" <=> challenge[<<t, i>>] = "counted"
    BY UplinkPairs, ChallengesType DEF IInv, Sending
  <1>5. LastStanding'
    BY <1>4, UplinkPairs DEF IInv, LastStanding, Sending
  <1>6. \A t \in Transactions : Counted(t)' = Counted(t)
    BY <1>4 DEF Counted
  <1>7. QED
    BY <1>3, <1>5, <1>6

LEMMA ConnectionLostIInv ==
    ASSUME IInv, ConnectionLost
    PROVE  IInv'
  <1> USE LoseSendsFacts DEF ConnectionLost, DropConnection
  <1>1. \A t \in Transactions : submitter'[t] \in {submitter[t], "done"}
                                /\ (submitter[t] = "none" => submitter'[t] = "none")
    BY DEF IInv, TypeOK, LoopStates, DupSending
  <1>2. TypeOK'
    <2>1. submitter' \in [Transactions -> SubmitterStates]
      BY DEF IInv, TypeOK, SubmitterStates
    <2>2. challenge' \in [Uplinks -> ChallengeStates]
      BY DEF IInv
    <2>3. faults' \in 0 .. MaxFaults
      BY BoundAssumption DEF IInv, TypeOK
    <2>4. QED
      BY <2>1, <2>2, <2>3 DEF IInv, TypeOK
  <1>3. QueueOK' /\ LastStanding' /\ \A t \in Transactions : Counted(t)' = Counted(t)
    BY LoseSendsKeeps
  <1>4. ChallengeOK'
    BY UplinkPairs DEF IInv, ChallengeOK, Sending
  <1>5. TriesCount'
    BY <1>3 DEF IInv, TypeOK, TriesCount
  <1>6. OriginalOK'
    BY <1>1, UplinkPairs DEF IInv, OriginalOK, Sending
  <1>7. OthersOK'
    BY <1>1 DEF IInv, OthersOK
  <1>8. QED
    BY <1>2, <1>3, <1>4, <1>5, <1>6, <1>7 DEF IInv

\* What the invariant speaks of is left alone.
LEMMA ElsewhereIInv ==
    ASSUME IInv, TypeOK',
           UNCHANGED <<role, tracked, micTries, challenge, uplinkQ, resultQ,
                       submitter, sent>>
    PROVE  IInv'
  <1>1. TriesCount'
    BY DEF IInv, TriesCount, Counted
  <1>2. QueueOK' /\ ChallengeOK' /\ LastStanding'
    BY DEF IInv, QueueOK, ChallengeOK, LastStanding
  <1>3. OriginalOK' /\ OthersOK'
    BY DEF IInv, OriginalOK, OthersOK
  <1>4. QED
    BY <1>1, <1>2, <1>3 DEF IInv

LEMMA ReconnectedIInv ==
    ASSUME IInv, Reconnected
    PROVE  IInv'
  <1>1. TypeOK'
    BY DEF IInv, TypeOK, Reconnected, pipeVars, dupVars
  <1>2. QED
    BY <1>1, ElsewhereIInv DEF Reconnected, pipeVars, dupVars

LEMMA DeviceSyncedIInv ==
    ASSUME IInv, NEW c \in Contexts, DeviceSynced(c)
    PROVE  IInv'
  <1>1. TypeOK'
    BY BoundAssumption DEF IInv, TypeOK, DeviceSynced, ranVars, pipeVars, dupVars
  <1>2. QED
    BY <1>1, ElsewhereIInv DEF DeviceSynced, ranVars, pipeVars, dupVars

LEMMA ReceiveDuplicateIInv ==
    ASSUME IInv, NEW t \in Transactions, ReceiveDuplicate(t)
    PROVE  IInv'
  <1> USE DEF ReceiveDuplicate, CanReceive, pipeVars
  <1>1. TypeOK'
    BY ContextAssumption
    DEF IInv, TypeOK, SubmitterStates, LoopStates, WaiterStates
  <1>2. QueueOK' /\ LastStanding'
    BY DEF IInv, QueueOK, LastStanding
  <1>3. ChallengeOK'
    BY DEF IInv, TypeOK, ChallengeOK
  <1>4. TriesCount'
    BY DEF IInv, TypeOK, TriesCount, Counted
  <1>5. OriginalOK'
    <2>1. role'[t] = "duplicate"
      BY DEF IInv, TypeOK
    <2>2. \A s \in Transactions \ {t} :
             role'[s] = role[s] /\ submitter'[s] = submitter[s]
      BY DEF IInv, TypeOK
    <2>3. QED
      BY <2>1, <2>2 DEF IInv, OriginalOK
  <1>6. sent[t] = << >>
    BY DEF IInv, OthersOK
  <1>7. OthersOK'
    BY <1>6 DEF IInv, TypeOK, OthersOK
  <1>8. QED
    BY <1>1, <1>2, <1>3, <1>4, <1>5, <1>7 DEF IInv

-----------------------------------------------------------------------------
(* A new transaction                                                         *)


\* It has no uplink, no answer and no submitter; its tries start at the
\* length of its challenge.
Registered(t) ==
    /\ role' \in [Transactions -> {"new", "original", "duplicate"}]
    /\ role'[t] = "original"
    /\ \A s \in Transactions \ {t} : role'[s] = role[s]
    /\ known' \in SUBSET Contexts
    /\ live' \in SUBSET Transactions
    /\ tracked' = tracked \cup {t}
    /\ micTries' \in [Transactions -> Nat]
    /\ micTries'[t] = Challenges[t]
    /\ \A s \in Transactions \ {t} : micTries'[s] = micTries[s]
    /\ sent[t] = << >> /\ submitter[t] = "none"
    /\ \A m \in Mics : challenge[<<t, m>>] = "none"

LEMMA RegisterFacts ==
    ASSUME IInv, NEW t \in Transactions, CanReceive(t), Register(t)
    PROVE  Registered(t)
  <1>1. role[t] = "new"
    BY DEF CanReceive
  <1>2. known' \in SUBSET Contexts
    <2>1. PICK kept \in AfterClean(known) : known' = kept \cup {ContextOf[t]}
      BY DEF Register
    <2>2. QED
      BY <2>1, AfterCleanSubset, ContextAssumption DEF IInv, TypeOK
  <1>3. live' \in SUBSET Transactions
    <2>1. PICK kept \in AfterClean(live) : live' = kept \cup {t}
      BY DEF Register
    <2>2. QED
      BY <2>1, AfterCleanSubset DEF IInv, TypeOK
  <1>4. sent[t] = << >> /\ submitter[t] = "none"
    BY <1>1 DEF IInv, OthersOK
  <1>5. \A m \in Mics : challenge[<<t, m>>] = "none"
    BY <1>1, NewHasNone DEF IInv
  <1>6. QED
    BY <1>2, <1>3, <1>4, <1>5, ChallengesType
    DEF IInv, TypeOK, Register, Registered, TotalChallenges

\* Registering keeps the count if no uplink is counted or uncounted.
LEMMA RegisterTriesCount ==
    ASSUME IInv, NEW t \in Transactions, Registered(t),
           Counted(t)' = {},
           \A s \in Transactions \ {t} : Counted(s)' = Counted(s)
    PROVE  TriesCount'
  <1>1. micTries'[t] + Cardinality(Counted(t)') = Challenges[t]
    BY FS_EmptySet, ChallengesType DEF Registered
  <1>2. \A s \in tracked \ {t} :
           /\ role'[s] = "original"
           /\ micTries'[s] + Cardinality(Counted(s)') = Challenges[s]
    BY DEF IInv, TypeOK, TriesCount, Registered
  <1>3. tracked' = tracked \cup {t} /\ role'[t] = "original"
    BY DEF Registered
  <1>4. QED
    BY <1>1, <1>2, <1>3 DEF TriesCount

LEMMA ReceiveMalformedIInv ==
    ASSUME IInv, NEW t \in Transactions, ReceiveMalformed(t)
    PROVE  IInv'
  <1>1. Registered(t)
    BY RegisterFacts DEF ReceiveMalformed
  <1>2. \A s \in Transactions :
           /\ submitter'[s] \in {submitter[s], "done"}
           /\ submitter[s] = "none" => submitter'[s] = "none"
    BY DEF ReceiveMalformed, DropConnection, LoopStates, DupSending
  <1>3. submitter' \in [Transactions -> SubmitterStates]
    BY DEF IInv, TypeOK, ReceiveMalformed, DropConnection, SubmitterStates
  <1>4. /\ challenge' \in [Uplinks -> ChallengeStates]
        /\ \A u \in Uplinks :
             /\ challenge[u] \notin Sending => challenge'[u] = challenge[u]
             /\ challenge[u] \in Sending => challenge'[u] = "lost"
    BY LoseSendsFacts DEF IInv, ReceiveMalformed
  <1>5. /\ QueueOK' /\ LastStanding'
        /\ \A s \in Transactions : Counted(s)' = Counted(s)
    BY LoseSendsKeeps DEF ReceiveMalformed
  <1>6. TypeOK'
    BY <1>1, <1>3, <1>4
    DEF IInv, TypeOK, ReceiveMalformed, DropConnection, Registered
  <1>7. ChallengeOK'
    BY <1>1, <1>4, UplinkPairs DEF IInv, ChallengeOK, Sending, Registered
  <1>8. TriesCount'
    <2>1. Counted(t) = {}
      BY <1>1, ChallengesType DEF Counted, Registered
    <2>2. QED
      BY <1>1, <1>5, <2>1, RegisterTriesCount
  <1>9. OriginalOK'
    <2>1. \A s \in Transactions : \A m \in Mics :
             challenge[<<s, m>>] \in {"mic_failed", "acked"} =>
                challenge'[<<s, m>>] = challenge[<<s, m>>]
      BY <1>4, UplinkPairs DEF Sending
    <2>2. sent' = sent /\ DOMAIN sent[t] = {}
      BY <1>1 DEF ReceiveMalformed, Registered
    <2>3. submitter[t] = "none" /\ \A s \in Transactions \ {t} : role'[s] = role[s]
      BY <1>1 DEF Registered
    <2>4. \A s \in Transactions : role'[s] = "original" => submitter'[s] = "none"
      BY <1>2, <2>3 DEF IInv, OriginalOK
    <2>5. OriginalOK
      BY DEF IInv
    <2>6. QED
      BY <2>1, <2>2, <2>3, <2>4, <2>5 DEF OriginalOK
  <1>10. OthersOK'
    BY <1>1, <1>2 DEF IInv, OthersOK, Registered, ReceiveMalformed
  <1>11. QED
    BY <1>5, <1>6, <1>7, <1>8, <1>9, <1>10 DEF IInv

\* Appending uplinks to a queue they are not in keeps its entries distinct.
LEMMA ConcatDistinct ==
    ASSUME NEW S, NEW q \in Seq(S), NEW r \in Seq(S),
           \A j, k \in 1 .. Len(q) : j # k => q[j] # q[k],
           \A j, k \in 1 .. Len(r) : j # k => r[j] # r[k],
           \A j \in 1 .. Len(q) : \A k \in 1 .. Len(r) : q[j] # r[k]
    PROVE  \A j, k \in 1 .. Len(q \o r) : j # k => (q \o r)[j] # (q \o r)[k]
  <1>1. Len(q) \in Nat /\ Len(r) \in Nat
    BY LenProperties
  <1>2. /\ Len(q \o r) = Len(q) + Len(r)
        /\ \A i \in 1 .. Len(q) + Len(r) :
              (q \o r)[i] = IF i <= Len(q) THEN q[i] ELSE r[i - Len(q)]
    BY ConcatProperties
  <1> TAKE j, k \in 1 .. Len(q \o r)
  <1>3. CASE j <= Len(q) /\ k <= Len(q)
    BY <1>1, <1>2, <1>3
  <1>4. CASE j <= Len(q) /\ ~(k <= Len(q))
    BY <1>1, <1>2, <1>4
  <1>5. CASE ~(j <= Len(q)) /\ k <= Len(q)
    BY <1>1, <1>2, <1>5
  <1>6. CASE ~(j <= Len(q)) /\ ~(k <= Len(q))
    BY <1>1, <1>2, <1>6
  <1>7. QED
    BY <1>3, <1>4, <1>5, <1>6

LEMMA ReceiveNewIInv ==
    ASSUME IInv, NEW t \in Transactions, ReceiveNew(t)
    PROVE  IInv'
  <1> DEFINE n     == Challenges[t]
             added == [i \in 1 .. n |-> <<t, i>>]
  <1>1. Registered(t)
    BY RegisterFacts DEF ReceiveNew
  <1>2. n \in Nat /\ 1 .. n \subseteq Mics
    BY ChallengesType
  <1>3. /\ challenge' \in [Uplinks -> ChallengeStates]
        /\ \A s \in Transactions \ {t} : \A m \in Mics :
             challenge'[<<s, m>>] = challenge[<<s, m>>]
        /\ \A m \in Mics : challenge'[<<t, m>>] =
                              IF m <= n THEN "queued" ELSE "none"
    BY <1>1, UplinkPairs
    DEF IInv, TypeOK, ReceiveNew, Registered, ChallengeStates
  <1>4. added \in Seq(Uplinks) /\ Len(added) = n
        /\ \A i \in 1 .. n : added[i] = <<t, i>>
    BY <1>2, UplinkPairs
  <1>5. uplinkQ \in Seq(Uplinks) /\ uplinkQ' = uplinkQ \o added
    BY DEF IInv, TypeOK, ReceiveNew
  <1>6. /\ uplinkQ' \in Seq(Uplinks)
        /\ Len(uplinkQ') = Len(uplinkQ) + n
        /\ \A k \in 1 .. Len(uplinkQ) + n :
              uplinkQ'[k] = IF k <= Len(uplinkQ) THEN uplinkQ[k]
                                                 ELSE added[k - Len(uplinkQ)]
    <2> HIDE DEF added
    <2> QED
      BY <1>4, <1>5, ConcatProperties
  <1>7. TypeOK'
    BY <1>1, <1>3, <1>6 DEF IInv, TypeOK, ReceiveNew, dupVars, Registered
  <1>8. \A u \in Uplinks :
           challenge[u] # "none" => u[1] # t /\ challenge'[u] = challenge[u]
    BY <1>1, <1>3, UplinkPairs DEF Registered
  <1>9. QueueOK'
    <2>1. Len(uplinkQ) \in Nat /\ \A k \in 1 .. Len(uplinkQ) : uplinkQ[k] \in Uplinks
      BY <1>5, ElementOfSeq, LenProperties
    <2>2. \A k \in 1 .. Len(uplinkQ) :
             challenge'[uplinkQ[k]] = "queued" /\ uplinkQ[k][1] # t
      BY <1>8, <2>1 DEF IInv, QueueOK
    <2>3. \A i \in 1 .. n : challenge'[added[i]] = "queued"
      BY <1>2, <1>3, <1>4
    <2>4. \A k \in 1 .. Len(uplinkQ') : challenge'[uplinkQ'[k]] = "queued"
      <3> HIDE DEF added
      <3> TAKE k \in 1 .. Len(uplinkQ')
      <3>1. CASE k <= Len(uplinkQ)
        BY <3>1, <1>2, <1>6, <2>1, <2>2
      <3>2. CASE ~(k <= Len(uplinkQ))
        <4>1. k - Len(uplinkQ) \in 1 .. n /\ uplinkQ'[k] = added[k - Len(uplinkQ)]
          BY <3>2, <1>2, <1>6, <2>1
        <4>2. QED
          BY <4>1, <2>3
      <3>3. QED
        BY <3>1, <3>2
    <2>5. \A j, k \in 1 .. Len(added) : j # k => added[j] # added[k]
      BY <1>4
    <2>6. \A j \in 1 .. Len(uplinkQ) : \A k \in 1 .. Len(added) :
             uplinkQ[j] # added[k]
      <3>1. \A k \in 1 .. Len(added) : added[k][1] = t
        BY <1>4
      <3>2. QED
        BY <2>2, <3>1
    <2>7. \A j, k \in 1 .. Len(uplinkQ) : j # k => uplinkQ[j] # uplinkQ[k]
      BY DEF IInv, QueueOK
    <2>8. \A j, k \in 1 .. Len(uplinkQ') : j # k => uplinkQ'[j] # uplinkQ'[k]
      <3> HIDE DEF added
      <3>1. uplinkQ \in Seq(Uplinks) /\ added \in Seq(Uplinks)
        BY <1>4, <1>5
      <3>2. \A j, k \in 1 .. Len(uplinkQ \o added) :
               j # k => (uplinkQ \o added)[j] # (uplinkQ \o added)[k]
        BY <3>1, <2>5, <2>6, <2>7, ConcatDistinct, Zenon
      <3>3. uplinkQ' = uplinkQ \o added
        BY <1>5
      <3>4. QED
        BY <3>2, <3>3, Zenon
    <2>9. \A k \in 1 .. Len(resultQ) :
             resultQ[k] \in Result /\ challenge[resultQ[k].uplink] = "result"
      <3>1. \A k \in 1 .. Len(resultQ) : resultQ[k] \in Result
        BY ElementOfSeq DEF IInv, TypeOK
      <3>2. QED
        BY <3>1 DEF IInv, QueueOK
    <2>10. \A k \in 1 .. Len(resultQ) : challenge'[resultQ[k].uplink] = "result"
      BY <1>8, <2>9 DEF Result
    <2>11. resultQ' = resultQ
      BY DEF ReceiveNew
    <2>12. \A j, k \in 1 .. Len(resultQ) :
              j # k => resultQ[j].uplink # resultQ[k].uplink
      BY DEF IInv, QueueOK
    <2>13. QED
      BY <2>4, <2>8, <2>10, <2>11, <2>12 DEF QueueOK
  <1>10. ChallengeOK'
    BY <1>1, <1>3 DEF IInv, ChallengeOK, Registered
  <1>11. TriesCount'
    <2>1. Counted(t)' = {}
      BY <1>2, <1>3 DEF Counted
    <2>2. \A s \in Transactions \ {t} : Counted(s)' = Counted(s)
      BY <1>3, ChallengesType DEF Counted
    <2>3. QED
      BY <1>1, <2>1, <2>2, RegisterTriesCount
  <1>12. LastStanding'
    <2>1. \A s \in Transactions : 1 .. Challenges[s] \subseteq Mics
      BY ChallengesType
    <2>2. QED
      BY <1>3, <2>1 DEF IInv, LastStanding
  <1>13. OriginalOK'
    <2>1. sent' = sent /\ submitter' = submitter /\ DOMAIN sent[t] = {}
      BY <1>1 DEF ReceiveNew, dupVars, Registered
    <2>2. \A s \in Transactions : \A m \in Mics :
             challenge[<<s, m>>] \in {"mic_failed", "acked"} =>
                challenge'[<<s, m>>] = challenge[<<s, m>>]
      BY <1>8, UplinkPairs
    <2>3. role'[t] = "original" /\ submitter[t] = "none"
          /\ \A s \in Transactions \ {t} : role'[s] = role[s]
      BY <1>1 DEF Registered
    <2>4. OriginalOK
      BY DEF IInv
    <2>5. QED
      BY <2>1, <2>2, <2>3, <2>4 DEF OriginalOK
  <1>14. OthersOK'
    BY <1>1 DEF IInv, OthersOK, ReceiveNew, dupVars, Registered
  <1>15. QED
    BY <1>7, <1>9, <1>10, <1>11, <1>12, <1>13, <1>14 DEF IInv

-----------------------------------------------------------------------------
(* The pipeline                                                              *)

\* An uplink moves between states that are neither counted nor answers.
Quiet == ChallengeStates \ {"none", "counted", "send_mic_failed", "mic_failed",
                            "acked"}

LEMMA QuietMove ==
    ASSUME IInv, NEW u \in Uplinks, NEW state \in Quiet,
           challenge[u] \in Quiet,
           challenge' = [challenge EXCEPT ![u] = state],
           UNCHANGED <<role, tracked, micTries, submitter, sent>>
    PROVE  /\ challenge' \in [Uplinks -> ChallengeStates]
           /\ ChallengeOK' /\ TriesCount' /\ LastStanding'
           /\ OriginalOK' /\ OthersOK'
  <1>1. challenge' \in [Uplinks -> ChallengeStates]
    BY DEF IInv, TypeOK, Quiet
  <1>2. \A t \in Transactions : \A m \in Mics :
           \/ challenge'[<<t, m>>] = challenge[<<t, m>>]
           \/ challenge[<<t, m>>] \in Quiet /\ challenge'[<<t, m>>] \in Quiet
    BY UplinkPairs DEF IInv, TypeOK
  <1>3. ChallengeOK'
    BY <1>2 DEF IInv, ChallengeOK, Quiet
  <1>4. \A t \in Transactions : \A i \in 1 .. Challenges[t] :
           challenge'[<<t, i>>] = "counted" <=> challenge[<<t, i>>] = "counted"
    BY <1>2, ChallengesType DEF Quiet
  <1>5. TriesCount'
    <2>1. \A t \in Transactions : Counted(t)' = Counted(t)
      BY <1>4 DEF Counted
    <2>2. QED
      BY <2>1 DEF IInv, TypeOK, TriesCount
  <1>6. LastStanding'
    BY <1>2, <1>4 DEF IInv, LastStanding, Quiet
  <1>7. OriginalOK'
    <2>1. \A t \in Transactions : \A m \in Mics :
             challenge[<<t, m>>] \in {"mic_failed", "acked"} =>
                challenge'[<<t, m>>] = challenge[<<t, m>>]
      BY <1>2 DEF Quiet
    <2>2. QED
      BY <2>1 DEF IInv, OriginalOK
  <1>8. OthersOK'
    BY DEF IInv, OthersOK
  <1>9. QED
    BY <1>1, <1>3, <1>5, <1>6, <1>7, <1>8

\* What is at the head of a queue waits in it, and nowhere behind.
LEMMA HeadOfUplinks ==
    ASSUME IInv, uplinkQ # << >>
    PROVE  /\ Head(uplinkQ) \in Uplinks
           /\ challenge[Head(uplinkQ)] = "queued"
           /\ Tail(uplinkQ) \in Seq(Uplinks)
           /\ \A k \in 1 .. Len(Tail(uplinkQ)) :
                 /\ Tail(uplinkQ)[k] \in Uplinks \ {Head(uplinkQ)}
                 /\ challenge[Tail(uplinkQ)[k]] = "queued"
           /\ \A j, k \in 1 .. Len(Tail(uplinkQ)) :
                 j # k => Tail(uplinkQ)[j] # Tail(uplinkQ)[k]
  <1>1. uplinkQ \in Seq(Uplinks)
    BY DEF IInv, TypeOK
  <1>2. Len(uplinkQ) \in Nat \ {0} /\ Head(uplinkQ) = uplinkQ[1]
    BY <1>1, EmptySeq
  <1>3. /\ Head(uplinkQ) \in Uplinks
        /\ Tail(uplinkQ) \in Seq(Uplinks)
        /\ Len(Tail(uplinkQ)) = Len(uplinkQ) - 1
        /\ \A k \in 1 .. Len(Tail(uplinkQ)) : Tail(uplinkQ)[k] = uplinkQ[k + 1]
    BY <1>1, HeadTailProperties
  <1>4. \A k \in 1 .. Len(uplinkQ) : uplinkQ[k] \in Uplinks
    BY <1>1, ElementOfSeq
  <1>5. \A k \in 1 .. Len(Tail(uplinkQ)) : k + 1 \in 1 .. Len(uplinkQ) /\ k + 1 # 1
    BY <1>2, <1>3
  <1>6. /\ \A k \in 1 .. Len(uplinkQ) : challenge[uplinkQ[k]] = "queued"
        /\ \A j, k \in 1 .. Len(uplinkQ) : j # k => uplinkQ[j] # uplinkQ[k]
    BY DEF IInv, QueueOK
  <1>7. challenge[Head(uplinkQ)] = "queued"
    BY <1>2, <1>6
  <1>8. \A k \in 1 .. Len(Tail(uplinkQ)) :
           /\ Tail(uplinkQ)[k] \in Uplinks \ {Head(uplinkQ)}
           /\ challenge[Tail(uplinkQ)[k]] = "queued"
    BY <1>2, <1>3, <1>4, <1>5, <1>6
  <1>9. \A j, k \in 1 .. Len(Tail(uplinkQ)) :
           j # k => Tail(uplinkQ)[j] # Tail(uplinkQ)[k]
    <2> TAKE j, k \in 1 .. Len(Tail(uplinkQ))
    <2>1. j + 1 \in 1 .. Len(uplinkQ) /\ k + 1 \in 1 .. Len(uplinkQ)
      BY <1>5
    <2>2. j # k => j + 1 # k + 1
      BY <1>3, <1>2
    <2>3. QED
      BY <1>3, <1>6, <2>1, <2>2
  <1>10. QED
    BY <1>3, <1>7, <1>8, <1>9

LEMMA HeadOfResults ==
    ASSUME IInv, resultQ # << >>
    PROVE  /\ Head(resultQ) \in Result
           /\ challenge[Head(resultQ).uplink] = "result"
           /\ Tail(resultQ) \in Seq(Result)
           /\ \A k \in 1 .. Len(Tail(resultQ)) :
                 /\ Tail(resultQ)[k].uplink \in Uplinks \ {Head(resultQ).uplink}
                 /\ challenge[Tail(resultQ)[k].uplink] = "result"
           /\ \A j, k \in 1 .. Len(Tail(resultQ)) :
                 j # k => Tail(resultQ)[j].uplink # Tail(resultQ)[k].uplink
  <1>1. resultQ \in Seq(Result)
    BY DEF IInv, TypeOK
  <1>2. Len(resultQ) \in Nat \ {0} /\ Head(resultQ) = resultQ[1]
    BY <1>1, EmptySeq
  <1>3. /\ Head(resultQ) \in Result
        /\ Tail(resultQ) \in Seq(Result)
        /\ Len(Tail(resultQ)) = Len(resultQ) - 1
        /\ \A k \in 1 .. Len(Tail(resultQ)) : Tail(resultQ)[k] = resultQ[k + 1]
    BY <1>1, HeadTailProperties
  <1>4. \A k \in 1 .. Len(resultQ) : resultQ[k].uplink \in Uplinks
    <2>1. \A k \in 1 .. Len(resultQ) : resultQ[k] \in Result
      BY <1>1, ElementOfSeq
    <2>2. QED
      BY <2>1 DEF Result
  <1>5. \A k \in 1 .. Len(Tail(resultQ)) : k + 1 \in 1 .. Len(resultQ) /\ k + 1 # 1
    BY <1>2, <1>3
  <1>6. /\ \A k \in 1 .. Len(resultQ) : challenge[resultQ[k].uplink] = "result"
        /\ \A j, k \in 1 .. Len(resultQ) :
              j # k => resultQ[j].uplink # resultQ[k].uplink
    BY DEF IInv, QueueOK
  <1>7. challenge[Head(resultQ).uplink] = "result"
    BY <1>2, <1>6
  <1>8. \A k \in 1 .. Len(Tail(resultQ)) :
           /\ Tail(resultQ)[k].uplink \in Uplinks \ {Head(resultQ).uplink}
           /\ challenge[Tail(resultQ)[k].uplink] = "result"
    BY <1>2, <1>3, <1>4, <1>5, <1>6
  <1>9. \A j, k \in 1 .. Len(Tail(resultQ)) :
           j # k => Tail(resultQ)[j].uplink # Tail(resultQ)[k].uplink
    <2> TAKE j, k \in 1 .. Len(Tail(resultQ))
    <2>1. j + 1 \in 1 .. Len(resultQ) /\ k + 1 \in 1 .. Len(resultQ)
      BY <1>5
    <2>2. j # k => j + 1 # k + 1
      BY <1>3, <1>2
    <2>3. QED
      BY <1>3, <1>6, <2>1, <2>2
  <1>10. QED
    BY <1>3, <1>7, <1>8, <1>9

\* A result is queued for an uplink that was not waiting in the queue.
LEMMA QueueResult ==
    ASSUME IInv, NEW u \in Uplinks, NEW v \in Verdicts,
           challenge[u] # "result",
           challenge' = [challenge EXCEPT ![u] = "result"],
           resultQ' = Append(resultQ, [uplink |-> u, verdict |-> v])
    PROVE  /\ resultQ' \in Seq(Result)
           /\ \A k \in 1 .. Len(resultQ') : challenge'[resultQ'[k].uplink] = "result"
           /\ \A j, k \in 1 .. Len(resultQ') :
                 j # k => resultQ'[j].uplink # resultQ'[k].uplink
  <1> DEFINE r == [uplink |-> u, verdict |-> v]
  <1>1. r \in Result /\ r.uplink = u
    BY DEF Result
  <1>2. resultQ \in Seq(Result) /\ challenge \in [Uplinks -> ChallengeStates]
    BY DEF IInv, TypeOK
  <1>3. /\ resultQ' \in Seq(Result)
        /\ Len(resultQ') = Len(resultQ) + 1
        /\ \A k \in 1 .. Len(resultQ) : resultQ'[k] = resultQ[k]
        /\ resultQ'[Len(resultQ) + 1].uplink = u
    <2> HIDE DEF r
    <2>1. resultQ' = Append(resultQ, r)
      BY DEF r
    <2>2. QED
      BY <1>1, <1>2, <2>1, AppendProperties
  <1>4. Len(resultQ) \in Nat
    BY <1>2, LenProperties
  <1>5. \A k \in 1 .. Len(resultQ) :
           /\ resultQ[k].uplink \in Uplinks \ {u}
           /\ challenge[resultQ[k].uplink] = "result"
    <2>1. \A k \in 1 .. Len(resultQ) : resultQ[k] \in Result
      BY <1>2, ElementOfSeq
    <2>2. QED
      BY <2>1 DEF Result, IInv, QueueOK
  <1>6. \A j, k \in 1 .. Len(resultQ) :
           j # k => resultQ[j].uplink # resultQ[k].uplink
    BY DEF IInv, QueueOK
  <1>7. \A k \in 1 .. Len(resultQ') : challenge'[resultQ'[k].uplink] = "result"
    BY <1>2, <1>3, <1>4, <1>5
  <1>8. \A j, k \in 1 .. Len(resultQ') :
           j # k => resultQ'[j].uplink # resultQ'[k].uplink
    <2> TAKE j, k \in 1 .. Len(resultQ')
    <2>1. CASE j \in 1 .. Len(resultQ) /\ k \in 1 .. Len(resultQ)
      BY <2>1, <1>3, <1>6
    <2>2. CASE j = Len(resultQ) + 1 \/ k = Len(resultQ) + 1
      BY <2>2, <1>3, <1>4, <1>5
    <2>3. QED
      BY <2>1, <2>2, <1>3, <1>4
  <1>9. QED
    BY <1>3, <1>7, <1>8

LEMMA HandleUplinkIInv ==
    ASSUME IInv, HandleUplink
    PROVE  IInv'
  <1> DEFINE u == Head(uplinkQ)
             v == Verdict(u)
             waiting == Tail(uplinkQ)
  <1>1. /\ u \in Uplinks /\ challenge[u] = "queued"
        /\ waiting \in Seq(Uplinks) /\ uplinkQ' = waiting
        /\ \A k \in 1 .. Len(waiting) :
              waiting[k] \in Uplinks \ {u} /\ challenge[waiting[k]] = "queued"
        /\ \A j, k \in 1 .. Len(waiting) : j # k => waiting[j] # waiting[k]
    BY HeadOfUplinks DEF HandleUplink
  <1>2. UNCHANGED <<ranVars, forwarded, dupVars, device, faults, syncs>>
    BY DEF HandleUplink
  <1>3. challenge \in [Uplinks -> ChallengeStates]
    BY DEF IInv, TypeOK
  <1>4. CASE /\ challenge' = [challenge EXCEPT ![u] = "publishing"]
             /\ \E kept \in AfterClean(contexts) :
                   contexts' = kept \cup {ContextOf[u[1]]}
             /\ UNCHANGED resultQ
    <2> HIDE DEF u, waiting
    <2>1. contexts' \in SUBSET Contexts
      <3>1. PICK kept \in AfterClean(contexts) :
                contexts' = kept \cup {ContextOf[u[1]]}
        BY <1>4
      <3>2. QED
        BY <1>1, <3>1, AfterCleanSubset, UplinkPairs, ContextAssumption
        DEF IInv, TypeOK
    <2>2. /\ challenge' \in [Uplinks -> ChallengeStates]
          /\ ChallengeOK' /\ TriesCount' /\ LastStanding'
          /\ OriginalOK' /\ OthersOK'
      BY <1>1, <1>2, <1>4, QuietMove
      DEF Quiet, ChallengeStates, ranVars, dupVars
    <2>3. TypeOK'
      BY <1>1, <1>2, <1>4, <2>1, <2>2 DEF IInv, TypeOK, ranVars, dupVars
    <2>4. \A k \in 1 .. Len(resultQ) :
             resultQ[k] \in Result /\ challenge[resultQ[k].uplink] = "result"
      BY ElementOfSeq DEF IInv, TypeOK, QueueOK
    <2>5. \A k \in 1 .. Len(resultQ) : challenge'[resultQ[k].uplink] = "result"
      BY <1>1, <1>3, <1>4, <2>4 DEF Result
    <2>6. \A k \in 1 .. Len(waiting) : challenge'[waiting[k]] = "queued"
      BY <1>1, <1>3, <1>4
    <2>7. QueueOK'
      BY <1>1, <1>4, <2>5, <2>6 DEF IInv, QueueOK
    <2>8. QED
      BY <2>2, <2>3, <2>7 DEF IInv
  <1>5. CASE /\ v # "Ack"
             /\ challenge' = [challenge EXCEPT ![u] = "result"]
             /\ resultQ' = Append(resultQ, [uplink |-> u, verdict |-> v])
             /\ UNCHANGED contexts
    <2>1. v \in Verdicts
      BY DEF Verdict, Verdicts
    <2> HIDE DEF u, v, waiting
    <2>2. /\ challenge' \in [Uplinks -> ChallengeStates]
          /\ ChallengeOK' /\ TriesCount' /\ LastStanding'
          /\ OriginalOK' /\ OthersOK'
      BY <1>1, <1>2, <1>5, QuietMove
      DEF Quiet, ChallengeStates, ranVars, dupVars
    <2>3. /\ resultQ' \in Seq(Result)
          /\ \A k \in 1 .. Len(resultQ') : challenge'[resultQ'[k].uplink] = "result"
          /\ \A j, k \in 1 .. Len(resultQ') :
                j # k => resultQ'[j].uplink # resultQ'[k].uplink
      BY <1>1, <1>5, <2>1, QueueResult
    <2>4. TypeOK'
      BY <1>1, <1>2, <1>5, <2>2, <2>3 DEF IInv, TypeOK, ranVars, dupVars
    <2>5. \A k \in 1 .. Len(waiting) : challenge'[waiting[k]] = "queued"
      BY <1>1, <1>3, <1>5
    <2>6. QueueOK'
      BY <1>1, <2>3, <2>5 DEF QueueOK
    <2>7. QED
      BY <2>2, <2>4, <2>6 DEF IInv
  <1>6. QED
    BY <1>4, <1>5 DEF HandleUplink

LEMMA PublishedIInv ==
    ASSUME IInv, NEW u \in Uplinks, Published(u)
    PROVE  IInv'
  <1>1. /\ challenge' \in [Uplinks -> ChallengeStates]
        /\ ChallengeOK' /\ TriesCount' /\ LastStanding'
        /\ OriginalOK' /\ OthersOK'
    BY QuietMove DEF Published, Quiet, ChallengeStates, ranVars, dupVars
  <1>2. /\ resultQ' \in Seq(Result)
        /\ \A k \in 1 .. Len(resultQ') : challenge'[resultQ'[k].uplink] = "result"
        /\ \A j, k \in 1 .. Len(resultQ') :
              j # k => resultQ'[j].uplink # resultQ'[k].uplink
    BY QueueResult DEF Published, Verdicts
  <1>3. forwarded' \in SUBSET (Contexts \X Mics)
    BY UplinkPairs, ContextAssumption DEF IInv, TypeOK, Published, Frame
  <1>4. TypeOK'
    BY <1>1, <1>2, <1>3 DEF IInv, TypeOK, Published, ranVars, dupVars
  <1>5. QueueOK'
    <2>1. \A k \in 1 .. Len(uplinkQ) : uplinkQ[k] \in Uplinks
      BY ElementOfSeq DEF IInv, TypeOK
    <2>2. \A k \in 1 .. Len(uplinkQ) : challenge'[uplinkQ[k]] = "queued"
      BY <2>1 DEF IInv, TypeOK, QueueOK, Published
    <2>3. uplinkQ' = uplinkQ
          /\ \A j, k \in 1 .. Len(uplinkQ) : j # k => uplinkQ[j] # uplinkQ[k]
      BY DEF IInv, QueueOK, Published
    <2>4. QED
      BY <1>2, <2>2, <2>3 DEF QueueOK
  <1>6. QED
    BY <1>1, <1>4, <1>5 DEF IInv

\* A step that moves one uplink that waits in no queue leaves both queues fine.
LEMMA QueuesKept ==
    ASSUME IInv, NEW u \in Uplinks, challenge[u] \notin {"queued", "result"},
           NEW state, challenge' = [challenge EXCEPT ![u] = state],
           UNCHANGED <<uplinkQ, resultQ>>
    PROVE  QueueOK'
  <1>1. /\ \A k \in 1 .. Len(uplinkQ) : uplinkQ[k] \in Uplinks
        /\ \A k \in 1 .. Len(resultQ) : resultQ[k] \in Result
    BY ElementOfSeq DEF IInv, TypeOK
  <1>2. \A k \in 1 .. Len(resultQ) : resultQ[k].uplink \in Uplinks
    BY <1>1 DEF Result
  <1>3. QED
    BY <1>1, <1>2 DEF IInv, TypeOK, QueueOK

LEMMA PublishFailsIInv ==
    ASSUME IInv, NEW u \in Uplinks, PublishFails(u)
    PROVE  IInv'
  <1>1. /\ challenge' \in [Uplinks -> ChallengeStates]
        /\ ChallengeOK' /\ TriesCount' /\ LastStanding'
        /\ OriginalOK' /\ OthersOK'
    BY QuietMove DEF PublishFails, Quiet, ChallengeStates, ranVars, dupVars
  <1>2. TypeOK'
    BY <1>1, BoundAssumption DEF IInv, TypeOK, PublishFails, ranVars, dupVars
  <1>3. QueueOK'
    BY QueuesKept DEF PublishFails
  <1>4. QED
    BY <1>1, <1>2, <1>3 DEF IInv

-----------------------------------------------------------------------------
(* Results: the heart of the argument                                        *)

\* The uplink of a result has not been counted, and is within the challenge.
LEMMA ResultUncounted ==
    ASSUME IInv, NEW t \in tracked, NEW m \in Mics, challenge[<<t, m>>] = "result"
    PROVE  /\ m \in 1 .. Challenges[t]
           /\ Counted(t) \in SUBSET (1 .. Challenges[t])
           /\ m \notin Counted(t)
           /\ Cardinality(Counted(t)) \in Nat
           /\ micTries[t] \in Nat \ {0}
           /\ micTries[t] + Cardinality(Counted(t)) = Challenges[t]
           /\ Cardinality(Counted(t) \cup {m}) = Cardinality(Counted(t)) + 1
  <1>1. t \in Transactions /\ Challenges[t] \in Nat /\ micTries[t] \in Nat
    BY ChallengesType DEF IInv, TypeOK
  <1>2. m \in 1 .. Challenges[t]
    BY <1>1 DEF IInv, ChallengeOK, Mics
  <1>3. Counted(t) \in SUBSET (1 .. Challenges[t]) /\ m \notin Counted(t)
    BY DEF Counted
  <1>4. Cardinality(Counted(t)) \in Nat
    BY <1>1, <1>3, CountedType
  <1>5. /\ Cardinality(Counted(t)) + 1 <= Challenges[t]
        /\ Cardinality(Counted(t) \cup {m}) = Cardinality(Counted(t)) + 1
    BY <1>1, <1>2, <1>3, CountedLess
  <1>6. micTries[t] + Cardinality(Counted(t)) = Challenges[t]
    BY DEF IInv, TriesCount
  <1>7. QED
    BY <1>1, <1>2, <1>3, <1>4, <1>5, <1>6

\* Who finds one try left is the last one standing.
LEMMA LastTryAllCounted ==
    ASSUME IInv, NEW t \in tracked, NEW m \in Mics,
           challenge[<<t, m>>] = "result", LastTry(t)
    PROVE  \A i \in 1 .. Challenges[t] : i # m => challenge[<<t, i>>] = "counted"
  <1>1. t \in Transactions /\ Challenges[t] \in Nat
    BY ChallengesType DEF IInv, TypeOK
  <1>2. Cardinality(Counted(t)) + 1 = Challenges[t]
    <2>1. /\ Cardinality(Counted(t)) \in Nat
          /\ micTries[t] + Cardinality(Counted(t)) = Challenges[t]
      BY ResultUncounted
    <2>2. QED
      BY <2>1 DEF LastTry
  <1>3. Counted(t) = (1 .. Challenges[t]) \ {m}
    BY <1>1, <1>2, ResultUncounted, CountedAllBut
  <1>4. QED
    BY <1>3 DEF Counted

LEMMA LastTrySendKeeps ==
    ASSUME IInv, NEW u \in Uplinks, challenge[u] = "result", u[1] \in tracked,
           LastTry(u[1]),
           challenge' = [challenge EXCEPT ![u] = "send_mic_failed"],
           UNCHANGED <<role, tracked, micTries, submitter, sent>>
    PROVE  /\ challenge' \in [Uplinks -> ChallengeStates]
           /\ ChallengeOK' /\ TriesCount' /\ LastStanding'
           /\ OriginalOK' /\ OthersOK'
  <1> DEFINE t == u[1]
             m == u[2]
  <1>1. t \in Transactions /\ m \in Mics /\ u = <<t, m>>
    BY UplinkPairs
  <1> HIDE DEF t, m
  <1>2. \A i \in 1 .. Challenges[t] : i # m => challenge[<<t, i>>] = "counted"
    BY <1>1, LastTryAllCounted DEF t
  <1>3. challenge' \in [Uplinks -> ChallengeStates]
    BY DEF IInv, TypeOK, ChallengeStates, Sending
  <1>4. /\ challenge'[<<t, m>>] = "send_mic_failed"
        /\ \A s \in Transactions : \A i \in Mics :
              s # t \/ i # m => challenge'[<<s, i>>] = challenge[<<s, i>>]
    BY <1>1, UplinkPairs DEF IInv, TypeOK
  <1>5. ChallengeOK'
    BY <1>1, <1>4 DEF IInv, ChallengeOK
  <1>6. \A s \in Transactions : \A i \in 1 .. Challenges[s] :
           challenge'[<<s, i>>] = "counted" <=> challenge[<<s, i>>] = "counted"
    BY <1>1, <1>4, ChallengesType
  <1>7. TriesCount'
    <2>1. \A s \in Transactions : Counted(s)' = Counted(s)
      BY <1>6 DEF Counted
    <2>2. QED
      BY <2>1 DEF IInv, TypeOK, TriesCount
  <1>8. LastStanding'
    <2> SUFFICES ASSUME NEW s \in Transactions, NEW j \in Mics,
                        challenge'[<<s, j>>] \in {"send_mic_failed", "mic_failed"},
                        NEW i \in 1 .. Challenges[s], i # j
                 PROVE  challenge'[<<s, i>>] = "counted"
      BY DEF LastStanding
    <2>1. CASE s = t /\ j = m
      BY <2>1, <1>2, <1>6
    <2>2. CASE s # t \/ j # m
      <3>1. challenge[<<s, j>>] \in {"send_mic_failed", "mic_failed"}
        BY <2>2, <1>4
      <3>2. challenge[<<s, i>>] = "counted"
        BY <3>1 DEF IInv, LastStanding
      <3>3. QED
        BY <3>2, <1>6
    <2>3. QED
      BY <2>1, <2>2
  <1>9. OriginalOK'
    <2>1. \A s \in Transactions : \A i \in Mics :
             challenge[<<s, i>>] \in {"mic_failed", "acked"} =>
                challenge'[<<s, i>>] = challenge[<<s, i>>]
      BY <1>1, <1>4
    <2>2. QED
      BY <2>1 DEF IInv, OriginalOK
  <1>10. OthersOK'
    BY DEF IInv, OthersOK
  <1>11. QED
    BY <1>3, <1>5, <1>7, <1>8, <1>9, <1>10

LEMMA CountFailureKeeps ==
    ASSUME IInv, NEW u \in Uplinks, challenge[u] = "result", u[1] \in tracked,
           CountFailure(u), UNCHANGED <<role, tracked, submitter, sent>>
    PROVE  /\ challenge' \in [Uplinks -> ChallengeStates]
           /\ micTries' \in [Transactions -> Nat]
           /\ ChallengeOK' /\ TriesCount' /\ LastStanding'
           /\ OriginalOK' /\ OthersOK'
  <1> DEFINE t == u[1]
             m == u[2]
  <1>1. t \in tracked /\ t \in Transactions /\ m \in Mics /\ u = <<t, m>>
    BY UplinkPairs
  <1>2. /\ micTries' = [micTries EXCEPT ![t] = @ - 1]
        /\ challenge' = [challenge EXCEPT ![u] = "counted"]
    BY DEF CountFailure
  <1> HIDE DEF t, m
  <1>3. /\ m \in 1 .. Challenges[t]
        /\ Cardinality(Counted(t)) \in Nat
        /\ micTries[t] \in Nat \ {0}
        /\ micTries[t] + Cardinality(Counted(t)) = Challenges[t]
        /\ Cardinality(Counted(t) \cup {m}) = Cardinality(Counted(t)) + 1
    BY <1>1, ResultUncounted
  <1>4. challenge' \in [Uplinks -> ChallengeStates]
    BY <1>2 DEF IInv, TypeOK, ChallengeStates
  <1>5. micTries' \in [Transactions -> Nat]
    BY <1>1, <1>2, <1>3 DEF IInv, TypeOK
  <1>6. /\ challenge'[<<t, m>>] = "counted"
        /\ \A s \in Transactions : \A i \in Mics :
              s # t \/ i # m => challenge'[<<s, i>>] = challenge[<<s, i>>]
    BY <1>1, <1>2, UplinkPairs DEF IInv, TypeOK
  <1>7. ChallengeOK'
    BY <1>1, <1>6 DEF IInv, ChallengeOK
  <1>8. TriesCount'
    <2>1. Counted(t)' = Counted(t) \cup {m}
      BY <1>1, <1>3, <1>6, ChallengesType DEF Counted
    <2>2. \A s \in Transactions \ {t} : Counted(s)' = Counted(s)
      BY <1>6, ChallengesType DEF Counted
    <2>3. micTries'[t] + Cardinality(Counted(t)') = Challenges[t]
      <3>1. micTries'[t] = micTries[t] - 1
        BY <1>1, <1>2 DEF IInv, TypeOK
      <3>2. QED
        BY <1>3, <2>1, <3>1
    <2>4. \A s \in tracked \ {t} :
             micTries'[s] + Cardinality(Counted(s)') = Challenges[s]
      BY <1>2, <2>2 DEF IInv, TypeOK, TriesCount
    <2>5. QED
      BY <2>3, <2>4 DEF IInv, TriesCount
  <1>9. LastStanding'
    <2> SUFFICES ASSUME NEW s \in Transactions, NEW j \in Mics,
                        challenge'[<<s, j>>] \in {"send_mic_failed", "mic_failed"},
                        NEW i \in 1 .. Challenges[s], i # j
                 PROVE  challenge'[<<s, i>>] = "counted"
      BY DEF LastStanding
    <2>1. challenge[<<s, j>>] \in {"send_mic_failed", "mic_failed"}
      BY <1>6
    <2>2. challenge[<<s, i>>] = "counted"
      BY <2>1 DEF IInv, LastStanding
    <2>3. QED
      BY <2>2, <1>6, ChallengesType
  <1>10. OriginalOK'
    <2>1. \A s \in Transactions : \A i \in Mics :
             challenge[<<s, i>>] \in {"mic_failed", "acked"} =>
                challenge'[<<s, i>>] = challenge[<<s, i>>]
      BY <1>1, <1>6
    <2>2. QED
      BY <2>1 DEF IInv, OriginalOK
  <1>11. OthersOK'
    BY DEF IInv, OthersOK
  <1>12. QED
    BY <1>4, <1>5, <1>7, <1>8, <1>9, <1>10, <1>11

LEMMA HandleResultIInv ==
    ASSUME IInv, HandleResult
    PROVE  IInv'
  <1> DEFINE u == Head(resultQ).uplink
             v == Head(resultQ).verdict
             behind == Tail(resultQ)
             Keeps == /\ challenge' \in [Uplinks -> ChallengeStates]
                      /\ micTries' \in [Transactions -> Nat]
                      /\ ChallengeOK' /\ TriesCount' /\ LastStanding'
                      /\ OriginalOK' /\ OthersOK'
                      /\ \E state \in ChallengeStates :
                            challenge' = [challenge EXCEPT ![u] = state]
  <1>1. /\ Head(resultQ) \in Result /\ challenge[u] = "result"
        /\ behind \in Seq(Result) /\ resultQ' = behind
        /\ \A k \in 1 .. Len(behind) : /\ behind[k].uplink \in Uplinks \ {u}
                                       /\ challenge[behind[k].uplink] = "result"
        /\ \A j, k \in 1 .. Len(behind) :
              j # k => behind[j].uplink # behind[k].uplink
    BY HeadOfResults DEF HandleResult
  <1>2. u \in Uplinks /\ u[1] \in Transactions /\ u[2] \in Mics
    BY <1>1, UplinkPairs DEF Result
  <1>3. UNCHANGED <<upstream, role, known, live, tracked, sent, uplinkQ,
                    forwarded, contexts, waiter, submitter, dupMic, ackSync,
                    device, faults, syncs>>
    BY DEF HandleResult
  <1> HIDE DEF u, v, behind
  <1>4. ASSUME NEW state \in Quiet, UNCHANGED micTries,
               challenge' = [challenge EXCEPT ![u] = state]
        PROVE  Keeps
    <2>1. challenge[u] \in Quiet
      BY <1>1 DEF Quiet, ChallengeStates
    <2>2. /\ challenge' \in [Uplinks -> ChallengeStates]
          /\ ChallengeOK' /\ TriesCount' /\ LastStanding'
          /\ OriginalOK' /\ OthersOK'
      BY <1>2, <1>3, <1>4, <2>1, QuietMove
    <2>3. state \in ChallengeStates
      BY DEF Quiet
    <2>4. QED
      BY <1>4, <2>2, <2>3 DEF IInv, TypeOK
  <1>5. {"dropped", "lost", "send_ack", "send_other"} \subseteq Quiet
    BY DEF Quiet, ChallengeStates, Sending
  <1>6. ASSUME ~Closed(u), CountFailure(u) PROVE Keeps
    <2>1. u[1] \in tracked
      BY <1>6 DEF Closed
    <2>2. "counted" \in ChallengeStates
          /\ challenge' = [challenge EXCEPT ![u] = "counted"]
      BY <1>6 DEF CountFailure, ChallengeStates
    <2>3. QED
      BY <1>1, <1>2, <1>3, <1>6, <2>1, <2>2, CountFailureKeeps
  <1>7. ASSUME ~Closed(u), LastTry(u[1]), StartSend(u, "send_mic_failed")
        PROVE  Keeps
    <2>1. u[1] \in tracked
      BY <1>7 DEF Closed
    <2>2. CASE ~upstream
      BY <1>4, <1>5, <1>7, <2>2 DEF StartSend
    <2>3. CASE upstream
      <3>1. challenge' = [challenge EXCEPT ![u] = "send_mic_failed"]
            /\ micTries' = micTries
        BY <1>7, <2>3 DEF StartSend
      <3>2. "send_mic_failed" \in ChallengeStates
        BY DEF ChallengeStates, Sending
      <3>3. /\ challenge' \in [Uplinks -> ChallengeStates]
            /\ ChallengeOK' /\ TriesCount' /\ LastStanding'
            /\ OriginalOK' /\ OthersOK'
        BY <1>1, <1>2, <1>3, <1>7, <2>1, <3>1, LastTrySendKeeps
      <3>4. QED
        BY <3>1, <3>2, <3>3 DEF IInv, TypeOK
    <2>4. QED
      BY <2>2, <2>3
  <1>8. ASSUME NEW state \in {"send_ack", "send_other"}, StartSend(u, state)
        PROVE  Keeps
    BY <1>4, <1>5, <1>8 DEF StartSend
  <1>9. ASSUME ackCache' \in [Contexts -> 0 .. MaxMics], Keeps
        PROVE  IInv'
    <2>1. TypeOK'
      BY <1>1, <1>3, <1>9 DEF IInv, TypeOK
    <2>2. PICK state \in ChallengeStates :
              challenge' = [challenge EXCEPT ![u] = state]
      BY <1>9
    <2>3. \A w \in Uplinks \ {u} : challenge'[w] = challenge[w]
      BY <2>2 DEF IInv, TypeOK
    <2>4. \A k \in 1 .. Len(uplinkQ) : /\ uplinkQ[k] \in Uplinks
                                       /\ challenge[uplinkQ[k]] = "queued"
      BY ElementOfSeq DEF IInv, TypeOK, QueueOK
    <2>5. \A k \in 1 .. Len(uplinkQ) : challenge'[uplinkQ[k]] = "queued"
      BY <1>1, <2>3, <2>4
    <2>6. \A k \in 1 .. Len(behind) : challenge'[behind[k].uplink] = "result"
      BY <1>1, <2>3
    <2>7. uplinkQ' = uplinkQ
          /\ \A j, k \in 1 .. Len(uplinkQ) : j # k => uplinkQ[j] # uplinkQ[k]
      BY <1>3 DEF IInv, QueueOK
    <2>8. QueueOK'
      BY <1>1, <2>5, <2>6, <2>7 DEF QueueOK
    <2>9. QED
      BY <1>9, <2>1, <2>8 DEF IInv
  <1>10. \A c \in Contexts : \A m \in Mics :
            SetAck(c, m) => ackCache' \in [Contexts -> 0 .. MaxMics]
    BY ChallengeAssumption DEF SetAck, IInv, TypeOK, Mics
  <1>11. ackCache' = ackCache => ackCache' \in [Contexts -> 0 .. MaxMics]
    BY DEF IInv, TypeOK
  <1>12. CASE /\ Closed(u)
              /\ challenge' = [challenge EXCEPT ![u] = "dropped"]
              /\ UNCHANGED <<ackCache, micTries>>
    BY <1>4, <1>5, <1>9, <1>11, <1>12
  <1>13. CASE /\ ~Closed(u) /\ v = "Ack"
              /\ SetAck(ContextOf[u[1]], u[2])
              /\ StartSend(u, "send_ack")
    <2>1. ackCache' \in [Contexts -> 0 .. MaxMics]
      BY <1>2, <1>10, <1>13, ContextAssumption
    <2>2. QED
      BY <1>8, <1>9, <1>13, <2>1
  <1>14. CASE /\ ~Closed(u) /\ v = "MicChallengeFail"
              /\ IF LastTry(u[1]) THEN StartSend(u, "send_mic_failed")
                                 ELSE CountFailure(u)
              /\ UNCHANGED ackCache
    BY <1>6, <1>7, <1>9, <1>11, <1>14
  <1>15. CASE /\ ~Closed(u) /\ v \in {"DeviceNotFound", "NotSupported"}
              /\ StartSend(u, "send_other")
              /\ UNCHANGED ackCache
    BY <1>8, <1>9, <1>11, <1>15
  <1>16. CASE /\ ~Closed(u) /\ v = "InternalError"
              /\ CountFailure(u)
              /\ UNCHANGED ackCache
    BY <1>6, <1>9, <1>11, <1>16
  <1>17. QED
    BY <1>12, <1>13, <1>14, <1>15, <1>16 DEF HandleResult, u, v

\* An answer is given: its kind is that of the uplink it comes from.
LEMMA AnswerSentIInv ==
    ASSUME IInv, NEW u \in Uplinks, AnswerSent(u)
    PROVE  IInv'
  <1> DEFINE t == u[1]
             m == u[2]
             state == challenge'[u]
  <1>1. t \in Transactions /\ m \in Mics /\ u = <<t, m>>
    BY UplinkPairs
  <1>2. PICK a \in Answer :
           /\ sent' = [sent EXCEPT ![t] = Append(@, a)]
           /\ \/ /\ challenge[u] = "send_ack" /\ a.kind = "ack"
                 /\ challenge' = [challenge EXCEPT ![u] = "acked"]
              \/ /\ challenge[u] = "send_mic_failed" /\ a.kind = "mic_failed"
                 /\ challenge' = [challenge EXCEPT ![u] = "mic_failed"]
              \/ /\ challenge[u] = "send_other" /\ a.kind = "other"
                 /\ challenge' = [challenge EXCEPT ![u] = "refused"]
    <2>1. \A kind \in AnswerKinds : \A mic \in 0 .. MaxMics :
             [kind |-> kind, mic |-> mic] \in Answer
      BY DEF Answer
    <2>2. 0 \in 0 .. MaxMics /\ m \in 0 .. MaxMics
      BY <1>1, ChallengeAssumption DEF Mics
    <2>3. CASE challenge[u] = "send_ack"
      <3> DEFINE b == [kind |-> "ack", mic |-> m]
      <3>1. b \in Answer /\ b.kind = "ack"
        BY <2>1, <2>2 DEF AnswerKinds
      <3>2. QED
        BY <2>3, <3>1 DEF AnswerSent, Send
    <2>4. CASE challenge[u] = "send_mic_failed"
      <3> DEFINE b == [kind |-> "mic_failed", mic |-> 0]
      <3>1. b \in Answer /\ b.kind = "mic_failed"
        BY <2>1, <2>2 DEF AnswerKinds
      <3>2. QED
        BY <2>4, <3>1 DEF AnswerSent, Send
    <2>5. CASE challenge[u] = "send_other"
      <3> DEFINE b == [kind |-> "other", mic |-> 0]
      <3>1. b \in Answer /\ b.kind = "other"
        BY <2>1, <2>2 DEF AnswerKinds
      <3>2. QED
        BY <2>5, <3>1 DEF AnswerSent, Send
    <2>6. QED
      BY <2>3, <2>4, <2>5 DEF AnswerSent
  <1>3. /\ tracked' = tracked \ {t}
        /\ UNCHANGED <<upstream, role, known, live, micTries, uplinkQ, resultQ,
                       forwarded, contexts, dupVars, device, faults, syncs>>
    BY DEF AnswerSent
  <1> HIDE DEF t, m
  <1>4. /\ challenge[u] \in Sending
        /\ challenge'[u] \in {"acked", "mic_failed", "refused"}
        /\ \A w \in Uplinks \ {u} : challenge'[w] = challenge[w]
        /\ challenge' = [challenge EXCEPT ![u] = state]
        /\ a.kind = "ack" => challenge'[u] = "acked"
        /\ a.kind = "mic_failed" => challenge'[u] = "mic_failed"
        /\ challenge'[u] = "mic_failed" => challenge[u] = "send_mic_failed"
    BY <1>2 DEF IInv, TypeOK, Sending
  <1> HIDE DEF state
  <1>5. role[t] = "original" /\ m <= Challenges[t]
    BY <1>1, <1>4 DEF IInv, ChallengeOK, Sending
  <1>6. challenge' \in [Uplinks -> ChallengeStates]
    BY <1>2 DEF IInv, TypeOK, ChallengeStates
  <1>7. /\ sent' \in [Transactions -> Seq(Answer)]
        /\ sent'[t] = Append(sent[t], a)
        /\ \A s \in Transactions \ {t} : sent'[s] = sent[s]
    BY <1>1, <1>2 DEF IInv, TypeOK
  <1>8. TypeOK'
    BY <1>3, <1>6, <1>7 DEF IInv, TypeOK, dupVars
  <1>9. QueueOK'
    BY <1>3, <1>4, QueuesKept DEF Sending
  <1>10. \A s \in Transactions : \A i \in Mics :
            \/ challenge'[<<s, i>>] = challenge[<<s, i>>]
            \/ s = t /\ i = m
    BY <1>1, <1>4, UplinkPairs
  <1>11. ChallengeOK'
    BY <1>3, <1>5, <1>10 DEF IInv, ChallengeOK
  <1>12. \A s \in Transactions : \A i \in 1 .. Challenges[s] :
            challenge'[<<s, i>>] = "counted" <=> challenge[<<s, i>>] = "counted"
    BY <1>1, <1>4, <1>10, ChallengesType DEF Sending
  <1>13. TriesCount'
    <2>1. \A s \in Transactions : Counted(s)' = Counted(s)
      BY <1>12 DEF Counted
    <2>2. QED
      BY <1>3, <2>1 DEF IInv, TypeOK, TriesCount
  <1>14. LastStanding'
    <2> SUFFICES ASSUME NEW s \in Transactions, NEW j \in Mics,
                        challenge'[<<s, j>>] \in {"send_mic_failed", "mic_failed"},
                        NEW i \in 1 .. Challenges[s], i # j
                 PROVE  challenge'[<<s, i>>] = "counted"
      BY DEF LastStanding
    <2>1. challenge[<<s, j>>] \in {"send_mic_failed", "mic_failed"}
      BY <1>1, <1>4, <1>10
    <2>2. challenge[<<s, i>>] = "counted"
      BY <2>1 DEF IInv, LastStanding
    <2>3. QED
      BY <2>2, <1>12
  <1>15. OriginalOK'
    <2> SUFFICES ASSUME NEW s \in Transactions, role'[s] = "original"
                 PROVE  /\ submitter'[s] = "none"
                        /\ \A k \in DOMAIN sent'[s] :
                              /\ sent'[s][k].kind = "mic_failed" =>
                                    \E i \in Mics : challenge'[<<s, i>>] = "mic_failed"
                              /\ sent'[s][k].kind = "ack" =>
                                    \E i \in Mics : challenge'[<<s, i>>] = "acked"
      BY DEF OriginalOK
    <2>1. submitter'[s] = "none"
      BY <1>3 DEF IInv, OriginalOK, dupVars
    <2>2. \A i \in Mics : challenge[<<s, i>>] \in {"mic_failed", "acked"} =>
             challenge'[<<s, i>>] = challenge[<<s, i>>]
      BY <1>1, <1>4, <1>10 DEF Sending
    <2>3. \A k \in DOMAIN sent[s] :
             /\ sent[s][k].kind = "mic_failed" =>
                   \E i \in Mics : challenge'[<<s, i>>] = "mic_failed"
             /\ sent[s][k].kind = "ack" =>
                   \E i \in Mics : challenge'[<<s, i>>] = "acked"
      BY <1>3, <2>2 DEF IInv, OriginalOK
    <2>4. CASE s # t
      BY <1>7, <2>1, <2>3, <2>4
    <2>5. CASE s = t
      <3>1. sent[t] \in Seq(Answer)
        BY <1>1 DEF IInv, TypeOK
      <3>2. /\ Len(sent[t]) \in Nat /\ DOMAIN sent[t] = 1 .. Len(sent[t])
            /\ DOMAIN sent'[t] = 1 .. Len(sent[t]) + 1
            /\ \A k \in 1 .. Len(sent[t]) : sent'[t][k] = sent[t][k]
            /\ sent'[t][Len(sent[t]) + 1] = a
        <4>1. sent'[t] \in Seq(Answer)
          BY <1>1, <1>7
        <4>2. QED
          BY <1>7, <3>1, <4>1, AppendProperties, LenProperties
      <3>3. \A k \in DOMAIN sent'[t] : k \in DOMAIN sent[t] \/ k = Len(sent[t]) + 1
        BY <3>2
      <3>4. QED
        BY <1>1, <1>4, <2>1, <2>3, <2>5, <3>2, <3>3
    <2>6. QED
      BY <2>4, <2>5
  <1>16. OthersOK'
    BY <1>3, <1>5, <1>7 DEF IInv, OthersOK, dupVars
  <1>17. QED
    BY <1>8, <1>9, <1>11, <1>13, <1>14, <1>15, <1>16 DEF IInv

-----------------------------------------------------------------------------
(* The theorems                                                              *)

LEMMA NextIInv == IInv /\ [Next]_vars => IInv'
  <1> SUFFICES ASSUME IInv, [Next]_vars PROVE IInv'
    OBVIOUS
  <1>1. ASSUME NEW t \in Transactions,
               \/ ReceiveNew(t) \/ ReceiveMalformed(t) \/ ReceiveDuplicate(t)
               \/ SubmitterAdded(t) \/ WaiterResolved(t) \/ WaiterTimeout(t)
               \/ TimeoutRaised(t) \/ DuplicateSent(t)
        PROVE  IInv'
    BY <1>1, ReceiveNewIInv, ReceiveMalformedIInv, ReceiveDuplicateIInv,
       SubmitterAddedIInv, WaiterResolvedIInv, WaiterTimeoutIInv,
       TimeoutRaisedIInv, DuplicateSentIInv
  <1>2. ASSUME NEW u \in Uplinks, Published(u) \/ PublishFails(u) \/ AnswerSent(u)
        PROVE  IInv'
    BY <1>2, PublishedIInv, PublishFailsIInv, AnswerSentIInv
  <1>3. CASE HandleUplink
    BY <1>3, HandleUplinkIInv
  <1>4. CASE HandleResult
    BY <1>4, HandleResultIInv
  <1>5. CASE AckSyncPass
    BY <1>5, AckSyncPassIInv
  <1>6. CASE ConnectionLost
    BY <1>6, ConnectionLostIInv
  <1>7. CASE Reconnected
    BY <1>7, ReconnectedIInv
  <1>8. ASSUME NEW c \in Contexts, DeviceSynced(c) PROVE IInv'
    BY <1>8, DeviceSyncedIInv
  <1>9. CASE UNCHANGED vars
    <2>1. TypeOK'
      BY <1>9 DEF IInv, TypeOK, vars, ranVars, pipeVars, dupVars
    <2>2. QED
      BY <1>9, <2>1, ElsewhereIInv DEF vars, ranVars, pipeVars, dupVars
  <1>10. QED
    BY <1>1, <1>2, <1>3, <1>4, <1>5, <1>6, <1>7, <1>8, <1>9 DEF Next

\* The strengthened invariant holds in every reachable state.
THEOREM InductiveInvariant == Spec => []IInv
  <1>1. Init => IInv
    BY InitIInv
  <1>2. IInv /\ [Next]_vars => IInv'
    BY NextIInv
  <1>3. QED
    BY <1>1, <1>2, PTL DEF Spec

\* The state of the uplink path is well typed; in particular the counter of
\* MIC tries never falls below zero.
THEOREM TypeCorrect == Spec => []TypeOK
  <1>1. IInv => TypeOK
    BY DEF IInv
  <1>2. QED
    BY <1>1, InductiveInvariant, PTL

\* The router gives up on an original (ran.py:230-235) only when the uplinks of
\* all its other MICs have come back as failures, in whatever order the results
\* arrive and whatever connection, publish or cache entry is lost meanwhile.
THEOREM GivesUpLast == Spec => []MicFailedMeansAllTried
  <1>1. IInv => MicFailedMeansAllTried
    <2> SUFFICES ASSUME IInv, NEW t \in Transactions, role[t] = "original",
                        Answered(t, "mic_failed")
                 PROVE  \E last \in 1 .. Challenges[t] :
                           /\ challenge[<<t, last>>] = "mic_failed"
                           /\ \A i \in (1 .. Challenges[t]) \ {last} :
                                 challenge[<<t, i>>] = "counted"
      BY DEF MicFailedMeansAllTried
    <2>1. PICK m \in Mics : challenge[<<t, m>>] = "mic_failed"
      BY DEF IInv, OriginalOK, Answered
    <2>2. m \in 1 .. Challenges[t]
      BY <2>1, ChallengesType DEF IInv, ChallengeOK, Mics
    <2>3. \A i \in (1 .. Challenges[t]) \ {m} : challenge[<<t, i>>] = "counted"
      BY <2>1 DEF IInv, LastStanding
    <2>4. QED
      BY <2>1, <2>2, <2>3
  <1>2. QED
    BY <1>1, InductiveInvariant, PTL

\* RAN is never told of one transaction both that its challenge is solved and
\* that it failed (ran.py:202-255, 257-285).
THEOREM NoContradiction == Spec => []NoAckAndMicFailed
  <1>1. IInv => NoAckAndMicFailed
    <2> SUFFICES ASSUME IInv, NEW t \in Transactions,
                        Answered(t, "ack"), Answered(t, "mic_failed")
                 PROVE  FALSE
      BY DEF NoAckAndMicFailed
    <2>1. CASE role[t] = "original"
      <3>1. PICK m \in Mics : challenge[<<t, m>>] = "acked"
        BY <2>1 DEF IInv, OriginalOK, Answered
      <3>2. PICK j \in Mics : challenge[<<t, j>>] = "mic_failed"
        BY <2>1 DEF IInv, OriginalOK, Answered
      <3>3. m \in 1 .. Challenges[t]
        BY <3>1, ChallengesType DEF IInv, ChallengeOK, Mics
      <3>4. QED
        BY <3>1, <3>2, <3>3 DEF IInv, LastStanding
    <2>2. CASE role[t] # "original"
      <3>1. sent[t] \in Seq(Answer) /\ Len(sent[t]) <= 1
        BY <2>2 DEF IInv, TypeOK, OthersOK
      <3>2. PICK j \in DOMAIN sent[t] : sent[t][j].kind = "ack"
        BY DEF Answered
      <3>3. PICK k \in DOMAIN sent[t] : sent[t][k].kind = "mic_failed"
        BY DEF Answered
      <3>4. Len(sent[t]) \in Nat /\ DOMAIN sent[t] = 1 .. Len(sent[t])
        BY <3>1, LenProperties
      <3>5. j = k
        BY <3>1, <3>2, <3>3, <3>4
      <3>6. QED
        BY <3>2, <3>3, <3>5
    <2>3. QED
      BY <2>1, <2>2
  <1>2. QED
    BY <1>1, InductiveInvariant, PTL

-----------------------------------------------------------------------------
(* What the results and the answers say, while the device list stands still  *)

Refusals == {"DeviceNotFound", "NotSupported"}

\* An uplink is on the way its verdict sends it.
VerdictOK ==
    \A u \in Uplinks :
        /\ challenge[u] \in {"publishing", "send_ack", "acked"} => Verdict(u) = "Ack"
        /\ challenge[u] \in {"send_mic_failed", "mic_failed"} =>
              Verdict(u) = "MicChallengeFail"
        /\ challenge[u] \in {"send_other", "refused"} => Verdict(u) \in Refusals

ResultsOK ==
    \A k \in 1 .. Len(resultQ) : resultQ[k].verdict = Verdict(resultQ[k].uplink)

\* An answer says what an uplink of the transaction was judged.
Says(t, a) ==
    \/ a.kind = "ack" /\ a.mic \in Mics /\ Verdict(<<t, a.mic>>) = "Ack"
    \/ /\ a.kind = "mic_failed" /\ a.mic = 0
       /\ \E m \in Mics : Verdict(<<t, m>>) = "MicChallengeFail"
    \/ /\ a.kind = "other" /\ a.mic = 0
       /\ \E m \in Mics : Verdict(<<t, m>>) \in Refusals

AnswersOK ==
    \A t \in Transactions :
        role[t] = "original" => \A k \in DOMAIN sent[t] : Says(t, sent[t][k])

JudgedOnce == syncs = 0 => VerdictOK /\ ResultsOK /\ AnswersOK

\* Only the device list is looked at, and only one MIC can be the right one.
LEMMA VerdictCases ==
    ASSUME NEW u
    PROVE  LET c == ContextOf[u[1]] IN
           /\ Kind[c] = "other" => Verdict(u) = "NotSupported"
           /\ Kind[c] # "other" /\ ~device[c].found => Verdict(u) = "DeviceNotFound"
           /\ Kind[c] = "join" /\ device[c].found /\ ~device[c].hasKey =>
                 Verdict(u) = "InternalError"
           /\ /\ Kind[c] # "other" /\ device[c].found
              /\ ~(Kind[c] = "join" /\ ~device[c].hasKey)
              => Verdict(u) = IF device[c].verifies = u[2] THEN "Ack"
                              ELSE "MicChallengeFail"
  BY DEF Verdict

LEMMA VerdictStays ==
    ASSUME UNCHANGED device, NEW u
    PROVE  Verdict(u)' = Verdict(u)
  BY DEF Verdict

\* Answers that the verdicts bear out are the same answer, if they are not an ack
\* and a reject of the challenge.
LEMMA SaysAgree ==
    ASSUME NEW t \in Transactions, NEW a \in Answer, NEW b \in Answer,
           Says(t, a), Says(t, b),
           ~(a.kind = "ack" /\ b.kind = "mic_failed"),
           ~(b.kind = "ack" /\ a.kind = "mic_failed")
    PROVE  a = b
  <1> DEFINE c == ContextOf[t]
  <1>1. \A m \in Mics : <<t, m>>[1] = t /\ <<t, m>>[2] = m
    OBVIOUS
  <1>2. \A m \in Mics : Verdict(<<t, m>>) = "Ack" =>
           /\ Kind[c] # "other" /\ device[c].found
           /\ device[c].verifies = m
    BY <1>1, VerdictCases
  <1>3. \A m \in Mics : Verdict(<<t, m>>) \in Refusals =>
           Kind[c] = "other" \/ ~device[c].found
    BY <1>1, VerdictCases DEF Refusals
  <1>4. \A m \in Mics : Verdict(<<t, m>>) = "MicChallengeFail" =>
           Kind[c] # "other" /\ device[c].found
    BY <1>1, VerdictCases
  <1>5. a.kind = b.kind /\ a.mic = b.mic
    BY <1>2, <1>3, <1>4 DEF Says
  <1>6. QED
    BY <1>5 DEF Answer

\* What a queue of results holds after a step at one of its ends.
LEMMA AppendedResults ==
    ASSUME IInv, NEW r \in Result, resultQ' = Append(resultQ, r)
    PROVE  \A k \in 1 .. Len(resultQ') :
              \/ resultQ'[k] = r
              \/ \E j \in 1 .. Len(resultQ) : resultQ'[k] = resultQ[j]
  <1>1. resultQ \in Seq(Result)
    BY DEF IInv, TypeOK
  <1>2. /\ Len(resultQ') = Len(resultQ) + 1
        /\ \A k \in 1 .. Len(resultQ) : resultQ'[k] = resultQ[k]
        /\ resultQ'[Len(resultQ) + 1] = r
        /\ Len(resultQ) \in Nat
    BY <1>1, AppendProperties, LenProperties
  <1>3. QED
    BY <1>2

LEMMA TakenResult ==
    ASSUME IInv, resultQ # << >>, resultQ' = Tail(resultQ)
    PROVE  /\ \A k \in 1 .. Len(resultQ') :
                 \E j \in 1 .. Len(resultQ) : resultQ'[k] = resultQ[j]
           /\ \E j \in 1 .. Len(resultQ) : Head(resultQ) = resultQ[j]
  <1>1. resultQ \in Seq(Result)
    BY DEF IInv, TypeOK
  <1>2. /\ Len(resultQ) \in Nat \ {0} /\ Head(resultQ) = resultQ[1]
        /\ Len(resultQ') = Len(resultQ) - 1
        /\ \A k \in 1 .. Len(resultQ') : resultQ'[k] = resultQ[k + 1]
    BY <1>1, EmptySeq, HeadTailProperties
  <1>3. \A k \in 1 .. Len(resultQ') : k + 1 \in 1 .. Len(resultQ)
    BY <1>2
  <1>4. QED
    BY <1>2, <1>3

LEMMA DeviceFixed ==
    ASSUME IInv, [Next]_vars, syncs' = 0
    PROVE  syncs = 0 /\ UNCHANGED device
  <1>1. ASSUME NEW c \in Contexts, DeviceSynced(c)
        PROVE  FALSE
    BY <1>1, BoundAssumption DEF DeviceSynced, IInv, TypeOK
  <1>2. CASE \E t \in Transactions :
               \/ ReceiveNew(t) \/ ReceiveMalformed(t) \/ ReceiveDuplicate(t)
               \/ SubmitterAdded(t) \/ WaiterResolved(t) \/ WaiterTimeout(t)
               \/ TimeoutRaised(t) \/ DuplicateSent(t)
    BY <1>2 DEF ReceiveNew, ReceiveMalformed, ReceiveDuplicate, SubmitterAdded,
                WaiterResolved, WaiterTimeout, TimeoutRaised, DuplicateSent
  <1>3. CASE \E u \in Uplinks : Published(u) \/ PublishFails(u) \/ AnswerSent(u)
    BY <1>3 DEF Published, PublishFails, AnswerSent
  <1>4. CASE HandleUplink \/ HandleResult \/ AckSyncPass
    BY <1>4 DEF HandleUplink, HandleResult, AckSyncPass
  <1>5. CASE ConnectionLost \/ Reconnected \/ UNCHANGED vars
    BY <1>5 DEF ConnectionLost, Reconnected, vars
  <1>6. QED
    BY <1>1, <1>2, <1>3, <1>4, <1>5 DEF Next

Judged(u) ==
    /\ challenge[u] \in {"publishing", "send_ack", "acked"} => Verdict(u) = "Ack"
    /\ challenge[u] \in {"send_mic_failed", "mic_failed"} =>
          Verdict(u) = "MicChallengeFail"
    /\ challenge[u] \in {"send_other", "refused"} => Verdict(u) \in Refusals

\* States that say nothing of the verdict.
Mute == {"none", "queued", "result", "counted", "dropped", "lost"}

LEMMA KeepsVerdicts ==
    ASSUME VerdictOK, UNCHANGED device,
           \A u \in Uplinks : \/ challenge'[u] = challenge[u]
                             \/ challenge'[u] \in Mute
                             \/ Judged(u)'
    PROVE  VerdictOK'
  <1>1. ASSUME NEW u \in Uplinks
        PROVE  Judged(u)'
    <2>1. Verdict(u)' = Verdict(u) /\ Judged(u)
      BY VerdictStays DEF VerdictOK, Judged
    <2>2. QED
      BY <2>1 DEF Judged, Mute
  <1>2. QED
    BY <1>1 DEF VerdictOK, Judged

LEMMA KeepsResults ==
    ASSUME IInv, ResultsOK, UNCHANGED device,
           \A k \in 1 .. Len(resultQ') :
               \/ resultQ'[k].verdict = Verdict(resultQ'[k].uplink)
               \/ \E j \in 1 .. Len(resultQ) : resultQ'[k] = resultQ[j]
    PROVE  ResultsOK'
  <1> SUFFICES ASSUME NEW k \in 1 .. Len(resultQ')
               PROVE  resultQ'[k].verdict = Verdict(resultQ[k].uplink)'
    BY DEF ResultsOK
  <1>1. resultQ'[k].verdict = Verdict(resultQ'[k].uplink)
    BY DEF ResultsOK
  <1>2. QED
    BY <1>1 DEF Verdict

LEMMA KeepsAnswers ==
    ASSUME IInv, AnswersOK, UNCHANGED device,
           \A t \in Transactions : role'[t] = "original" =>
               \/ sent'[t] = << >>
               \/ sent'[t] = sent[t] /\ role[t] = "original"
    PROVE  AnswersOK'
  <1> SUFFICES ASSUME NEW t \in Transactions, role'[t] = "original",
                      NEW k \in DOMAIN sent'[t]
               PROVE  Says(t, sent[t][k])'
    BY DEF AnswersOK
  <1>1. sent'[t] = sent[t] /\ role[t] = "original"
    OBVIOUS
  <1>2. Says(t, sent[t][k])
    BY <1>1 DEF AnswersOK
  <1>3. \A m \in Mics : Verdict(<<t, m>>)' = Verdict(<<t, m>>)
    BY VerdictStays
  <1>4. QED
    BY <1>1, <1>2, <1>3 DEF Says

\* The steps that send no answer to an original and judge nothing.
LEMMA ElsewhereJudged ==
    ASSUME IInv, VerdictOK, ResultsOK, AnswersOK, UNCHANGED device,
           \/ \E t \in Transactions :
                 \/ ReceiveNew(t) \/ ReceiveMalformed(t) \/ ReceiveDuplicate(t)
                 \/ SubmitterAdded(t) \/ WaiterResolved(t) \/ WaiterTimeout(t)
                 \/ TimeoutRaised(t) \/ DuplicateSent(t)
           \/ \E u \in Uplinks : PublishFails(u)
           \/ AckSyncPass \/ ConnectionLost \/ Reconnected
           \/ UNCHANGED vars
    PROVE  VerdictOK' /\ ResultsOK' /\ AnswersOK'
  <1>1. \A t \in Transactions : role[t] # "original" /\ submitter[t] # "done" =>
           sent[t] = << >>
    BY DEF IInv, OthersOK
  <1>2. \A t \in Transactions : role[t] = "new" => sent[t] = << >>
    BY DEF IInv, OthersOK
  <1>3. UNCHANGED resultQ
    BY DEF ReceiveNew, ReceiveMalformed, ReceiveDuplicate, SubmitterAdded,
           WaiterResolved, WaiterTimeout, TimeoutRaised, DuplicateSent, PublishFails,
           AckSyncPass, ConnectionLost, Reconnected, vars, pipeVars
  <1>4. ResultsOK'
    BY <1>3, KeepsResults
  <1>5. \A u \in Uplinks : challenge'[u] = challenge[u] \/ challenge'[u] \in Mute
    <2>1. \A u \in Uplinks : u[1] \in Transactions
      BY UplinkPairs
    <2>2. CASE ConnectionLost \/ \E t \in Transactions : ReceiveMalformed(t)
      BY <2>2, LoseSendsFacts DEF ConnectionLost, ReceiveMalformed, Mute, IInv
    <2>3. CASE \E u \in Uplinks : PublishFails(u)
      BY <2>3 DEF PublishFails, Mute, IInv, TypeOK
    <2>4. CASE \E t \in Transactions : ReceiveNew(t)
      BY <2>4 DEF ReceiveNew, Mute
    <2>5. QED
      BY <2>2, <2>3, <2>4
      DEF ReceiveDuplicate, SubmitterAdded, WaiterResolved, WaiterTimeout,
          TimeoutRaised, DuplicateSent, AckSyncPass, Reconnected, vars, pipeVars
  <1>6. VerdictOK'
    BY <1>5, KeepsVerdicts
  <1>7. ASSUME NEW t \in Transactions, role'[t] = "original"
        PROVE  sent'[t] = << >> \/ (sent'[t] = sent[t] /\ role[t] = "original")
    <2>1. ASSUME NEW s \in Transactions, DuplicateSent(s)
          PROVE  sent'[t] = sent[t] /\ role[t] = "original"
      <3>1. role[s] # "original"
        BY <2>1 DEF DuplicateSent, IInv, OriginalOK
      <3>2. role' = role /\ t # s
        BY <1>7, <2>1, <3>1 DEF DuplicateSent
      <3>3. QED
        BY <1>7, <2>1, <3>2 DEF DuplicateSent, Send, IInv, TypeOK
    <2>2. ASSUME NEW s \in Transactions, ReceiveNew(s) \/ ReceiveMalformed(s)
          PROVE  sent'[t] = << >> \/ (sent'[t] = sent[t] /\ role[t] = "original")
      <3>1. sent' = sent /\ role[s] = "new" /\ role' = [role EXCEPT ![s] = "original"]
        BY <2>2 DEF ReceiveNew, ReceiveMalformed, CanReceive, Register
      <3>2. QED
        BY <1>2, <1>7, <3>1 DEF IInv, TypeOK
    <2>3. ASSUME NEW s \in Transactions, ReceiveDuplicate(s)
          PROVE  sent'[t] = sent[t] /\ role[t] = "original"
      BY <1>7, <2>3 DEF ReceiveDuplicate, IInv, TypeOK
    <2>4. QED
      BY <1>7, <2>1, <2>2, <2>3
      DEF SubmitterAdded, WaiterResolved, WaiterTimeout, TimeoutRaised, PublishFails,
          AckSyncPass, ConnectionLost, Reconnected, vars, ranVars
  <1>8. AnswersOK'
    BY <1>7, KeepsAnswers
  <1>9. QED
    BY <1>4, <1>6, <1>8

LEMMA HandleUplinkJudged ==
    ASSUME IInv, VerdictOK, ResultsOK, AnswersOK, UNCHANGED device, HandleUplink
    PROVE  VerdictOK' /\ ResultsOK' /\ AnswersOK'
  <1> DEFINE u == Head(uplinkQ)
  <1>1. u \in Uplinks
    BY HeadOfUplinks DEF HandleUplink
  <1>2. challenge \in [Uplinks -> ChallengeStates]
    BY DEF IInv, TypeOK
  <1>3. /\ \/ /\ Verdict(u) = "Ack"
              /\ challenge' = [challenge EXCEPT ![u] = "publishing"]
              /\ UNCHANGED resultQ
           \/ /\ challenge' = [challenge EXCEPT ![u] = "result"]
              /\ resultQ' = Append(resultQ, [uplink |-> u, verdict |-> Verdict(u)])
        /\ UNCHANGED <<role, sent>>
    BY DEF HandleUplink, ranVars
  <1>4. Verdict(u) \in Verdicts
    BY VerdictCases DEF Verdicts
  <1> HIDE DEF u
  <1>5. VerdictOK'
    <2>1. ASSUME NEW w \in Uplinks
          PROVE  \/ challenge'[w] = challenge[w] \/ challenge'[w] \in Mute
                 \/ Judged(w)'
      <3>1. CASE w # u
        BY <1>2, <1>3, <3>1
      <3>2. CASE w = u
        <4>1. Verdict(w)' = Verdict(w)
          BY VerdictStays
        <4>2. QED
          BY <1>1, <1>2, <1>3, <3>2, <4>1 DEF Mute, Judged
      <3>3. QED
        BY <3>1, <3>2
    <2>2. QED
      BY <2>1, KeepsVerdicts
  <1>6. ResultsOK'
    <2> DEFINE r == [uplink |-> u, verdict |-> Verdict(u)]
    <2>1. r \in Result /\ r.uplink = u /\ r.verdict = Verdict(u)
      BY <1>1, <1>4 DEF Result
    <2>2. resultQ' = resultQ \/ resultQ' = Append(resultQ, r)
      BY <1>3
    <2> HIDE DEF r
    <2>3. \A k \in 1 .. Len(resultQ') :
             \/ resultQ'[k] = r
             \/ \E j \in 1 .. Len(resultQ) : resultQ'[k] = resultQ[j]
      BY <2>1, <2>2, AppendedResults
    <2>4. QED
      BY <2>1, <2>3, KeepsResults
  <1>7. AnswersOK'
    BY <1>3, KeepsAnswers
  <1>8. QED
    BY <1>5, <1>6, <1>7

LEMMA PublishedJudged ==
    ASSUME IInv, VerdictOK, ResultsOK, AnswersOK, UNCHANGED device,
           NEW u \in Uplinks, Published(u)
    PROVE  VerdictOK' /\ ResultsOK' /\ AnswersOK'
  <1> DEFINE r == [uplink |-> u, verdict |-> "Ack"]
  <1>1. /\ challenge[u] = "publishing" /\ resultQ' = Append(resultQ, r)
        /\ challenge' = [challenge EXCEPT ![u] = "result"]
        /\ UNCHANGED <<role, sent>>
        /\ challenge \in [Uplinks -> ChallengeStates]
    BY DEF Published, ranVars, IInv, TypeOK
  <1>2. r \in Result /\ r.uplink = u /\ r.verdict = Verdict(u)
    BY <1>1 DEF Result, Verdicts, VerdictOK
  <1> HIDE DEF r
  <1>3. VerdictOK'
    <2>1. \A w \in Uplinks : challenge'[w] = challenge[w] \/ challenge'[w] \in Mute
      BY <1>1 DEF Mute
    <2>2. QED
      BY <2>1, KeepsVerdicts
  <1>4. ResultsOK'
    <2>1. \A k \in 1 .. Len(resultQ') :
             \/ resultQ'[k] = r
             \/ \E j \in 1 .. Len(resultQ) : resultQ'[k] = resultQ[j]
      BY <1>1, <1>2, AppendedResults
    <2>2. QED
      BY <1>2, <2>1, KeepsResults
  <1>5. AnswersOK'
    BY <1>1, KeepsAnswers
  <1>6. QED
    BY <1>3, <1>4, <1>5

LEMMA HandleResultJudged ==
    ASSUME IInv, VerdictOK, ResultsOK, AnswersOK, UNCHANGED device, HandleResult
    PROVE  VerdictOK' /\ ResultsOK' /\ AnswersOK'
  <1> DEFINE u == Head(resultQ).uplink
             v == Head(resultQ).verdict
  <1>1. u \in Uplinks /\ challenge \in [Uplinks -> ChallengeStates]
    BY HeadOfResults DEF HandleResult, IInv, TypeOK, Result
  <1>2. resultQ # << >> /\ resultQ' = Tail(resultQ) /\ UNCHANGED <<role, sent>>
    BY DEF HandleResult
  <1>3. v = Verdict(u)
    BY <1>2, TakenResult DEF ResultsOK
  <1>4. \/ challenge' = [challenge EXCEPT ![u] = "dropped"]
        \/ challenge' = [challenge EXCEPT ![u] = "lost"]
        \/ challenge' = [challenge EXCEPT ![u] = "counted"]
        \/ v = "Ack" /\ challenge' = [challenge EXCEPT ![u] = "send_ack"]
        \/ /\ v = "MicChallengeFail"
           /\ challenge' = [challenge EXCEPT ![u] = "send_mic_failed"]
        \/ v \in Refusals /\ challenge' = [challenge EXCEPT ![u] = "send_other"]
    BY DEF HandleResult, StartSend, CountFailure, Refusals
  <1> HIDE DEF u, v
  <1>5. VerdictOK'
    <2>1. ASSUME NEW w \in Uplinks
          PROVE  \/ challenge'[w] = challenge[w] \/ challenge'[w] \in Mute
                 \/ Judged(w)'
      <3>1. CASE w # u
        BY <1>1, <1>4, <3>1
      <3>2. CASE w = u
        <4>1. Verdict(w)' = Verdict(w)
          BY VerdictStays
        <4>2. QED
          BY <1>1, <1>3, <1>4, <3>2, <4>1 DEF Mute, Judged
      <3>3. QED
        BY <3>1, <3>2
    <2>2. QED
      BY <2>1, KeepsVerdicts
  <1>6. ResultsOK'
    BY <1>2, TakenResult, KeepsResults
  <1>7. AnswersOK'
    BY <1>2, KeepsAnswers
  <1>8. QED
    BY <1>5, <1>6, <1>7

LEMMA AnswerSentJudged ==
    ASSUME IInv, VerdictOK, ResultsOK, AnswersOK, UNCHANGED device,
           NEW u \in Uplinks, AnswerSent(u)
    PROVE  VerdictOK' /\ ResultsOK' /\ AnswersOK'
  <1> DEFINE t == u[1]
  <1>1. /\ t \in Transactions /\ u[2] \in Mics /\ u = <<t, u[2]>>
        /\ UNCHANGED <<role, resultQ>>
        /\ challenge \in [Uplinks -> ChallengeStates]
        /\ sent[t] \in Seq(Answer)
    BY UplinkPairs DEF AnswerSent, IInv, TypeOK
  <1>2. PICK kind, mic, state :
           /\ \/ challenge[u] = "send_ack" /\ kind = "ack" /\ mic = u[2] /\ state = "acked"
              \/ /\ challenge[u] = "send_mic_failed" /\ kind = "mic_failed" /\ mic = 0
                 /\ state = "mic_failed"
              \/ challenge[u] = "send_other" /\ kind = "other" /\ mic = 0 /\ state = "refused"
           /\ Send(t, kind, mic)
           /\ challenge' = [challenge EXCEPT ![u] = state]
    BY DEF AnswerSent
  <1> DEFINE a == [kind |-> kind, mic |-> mic]
  <1>3. a \in Answer /\ a.kind = kind /\ a.mic = mic
    BY <1>1, <1>2, ChallengeAssumption DEF Answer, AnswerKinds, Mics
  <1>4. Judged(u)
    BY DEF VerdictOK, Judged
  <1>5. Says(t, a)
    BY <1>1, <1>2, <1>3, <1>4 DEF Says, Judged
  <1>6. sent' = [sent EXCEPT ![t] = Append(@, a)]
    BY <1>2 DEF Send
  <1> HIDE DEF a
  <1>7. VerdictOK'
    <2>1. ASSUME NEW w \in Uplinks
          PROVE  challenge'[w] = challenge[w] \/ Judged(w)'
      <3>1. CASE w # u
        BY <1>1, <1>2, <3>1
      <3>2. CASE w = u
        <4>1. Verdict(w)' = Verdict(w)
          BY VerdictStays
        <4>2. QED
          BY <1>1, <1>2, <1>4, <3>2, <4>1 DEF Judged
      <3>3. QED
        BY <3>1, <3>2
    <2>2. QED
      BY <2>1, KeepsVerdicts
  <1>8. ResultsOK'
    BY <1>1, KeepsResults
  <1>9. AnswersOK'
    <2>1. ASSUME NEW s \in Transactions, role[s] = "original",
                 NEW k \in DOMAIN sent'[s]
          PROVE  Says(s, sent'[s][k])
      <3>1. CASE s # t
        BY <1>1, <1>6, <2>1, <3>1 DEF AnswersOK, IInv, TypeOK
      <3>2. CASE s = t
        <4>1. sent'[t] = Append(sent[t], a)
          BY <1>1, <1>6 DEF IInv, TypeOK
        <4>2. /\ Len(sent[t]) \in Nat /\ DOMAIN sent[t] = 1 .. Len(sent[t])
              /\ DOMAIN sent'[t] = 1 .. Len(sent[t]) + 1
              /\ \A j \in 1 .. Len(sent[t]) : sent'[t][j] = sent[t][j]
              /\ sent'[t][Len(sent[t]) + 1] = a
          <5>1. Append(sent[t], a) \in Seq(Answer)
            BY <1>1, <1>3
          <5>2. QED
            BY <1>1, <1>3, <4>1, <5>1, AppendProperties, LenProperties
        <4>3. k \in DOMAIN sent[t] \/ k = Len(sent[t]) + 1
          BY <3>2, <4>2
        <4>4. QED
          BY <1>5, <2>1, <3>2, <4>2, <4>3 DEF AnswersOK
      <3>3. QED
        BY <3>1, <3>2
    <2>2. SUFFICES ASSUME NEW s \in Transactions, role'[s] = "original",
                          NEW k \in DOMAIN sent'[s]
                   PROVE  Says(s, sent[s][k])'
      BY DEF AnswersOK
    <2>3. Says(s, sent'[s][k])
      BY <1>1, <2>1, <2>2
    <2>4. \A m \in Mics : Verdict(<<s, m>>)' = Verdict(<<s, m>>)
      BY VerdictStays
    <2>5. QED
      BY <2>3, <2>4 DEF Says
  <1>10. QED
    BY <1>7, <1>8, <1>9

LEMMA NextJudged == IInv /\ JudgedOnce /\ [Next]_vars => JudgedOnce'
  <1> SUFFICES ASSUME IInv, JudgedOnce, [Next]_vars, syncs' = 0
               PROVE  VerdictOK' /\ ResultsOK' /\ AnswersOK'
    BY DEF JudgedOnce
  <1>1. UNCHANGED device /\ VerdictOK /\ ResultsOK /\ AnswersOK
    BY DeviceFixed DEF JudgedOnce
  <1>2. ASSUME NEW c \in Contexts, DeviceSynced(c)
        PROVE  FALSE
    BY <1>1, <1>2, BoundAssumption DEF DeviceSynced, IInv, TypeOK
  <1>3. QED
    BY <1>1, <1>2, ElsewhereJudged, HandleUplinkJudged, PublishedJudged,
       HandleResultJudged, AnswerSentJudged DEF Next

\* As long as the device list stands still, answers to one transaction never
\* disagree, whatever connection, publish or cache entry is lost: an ack excludes
\* every reject, and acks name the same MIC.
THEOREM AnswersNeverDisagree == Spec => []AnswersAgree
  <1>1. Init => JudgedOnce
    <2>1. Init => VerdictOK
      BY DEF Init, VerdictOK, Uplinks
    <2>2. Init => ResultsOK /\ AnswersOK
      BY DEF Init, ResultsOK, AnswersOK
    <2>3. QED
      BY <2>1, <2>2 DEF JudgedOnce
  <1>2. IInv /\ JudgedOnce /\ [Next]_vars => JudgedOnce'
    BY NextJudged
  <1>3. IInv /\ JudgedOnce /\ NoAckAndMicFailed => AnswersAgree
    <2> SUFFICES ASSUME IInv, JudgedOnce, NoAckAndMicFailed, syncs = 0,
                        NEW t \in Transactions,
                        NEW j \in DOMAIN sent[t], NEW k \in DOMAIN sent[t]
                 PROVE  sent[t][j] = sent[t][k]
      BY DEF AnswersAgree
    <2>1. /\ sent[t] \in Seq(Answer)
          /\ Len(sent[t]) \in Nat /\ DOMAIN sent[t] = 1 .. Len(sent[t])
      BY LenProperties DEF IInv, TypeOK
    <2>2. CASE role[t] = "original"
      <3>1. Says(t, sent[t][j]) /\ Says(t, sent[t][k])
        BY <2>2 DEF JudgedOnce, AnswersOK
      <3>2. sent[t][j] \in Answer /\ sent[t][k] \in Answer
        BY <2>1, ElementOfSeq
      <3>3. QED
        BY <3>1, <3>2, SaysAgree DEF NoAckAndMicFailed, Answered
    <2>3. CASE role[t] # "original"
      <3>1. Len(sent[t]) <= 1
        BY <2>3 DEF IInv, OthersOK
      <3>2. j = k
        BY <2>1, <3>1
      <3>3. QED
        BY <3>2
    <2>4. QED
      BY <2>2, <2>3
  <1>4. QED
    BY <1>1, <1>2, <1>3, InductiveInvariant, NoContradiction, PTL DEF Spec

-----------------------------------------------------------------------------
(* No original is forgotten, if nothing is lost: no fault, no entry that      *)
(* expires, no payload that does not parse and no join without its key.       *)

NothingExpires == ~CacheExpires /\ \A c \in Contexts : Kind[c] # "malformed"
KeysKnown == \A c \in Contexts :
                 Kind[c] = "join" /\ device[c].found => device[c].hasKey

\* A tracked original has a try left for an uplink that is not counted.
TrackedOK ==
    \A t \in tracked :
        /\ micTries[t] # 0
        /\ \A i \in 1 .. Challenges[t] : challenge[<<t, i>>] \in Pending \cup {"counted"}

NothingLost ==
    faults = 0 =>
        /\ upstream
        /\ \A k \in 1 .. Len(resultQ) : resultQ[k].verdict # "InternalError"
        /\ \A t \in Transactions : role[t] = "original" => t \in live
        /\ TrackedOK

\* An uplink that goes on leaves the others where they are.
LEMMA OneMovesTracked ==
    ASSUME IInv, TrackedOK, NEW u \in Uplinks, NEW state,
           challenge' = [challenge EXCEPT ![u] = state],
           tracked' \subseteq tracked, UNCHANGED micTries,
           u[1] \in tracked' => state \in Pending \cup {"counted"}
    PROVE  TrackedOK'
  <1> SUFFICES ASSUME NEW t \in tracked'
               PROVE  /\ micTries[t] # 0
                      /\ \A i \in 1 .. Challenges[t] :
                            challenge'[<<t, i>>] \in Pending \cup {"counted"}
    BY DEF TrackedOK
  <1>1. t \in Transactions /\ challenge \in [Uplinks -> ChallengeStates]
    BY DEF IInv, TypeOK
  <1>2. \A i \in 1 .. Challenges[t] : <<t, i>> \in Uplinks /\ <<t, i>>[1] = t
    BY <1>1, ChallengesType, UplinkPairs
  <1>3. QED
    BY <1>1, <1>2 DEF TrackedOK

LEMMA ReceiveNewNothingLost ==
    ASSUME NothingExpires, IInv, NothingLost, faults = 0,
           NEW t \in Transactions, ReceiveNew(t)
    PROVE  NothingLost'
  <1> USE DEF NothingLost
  <1>1. /\ UNCHANGED <<upstream, resultQ>>
        /\ role' = [role EXCEPT ![t] = "original"]
        /\ tracked' = tracked \cup {t} /\ live' = live \cup {t}
        /\ micTries' = [micTries EXCEPT ![t] = Challenges[t]]
        /\ challenge' = [u \in Uplinks |-> IF u[1] = t /\ u[2] <= Challenges[t]
                                           THEN "queued" ELSE challenge[u]]
    BY DEF ReceiveNew, Register, TotalChallenges, NothingExpires, AfterClean
  <1>2. ASSUME NEW s \in tracked'
        PROVE  /\ micTries'[s] # 0
               /\ \A i \in 1 .. Challenges[s] :
                     challenge'[<<s, i>>] \in Pending \cup {"counted"}
    <2>1. s \in Transactions /\ micTries \in [Transactions -> Nat]
      BY <1>1 DEF IInv, TypeOK
    <2>2. \A i \in 1 .. Challenges[s] : /\ <<s, i>> \in Uplinks
                                        /\ <<s, i>>[1] = s /\ <<s, i>>[2] = i
      BY <2>1, ChallengesType, UplinkPairs
    <2>3. CASE s = t
      BY <1>1, <2>1, <2>2, <2>3, ChallengesType DEF Pending, Mics
    <2>4. CASE s # t
      BY <1>1, <2>1, <2>2, <2>4 DEF TrackedOK
    <2>5. QED
      BY <2>3, <2>4
  <1>3. \A s \in Transactions : role'[s] = "original" => s \in live'
    BY <1>1 DEF IInv, TypeOK
  <1>4. QED
    BY <1>1, <1>2, <1>3 DEF TrackedOK

LEMMA UplinkNothingLost ==
    ASSUME KeysKnown, IInv, NothingLost, faults = 0,
           HandleUplink \/ \E u \in Uplinks : Published(u)
    PROVE  NothingLost'
  <1> USE DEF NothingLost
  <1>1. ASSUME NEW u
        PROVE  /\ Verdict(u) \in Verdicts
               /\ u \in Uplinks => Verdict(u) # "InternalError"
    BY VerdictCases, UplinkPairs, ContextAssumption DEF Verdicts, KeysKnown
  <1>2. PICK u \in Uplinks, state \in {"publishing", "result"}, v \in Verdicts :
           /\ challenge' = [challenge EXCEPT ![u] = state]
           /\ v # "InternalError"
           /\ resultQ' \in {resultQ, Append(resultQ, [uplink |-> u, verdict |-> v])}
    <2>1. CASE HandleUplink
      <3>1. Head(uplinkQ) \in Uplinks
        BY <2>1, HeadOfUplinks DEF HandleUplink
      <3>2. QED
        BY <1>1, <2>1, <3>1 DEF HandleUplink
    <2>2. ASSUME NEW u \in Uplinks, Published(u)
          PROVE  /\ challenge' = [challenge EXCEPT ![u] = "result"]
                 /\ resultQ' = Append(resultQ, [uplink |-> u, verdict |-> "Ack"])
                 /\ "Ack" \in Verdicts
      BY <2>2 DEF Published, Verdicts
    <2>3. QED
      BY <2>1, <2>2
  <1>3. /\ UNCHANGED <<upstream, role, live, tracked, micTries>>
    BY DEF HandleUplink, Published, ranVars
  <1>4. TrackedOK'
    BY <1>2, <1>3, OneMovesTracked DEF Pending
  <1>5. \A k \in 1 .. Len(resultQ') : resultQ'[k].verdict # "InternalError"
    <2> DEFINE r == [uplink |-> u, verdict |-> v]
    <2>1. r \in Result /\ r.verdict # "InternalError" /\ resultQ' \in {resultQ, Append(resultQ, r)}
      BY <1>2 DEF Result
    <2> HIDE DEF r
    <2>2. CASE resultQ' = resultQ
      BY <2>2
    <2>3. CASE resultQ' = Append(resultQ, r)
      BY <2>1, <2>3, AppendedResults
    <2>4. QED
      BY <2>1, <2>2, <2>3
  <1>6. QED
    BY <1>3, <1>4, <1>5

LEMMA HandleResultNothingLost ==
    ASSUME IInv, NothingLost, faults = 0, HandleResult
    PROVE  NothingLost'
  <1> USE DEF NothingLost
  <1> DEFINE u == Head(resultQ).uplink
             v == Head(resultQ).verdict
  <1>1. u \in Uplinks /\ u[1] \in Transactions
    BY HeadOfResults, UplinkPairs DEF HandleResult, Result
  <1>2. resultQ # << >> /\ resultQ' = Tail(resultQ)
        /\ UNCHANGED <<upstream, role, live, tracked>>
    BY DEF HandleResult
  <1>3. v # "InternalError"
    BY <1>2, TakenResult
  <1>4. u[1] \in tracked => ~Closed(u)
    BY <1>1 DEF Closed, IInv, TriesCount
  <1>5. \A k \in 1 .. Len(resultQ') : resultQ'[k].verdict # "InternalError"
    BY <1>2, TakenResult
  <1>6. TrackedOK'
    <2>1. ASSUME NEW state, UNCHANGED micTries,
                 challenge' = [challenge EXCEPT ![u] = state],
                 u[1] \in tracked => state \in Sending
          PROVE  TrackedOK'
      <3>1. u[1] \in tracked' => state \in Pending \cup {"counted"}
        BY <1>2, <2>1 DEF Pending
      <3>2. tracked' \subseteq tracked
        BY <1>2
      <3> HIDE DEF u
      <3>3. QED
        BY <1>1, <2>1, <3>1, <3>2, OneMovesTracked
    <2>2. CASE ~LastTry(u[1]) /\ CountFailure(u)
      <3>1. /\ micTries \in [Transactions -> Nat]
            /\ challenge \in [Uplinks -> ChallengeStates]
        BY DEF IInv, TypeOK
      <3>2. ASSUME NEW t \in tracked
            PROVE  /\ micTries'[t] # 0
                   /\ \A i \in 1 .. Challenges[t] :
                         challenge'[<<t, i>>] \in Pending \cup {"counted"}
        <4>1. t \in Transactions
          BY DEF IInv, TypeOK
        <4>2. \A i \in 1 .. Challenges[t] : <<t, i>> \in Uplinks
          BY <4>1, ChallengesType, UplinkPairs
        <4>3. micTries'[t] = IF t = u[1] THEN micTries[t] - 1 ELSE micTries[t]
          BY <1>1, <2>2, <3>1, <4>1 DEF CountFailure
        <4>4. micTries'[t] # 0
          BY <2>2, <3>1, <4>1, <4>3 DEF LastTry, TrackedOK
        <4>5. QED
          BY <1>1, <2>2, <3>1, <4>2, <4>4 DEF CountFailure, TrackedOK
      <3>3. QED
        BY <1>2, <3>2 DEF TrackedOK
    <2>3. QED
      BY <1>3, <1>4, <2>1, <2>2 DEF HandleResult, StartSend, Sending
  <1>7. QED
    BY <1>2, <1>5, <1>6

LEMMA NextNothingLost ==
    ASSUME NothingExpires, KeysKnown, IInv, NothingLost, [Next]_vars
    PROVE  NothingLost'
  <1> SUFFICES ASSUME faults' = 0
               PROVE  NothingLost'
    BY DEF NothingLost
  <1>1. ASSUME ConnectionLost \/ (\E u \in Uplinks : PublishFails(u))
        PROVE  FALSE
    BY <1>1, BoundAssumption DEF ConnectionLost, PublishFails, IInv, TypeOK
  <1>2. ASSUME NEW t \in Transactions, ReceiveMalformed(t)
        PROVE  FALSE
    BY <1>2, ContextAssumption DEF ReceiveMalformed, NothingExpires
  <1>3. ASSUME NEW t \in Transactions, ReceiveNew(t)
        PROVE  NothingLost'
    BY <1>3, ReceiveNewNothingLost DEF ReceiveNew
  <1>4. ASSUME NEW t \in Transactions, ReceiveDuplicate(t)
        PROVE  NothingLost'
    <2>1. role' = [role EXCEPT ![t] = "duplicate"]
      BY <1>4 DEF ReceiveDuplicate
    <2>2. UNCHANGED <<upstream, resultQ, live, tracked, micTries, challenge, faults>>
      BY <1>4 DEF ReceiveDuplicate, pipeVars
    <2>3. \A s \in Transactions : role'[s] = "original" => role[s] = "original"
      BY <2>1 DEF IInv, TypeOK
    <2>4. QED
      BY <2>2, <2>3 DEF NothingLost, TrackedOK
  <1>5. CASE \/ \E t \in Transactions :
                  \/ SubmitterAdded(t) \/ WaiterResolved(t) \/ WaiterTimeout(t)
                  \/ TimeoutRaised(t) \/ DuplicateSent(t)
             \/ AckSyncPass \/ UNCHANGED vars
             \/ \E c \in Contexts : DeviceSynced(c)
    BY <1>5
    DEF SubmitterAdded, WaiterResolved, WaiterTimeout, TimeoutRaised, DuplicateSent,
        AckSyncPass, DeviceSynced, vars, ranVars, pipeVars, NothingLost, TrackedOK
  <1>6. CASE HandleUplink \/ \E u \in Uplinks : Published(u)
    BY <1>6, UplinkNothingLost DEF HandleUplink, Published
  <1>7. CASE HandleResult
    BY <1>7, HandleResultNothingLost DEF HandleResult
  <1>8. ASSUME NEW u \in Uplinks, AnswerSent(u)
        PROVE  NothingLost'
    <2>1. /\ \E state : challenge' = [challenge EXCEPT ![u] = state]
          /\ tracked' = tracked \ {u[1]}
          /\ UNCHANGED <<upstream, role, live, micTries, resultQ, faults>>
      BY <1>8 DEF AnswerSent
    <2>2. faults = 0 => TrackedOK'
      BY <2>1, OneMovesTracked DEF NothingLost
    <2>3. QED
      BY <2>1, <2>2 DEF NothingLost
  <1>9. CASE Reconnected
    BY <1>9 DEF Reconnected, NothingLost
  <1>10. QED
    BY <1>1, <1>2, <1>3, <1>4, <1>5, <1>6, <1>7, <1>8, <1>9 DEF Next

\* If nothing expires, every payload parses and no join lacks its key: as long as
\* nothing is lost, a transaction with an entry in _mic_tries_count has an uplink
\* on its way that will be answered or leave another one behind it.
THEOREM NoneForgotten ==
    ASSUME NothingExpires
    PROVE  Spec /\ []KeysKnown => []NoOrphan
  <1>1. Init => NothingLost
    BY DEF Init, NothingLost, TrackedOK
  <1>2. KeysKnown /\ IInv /\ NothingLost /\ [Next]_vars => NothingLost'
    BY NextNothingLost
  <1>3. IInv /\ NothingLost => NoOrphan
    <2> SUFFICES ASSUME IInv, NothingLost, faults = 0, NEW t \in tracked,
                        \A i \in 1 .. Challenges[t] : challenge[<<t, i>>] \notin Pending
                 PROVE  FALSE
      BY DEF NoOrphan
    <2>1. t \in Transactions /\ micTries[t] \in Nat
      BY DEF IInv, TypeOK
    <2>2. Counted(t) = 1 .. Challenges[t]
      BY DEF NothingLost, TrackedOK, Counted
    <2>3. Cardinality(Counted(t)) = Challenges[t]
      BY <2>1, <2>2, ChallengesType, FS_Interval
    <2>4. micTries[t] + Challenges[t] = Challenges[t]
      BY <2>3 DEF IInv, TriesCount
    <2>5. QED
      BY <2>1, <2>4, ChallengesType DEF NothingLost, TrackedOK
  <1>4. QED
    BY <1>1, <1>2, <1>3, InductiveInvariant, PTL DEF Spec
=============================================================================
