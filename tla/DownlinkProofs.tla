--------------------------- MODULE DownlinkProofs ---------------------------
(***************************************************************************)
(* Proofs about Downlink: type correctness, at most one TxAck per frame    *)
(* and a truthful one, TxAcks as long as their requests, and at most one   *)
(* JoinAccept per join at RAN, for any number of frames, contexts, items,  *)
(* results of RAN, pool slots and faults.                                  *)
(*                                                                         *)
(* The argument follows the one right to answer a frame.  It is the entry  *)
(* in tracked, taken by the first result (TrackedOK); from then on it is   *)
(* an entry of resultQ, a suspended handler, or the TxAck, one of them at  *)
(* a time, with the status of that first result (Waiting, Published,       *)
(* Acked).  A JoinAccept that got past its lookup holds the context that   *)
(* another one would need, and contexts never come back (AcceptsOK).       *)
(***************************************************************************)
EXTENDS Downlink, SequenceTheorems, TLAPS

\* The queue holds frames that wait in it, once.
QueueOK ==
    /\ \A k \in 1 .. Len(downQ) : state[downQ[k]] = "queued"
    /\ \A j, k \in 1 .. Len(downQ) : j # k => downQ[j] # downQ[k]

\* Only a frame that was handed over is noted or gets to RAN.
HandledOK ==
    \A f \in Frames :
        f \in tracked \/ f \in atRan => state[f] \in {"sending", "sent", "lost"}

\* The other items are counted before the first is handed over.
CountedOK ==
    \A f \in Frames :
        state[f] \in {"queued", "sending", "sent"} \/ f \in tracked \/ f \in atRan
            => ignored[f] = Items[f] - 1

\* RAN reports on what it has, and the first report ends the transaction.
TrackedOK ==
    \A f \in Frames : f \in tracked \/ f \notin atRan => reported[f] = << >>

\* What an answer in any of its three places says of its frame.
Truthful(f, status) ==
    /\ reported[f] # << >>
    /\ status = Status(reported[f][1])

Waiting ==
    \A k \in 1 .. Len(resultQ) :
        /\ Truthful(resultQ[k].frame, resultQ[k].status)
        /\ \A a \in publishing : a.frame # resultQ[k].frame
        /\ txAcks[resultQ[k].frame] = << >>
        /\ \A j \in 1 .. Len(resultQ) :
              j # k => resultQ[j].frame # resultQ[k].frame

Published ==
    \A a \in publishing :
        /\ Truthful(a.frame, a.status)
        /\ a.length = Items[a.frame]
        /\ txAcks[a.frame] = << >>
        /\ \A b \in publishing : b.frame = a.frame => b = a

Acked ==
    \A f \in Frames :
        /\ Len(txAcks[f]) <= 1
        /\ txAcks[f] # << >> =>
              /\ Truthful(f, txAcks[f][1].status)
              /\ txAcks[f][1].length = Items[f]

\* JoinAccepts whose device context was found.
Accepting ==
    {f \in Frames : Kind[f] = "join_accept" /\ state[f] \notin {"new", "skipped"}}

AcceptsOK ==
    \A f \in Accepting :
        /\ ContextOf[f] \notin contexts
        /\ \A g \in Accepting : ContextOf[g] = ContextOf[f] => g = f

IInv == /\ TypeOK
        /\ QueueOK
        /\ HandledOK
        /\ CountedOK
        /\ TrackedOK
        /\ Waiting
        /\ Published
        /\ Acked
        /\ AcceptsOK

-----------------------------------------------------------------------------
(* Facts about the helpers of Downlink *)

LEMMA StatusFacts ==
    ASSUME NEW code \in Codes
    PROVE  /\ Status(code) \in Statuses
           /\ Status(code) = "OK" <=> code = "Success"
           /\ Status(code) = "TOO_LATE" <=> code = "TooLate"
  <1>1. CASE code = "Success"
    BY <1>1 DEF Status, Statuses
  <1>2. CASE code = "TooLate"
    BY <1>2 DEF Status, Statuses
  <1>3. CASE code = "Other"
    BY <1>3 DEF Status, Statuses
  <1>4. QED
    BY <1>1, <1>2, <1>3 DEF Codes

\* The first item and the others are all items.
LEMMA ItemsType ==
    ASSUME NEW f \in Frames
    PROVE  /\ MaxItems \in Nat
           /\ Items[f] \in 1 .. MaxItems
           /\ Items[f] - 1 \in 0 .. MaxItems - 1
           /\ 1 + (Items[f] - 1) = Items[f]
  BY ItemsAssumption

LEMMA QueueElements ==
    ASSUME TypeOK
    PROVE  /\ \A k \in 1 .. Len(downQ) : downQ[k] \in Frames
           /\ \A k \in 1 .. Len(resultQ) :
                 /\ resultQ[k] \in Result
                 /\ resultQ[k].frame \in Frames
                 /\ resultQ[k].status \in Statuses
           /\ \A a \in publishing : a.frame \in Frames
  <1>1. \A k \in 1 .. Len(downQ) : downQ[k] \in Frames
    BY ElementOfSeq DEF TypeOK
  <1>2. \A k \in 1 .. Len(resultQ) : resultQ[k] \in Result
    BY ElementOfSeq DEF TypeOK
  <1>3. QED
    BY <1>1, <1>2 DEF TypeOK, Result, TxAck

\* What is behind the head of a sequence.
LEMMA Behind ==
    ASSUME NEW S, NEW s \in Seq(S), s # << >>
    PROVE  /\ Head(s) = s[1] /\ Head(s) \in S
           /\ Tail(s) \in Seq(S)
           /\ Len(Tail(s)) = Len(s) - 1 /\ Len(s) \in Nat /\ Len(s) >= 1
           /\ 1 \in 1 .. Len(s)
           /\ \A k \in 1 .. Len(Tail(s)) :
                 /\ Tail(s)[k] = s[k + 1]
                 /\ k + 1 \in 1 .. Len(s) /\ k + 1 # 1
  <1>1. Head(s) \in S /\ Tail(s) \in Seq(S) /\ Len(Tail(s)) = Len(s) - 1
    BY HeadTailProperties
  <1>2. \A k \in 1 .. Len(Tail(s)) : Tail(s)[k] = s[k + 1]
    BY HeadTailProperties
  <1>3. Len(s) \in Nat /\ Len(s) >= 1
    BY EmptySeq, LenProperties
  <1>4. QED
    BY <1>1, <1>2, <1>3

-----------------------------------------------------------------------------
(* The initial state *)

LEMMA InitIInv == Init => IInv
  <1> SUFFICES ASSUME Init PROVE IInv
    OBVIOUS
  <1>1. TypeOK
    BY ItemsAssumption, BoundAssumption DEF Init, TypeOK, States
  <1>2. QueueOK /\ Waiting
    BY DEF Init, QueueOK, Waiting
  <1>3. HandledOK /\ CountedOK /\ TrackedOK /\ Published /\ Acked
    BY DEF Init, HandledOK, CountedOK, TrackedOK, Published, Acked
  <1>4. AcceptsOK
    BY DEF Init, AcceptsOK, Accepting
  <1>5. QED
    BY <1>1, <1>2, <1>3, <1>4 DEF IInv

-----------------------------------------------------------------------------
(* What a step leaves alone *)

LEMMA AnswersKept ==
    ASSUME IInv, UNCHANGED <<reported, resultVars>>
    PROVE  Waiting' /\ Published' /\ Acked'
  BY DEF IInv, resultVars, Waiting, Published, Acked, Truthful

LEMMA AcceptsKept ==
    ASSUME AcceptsOK, contexts' \subseteq contexts, Accepting' \subseteq Accepting
    PROVE  AcceptsOK'
  BY DEF AcceptsOK

-----------------------------------------------------------------------------
(* ChirpstackTrafficRouter: frames *)

LEMMA QueueKeeps ==
    ASSUME IInv, NEW f \in Frames, state[f] # "queued", Queue(f)
    PROVE  /\ QueueOK'
           /\ downQ' \in Seq(Frames)
  <1>1. /\ downQ' \in Seq(Frames)
        /\ Len(downQ') = Len(downQ) + 1
        /\ Len(downQ) \in Nat
        /\ \A k \in 1 .. Len(downQ) : downQ'[k] = downQ[k]
        /\ downQ'[Len(downQ) + 1] = f
    BY AppendProperties, LenProperties DEF IInv, TypeOK, Queue
  <1>2. \A k \in 1 .. Len(downQ) : downQ[k] \in Frames /\ downQ[k] # f
    BY QueueElements DEF IInv, QueueOK
  <1>3. \A g \in Frames : state'[g] = IF g = f THEN "queued" ELSE state[g]
    BY DEF Queue, IInv, TypeOK
  <1>4. \A k \in 1 .. Len(downQ') : state'[downQ'[k]] = "queued"
    BY <1>1, <1>2, <1>3 DEF IInv, QueueOK
  <1>5. \A j, k \in 1 .. Len(downQ') : j # k => downQ'[j] # downQ'[k]
    <2> TAKE j, k \in 1 .. Len(downQ')
    <2>1. j \in 1 .. Len(downQ) \/ j = Len(downQ) + 1
      BY <1>1
    <2>2. k \in 1 .. Len(downQ) \/ k = Len(downQ) + 1
      BY <1>1
    <2>3. QED
      BY <2>1, <2>2, <1>1, <1>2 DEF IInv, QueueOK
  <1>6. QED
    BY <1>1, <1>4, <1>5 DEF QueueOK

LEMMA ProcessFrameIInv ==
    ASSUME IInv, NEW f \in Frames, ProcessFrame(f)
    PROVE  IInv'
  <1> USE DEF ProcessFrame, Take, Count, ContextPopped, IgnoredItems
  <1>1. PICK s \in {"queued", "skipped"} : state' = [state EXCEPT ![f] = s]
    BY DEF Queue
  <1>2. /\ state[f] = "new" /\ f \notin tracked /\ f \notin atRan
    BY DEF IInv, HandledOK
  <1>3. QueueOK' /\ downQ' \in Seq(Frames)
    <2>1. CASE Queue(f)
      BY <2>1, QueueKeeps
    <2>2. CASE ~Queue(f)
      <3>1. \A k \in 1 .. Len(downQ) : downQ[k] \in Frames /\ downQ[k] # f
        BY <1>2, QueueElements DEF IInv, QueueOK
      <3>2. UNCHANGED downQ
        BY <2>2
      <3>3. QED
        BY <1>1, <3>1, <3>2 DEF IInv, TypeOK, QueueOK
    <2>3. QED
      BY <2>1, <2>2
  <1>4. TypeOK'
    BY <1>1, <1>3, ItemsType
    DEF IInv, TypeOK, ranVars, resultVars, States
  <1>5. HandledOK' /\ CountedOK' /\ TrackedOK'
    BY <1>1, <1>2 DEF IInv, TypeOK, ranVars, HandledOK, CountedOK, TrackedOK
  <1>6. Waiting' /\ Published' /\ Acked'
    BY AnswersKept DEF ranVars
  <1>7. AcceptsOK'
    <2>1. Kind[f] = "join_accept" => state' = [state EXCEPT ![f] = "skipped"]
      BY DEF HasDeviceContext
    <2>2. Accepting' \subseteq Accepting
      BY <1>1, <2>1 DEF Accepting, IInv, TypeOK
    <2>3. QED
      BY <2>2, AcceptsKept DEF IInv
  <1>8. QED
    BY <1>3, <1>4, <1>5, <1>6, <1>7 DEF IInv

\* The context it takes is one no JoinAccept before it can have taken.
LEMMA SyncJoinedIInv ==
    ASSUME IInv, NEW f \in Frames, SyncJoined(f)
    PROVE  IInv'
  <1> USE DEF SyncJoined, Take, MustSync, ContextPopped
  <1>1. state[f] = "new" /\ f \notin tracked /\ f \notin atRan
    BY DEF IInv, HandledOK
  <1>2. TypeOK'
    BY DEF IInv, TypeOK, ranVars, resultVars, States
  <1>3. QueueOK'
    <2>1. \A k \in 1 .. Len(downQ) : downQ[k] \in Frames /\ downQ[k] # f
      BY <1>1, QueueElements DEF IInv, QueueOK
    <2>2. QED
      BY <2>1 DEF IInv, TypeOK, QueueOK
  <1>4. HandledOK' /\ CountedOK' /\ TrackedOK'
    BY <1>1 DEF IInv, TypeOK, ranVars, HandledOK, CountedOK, TrackedOK
  <1>5. Waiting' /\ Published' /\ Acked'
    BY AnswersKept DEF ranVars
  <1>6. AcceptsOK'
    <2>1. Accepting' \subseteq Accepting \cup {f}
      BY DEF Accepting, IInv, TypeOK
    <2>2. \A g \in Accepting : ContextOf[g] # ContextOf[f]
      BY DEF IInv, AcceptsOK
    <2>3. QED
      BY <2>1, <2>2 DEF IInv, AcceptsOK
  <1>7. QED
    BY <1>2, <1>3, <1>4, <1>5, <1>6 DEF IInv

LEMMA SyncedIInv ==
    ASSUME IInv, NEW f \in Frames, Synced(f)
    PROVE  IInv'
  <1> USE DEF Synced, Count, IgnoredItems
  <1>1. state[f] = "syncing" /\ f \notin tracked /\ f \notin atRan
    BY DEF IInv, HandledOK
  <1>2. QueueOK' /\ downQ' \in Seq(Frames)
    BY <1>1, QueueKeeps
  <1>3. TypeOK'
    BY <1>2, ItemsType DEF IInv, TypeOK, Queue, ranVars, resultVars, States
  <1>4. HandledOK' /\ CountedOK' /\ TrackedOK'
    BY <1>1 DEF Queue, IInv, TypeOK, ranVars, HandledOK, CountedOK, TrackedOK
  <1>5. Waiting' /\ Published' /\ Acked'
    BY AnswersKept DEF ranVars
  <1>6. Accepting' \subseteq Accepting
    BY <1>1 DEF Queue, Accepting, IInv, TypeOK
  <1>7. AcceptsOK'
    BY <1>6, AcceptsKept DEF IInv
  <1>8. QED
    BY <1>2, <1>3, <1>4, <1>5, <1>7 DEF IInv

LEMMA SyncFailsIInv ==
    ASSUME IInv, NEW f \in Frames, SyncFails(f)
    PROVE  IInv'
  <1> USE DEF SyncFails
  <1>1. state[f] = "syncing" /\ f \notin tracked /\ f \notin atRan
    BY DEF IInv, HandledOK
  <1>2. TypeOK'
    BY BoundAssumption DEF IInv, TypeOK, Fault, ranVars, resultVars, States
  <1>3. QueueOK'
    <2>1. \A k \in 1 .. Len(downQ) : downQ[k] \in Frames /\ downQ[k] # f
      BY <1>1, QueueElements DEF IInv, QueueOK
    <2>2. QED
      BY <2>1 DEF IInv, TypeOK, QueueOK
  <1>4. HandledOK' /\ CountedOK' /\ TrackedOK'
    BY <1>1 DEF IInv, TypeOK, ranVars, HandledOK, CountedOK, TrackedOK
  <1>5. Waiting' /\ Published' /\ Acked'
    BY AnswersKept DEF ranVars
  <1>6. Accepting' \subseteq Accepting
    BY <1>1 DEF Accepting, IInv, TypeOK
  <1>7. AcceptsOK'
    BY <1>6, AcceptsKept DEF IInv
  <1>8. QED
    BY <1>2, <1>3, <1>4, <1>5, <1>7 DEF IInv

-----------------------------------------------------------------------------
(* RanTrafficRouter: transactions *)

\* What a frame at the head of the queue is, and what is left behind it.
LEMMA HeadOfDownlinks ==
    ASSUME IInv, downQ # << >>
    PROVE  /\ Head(downQ) \in Frames
           /\ state[Head(downQ)] = "queued"
           /\ Tail(downQ) \in Seq(Frames)
           /\ \A k \in 1 .. Len(Tail(downQ)) :
                 /\ Tail(downQ)[k] \in Frames \ {Head(downQ)}
                 /\ state[Tail(downQ)[k]] = "queued"
           /\ \A j, k \in 1 .. Len(Tail(downQ)) :
                 j # k => Tail(downQ)[j] # Tail(downQ)[k]
  <1>1. downQ \in Seq(Frames)
    BY DEF IInv, TypeOK
  <1>2. /\ Head(downQ) = downQ[1]
        /\ Tail(downQ) \in Seq(Frames)
        /\ 1 \in 1 .. Len(downQ)
        /\ \A k \in 1 .. Len(Tail(downQ)) :
              /\ Tail(downQ)[k] = downQ[k + 1]
              /\ k + 1 \in 1 .. Len(downQ) /\ k + 1 # 1
    BY <1>1, Behind
  <1>3. QueueOK /\ \A k \in 1 .. Len(downQ) : downQ[k] \in Frames
    BY QueueElements DEF IInv
  <1>4. \A k \in 1 .. Len(Tail(downQ)) :
           /\ Tail(downQ)[k] \in Frames \ {Head(downQ)}
           /\ state[Tail(downQ)[k]] = "queued"
    BY <1>2, <1>3 DEF QueueOK
  <1>5. \A j, k \in 1 .. Len(Tail(downQ)) :
           j # k => Tail(downQ)[j] # Tail(downQ)[k]
    <2> TAKE j, k \in 1 .. Len(Tail(downQ))
    <2>1. j # k => j + 1 # k + 1
      OBVIOUS
    <2>2. QED
      BY <1>2, <1>3, <2>1 DEF QueueOK
  <1>6. QED
    BY <1>2, <1>3, <1>4, <1>5 DEF QueueOK

LEMMA HandleDownstreamIInv ==
    ASSUME IInv, HandleDownstream
    PROVE  IInv'
  <1> USE DEF HandleDownstream
  <1> DEFINE f == Head(downQ)
  <1>1. f \in Frames /\ state[f] = "queued"
    BY HeadOfDownlinks
  <1>2. PICK s \in {"sending", "lost"} : state' = [state EXCEPT ![f] = s]
    OBVIOUS
  <1>3. PICK kept \in SUBSET tracked : Clean(kept) /\ tracked' = kept \cup {f}
    OBVIOUS
  <1>4. faults' \in 0 .. MaxFaults
    BY <1>3, BoundAssumption DEF Clean, Fault, IInv, TypeOK
  <1>5. TypeOK'
    BY <1>1, <1>2, <1>3, <1>4, HeadOfDownlinks
    DEF IInv, TypeOK, resultVars, States
  <1>6. QueueOK'
    <2>1. downQ' = Tail(downQ) /\ \A g \in Frames \ {f} : state'[g] = state[g]
      BY <1>2 DEF IInv, TypeOK
    <2>2. QED
      BY <2>1, HeadOfDownlinks DEF QueueOK
  <1>7. HandledOK' /\ CountedOK'
    BY <1>1, <1>2, <1>3 DEF IInv, TypeOK, HandledOK, CountedOK
  <1>8. TrackedOK'
    <2>1. f \notin atRan
      BY <1>1 DEF IInv, HandledOK
    <2>2. QED
      BY <2>1, <1>3 DEF IInv, TrackedOK
  <1>9. Waiting' /\ Published' /\ Acked'
    BY AnswersKept
  <1>10. Accepting' \subseteq Accepting
    BY <1>1, <1>2 DEF Accepting, IInv, TypeOK
  <1>11. AcceptsOK'
    BY <1>10, AcceptsKept DEF IInv
  <1>12. QED
    BY <1>5, <1>6, <1>7, <1>8, <1>9, <1>11 DEF IInv

LEMMA RanReceivesIInv ==
    ASSUME IInv, NEW f \in Frames, RanReceives(f)
    PROVE  IInv'
  <1> USE DEF RanReceives, frameVars
  <1>1. TypeOK'
    BY DEF IInv, TypeOK, resultVars
  <1>2. QueueOK'
    BY DEF IInv, QueueOK
  <1>3. HandledOK' /\ CountedOK' /\ TrackedOK'
    BY DEF IInv, HandledOK, CountedOK, TrackedOK
  <1>4. Waiting' /\ Published' /\ Acked'
    BY AnswersKept
  <1>5. AcceptsOK'
    BY AcceptsKept DEF IInv, Accepting
  <1>6. QED
    BY <1>1, <1>2, <1>3, <1>4, <1>5 DEF IInv

LEMMA SendReturnsIInv ==
    ASSUME IInv, NEW f \in Frames, SendReturns(f)
    PROVE  IInv'
  <1> USE DEF SendReturns
  <1>1. TypeOK'
    BY DEF IInv, TypeOK, resultVars, States
  <1>2. QueueOK'
    <2>1. \A k \in 1 .. Len(downQ) : downQ[k] \in Frames /\ downQ[k] # f
      BY QueueElements DEF IInv, QueueOK
    <2>2. QED
      BY <2>1 DEF IInv, TypeOK, QueueOK
  <1>3. HandledOK' /\ CountedOK' /\ TrackedOK'
    BY DEF IInv, TypeOK, HandledOK, CountedOK, TrackedOK
  <1>4. Waiting' /\ Published' /\ Acked'
    BY AnswersKept
  <1>5. Accepting' \subseteq Accepting
    BY DEF Accepting, IInv, TypeOK
  <1>6. AcceptsOK'
    BY <1>5, AcceptsKept DEF IInv
  <1>7. QED
    BY <1>1, <1>2, <1>3, <1>4, <1>6 DEF IInv

LEMMA ConnectionLostIInv ==
    ASSUME IInv, ConnectionLost
    PROVE  IInv'
  <1> USE DEF ConnectionLost, Sending
  <1>1. \A f \in Frames :
           state'[f] = IF state[f] = "sending" THEN "lost" ELSE state[f]
    OBVIOUS
  <1>2. TypeOK'
    <2>1. state' \in [Frames -> States]
      BY DEF IInv, TypeOK, States
    <2>2. faults' \in 0 .. MaxFaults
      BY BoundAssumption DEF Fault, IInv, TypeOK
    <2>3. QED
      BY <2>1, <2>2 DEF IInv, TypeOK, resultVars
  <1>3. QueueOK'
    <2>1. \A k \in 1 .. Len(downQ) : downQ[k] \in Frames
      BY QueueElements DEF IInv
    <2>2. QED
      BY <1>1, <2>1 DEF IInv, QueueOK
  <1>4. HandledOK' /\ CountedOK' /\ TrackedOK'
    BY <1>1 DEF IInv, HandledOK, CountedOK, TrackedOK
  <1>5. Waiting' /\ Published' /\ Acked'
    BY AnswersKept
  <1>6. Accepting' \subseteq Accepting
    BY <1>1 DEF Accepting
  <1>7. AcceptsOK'
    BY <1>6, AcceptsKept DEF IInv
  <1>8. QED
    BY <1>2, <1>3, <1>4, <1>5, <1>7 DEF IInv

LEMMA ReconnectedIInv ==
    ASSUME IInv, Reconnected
    PROVE  IInv'
  <1> USE DEF Reconnected, frameVars
  <1>1. TypeOK'
    BY DEF IInv, TypeOK, resultVars
  <1>2. QueueOK' /\ HandledOK' /\ CountedOK' /\ TrackedOK'
    BY DEF IInv, QueueOK, HandledOK, CountedOK, TrackedOK
  <1>3. Waiting' /\ Published' /\ Acked'
    BY AnswersKept
  <1>4. AcceptsOK'
    BY AcceptsKept DEF IInv, Accepting
  <1>5. QED
    BY <1>1, <1>2, <1>3, <1>4 DEF IInv

-----------------------------------------------------------------------------
(* Results and TxAcks *)

\* A result more does not change what was reported first.
LEMMA FirstReportKept ==
    ASSUME IInv, NEW f \in Frames, NEW code \in Codes, ReceiveResult(f, code)
    PROVE  /\ reported' \in [Frames -> Seq(Codes)]
           /\ reported'[f] # << >>
           /\ reported[f] = << >> => reported'[f][1] = code
           /\ \A g \in Frames : \A status :
                 Truthful(g, status) => Truthful(g, status)'
  <1>1. /\ reported[f] \in Seq(Codes)
        /\ reported'[f] = Append(reported[f], code)
        /\ \A g \in Frames \ {f} : reported'[g] = reported[g]
    BY DEF ReceiveResult, IInv, TypeOK
  <1>2. /\ reported'[f] \in Seq(Codes)
        /\ Len(reported'[f]) = Len(reported[f]) + 1
        /\ Len(reported[f]) \in Nat
        /\ \A k \in 1 .. Len(reported[f]) : reported'[f][k] = reported[f][k]
        /\ reported'[f][Len(reported[f]) + 1] = code
    BY <1>1, AppendProperties, LenProperties
  <1>3. reported' \in [Frames -> Seq(Codes)]
    BY <1>2 DEF ReceiveResult, IInv, TypeOK
  <1>4. reported'[f] # << >>
    BY <1>2, EmptySeq
  <1>5. reported[f] = << >> => reported'[f][1] = code
    BY <1>2, EmptySeq
  <1>6. reported[f] # << >> => reported'[f][1] = reported[f][1]
    <2>1. reported[f] # << >> => 1 \in 1 .. Len(reported[f])
      BY <1>1, Behind
    <2>2. QED
      BY <1>2, <2>1
  <1>7. QED
    BY <1>1, <1>3, <1>4, <1>5, <1>6 DEF Truthful

\* A frame without a result has no answer anywhere.
LEMMA UnreportedUnanswered ==
    ASSUME IInv, NEW f \in Frames, reported[f] = << >>
    PROVE  /\ \A k \in 1 .. Len(resultQ) : resultQ[k].frame # f
           /\ \A a \in publishing : a.frame # f
           /\ txAcks[f] = << >>
  BY DEF IInv, Waiting, Published, Acked, Truthful

LEMMA ReceiveResultIInv ==
    ASSUME IInv, NEW f \in Frames, NEW code \in Codes, ReceiveResult(f, code)
    PROVE  IInv'
  <1> USE DEF ReceiveResult, Popped, frameVars
  <1> DEFINE r == [frame |-> f, status |-> Status(code)]
             Told(g, status) == /\ reported'[g] # << >>
                                /\ status = Status(reported'[g][1])
  <1>1. r \in Result
    BY StatusFacts DEF Result
  <1>2. resultQ \in Seq(Result)
    BY DEF IInv, TypeOK
  <1>3. f \in tracked => /\ resultQ' = Append(resultQ, r)
                         /\ reported[f] = << >>
    BY DEF IInv, TrackedOK
  <1>4. f \in tracked =>
           /\ resultQ' \in Seq(Result)
           /\ Len(resultQ') = Len(resultQ) + 1
           /\ Len(resultQ) \in Nat
           /\ \A k \in 1 .. Len(resultQ) : resultQ'[k] = resultQ[k]
           /\ resultQ'[Len(resultQ) + 1] = r
    BY <1>1, <1>2, <1>3, AppendProperties, LenProperties
  <1>5. f \notin tracked => resultQ' = resultQ
    OBVIOUS
  <1>6. TypeOK'
    BY <1>2, <1>4, <1>5, FirstReportKept DEF IInv, TypeOK
  <1>7. QueueOK' /\ HandledOK' /\ CountedOK'
    BY DEF IInv, QueueOK, HandledOK, CountedOK
  <1>8. TrackedOK'
    BY DEF IInv, TypeOK, TrackedOK
  <1>9. Waiting'
    <2>1. CASE f \notin tracked
      BY <2>1, <1>5, FirstReportKept, QueueElements DEF IInv, Waiting
    <2>2. CASE f \in tracked
      <3>1. \A k \in 1 .. Len(resultQ') : k \in 1 .. Len(resultQ) \/ k = Len(resultQ) + 1
        BY <2>2, <1>4
      <3>2. Told(f, Status(code))
        BY <2>2, <1>3, FirstReportKept DEF Truthful
      <3>3. \A k \in 1 .. Len(resultQ) :
               /\ resultQ'[k] = resultQ[k]
               /\ resultQ[k].frame \in Frames \ {f}
               /\ Told(resultQ[k].frame, resultQ[k].status)
        BY <2>2, <1>3, <1>4, FirstReportKept, UnreportedUnanswered, QueueElements
        DEF IInv, Waiting, Truthful
      <3>4. r.frame = f /\ r.status = Status(code)
        OBVIOUS
      <3>5. txAcks[f] = << >> /\ \A a \in publishing : a.frame # f
        BY <2>2, <1>3, UnreportedUnanswered
      <3>6. UNCHANGED <<publishing, txAcks>>
        OBVIOUS
      <3>7. ASSUME NEW k \in 1 .. Len(resultQ')
            PROVE  /\ Told(resultQ'[k].frame, resultQ'[k].status)
                   /\ \A a \in publishing : a.frame # resultQ'[k].frame
                   /\ txAcks[resultQ'[k].frame] = << >>
        <4>1. CASE k \in 1 .. Len(resultQ)
          BY <4>1, <3>3 DEF IInv, Waiting
        <4>2. CASE k = Len(resultQ) + 1
          BY <4>2, <2>2, <1>4, <3>2, <3>4, <3>5
        <4>3. QED
          BY <3>1, <4>1, <4>2
      <3>8. ASSUME NEW k \in 1 .. Len(resultQ'), NEW j \in 1 .. Len(resultQ'), j # k
            PROVE  resultQ'[j].frame # resultQ'[k].frame
        <4>1. CASE k \in 1 .. Len(resultQ) /\ j \in 1 .. Len(resultQ)
          BY <4>1, <3>3, <3>8 DEF IInv, Waiting
        <4>2. CASE k = Len(resultQ) + 1 /\ j \in 1 .. Len(resultQ)
          BY <4>2, <2>2, <1>4, <3>3, <3>4
        <4>3. CASE k \in 1 .. Len(resultQ) /\ j = Len(resultQ) + 1
          BY <4>3, <2>2, <1>4, <3>3, <3>4
        <4>4. QED
          BY <3>1, <3>8, <4>1, <4>2, <4>3
      <3>9. QED
        BY <3>6, <3>7, <3>8 DEF Waiting, Truthful
    <2>3. QED
      BY <2>1, <2>2
  <1>10. Published'
    BY FirstReportKept, QueueElements DEF IInv, Published
  <1>11. Acked'
    BY FirstReportKept DEF IInv, Acked
  <1>12. AcceptsOK'
    BY AcceptsKept DEF IInv, Accepting
  <1>13. QED
    BY <1>6, <1>7, <1>8, <1>9, <1>10, <1>11, <1>12 DEF IInv

\* A result leaves the queue for a handler: its frame has no other.
LEMMA HandleResultIInv ==
    ASSUME IInv, HandleResult
    PROVE  IInv'
  <1> USE DEF HandleResult, frameVars, ranVars
  <1> DEFINE r == Head(resultQ)
             a == [frame |-> r.frame, status |-> r.status,
                   length |-> 1 + ignored[r.frame]]
  <1>1. resultQ \in Seq(Result) /\ resultQ # << >>
    BY DEF IInv, TypeOK
  <1>2. /\ r = resultQ[1] /\ r \in Result
        /\ resultQ' \in Seq(Result)
        /\ 1 \in 1 .. Len(resultQ)
        /\ \A k \in 1 .. Len(resultQ') :
              /\ resultQ'[k] = resultQ[k + 1]
              /\ k + 1 \in 1 .. Len(resultQ) /\ k + 1 # 1
    BY <1>1, Behind
  <1>3. r.frame \in Frames /\ r.status \in Statuses
    BY <1>2 DEF Result
  <1>4. /\ Truthful(r.frame, r.status)
        /\ \A b \in publishing : b.frame # r.frame
        /\ txAcks[r.frame] = << >>
        /\ \A k \in 1 .. Len(resultQ') : resultQ'[k].frame # r.frame
    BY <1>2 DEF IInv, Waiting
  <1>5. ignored[r.frame] = Items[r.frame] - 1
    <2>1. r.frame \in atRan
      BY <1>3, <1>4 DEF IInv, TrackedOK, Truthful
    <2>2. QED
      BY <1>3, <2>1 DEF IInv, CountedOK
  <1>6. /\ a.frame = r.frame /\ a.status = r.status
        /\ a.length = Items[r.frame]
        /\ a \in TxAck
    BY <1>3, <1>5, ItemsType DEF TxAck
  <1>7. publishing' = publishing \cup {a}
    OBVIOUS
  <1>8. TypeOK'
    BY <1>2, <1>6, <1>7 DEF IInv, TypeOK
  <1>9. QueueOK' /\ HandledOK' /\ CountedOK' /\ TrackedOK'
    BY DEF IInv, QueueOK, HandledOK, CountedOK, TrackedOK
  <1>10. Waiting'
    <2>1. \A j, k \in 1 .. Len(resultQ') : j # k => j + 1 # k + 1
      OBVIOUS
    <2>2. \A k \in 1 .. Len(resultQ') :
             /\ Truthful(resultQ'[k].frame, resultQ'[k].status)
             /\ \A b \in publishing : b.frame # resultQ'[k].frame
             /\ txAcks[resultQ'[k].frame] = << >>
      BY <1>2 DEF IInv, Waiting
    <2>3. \A j, k \in 1 .. Len(resultQ') :
             j # k => resultQ'[j].frame # resultQ'[k].frame
      <3> TAKE j, k \in 1 .. Len(resultQ')
      <3>1. /\ resultQ'[j] = resultQ[j + 1] /\ j + 1 \in 1 .. Len(resultQ)
            /\ resultQ'[k] = resultQ[k + 1] /\ k + 1 \in 1 .. Len(resultQ)
        BY <1>2
      <3>2. j # k => j + 1 # k + 1
        BY <2>1
      <3>3. QED
        BY <3>1, <3>2 DEF IInv, Waiting
    <2>4. QED
      BY <1>4, <1>6, <1>7, <2>2, <2>3 DEF Waiting, Truthful
  <1>11. Published'
    BY <1>4, <1>6, <1>7 DEF IInv, Published, Truthful
  <1>12. Acked'
    BY DEF IInv, Acked, Truthful
  <1>13. AcceptsOK'
    BY AcceptsKept DEF IInv, Accepting
  <1>14. QED
    BY <1>8, <1>9, <1>10, <1>11, <1>12, <1>13 DEF IInv

LEMMA TxAckPublishedIInv ==
    ASSUME IInv, NEW a \in publishing, TxAckPublished(a)
    PROVE  IInv'
  <1> USE DEF TxAckPublished, frameVars, ranVars
  <1>1. a \in TxAck /\ a.frame \in Frames
    BY DEF IInv, TypeOK, TxAck
  <1>2. txAcks[a.frame] = << >>
    BY DEF IInv, Published
  <1>3. /\ txAcks'[a.frame] = <<a>>
        /\ \A f \in Frames \ {a.frame} : txAcks'[f] = txAcks[f]
    BY <1>1, <1>2 DEF IInv, TypeOK
  <1>4. TypeOK'
    <2>1. txAcks' \in [Frames -> Seq(TxAck)]
      BY <1>1, <1>2, <1>3 DEF IInv, TypeOK
    <2>2. QED
      BY <2>1 DEF IInv, TypeOK
  <1>5. QueueOK' /\ HandledOK' /\ CountedOK' /\ TrackedOK'
    BY DEF IInv, QueueOK, HandledOK, CountedOK, TrackedOK
  <1>6. Waiting'
    <2>1. \A k \in 1 .. Len(resultQ) : resultQ[k].frame \in Frames \ {a.frame}
      BY QueueElements DEF IInv, Waiting
    <2>2. QED
      BY <1>3, <2>1 DEF IInv, Waiting, Truthful
  <1>7. Published'
    <2>1. \A b \in publishing' : b \in publishing /\ b.frame \in Frames \ {a.frame}
      BY QueueElements DEF IInv, Published
    <2>2. QED
      BY <1>3, <2>1 DEF IInv, Published, Truthful
  <1>8. Acked'
    <2>1. Truthful(a.frame, a.status) /\ a.length = Items[a.frame]
      BY DEF IInv, Published
    <2>2. Len(<<a>>) = 1 /\ <<a>>[1] = a
      OBVIOUS
    <2>3. QED
      BY <1>3, <2>1, <2>2 DEF IInv, Acked, Truthful
  <1>9. AcceptsOK'
    BY AcceptsKept DEF IInv, Accepting
  <1>10. QED
    BY <1>4, <1>5, <1>6, <1>7, <1>8, <1>9 DEF IInv

LEMMA TxAckFailsIInv ==
    ASSUME IInv, NEW a \in publishing, TxAckFails(a)
    PROVE  IInv'
  <1> USE DEF TxAckFails, frameVars, ranVars
  <1>1. TypeOK'
    BY BoundAssumption DEF IInv, TypeOK, Fault
  <1>2. QueueOK' /\ HandledOK' /\ CountedOK' /\ TrackedOK'
    BY DEF IInv, QueueOK, HandledOK, CountedOK, TrackedOK
  <1>3. Waiting' /\ Published' /\ Acked'
    BY DEF IInv, Waiting, Published, Acked, Truthful
  <1>4. AcceptsOK'
    BY AcceptsKept DEF IInv, Accepting
  <1>5. QED
    BY <1>1, <1>2, <1>3, <1>4 DEF IInv

-----------------------------------------------------------------------------
(* The theorems *)

LEMMA NextIInv == IInv /\ [Next]_vars => IInv'
  <1> SUFFICES ASSUME IInv, [Next]_vars PROVE IInv'
    OBVIOUS
  <1>1. CASE UNCHANGED vars
    <2> USE <1>1 DEF vars, frameVars, ranVars, resultVars
    <2>1. TypeOK' /\ QueueOK' /\ HandledOK' /\ CountedOK' /\ TrackedOK'
      BY DEF IInv, TypeOK, QueueOK, HandledOK, CountedOK, TrackedOK
    <2>2. Waiting' /\ Published' /\ Acked'
      BY AnswersKept
    <2>3. AcceptsOK'
      BY AcceptsKept DEF IInv, Accepting
    <2>4. QED
      BY <2>1, <2>2, <2>3 DEF IInv
  <1>2. ASSUME NEW f \in Frames,
               \/ ProcessFrame(f) \/ SyncJoined(f) \/ Synced(f) \/ SyncFails(f)
               \/ RanReceives(f) \/ SendReturns(f)
        PROVE  IInv'
    BY <1>2, ProcessFrameIInv, SyncJoinedIInv, SyncedIInv, SyncFailsIInv,
       RanReceivesIInv, SendReturnsIInv
  <1>3. ASSUME NEW f \in Frames, NEW code \in Codes, ReceiveResult(f, code)
        PROVE  IInv'
    BY <1>3, ReceiveResultIInv
  <1>4. CASE HandleDownstream \/ HandleResult
    BY <1>4, HandleDownstreamIInv, HandleResultIInv
  <1>5. CASE ConnectionLost \/ Reconnected
    BY <1>5, ConnectionLostIInv, ReconnectedIInv
  <1>6. ASSUME NEW a \in publishing, TxAckPublished(a) \/ TxAckFails(a)
        PROVE  IInv'
    BY <1>6, TxAckPublishedIInv, TxAckFailsIInv
  <1>7. QED
    BY <1>1, <1>2, <1>3, <1>4, <1>5, <1>6 DEF Next

\* The strengthening holds in every reachable state.
THEOREM InductiveInvariant == Spec => []IInv
  <1>1. Init => IInv
    BY InitIInv
  <1>2. IInv /\ [Next]_vars => IInv'
    BY NextIInv
  <1>3. QED
    BY <1>1, <1>2, PTL DEF Spec

\* The variables keep their types: in particular a TxAck is never longer than
\* the longest request.
THEOREM TypeCorrect == Spec => []TypeOK
  <1>1. IInv => TypeOK
    BY DEF IInv
  <1>2. QED
    BY <1>1, InductiveInvariant, PTL

\* ChirpStack hears of a frame at most once, and what RAN reported first of it,
\* although results repeat, come before the send returns and after transactions
\* expired.
THEOREM AckedOnceTruthfully == Spec => []OneTruthfulTxAck
  <1>1. IInv => OneTruthfulTxAck
    <2> SUFFICES ASSUME IInv, NEW f \in Frames
                 PROVE  /\ Len(txAcks[f]) <= 1
                        /\ txAcks[f] # << >> =>
                              /\ txAcks[f][1].status = "OK" <=> reported[f][1] = "Success"
                              /\ txAcks[f][1].status = "TOO_LATE" <=> reported[f][1] = "TooLate"
      BY DEF OneTruthfulTxAck
    <2>1. Len(txAcks[f]) <= 1
      BY DEF IInv, Acked
    <2>2. ASSUME txAcks[f] # << >>
          PROVE  /\ txAcks[f][1].status = "OK" <=> reported[f][1] = "Success"
                 /\ txAcks[f][1].status = "TOO_LATE" <=> reported[f][1] = "TooLate"
      <3>1. reported[f] # << >> /\ txAcks[f][1].status = Status(reported[f][1])
        BY <2>2 DEF IInv, Acked, Truthful
      <3>2. reported[f][1] \in Codes
        <4>1. reported[f] \in Seq(Codes)
          BY DEF IInv, TypeOK
        <4>2. Head(reported[f]) = reported[f][1] /\ Head(reported[f]) \in Codes
          BY <4>1, <3>1, Behind
        <4>3. QED
          BY <4>2
      <3>3. QED
        BY <3>1, <3>2, StatusFacts
    <2>3. QED
      BY <2>1, <2>2
  <1>2. QED
    BY <1>1, InductiveInvariant, PTL

\* A TxAck has an entry for every item of the request it answers: an item is
\* counted before the first one can be answered.
THEOREM AckedInFull == Spec => []TxAckAligned
  <1>1. IInv => TxAckAligned
    <2> SUFFICES ASSUME IInv, NEW f \in Frames, NEW k \in DOMAIN txAcks[f]
                 PROVE  txAcks[f][k].length = Items[f]
      BY DEF TxAckAligned
    <2>1. txAcks[f] \in Seq(TxAck) /\ Len(txAcks[f]) <= 1
      BY DEF IInv, TypeOK, Acked
    <2>2. k = 1 /\ txAcks[f] # << >>
      BY <2>1, LenProperties, EmptySeq
    <2>3. QED
      BY <2>2 DEF IInv, Acked
  <1>2. QED
    BY <1>1, InductiveInvariant, PTL

\* A join is accepted once: of the JoinAccepts that answer one join request at
\* most one gets to RAN.
THEOREM AcceptedOnce == Spec => []OneAcceptPerJoin
  <1>1. IInv => OneAcceptPerJoin
    <2>1. IInv => \A f \in Frames :
                     f \in atRan /\ Kind[f] = "join_accept" => f \in Accepting
      BY DEF IInv, HandledOK, Accepting
    <2>2. QED
      BY <2>1 DEF IInv, AcceptsOK, OneAcceptPerJoin
  <1>2. QED
    BY <1>1, InductiveInvariant, PTL
=============================================================================
