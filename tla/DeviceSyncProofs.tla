--------------------------- MODULE DeviceSyncProofs ---------------------------
(***************************************************************************)
(* Proofs about DeviceSync: whatever RAN's table held, and whichever calls *)
(* failed, what perform_full_sync makes of one device depends on that      *)
(* device alone.  The progress of a device through the three loops is the  *)
(* invariant; a device with a leading zero in its dev_eui is in two loops  *)
(* at once and is left out of it.                                          *)
(***************************************************************************)
EXTENDS DeviceSync, DeviceListProofs

Loops == {"both", "only_cs", "only_ran"}

SyncTypes ==
    /\ stage \in Stages
    /\ snap \in [Devices -> RanEntry]
    /\ work \in SUBSET Devices
    /\ pend \in Pending \cup {Nothing}
    /\ hit \in SUBSET Devices

\* The loops run between passes, over devices of their kind, and only the first
\* one reactivates.
StageOK ==
    /\ stage \in Loops \cup {"boot", "select", "synced"} => phase = "idle"
    /\ stage \in {"both", "only_cs"} => \A d \in work : InList(d)
    /\ pend # Nothing => stage = "both" /\ pend.dev \notin work

SyncInv == TypeInv /\ SyncTypes /\ StageOK

-----------------------------------------------------------------------------
(* Types *)

LEMMA ListAddrType ==
    ASSUME TypeOK, NEW d \in Devices, InList(d)
    PROVE  ListAddr(d) \in Addr
  <1>1. PICK a \in children : local[a][d] # Missing
    BY DEF InList
  <1>2. \A b \in children : local[b][d] \in Addr \cup {Missing}
    BY DEF TypeOK, DictSet
  <1>3. DEFINE a1 == CHOOSE b \in children : local[b][d] # Missing
  <1>4. a1 \in children /\ local[a1][d] # Missing
    BY <1>1
  <1>5. QED
    BY <1>2, <1>4 DEF ListAddr

\* Handlers change RAN and count failures, nothing else of DeviceList.
LEMMA RanTypeInv ==
    ASSUME TypeInv, ran' \in [Devices -> RanEntry], failures' \in 0 .. MaxFailures,
           UNCHANGED <<csVars, listVars, passVars, shifts>>
    PROVE  TypeInv'
  <1> USE DEF csVars, listVars, passVars, askVars
  <1>1. TypeOK'
    BY DEF TypeInv, TypeOK
  <1>2. ControlOK'
    BY DEF TypeInv, ControlOK
  <1>3. QED
    BY <1>1, <1>2 DEF TypeInv

LEMMA ListsFixed ==
    ASSUME UNCHANGED listVars, NEW d
    PROVE  InList(d)' = InList(d) /\ ListAddr(d)' = ListAddr(d)
  BY DEF listVars, InList, ListAddr

LEMMA InitSyncInv == SyncInit => SyncInv
  <1> SUFFICES ASSUME SyncInit PROVE SyncInv
    OBVIOUS
  <1> USE DEF SyncInit, InitChirpStack, InitPass
  <1>1. /\ local \in [Apps -> DictSet] /\ pulled \in DictSet
        /\ changes \in [Devices -> 0 .. MaxChanges]
        /\ drops \in 0 .. MaxDrops /\ failures \in 0 .. MaxFailures
    BY BoundAssumption DEF NoOne, DictSet
  <1>2. ran \in [Devices -> RanEntry] /\ snap \in [Devices -> RanEntry]
    BY EntryType
  <1>3. TypeOK
    BY <1>1, <1>2 DEF TypeOK, Phases
  <1>4. ControlOK
    BY DEF ControlOK
  <1>5. SyncTypes
    BY <1>2 DEF SyncTypes, Stages
  <1>6. StageOK
    BY DEF StageOK, Loops
  <1>7. QED
    BY <1>3, <1>4, <1>5, <1>6 DEF SyncInv, TypeInv

\* The entry and the pending insert a handler leaves.
LEMMA ReactivateType ==
    ASSUME TypeInv, NEW d \in Devices, NEW j \in Joins, NEW addr \in Addr,
           Reactivate(d, j, addr)
    PROVE  /\ ran' \in [Devices -> RanEntry]
           /\ pend' \in Pending /\ pend'.dev = d
  BY EntryType DEF Reactivate, Pending, TypeInv, TypeOK

LEMMA BothType ==
    ASSUME SyncInv, NEW d \in Devices, HandleBothExist(d)
    PROVE  /\ ran' \in [Devices -> RanEntry]
           /\ \/ pend' = Nothing
              \/ pend' \in Pending /\ pend'.dev = d
           /\ \A e \in Devices \ {d} : ran'[e] = ran[e]
  <1>1. /\ ListAddr(d) \in Addr /\ pend = Nothing
        /\ ran \in [Devices -> RanEntry] /\ snap[d] \in RanEntry
    BY ListAddrType DEF HandleBothExist, Take, SyncInv, StageOK, SyncTypes,
                        TypeInv, TypeOK
  <1>2. \A j \in Joins, addr \in Addr :
           Reactivate(d, j, addr) =>
              /\ ran' \in [Devices -> RanEntry]
              /\ pend' \in Pending /\ pend'.dev = d
              /\ \A e \in Devices \ {d} : ran'[e] = ran[e]
    BY <1>1, ReactivateType DEF Reactivate, SyncInv
  <1>3. snap[d].join \in Joins /\ "own" \in Joins /\ "none" \in Joins
        /\ NoAddr \in Addr
    BY <1>1 DEF RanEntry, Joins, Addr
  <1>4. CASE \E j \in Joins, addr \in Addr : Reactivate(d, j, addr)
    BY <1>2, <1>4
  <1>5. CASE UNCHANGED <<ran, pend>>
    BY <1>1, <1>5
  <1>6. CASE /\ ran' = [ran EXCEPT ![d].active = ListAddr(d), ![d].target = NoAddr]
             /\ UNCHANGED pend
    <2>1. [ran[d] EXCEPT !.active = ListAddr(d)] \in RanEntry
      BY <1>1 DEF RanEntry
    <2>2. ran' \in [Devices -> RanEntry]
      BY <1>1, <1>3, <1>6 DEF RanEntry
    <2>3. QED
      BY <1>1, <1>6, <2>2
  <1>7. QED
    BY <1>1, <1>3, <1>4, <1>5, <1>6 DEF HandleBothExist

LEMMA FailsType ==
    ASSUME failures \in 0 .. MaxFailures, failures < MaxFailures,
           failures' = failures + 1
    PROVE  failures' \in 0 .. MaxFailures
  BY BoundAssumption

LEMMA FetchStepSyncInv ==
    ASSUME SyncInv, FetchDevices \/ FetchStep \/ SelectRan \/ FetchFails
    PROVE  SyncInv'
  <1> USE DEF SyncInv
  <1>1. CASE FetchDevices
    <2>1. TypeInv'
      BY <1>1, StartPassTypeInv DEF FetchDevices
    <2>2. SyncTypes' /\ StageOK'
      BY <1>1 DEF FetchDevices, SyncTypes, Stages, StageOK, Loops
    <2>3. QED
      BY <2>1, <2>2
  <1>2. CASE FetchStep
    <2>1. TypeInv'
      BY <1>2, PassTypeInv DEF FetchStep
    <2>2. SyncTypes' /\ StageOK'
      BY <1>2 DEF FetchStep, SyncTypes, Stages, StageOK, Loops
    <2>3. QED
      BY <2>1, <2>2
  <1>3. CASE SelectRan
    <2>1. TypeInv'
      BY <1>3, UnchangedTypeInv DEF SelectRan
    <2>2. SyncTypes'
      BY <1>3 DEF SelectRan, SyncTypes, Stages, TypeInv, TypeOK, vars
    <2>3. StageOK'
      <3>1. phase = "idle" /\ UNCHANGED <<phase, listVars, pend>> /\ stage' = "both"
        BY <1>3 DEF SelectRan, StageOK, vars, passVars
      <3>2. \A d \in work' : InList(d)
        BY <1>3 DEF SelectRan
      <3>3. \A d \in work' : InList(d)'
        BY <3>1, <3>2, ListsFixed
      <3>4. pend' = Nothing
        BY <1>3 DEF SelectRan, StageOK
      <3>5. QED
        BY <3>1, <3>3, <3>4 DEF StageOK, Loops
    <2>4. QED
      BY <2>1, <2>2, <2>3
  <1>4. CASE FetchFails
    <2>1. TypeInv'
      BY <1>4, RanTypeInv, FailsType DEF FetchFails, TypeInv, TypeOK
    <2>2. SyncTypes' /\ StageOK'
      BY <1>4 DEF FetchFails, SyncTypes, Stages, StageOK, Loops
    <2>3. QED
      BY <2>1, <2>2
  <1>5. QED
    BY <1>1, <1>2, <1>3, <1>4

LEMMA HandlerSyncInv ==
    ASSUME SyncInv, NEW d \in Devices,
           \/ HandleBothExist(d) \/ HandleOnlyInChirpstack(d)
           \/ HandleOnlyInRan(d) \/ HandlerFails(d)
    PROVE  SyncInv'
  <1> USE DEF SyncInv
  <1>0. /\ UNCHANGED <<csVars, listVars, passVars, shifts, stage, snap>>
        /\ work' = work \ {d}
    BY DEF HandleBothExist, HandleOnlyInChirpstack, HandleOnlyInRan, HandlerFails, Take
  <1>1. \A e \in Devices : InList(e)' = InList(e)
    BY <1>0, ListsFixed
  <1>2. ASSUME UNCHANGED <<failures, hit>>, ran' \in [Devices -> RanEntry],
               \/ pend' = Nothing
               \/ stage = "both" /\ pend' \in Pending /\ pend'.dev = d
        PROVE  SyncInv'
    <2>1. TypeInv'
      BY <1>0, <1>2, RanTypeInv DEF TypeInv, TypeOK
    <2>2. SyncTypes'
      BY <1>0, <1>2 DEF SyncTypes
    <2>3. StageOK'
      BY <1>0, <1>1, <1>2 DEF StageOK, passVars, SyncTypes
    <2>4. QED
      BY <2>1, <2>2, <2>3
  <1>3. CASE HandleBothExist(d)
    BY <1>2, <1>3, BothType DEF HandleBothExist, Take
  <1>4. CASE HandleOnlyInChirpstack(d)
    <2>1. ListAddr(d) \in Addr /\ ran \in [Devices -> RanEntry]
      BY <1>4, ListAddrType DEF HandleOnlyInChirpstack, Take, StageOK, TypeInv, TypeOK
    <2>2. ran' \in [Devices -> RanEntry]
      BY <1>4, <2>1, EntryType DEF HandleOnlyInChirpstack, Joins
    <2>3. QED
      BY <1>2, <1>4, <2>2 DEF HandleOnlyInChirpstack, Take
  <1>5. CASE HandleOnlyInRan(d)
    <2>1. ran' \in [Devices -> RanEntry]
      BY <1>5, EntryType DEF HandleOnlyInRan, TypeInv, TypeOK
    <2>2. QED
      BY <1>2, <1>5, <2>1 DEF HandleOnlyInRan, Take
  <1>6. CASE HandlerFails(d)
    <2>1. TypeInv'
      BY <1>6, RanTypeInv, FailsType DEF HandlerFails, TypeInv, TypeOK
    <2>2. SyncTypes'
      BY <1>6 DEF HandlerFails, SyncTypes
    <2>3. StageOK'
      BY <1>0, <1>1, <1>6 DEF HandlerFails, StageOK, passVars, SyncTypes
    <2>4. QED
      BY <2>1, <2>2, <2>3
  <1>7. QED
    BY <1>3, <1>4, <1>5, <1>6

LEMMA InsertPendingSyncInv ==
    ASSUME SyncInv, InsertPending
    PROVE  SyncInv'
  <1> USE DEF SyncInv
  <1>1. pend \in Pending
    BY DEF InsertPending, SyncTypes
  <1>2. ran' \in [Devices -> RanEntry]
    BY <1>1, EntryType DEF InsertPending, Pending, TypeInv, TypeOK
  <1>3. TypeInv'
    BY <1>2, RanTypeInv DEF InsertPending, TypeInv, TypeOK
  <1>4. SyncTypes'
    BY DEF InsertPending, SyncTypes
  <1>5. \A e \in Devices : InList(e)' = InList(e)
    BY ListsFixed DEF InsertPending
  <1>6. StageOK'
    BY <1>5 DEF InsertPending, StageOK, passVars, SyncTypes
  <1>7. QED
    BY <1>3, <1>4, <1>6

LEMMA NextLoopSyncInv ==
    ASSUME SyncInv, NextLoop
    PROVE  SyncInv'
  <1> USE DEF SyncInv
  <1>1. TypeInv'
    BY UnchangedTypeInv DEF NextLoop
  <1>2. SyncTypes'
    BY DEF NextLoop, SyncTypes, Stages, OnlyCs, OnlyRan
  <1>3. \A e \in Devices : InList(e)' = InList(e)
    BY ListsFixed DEF NextLoop, vars
  <1>4. \A e \in OnlyCs : e \in Devices /\ InList(e)
    BY DEF OnlyCs
  <1>5. phase' = phase
    BY DEF NextLoop, vars, passVars
  <1>6. StageOK'
    BY <1>3, <1>4, <1>5 DEF NextLoop, StageOK, Loops
  <1>7. QED
    BY <1>1, <1>2, <1>6

LEMMA RunPeriodicSyncInv ==
    ASSUME SyncInv, RunPeriodic
    PROVE  SyncInv'
  <1> USE DEF SyncInv
  <1>1. TypeInv'
    BY StartPassTypeInv, PassTypeInv, AbortTypeInv DEF RunPeriodic
  <1>2. SyncTypes' /\ StageOK'
    BY DEF RunPeriodic, SyncTypes, Stages, StageOK, Loops
  <1>3. QED
    BY <1>1, <1>2

LEMMA ChirpStackSyncInv ==
    ASSUME SyncInv, ChirpStack, UNCHANGED syncVars
    PROVE  SyncInv'
  <1> USE DEF SyncInv
  <1>1. TypeInv'
    BY ChirpStackTypeInv
  <1>2. UNCHANGED <<listVars, passVars>>
    BY ChirpStackFrame
  <1>3. \A e \in Devices : InList(e)' = InList(e)
    BY <1>2, ListsFixed
  <1>4. SyncTypes' /\ StageOK'
    BY <1>2, <1>3 DEF syncVars, SyncTypes, StageOK, passVars
  <1>5. QED
    BY <1>1, <1>4

LEMMA UnchangedSyncInv ==
    ASSUME SyncInv, UNCHANGED allVars
    PROVE  SyncInv'
  <1> USE DEF SyncInv
  <1>1. TypeInv'
    BY UnchangedTypeInv DEF allVars
  <1>2. \A e \in Devices : InList(e)' = InList(e)
    BY ListsFixed DEF allVars, vars
  <1>3. SyncTypes' /\ StageOK'
    BY <1>2 DEF allVars, vars, passVars, syncVars, SyncTypes, StageOK
  <1>4. QED
    BY <1>1, <1>3

LEMMA NextSyncInv == SyncInv /\ [SyncNext]_allVars => SyncInv'
  BY FetchStepSyncInv, HandlerSyncInv, InsertPendingSyncInv, NextLoopSyncInv,
     RunPeriodicSyncInv, ChirpStackSyncInv, UnchangedSyncInv
  DEF SyncNext, SyncStep

LEMMA SyncInvariant == SyncSpec => []SyncInv
  BY InitSyncInv, NextSyncInv, PTL DEF SyncSpec

\* The variables of the start keep their types: whatever RAN's table held, an
\* insert or a reactivation hands RAN a device of the lists and an address.
THEOREM SyncTypeCorrect == SyncSpec => []SyncTypeOK
  <1>1. SyncInv => SyncTypeOK
    BY DEF SyncInv, TypeInv, SyncTypes, SyncTypeOK
  <1>2. QED
    BY <1>1, SyncInvariant, PTL

-----------------------------------------------------------------------------
(* A device on its way through the loops *)

\* A loop has the devices of its kind only.
KindOK(d) ==
    /\ stage = "both" /\ d \in work => InList(d) /\ snap[d].in
    /\ stage = "only_cs" /\ d \in work => InList(d) /\ ~snap[d].in
    /\ stage = "only_ran" /\ d \in work => ~InList(d) /\ snap[d].in

\* Its reactivation is half done, and the insert will route it as it is listed.
HalfDone(d) == pend # Nothing /\ pend.dev = d
Due(d) == /\ InList(d) /\ snap[d].in
          /\ pend.join # "other" /\ pend.addr = ListAddr(d)

\* RAN keeps a device that is on no list only as an orphan.
Orphan(d) == ran[d].in => SkipOrphans

Untouched(d) == ran[d] = snap[d]

Progress(d) ==
    /\ stage = "both" =>
          IF HalfDone(d) THEN Due(d)
          ELSE IF InList(d) /\ snap[d].in /\ d \notin work THEN Routed(d)
          ELSE Untouched(d)
    /\ stage = "only_cs" =>
          IF InList(d) THEN Routed(d) \/ (d \in work /\ Untouched(d))
          ELSE Untouched(d)
    /\ stage = "only_ran" =>
          IF InList(d) THEN Routed(d) ELSE Orphan(d) \/ d \in work
    /\ stage = "synced" =>
          IF InList(d) THEN Routed(d) ELSE Orphan(d)

\* RAN's entry was right when it was read.
WasRight(d) ==
    /\ InList(d) /\ snap[d].in /\ snap[d].join # "other"
    /\ IF ListAddr(d) = NoAddr
       THEN snap[d].active = NoAddr /\ snap[d].target = NoAddr
       ELSE SameAddr(snap[d], ListAddr(d))

LeftAlone(d) ==
    stage \in Loops \cup {"synced"} /\ WasRight(d) =>
        Untouched(d) /\ ~HalfDone(d)

DeviceOK(d) == KindOK(d) /\ LeftAlone(d) /\ (d \in hit \/ Progress(d))

\* A step that is about another device, or about none, of the same loop.
LEMMA OthersDeviceOK ==
    ASSUME NEW d \in Devices, DeviceOK(d),
           ran'[d] = ran[d], work' \subseteq work, d \in work => d \in work',
           UNCHANGED <<listVars, stage, snap>>, hit \subseteq hit',
           \/ pend' = pend
           \/ ~HalfDone(d) /\ ~HalfDone(d)'
    PROVE  DeviceOK(d)'
  <1>1. InList(d)' = InList(d) /\ ListAddr(d)' = ListAddr(d)
    BY ListsFixed
  <1>2. HalfDone(d)' = HalfDone(d) /\ (HalfDone(d) => Due(d)' = Due(d))
    BY <1>1 DEF HalfDone, Due
  <1>3. Routed(d)' = Routed(d) /\ Untouched(d)' = Untouched(d)
    BY <1>1 DEF Routed, Untouched, SameAddr
  <1>4. WasRight(d)' = WasRight(d)
    BY <1>1 DEF WasRight, SameAddr
  <1>5. LeftAlone(d)'
    BY <1>2, <1>3, <1>4 DEF DeviceOK, LeftAlone
  <1>6. KindOK(d)'
    BY <1>1 DEF DeviceOK, KindOK
  <1>7. d \notin hit /\ Progress(d) => Progress(d)'
    BY <1>1, <1>2, <1>3 DEF Progress, Orphan
  <1>8. QED
    BY <1>5, <1>6, <1>7 DEF DeviceOK

\* The five answers of _handle_both_exist to RAN's entry.
LEMMA BothDeviceOK ==
    ASSUME SyncInv, NEW d \in Devices, DeviceOK(d), HandleBothExist(d)
    PROVE  DeviceOK(d)'
  <1>1. /\ stage = "both" /\ stage' = stage /\ pend = Nothing /\ d \in work
        /\ work' = work \ {d} /\ UNCHANGED <<snap, hit>>
        /\ ran \in [Devices -> RanEntry] /\ snap[d] \in RanEntry
    BY DEF HandleBothExist, Take, SyncInv, SyncTypes, TypeInv, TypeOK
  <1>2. InList(d)' = InList(d) /\ ListAddr(d)' = ListAddr(d)
    BY ListsFixed DEF HandleBothExist, Take
  <1>3. InList(d) /\ snap[d].in
    BY <1>1 DEF DeviceOK, KindOK
  <1>4. KindOK(d)'
    BY <1>1 DEF KindOK
  <1>5. ASSUME d \notin hit
        PROVE  Untouched(d)
    BY <1>1, <1>5 DEF DeviceOK, Progress, HalfDone
  <1>6. WasRight(d)' = WasRight(d)
    BY <1>1, <1>2 DEF WasRight, SameAddr
  <1>7. WasRight(d) => Untouched(d)
    BY <1>1 DEF DeviceOK, LeftAlone, Loops
  <1>8. ASSUME NEW j, j # "other", Reactivate(d, j, ListAddr(d)), ~WasRight(d)
        PROVE  DeviceOK(d)'
    <2>1. pend' = [dev |-> d, join |-> j, addr |-> ListAddr(d)]
      BY <1>8 DEF Reactivate
    <2>2. pend' # Nothing
      BY <2>1 DEF Nothing
    <2>3. HalfDone(d)' /\ Due(d)'
      BY <2>1, <2>2, <1>1, <1>2, <1>3, <1>8 DEF HalfDone, Due
    <2>4. QED
      BY <1>1, <1>2, <1>3, <1>4, <1>6, <1>8, <2>3 DEF DeviceOK, LeftAlone, Progress
  <1>9. ASSUME UNCHANGED <<ran, pend>>, snap[d].join # "other",
               IF ListAddr(d) = NoAddr
               THEN snap[d].active = NoAddr /\ snap[d].target = NoAddr
               ELSE SameAddr(snap[d], ListAddr(d))
        PROVE  DeviceOK(d)'
    <2>1. WasRight(d)
      BY <1>3, <1>9 DEF WasRight
    <2>2. Untouched(d)'
      BY <1>1, <1>7, <1>9, <2>1 DEF Untouched
    <2>3. Routed(d)'
      BY <1>1, <1>2, <1>3, <1>9, <2>2 DEF Routed, Untouched, SameAddr
    <2>4. QED
      BY <1>1, <1>2, <1>3, <1>4, <1>9, <2>2, <2>3 DEF DeviceOK, LeftAlone, Progress, HalfDone
  <1>10. ASSUME ran' = [ran EXCEPT ![d].active = ListAddr(d), ![d].target = NoAddr],
                UNCHANGED pend, ListAddr(d) # NoAddr, snap[d].join = "own",
                ~SameAddr(snap[d], ListAddr(d))
         PROVE  DeviceOK(d)'
    <2>1. ~WasRight(d)
      BY <1>10 DEF WasRight
    <2>2. ASSUME d \notin hit
          PROVE  Routed(d)'
      <3>1. ran[d].in /\ ran[d].join = "own"
        BY <1>3, <1>5, <1>10, <2>2 DEF Untouched
      <3>2. /\ ran'[d].in /\ ran'[d].join = "own"
            /\ ran'[d].active = ListAddr(d) /\ ran'[d].target = NoAddr
        BY <1>1, <1>10, <3>1 DEF RanEntry
      <3>3. QED
        BY <1>2, <1>10, <3>2 DEF Routed, SameAddr
    <2>3. QED
      BY <1>1, <1>2, <1>3, <1>4, <1>6, <1>10, <2>1, <2>2
      DEF DeviceOK, LeftAlone, Progress, HalfDone
  <1>11. QED
    BY <1>8, <1>9, <1>10 DEF HandleBothExist, WasRight

LEMMA OnlyCsDeviceOK ==
    ASSUME SyncInv, NEW d \in Devices, DeviceOK(d), HandleOnlyInChirpstack(d)
    PROVE  DeviceOK(d)'
  <1>1. /\ stage = "only_cs" /\ stage' = stage /\ pend = Nothing /\ d \in work
        /\ work' = work \ {d} /\ UNCHANGED <<snap, hit, pend>>
        /\ ran \in [Devices -> RanEntry]
    BY DEF HandleOnlyInChirpstack, Take, SyncInv, TypeInv, TypeOK
  <1>2. InList(d)' = InList(d) /\ ListAddr(d)' = ListAddr(d)
    BY ListsFixed DEF HandleOnlyInChirpstack, Take
  <1>3. InList(d) /\ ~snap[d].in
    BY <1>1 DEF DeviceOK, KindOK
  <1>4. KindOK(d)' /\ LeftAlone(d)'
    BY <1>1, <1>3 DEF KindOK, LeftAlone, WasRight
  <1>5. ASSUME d \notin hit, ~ran[d].in
        PROVE  Routed(d)'
    <2>1. ran'[d] = Entry("own", ListAddr(d))
      BY <1>1, <1>5 DEF HandleOnlyInChirpstack
    <2>2. /\ ran'[d].in /\ ran'[d].join = "own"
          /\ ran'[d].active = ListAddr(d) /\ ran'[d].target = NoAddr
      BY <2>1 DEF Entry
    <2>3. QED
      BY <1>2, <2>2 DEF Routed, SameAddr
  <1>6. ASSUME d \notin hit, ran[d].in
        PROVE  Routed(d)'
    <2>1. Routed(d)
      BY <1>1, <1>3, <1>6 DEF DeviceOK, Progress, Untouched
    <2>2. ran' = ran
      BY <1>6 DEF HandleOnlyInChirpstack
    <2>3. QED
      BY <1>2, <2>1, <2>2 DEF Routed, SameAddr
  <1>7. QED
    BY <1>1, <1>2, <1>3, <1>4, <1>5, <1>6 DEF DeviceOK, Progress

LEMMA OnlyRanDeviceOK ==
    ASSUME SyncInv, NEW d \in Devices, DeviceOK(d), HandleOnlyInRan(d)
    PROVE  DeviceOK(d)'
  <1>1. /\ stage = "only_ran" /\ stage' = stage /\ pend = Nothing /\ d \in work
        /\ work' = work \ {d} /\ UNCHANGED <<snap, hit, pend>>
        /\ ran \in [Devices -> RanEntry]
    BY DEF HandleOnlyInRan, Take, SyncInv, TypeInv, TypeOK
  <1>2. InList(d)' = InList(d) /\ ListAddr(d)' = ListAddr(d)
    BY ListsFixed DEF HandleOnlyInRan, Take
  <1>3. ~InList(d)
    BY <1>1 DEF DeviceOK, KindOK
  <1>4. KindOK(d)' /\ LeftAlone(d)'
    BY <1>1, <1>2, <1>3 DEF KindOK, LeftAlone, WasRight
  <1>5. Orphan(d)'
    BY <1>1 DEF HandleOnlyInRan, Orphan, Absent
  <1>6. QED
    BY <1>1, <1>2, <1>3, <1>4, <1>5 DEF DeviceOK, Progress

\* A failed call leaves RAN as it is; its own device is not promised any more.
LEMMA FailedDeviceOK ==
    ASSUME SyncInv, NEW d \in Devices, DeviceOK(d), HandlerFails(d)
    PROVE  DeviceOK(d)'
  <1>1. InList(d)' = InList(d) /\ ListAddr(d)' = ListAddr(d)
    BY ListsFixed DEF HandlerFails
  <1>2. /\ pend' = Nothing /\ work' = work \ {d} /\ d \in hit'
        /\ UNCHANGED <<ran, snap, stage>>
    BY DEF HandlerFails
  <1>3. ~HalfDone(d)'
    BY <1>2 DEF HalfDone
  <1>4. WasRight(d)' = WasRight(d) /\ Untouched(d)' = Untouched(d)
    BY <1>1, <1>2 DEF WasRight, SameAddr, Untouched
  <1>5. QED
    BY <1>1, <1>2, <1>3, <1>4 DEF DeviceOK, KindOK, LeftAlone

LEMMA InsertedDeviceOK ==
    ASSUME SyncInv, NEW d \in Devices, DeviceOK(d), InsertPending, d = pend.dev
    PROVE  DeviceOK(d)'
  <1>1. /\ stage = "both" /\ stage' = stage /\ pend' = Nothing /\ d \notin work
        /\ UNCHANGED <<snap, hit, work>>
        /\ ran' = [ran EXCEPT ![d] = Entry(pend.join, pend.addr)]
        /\ ran \in [Devices -> RanEntry]
    BY DEF InsertPending, SyncInv, StageOK, TypeInv, TypeOK
  <1>2. InList(d)' = InList(d) /\ ListAddr(d)' = ListAddr(d)
    BY ListsFixed DEF InsertPending
  <1>3. HalfDone(d) /\ ~WasRight(d) /\ ~HalfDone(d)'
    BY <1>1 DEF DeviceOK, LeftAlone, Loops, InsertPending, HalfDone
  <1>4. WasRight(d)' = WasRight(d)
    BY <1>1, <1>2 DEF WasRight, SameAddr
  <1>5. ran'[d] = Entry(pend.join, pend.addr)
    BY <1>1
  <1>6. /\ ran'[d].in /\ ran'[d].join = pend.join
        /\ ran'[d].active = pend.addr /\ ran'[d].target = NoAddr
    BY <1>5 DEF Entry
  <1>7. Progress(d) => InList(d) /\ snap[d].in /\ Routed(d)'
    BY <1>1, <1>2, <1>3, <1>6 DEF Progress, Due, Routed, SameAddr
  <1>8. QED
    BY <1>1, <1>2, <1>3, <1>4, <1>7 DEF DeviceOK, KindOK, LeftAlone, Progress

AllDevicesOK == \A d \in Devices \ LeadingZero : DeviceOK(d)

\* Before the loops and after them nothing is promised.
LEMMA NoLoopDeviceOK ==
    ASSUME NEW d, stage \notin Loops \cup {"synced"}
    PROVE  DeviceOK(d)
  BY DEF DeviceOK, KindOK, LeftAlone, Progress, Loops

LEMMA SelectRanDeviceOK ==
    ASSUME SyncInv, NEW d \in Devices \ LeadingZero, SelectRan
    PROVE  DeviceOK(d)'
  <1>1. /\ stage = "select" /\ stage' = "both" /\ snap' = ran /\ ran' = ran
        /\ pend' = Nothing
        /\ work' = {e \in Devices : InList(e) /\ ran[e].in /\ SameKey(e)}
    BY DEF SelectRan, SyncInv, StageOK, vars
  <1>2. InList(d)' = InList(d)
    BY ListsFixed DEF SelectRan, vars
  <1>3. d \in work' <=> InList(d)' /\ snap'[d].in
    BY <1>1, <1>2 DEF SameKey
  <1>4. Untouched(d)' /\ ~HalfDone(d)'
    BY <1>1 DEF Untouched, HalfDone
  <1>5. QED
    BY <1>1, <1>3, <1>4 DEF DeviceOK, KindOK, LeftAlone, Progress

\* The next loop has what the loop before left to it.
LEMMA NextLoopDeviceOK ==
    ASSUME SyncInv, NEW d \in Devices \ LeadingZero, DeviceOK(d), NextLoop
    PROVE  DeviceOK(d)'
  <1>1. /\ UNCHANGED <<ran, listVars, snap, pend, hit>>
        /\ d \notin work /\ pend = Nothing
    BY DEF NextLoop, vars
  <1>2. InList(d)' = InList(d) /\ ListAddr(d)' = ListAddr(d)
    BY <1>1, ListsFixed
  <1>3. ~HalfDone(d) /\ ~HalfDone(d)'
    BY <1>1 DEF HalfDone
  <1>4. /\ WasRight(d)' = WasRight(d) /\ Untouched(d)' = Untouched(d)
        /\ Routed(d)' = Routed(d) /\ Orphan(d)' = Orphan(d)
    BY <1>1, <1>2 DEF WasRight, Untouched, Routed, Orphan, SameAddr
  <1>5. \/ /\ stage = "both" /\ stage' = "only_cs"
           /\ d \in work' <=> InList(d) /\ ~snap[d].in
        \/ /\ stage = "only_cs" /\ stage' = "only_ran"
           /\ d \in work' <=> snap[d].in /\ ~InList(d)
        \/ stage = "only_ran" /\ stage' = "synced" /\ d \notin work'
    BY DEF NextLoop, OnlyCs, OnlyRan, SameKey
  <1>6. KindOK(d)'
    BY <1>1, <1>2, <1>5 DEF KindOK
  <1>7. LeftAlone(d)'
    BY <1>3, <1>4, <1>5 DEF DeviceOK, LeftAlone, Loops
  <1>8. ASSUME Progress(d)
        PROVE  Progress(d)'
    <2>1. CASE stage = "both"
      BY <1>1, <1>2, <1>3, <1>4, <1>5, <1>8, <2>1 DEF Progress
    <2>2. CASE stage = "only_cs"
      <3>1. Untouched(d) /\ ~snap[d].in => Orphan(d)
        BY DEF Untouched, Orphan
      <3>2. QED
        BY <1>1, <1>2, <1>4, <1>5, <1>8, <2>2, <3>1 DEF Progress
    <2>3. CASE stage = "only_ran"
      BY <1>1, <1>2, <1>4, <1>5, <1>8, <2>3 DEF Progress
    <2>4. QED
      BY <1>5, <2>1, <2>2, <2>3
  <1>9. QED
    BY <1>1, <1>6, <1>7, <1>8 DEF DeviceOK

LEMMA StepDeviceOK ==
    ASSUME SyncInv, NEW d \in Devices \ LeadingZero, DeviceOK(d), SyncStep
    PROVE  DeviceOK(d)'
  <1>1. CASE FetchDevices \/ FetchStep \/ FetchFails
    <2>1. stage' \notin Loops \cup {"synced"}
      BY <1>1 DEF FetchDevices, FetchStep, FetchFails, Loops
    <2>2. QED
      BY <2>1 DEF DeviceOK, KindOK, LeftAlone, Progress, Loops
  <1>2. CASE SelectRan
    BY <1>2, SelectRanDeviceOK
  <1>3. ASSUME NEW e \in Devices,
               \/ HandleBothExist(e) \/ HandleOnlyInChirpstack(e)
               \/ HandleOnlyInRan(e) \/ HandlerFails(e)
        PROVE  DeviceOK(d)'
    <2>1. CASE e = d
      BY <1>3, <2>1, BothDeviceOK, OnlyCsDeviceOK, OnlyRanDeviceOK, FailedDeviceOK
    <2>2. CASE e # d
      <3>1. /\ UNCHANGED <<listVars, stage, snap>>
            /\ work' = work \ {e} /\ hit \subseteq hit'
        BY <1>3 DEF HandleBothExist, HandleOnlyInChirpstack, HandleOnlyInRan,
                    HandlerFails, Take
      <3>2. ran'[d] = ran[d]
        <4>1. CASE HandleBothExist(e)
          BY <4>1, <2>2, BothType
        <4>2. CASE ~HandleBothExist(e)
          BY <1>3, <2>2, <4>2 DEF HandleOnlyInChirpstack, HandleOnlyInRan, HandlerFails,
                                  SyncInv, TypeInv, TypeOK
        <4>3. QED
          BY <4>1, <4>2
      <3>3. \/ pend' = pend
            \/ ~HalfDone(d) /\ ~HalfDone(d)'
        <4>1. CASE HandleBothExist(e)
          <5>1. pend = Nothing /\ (pend' = Nothing \/ pend'.dev = e)
            BY <4>1, BothType DEF HandleBothExist, Take
          <5>2. QED
            BY <2>2, <5>1 DEF HalfDone
        <4>2. CASE HandleOnlyInChirpstack(e) \/ HandleOnlyInRan(e)
          BY <4>2 DEF HandleOnlyInChirpstack, HandleOnlyInRan
        <4>3. CASE HandlerFails(e)
          BY <2>2, <4>3 DEF HandlerFails, HalfDone
        <4>4. QED
          BY <1>3, <4>1, <4>2, <4>3
      <3>4. QED
        BY <2>2, <3>1, <3>2, <3>3, OthersDeviceOK
    <2>3. QED
      BY <2>1, <2>2
  <1>4. CASE InsertPending
    <2>1. CASE pend.dev = d
      BY <1>4, <2>1, InsertedDeviceOK
    <2>2. CASE pend.dev # d
      <3>1. ran'[d] = ran[d] /\ ~HalfDone(d) /\ ~HalfDone(d)'
        BY <1>4, <2>2 DEF InsertPending, HalfDone, SyncInv, TypeInv, TypeOK
      <3>2. QED
        BY <1>4, <3>1, OthersDeviceOK DEF InsertPending
    <2>3. QED
      BY <2>1, <2>2
  <1>5. CASE NextLoop
    BY <1>5, NextLoopDeviceOK
  <1>6. QED
    BY <1>1, <1>2, <1>3, <1>4, <1>5 DEF SyncStep

LEMMA NextAllDevicesOK == SyncInv /\ AllDevicesOK /\ [SyncNext]_allVars => AllDevicesOK'
  <1> SUFFICES ASSUME SyncInv, AllDevicesOK, [SyncNext]_allVars,
                      NEW d \in Devices \ LeadingZero
               PROVE  DeviceOK(d)'
    BY DEF AllDevicesOK
  <1>1. DeviceOK(d)
    BY DEF AllDevicesOK
  <1>2. CASE SyncStep
    BY <1>1, <1>2, StepDeviceOK
  <1>3. CASE RunPeriodic
    BY <1>3 DEF RunPeriodic, DeviceOK, KindOK, LeftAlone, Progress, Loops
  <1>4. CASE UNCHANGED <<ran, listVars, syncVars>>
    BY <1>1, <1>4, OthersDeviceOK DEF syncVars
  <1>5. QED
    BY <1>2, <1>3, <1>4, ChirpStackFrame DEF SyncNext, allVars, vars

LEMMA AllDevicesInvariant == SyncSpec => [](SyncInv /\ AllDevicesOK)
  <1>1. SyncInit => AllDevicesOK
    BY NoLoopDeviceOK DEF SyncInit, AllDevicesOK, Loops
  <1>2. QED
    BY <1>1, NextAllDevicesOK, SyncInvariant, PTL DEF SyncSpec

\* With any dev_eui, what the start makes of a device whose 16 digits do not begin
\* with a zero: none of the others, and no failed call for them, changes it.
THEOREM OthersNeverMatter ==
    SyncSpec => [](stage = "synced" =>
                      \A d \in Devices \ (hit \cup LeadingZero) :
                          IF InList(d) THEN Routed(d) ELSE ran[d].in => SkipOrphans)
  <1>1. AllDevicesOK => (stage = "synced" =>
                            \A d \in Devices \ (hit \cup LeadingZero) :
                                IF InList(d) THEN Routed(d) ELSE ran[d].in => SkipOrphans)
    BY DEF AllDevicesOK, DeviceOK, Progress, Orphan
  <1>2. QED
    BY <1>1, AllDevicesInvariant, PTL

\* If no dev_eui begins with a zero: after the full sync every device of the
\* lists is routed as they say and no other is, whatever RAN held before and
\* whatever calls for other devices failed.
THEOREM ErrorsIsolated ==
    ASSUME LeadingZero = {}
    PROVE  SyncSpec => []ErrorsAreIsolated
  <1>1. AllDevicesOK => ErrorsAreIsolated
    BY DEF AllDevicesOK, DeviceOK, Progress, Orphan, ErrorsAreIsolated
  <1>2. QED
    BY <1>1, AllDevicesInvariant, PTL

\* If no dev_eui begins with a zero: an entry that was right when RAN's table was
\* read is never touched on the way, not even between two steps.
THEOREM MatchingLeft ==
    ASSUME LeadingZero = {}
    PROVE  SyncSpec => []MatchingUntouched
  <1>1. AllDevicesOK => MatchingUntouched
    BY DEF AllDevicesOK, DeviceOK, LeftAlone, WasRight, Untouched, Loops,
           MatchingUntouched
  <1>2. QED
    BY <1>1, AllDevicesInvariant, PTL
=============================================================================
