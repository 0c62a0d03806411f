-------------------------- MODULE DeviceListProofs --------------------------
(***************************************************************************)
(* Proofs about DeviceList: type correctness, what the hooks of a pass do  *)
(* for RAN, agreement between passes, and the bound on what paging skips,  *)
(* for any number of devices, addresses, changes and failures, any order   *)
(* of the listings and any size of their pages.                            *)
(*                                                                         *)
(* DeviceSync and JoinSync extend the module: their specifications take    *)
(* its steps, so the lemmas about single steps assume no initial state.    *)
(***************************************************************************)
EXTENDS DeviceList, FiniteSetTheorems, TLAPS

\* Where a pass is suspended says what it works on.
ControlOK ==
    /\ phase \in {"pull", "hooks", "exists", "remove"} => app \in Apps
    /\ phase \in {"idle", "apps"} => app = NoApp
    /\ phase \in {"hooks", "exists"} => \A d \in todo : pulled[d] # Missing
    /\ phase = "exists" => /\ dev \in Devices
                           /\ pulled[dev] # Missing
                           /\ dev \notin todo
    /\ phase = "remove" => \A d \in todo : pulled[d] = Missing

TypeInv == TypeOK /\ ControlOK

-----------------------------------------------------------------------------
(* Types *)

\* What a dict has for a device of a pass is an address.
LEMMA PulledAddr ==
    ASSUME TypeOK, NEW d \in Devices, pulled[d] # Missing
    PROVE  pulled[d] \in Addr
  BY DEF TypeOK, DictSet

LEMMA EntryType ==
    /\ Absent \in RanEntry
    /\ \A j \in Joins : \A addr \in Addr : Entry(j, addr) \in RanEntry
  BY DEF Absent, RanEntry, Joins, Addr, Entry

LEMMA InitTypeInv == Init => TypeInv
  <1> SUFFICES ASSUME Init PROVE TypeInv
    OBVIOUS
  <1> USE DEF Init, InitChirpStack, InitPass
  <1>1. /\ home \in [Devices -> Apps \cup {NoApp}]
        /\ csAddr \in [Devices -> Addr]
    OBVIOUS
  <1>2. ran \in [Devices -> RanEntry]
    BY <1>1, EntryType DEF Joins
  <1>3. local \in [Apps -> DictSet]
    BY <1>1 DEF DictSet
  <1>4. pulled \in DictSet
    BY DEF NoOne, DictSet
  <1>5. /\ changes \in [Devices -> 0 .. MaxChanges]
        /\ drops \in 0 .. MaxDrops /\ failures \in 0 .. MaxFailures
    BY BoundAssumption
  <1>6. TypeOK
    BY <1>1, <1>2, <1>3, <1>4, <1>5 DEF TypeOK, Phases
  <1>7. ControlOK
    BY DEF ControlOK
  <1>8. QED
    BY <1>6, <1>7 DEF TypeInv

LEMMA ForgetTypeInv ==
    ASSUME TypeInv, Forget, UNCHANGED csVars, ran' \in [Devices -> RanEntry],
           failures' \in 0 .. MaxFailures,
           children' \in SUBSET Apps, local' \in [Apps -> DictSet]
    PROVE  TypeInv'
  <1> USE DEF Forget, csVars
  <1>1. pulled' \in DictSet
    BY DEF NoOne, DictSet
  <1>2. TypeOK'
    BY <1>1 DEF TypeInv, TypeOK, Phases
  <1>3. ControlOK'
    BY DEF ControlOK
  <1>4. QED
    BY <1>2, <1>3 DEF TypeInv

LEMMA StartPassTypeInv ==
    ASSUME TypeInv, NEW hooks \in BOOLEAN, StartPass(hooks)
    PROVE  TypeInv'
  <1> USE DEF StartPass, csVars, listVars
  <1>1. TypeOK'
    BY DEF TypeInv, TypeOK, Phases
  <1>2. ControlOK'
    BY DEF TypeInv, ControlOK
  <1>3. QED
    BY <1>1, <1>2 DEF TypeInv

LEMMA NextAppPageTypeInv ==
    ASSUME TypeInv, NextAppPage
    PROVE  TypeInv'
  <1> USE DEF NextAppPage, csVars, listVars
  <1>1. AppPage \subseteq Apps
    BY DEF AppPage, Page, TypeInv, TypeOK
  <1>2. appOffset' \in Nat
    BY OrderAssumption DEF TypeInv, TypeOK
  <1>3. TypeOK'
    BY <1>1, <1>2 DEF TypeInv, TypeOK
  <1>4. ControlOK'
    BY DEF TypeInv, ControlOK
  <1>5. QED
    BY <1>3, <1>4 DEF TypeInv

LEMMA EnterAppTypeInv ==
    ASSUME TypeInv, NEW a \in Apps, EnterApp(a)
    PROVE  TypeInv'
  <1> USE DEF EnterApp, csVars, listVars
  <1>1. TypeOK'
    BY DEF TypeInv, TypeOK, Phases
  <1>2. ControlOK'
    BY DEF TypeInv, ControlOK
  <1>3. QED
    BY <1>1, <1>2 DEF TypeInv

LEMMA NextPageTypeInv ==
    ASSUME TypeInv, NextPage
    PROVE  TypeInv'
  <1> USE DEF NextPage, csVars, listVars
  <1>1. DevicePage \subseteq Devices
    BY DEF DevicePage, Page, InApp
  <1>2. offset' \in Nat
    BY OrderAssumption DEF TypeInv, TypeOK
  <1>3. TypeOK'
    BY <1>1, <1>2 DEF TypeInv, TypeOK
  <1>4. ControlOK'
    BY DEF TypeInv, ControlOK
  <1>5. QED
    BY <1>3, <1>4 DEF TypeInv

LEMMA PullDeviceTypeInv ==
    ASSUME TypeInv, NEW d \in Devices, PullDevice(d)
    PROVE  TypeInv'
  <1> USE DEF PullDevice, csVars, listVars, askVars
  <1>1. pulled' \in DictSet
    BY DEF TypeInv, TypeOK, DictSet
  <1>2. TypeOK'
    BY <1>1 DEF TypeInv, TypeOK
  <1>3. ControlOK'
    BY DEF TypeInv, ControlOK
  <1>4. QED
    BY <1>2, <1>3 DEF TypeInv

LEMMA PullDoneTypeInv ==
    ASSUME TypeInv, PullDone
    PROVE  TypeInv'
  <1> USE DEF PullDone, csVars, listVars
  <1>1. TypeOK'
    BY DEF TypeInv, TypeOK, Phases
  <1>2. ControlOK'
    BY DEF TypeInv, ControlOK
  <1>3. QED
    BY <1>1, <1>2 DEF TypeInv

\* RAN is updated with an address only.
LEMMA UpdateRanType ==
    ASSUME TypeOK, NEW d \in Devices, NEW old \in Addr, NEW new \in Addr,
           UpdateRan(d, old, new)
    PROVE  /\ ran' \in [Devices -> RanEntry]
           /\ \A e \in Devices \ {d} : ran'[e] = ran[e]
           /\ ran'[d].in = ran[d].in
           /\ ran'[d].active = IF Moved(old, new) THEN new ELSE ran[d].active
  BY DEF TypeOK, UpdateRan, RanEntry

LEMMA HookDeviceRan ==
    ASSUME TypeInv, NEW d \in Devices, HookDevice(d)
    PROVE  /\ ran' \in [Devices -> RanEntry]
           /\ \A e \in Devices \ {d} : ran'[e] = ran[e]
           /\ ran[d].in => ran'[d].in
  <1>1. pulled[d] \in Addr /\ app \in Apps
    BY PulledAddr DEF HookDevice, TypeInv, ControlOK
  <1>2. CASE KeepDevice(d)
    <2>1. local[app][d] \in Addr
      BY <1>1, <1>2 DEF KeepDevice, TypeInv, TypeOK, DictSet
    <2>2. QED
      BY <1>1, <1>2, <2>1, UpdateRanType DEF KeepDevice, TypeInv
  <1>3. CASE AddDevice(d)
    BY <1>1, <1>3, EntryType DEF AddDevice, TypeInv, TypeOK, Joins
  <1>4. QED
    BY <1>2, <1>3 DEF HookDevice

LEMMA HookDeviceTypeInv ==
    ASSUME TypeInv, NEW d \in Devices, HookDevice(d)
    PROVE  TypeInv'
  <1> USE DEF HookDevice, csVars, listVars, askVars
  <1>1. ran' \in [Devices -> RanEntry]
    BY HookDeviceRan
  <1>2. \/ phase' = "hooks" /\ dev' = dev
        \/ phase' = "exists" /\ dev' = d
    BY DEF KeepDevice, AddDevice
  <1>3. TypeOK'
    BY <1>1, <1>2 DEF TypeInv, TypeOK, Phases
  <1>4. ControlOK'
    BY <1>2 DEF TypeInv, ControlOK
  <1>5. QED
    BY <1>3, <1>4 DEF TypeInv

LEMMA ResolveExistingRan ==
    ASSUME TypeInv, ResolveExisting
    PROVE  /\ dev \in Devices
           /\ ran' \in [Devices -> RanEntry]
           /\ \A e \in Devices \ {dev} : ran'[e] = ran[e]
           /\ ran'[dev].in = ran[dev].in
           /\ ran'[dev].active = IF Moved(ran[dev].active, pulled[dev])
                                 THEN pulled[dev] ELSE ran[dev].active
  <1>1. dev \in Devices /\ pulled[dev] \in Addr
    BY PulledAddr DEF ResolveExisting, TypeInv, ControlOK
  <1>2. ran[dev].active \in Addr
    BY <1>1 DEF TypeInv, TypeOK, RanEntry
  <1>3. QED
    BY <1>1, <1>2, UpdateRanType DEF ResolveExisting, TypeInv

LEMMA ResolveExistingTypeInv ==
    ASSUME TypeInv, ResolveExisting
    PROVE  TypeInv'
  <1> USE DEF ResolveExisting, csVars, listVars, askVars
  <1>1. TypeOK'
    BY ResolveExistingRan DEF TypeInv, TypeOK, Phases
  <1>2. ControlOK'
    BY DEF TypeInv, ControlOK
  <1>3. QED
    BY <1>1, <1>2 DEF TypeInv

LEMMA HooksDoneTypeInv ==
    ASSUME TypeInv, HooksDone
    PROVE  TypeInv'
  <1> USE DEF HooksDone, csVars, listVars, askVars
  <1>1. TypeOK'
    BY DEF TypeInv, TypeOK, Phases
  <1>2. ControlOK'
    BY DEF TypeInv, ControlOK
  <1>3. QED
    BY <1>1, <1>2 DEF TypeInv

LEMMA RemoveDeviceTypeInv ==
    ASSUME TypeInv, NEW d \in Devices, RemoveDevice(d)
    PROVE  TypeInv'
  <1> USE DEF RemoveDevice, csVars, listVars, askVars
  <1>1. TypeOK'
    BY EntryType DEF TypeInv, TypeOK
  <1>2. ControlOK'
    BY DEF TypeInv, ControlOK
  <1>3. QED
    BY <1>1, <1>2 DEF TypeInv

LEMMA SwapTypeInv ==
    ASSUME TypeInv, Swap
    PROVE  TypeInv'
  <1> USE DEF Swap, csVars, askVars
  <1>1. local' \in [Apps -> DictSet] /\ pulled' \in DictSet
    BY DEF TypeInv, TypeOK, NoOne, DictSet
  <1>2. TypeOK'
    BY <1>1 DEF TypeInv, TypeOK, Phases
  <1>3. ControlOK'
    BY DEF TypeInv, ControlOK
  <1>4. QED
    BY <1>2, <1>3 DEF TypeInv

LEMMA EndPassTypeInv ==
    ASSUME TypeInv, EndPass
    PROVE  TypeInv'
  <1>1. children' \in SUBSET Apps /\ local' \in [Apps -> DictSet]
    BY DEF EndPass, TypeInv, TypeOK, NoOne, DictSet
  <1>2. QED
    BY <1>1, ForgetTypeInv DEF EndPass, Return, TypeInv, TypeOK

LEMMA RaiseTypeInv ==
    ASSUME TypeInv, Raise, failures' \in 0 .. MaxFailures
    PROVE  TypeInv'
  BY ForgetTypeInv DEF Raise, Return, listVars, TypeInv, TypeOK

LEMMA AbortTypeInv ==
    ASSUME TypeInv, Abort
    PROVE  TypeInv'
  <1>1. failures' \in 0 .. MaxFailures
    BY BoundAssumption DEF Abort, TypeInv, TypeOK
  <1>2. QED
    BY <1>1, RaiseTypeInv DEF Abort

LEMMA PassStepTypeInv ==
    ASSUME TypeInv, PassStep
    PROVE  TypeInv'
  <1>1. ASSUME NEW d \in Devices, PullGone(d) \/ UpdateUnknown(d)
        PROVE  TypeInv'
    BY <1>1, RaiseTypeInv DEF PullGone, UpdateUnknown, TypeInv, TypeOK
  <1>2. QED
    BY <1>1, EnterAppTypeInv, PullDeviceTypeInv, HookDeviceTypeInv,
       RemoveDeviceTypeInv, NextAppPageTypeInv, NextPageTypeInv, PullDoneTypeInv,
       ResolveExistingTypeInv, HooksDoneTypeInv DEF PassStep

LEMMA PassTypeInv ==
    ASSUME TypeInv, Pass
    PROVE  TypeInv'
  BY PassStepTypeInv, SwapTypeInv, EndPassTypeInv DEF Pass

\* The counts of the properties are numbers.
LEMMA DevicesFinite ==
    ASSUME NEW S \in SUBSET Devices
    PROVE  IsFiniteSet(S) /\ Cardinality(S) \in Nat
  BY OrderAssumption, FS_Subset, FS_CardinalityType

LEMMA ShiftType ==
    ASSUME shifts \in Nat, Shift
    PROVE  shifts' \in Nat /\ shifts' >= shifts
  <1> DEFINE S == {d \in Devices : (home[d] = app) # (home'[d] = app)}
  <1>1. Cardinality(S) \in Nat
    BY DevicesFinite
  <1>2. shifts' = IF app = NoApp THEN shifts ELSE shifts + Cardinality(S)
    BY DEF Shift
  <1>3. QED
    BY <1>1, <1>2

LEMMA ChangedTypeInv ==
    ASSUME TypeInv, NEW d \in Devices, Changed(d),
           home' \in [Devices -> Apps \cup {NoApp}], csAddr' \in [Devices -> Addr]
    PROVE  TypeInv'
  <1> USE DEF Changed, listVars, passVars, askVars
  <1>1. changes' \in [Devices -> 0 .. MaxChanges]
    BY BoundAssumption DEF TypeInv, TypeOK
  <1>2. shifts' \in Nat
    BY ShiftType DEF TypeInv, TypeOK
  <1>3. TypeOK'
    BY <1>1, <1>2 DEF TypeInv, TypeOK
  <1>4. ControlOK'
    BY DEF TypeInv, ControlOK
  <1>5. QED
    BY <1>3, <1>4 DEF TypeInv

LEMMA CreateDeviceTypeInv ==
    ASSUME TypeInv, NEW d \in Devices, CreateDevice(d)
    PROVE  TypeInv'
  <1>1. /\ home' \in [Devices -> Apps \cup {NoApp}]
        /\ csAddr' \in [Devices -> Addr]
    BY DEF CreateDevice, TypeInv, TypeOK
  <1>2. QED
    BY <1>1, ChangedTypeInv DEF CreateDevice

LEMMA DeleteDeviceTypeInv ==
    ASSUME TypeInv, NEW d \in Devices, DeleteDevice(d)
    PROVE  TypeInv'
  <1>1. /\ home' \in [Devices -> Apps \cup {NoApp}]
        /\ csAddr' \in [Devices -> Addr]
    BY DEF DeleteDevice, TypeInv, TypeOK, Addr
  <1>2. QED
    BY <1>1, ChangedTypeInv DEF DeleteDevice

LEMMA ActivateDeviceTypeInv ==
    ASSUME TypeInv, NEW d \in Devices, ActivateDevice(d)
    PROVE  TypeInv'
  <1>1. /\ home' \in [Devices -> Apps \cup {NoApp}]
        /\ csAddr' \in [Devices -> Addr]
    BY DEF ActivateDevice, TypeInv, TypeOK, Addr
  <1>2. QED
    BY <1>1, ChangedTypeInv DEF ActivateDevice

LEMMA DropApplicationTypeInv ==
    ASSUME TypeInv, NEW a \in Apps, DropApplication(a)
    PROVE  TypeInv'
  <1> USE DEF DropApplication, listVars, passVars, askVars
  <1>1. /\ home' \in [Devices -> Apps \cup {NoApp}]
        /\ csAddr' \in [Devices -> Addr]
        /\ apps' \in SUBSET Apps
    BY DEF TypeInv, TypeOK, Addr
  <1>2. drops' \in 0 .. MaxDrops
    BY BoundAssumption DEF TypeInv, TypeOK
  <1>3. shifts' \in Nat
    BY ShiftType DEF TypeInv, TypeOK
  <1>4. TypeOK'
    BY <1>1, <1>2, <1>3 DEF TypeInv, TypeOK
  <1>5. ControlOK'
    BY DEF TypeInv, ControlOK
  <1>6. QED
    BY <1>4, <1>5 DEF TypeInv

LEMMA ChirpStackTypeInv ==
    ASSUME TypeInv, ChirpStack
    PROVE  TypeInv'
  BY CreateDeviceTypeInv, DeleteDeviceTypeInv, ActivateDeviceTypeInv,
     DropApplicationTypeInv
  DEF ChirpStack

LEMMA UnchangedTypeInv ==
    ASSUME TypeInv, UNCHANGED vars
    PROVE  TypeInv'
  BY DEF vars, csVars, listVars, passVars, askVars, TypeInv, TypeOK, ControlOK

LEMMA NextTypeInv == TypeInv /\ [Next]_vars => TypeInv'
  <1> SUFFICES ASSUME TypeInv, [Next]_vars PROVE TypeInv'
    OBVIOUS
  <1>1. TRUE \in BOOLEAN
    OBVIOUS
  <1>2. QED
    BY <1>1, StartPassTypeInv, PassTypeInv, AbortTypeInv, ChirpStackTypeInv,
       UnchangedTypeInv DEF Next

LEMMA TypeInvariant == Spec => []TypeInv
  <1>1. Init => TypeInv
    BY InitTypeInv
  <1>2. TypeInv /\ [Next]_vars => TypeInv'
    BY NextTypeInv
  <1>3. QED
    BY <1>1, <1>2, PTL DEF Spec

\* The variables keep their types: in particular every address the hooks pass to
\* RAN is one, never the mark of a device that was not pulled.
THEOREM TypeCorrect == Spec => []TypeOK
  <1>1. TypeInv => TypeOK
    BY DEF TypeInv
  <1>2. QED
    BY <1>1, TypeInvariant, PTL

-----------------------------------------------------------------------------
(* What the hooks have done *)

Served(d) ==
    \/ pulled[d] # Missing /\ local[app][d] = Missing
    \/ pulled[d] \in Addrs /\ local[app][d] # pulled[d]
    => ran[d].in /\ Agrees(d, pulled[d])

\* A device the loop is past is served, but for the one whose insert RAN refused
\* and whose update is still to come: that one RAN has.
HookedOK ==
    /\ phase \in {"hooks", "exists", "remove"} /\ trigger =>
          \A d \in Devices \ todo : (phase = "exists" /\ d = dev) \/ Served(d)
    /\ phase = "exists" => ran[dev].in

\* A device that was not pulled needs nothing.
LEMMA UnpulledServed ==
    ASSUME NEW d, pulled[d] = Missing
    PROVE  Served(d)
  BY AddrAssumption DEF Served, Addr

LEMMA HookDeviceServes ==
    ASSUME TypeInv, NEW d \in Devices, HookDevice(d)
    PROVE  /\ phase' = "exists" => dev' = d /\ ran'[d].in
           /\ phase' # "exists" => Served(d)'
  <1>1. /\ pulled[d] \in Addr /\ app \in Apps
        /\ UNCHANGED <<pulled, local, app>>
    BY PulledAddr DEF HookDevice, TypeInv, ControlOK, listVars
  <1>2. CASE KeepDevice(d)
    <2>1. local[app][d] \in Addr /\ phase' = phase
      BY <1>1, <1>2 DEF KeepDevice, TypeInv, TypeOK, DictSet
    <2>2. /\ ran'[d].in = ran[d].in
          /\ ran'[d].active = IF Moved(local[app][d], pulled[d])
                              THEN pulled[d] ELSE ran[d].active
      BY <1>1, <1>2, <2>1, UpdateRanType DEF KeepDevice, TypeInv
    <2>3. pulled[d] \in Addrs /\ local[app][d] # pulled[d]
              => Moved(local[app][d], pulled[d])
      BY AddrAssumption DEF Moved
    <2>4. Served(d)'
      BY <1>1, <1>2, <2>2, <2>3 DEF KeepDevice, Served, Agrees
    <2>5. QED
      BY <2>1, <2>4 DEF HookDevice
  <1>3. CASE AddDevice(d)
    <2>1. CASE ran[d].in
      BY <2>1, <1>3 DEF AddDevice
    <2>2. CASE ~ran[d].in
      <3>1. ran'[d] = Entry("own", pulled[d]) /\ phase' = phase
        BY <2>2, <1>3 DEF AddDevice, TypeInv, TypeOK
      <3>2. ran'[d].in /\ ran'[d].active = pulled[d]
        BY <3>1 DEF Entry
      <3>3. Served(d)'
        BY <1>1, <3>2 DEF Served, Agrees
      <3>4. QED
        BY <3>1, <3>3 DEF HookDevice
    <2>3. QED
      BY <2>1, <2>2
  <1>4. QED
    BY <1>2, <1>3 DEF HookDevice

\* Whether RAN has the device at once or after the insert was refused: at the
\* end it routes by the new address.
LEMMA ResolveExistingServes ==
    ASSUME TypeInv, HookedOK, ResolveExisting, NEW d \in Devices, d = dev
    PROVE  Served(d)'
  <1>1. ran[dev].in /\ dev \in Devices
    BY ResolveExistingRan DEF HookedOK, ResolveExisting
  <1>2. /\ ran'[dev].in
        /\ ran'[dev].active = IF Moved(ran[dev].active, pulled[dev])
                              THEN pulled[dev] ELSE ran[dev].active
    BY <1>1, ResolveExistingRan
  <1>3. pulled[dev] = NoAddr \/ ran'[dev].active = pulled[dev]
    BY <1>2 DEF Moved
  <1>4. UNCHANGED pulled
    BY DEF ResolveExisting
  <1>5. QED
    BY <1>2, <1>3, <1>4 DEF Served, Agrees

LEMMA HookDeviceHookedOK ==
    ASSUME TypeInv, HookedOK, NEW d \in Devices, HookDevice(d)
    PROVE  HookedOK'
  <1>1. /\ UNCHANGED <<pulled, local, app, trigger>>
        /\ phase = "hooks" /\ todo' = todo \ {d}
        /\ phase' \in {"hooks", "exists"}
        /\ \A e \in Devices \ {d} : ran'[e] = ran[e]
    BY HookDeviceRan DEF HookDevice, listVars, KeepDevice, AddDevice
  <1>2. ASSUME trigger, NEW e \in Devices \ todo', e # d
        PROVE  Served(e)'
    <2>1. Served(e)
      BY <1>1, <1>2 DEF HookedOK
    <2>2. QED
      BY <1>1, <1>2, <2>1 DEF Served, Agrees
  <1>3. /\ phase' = "exists" => dev' = d /\ ran'[d].in
        /\ phase' # "exists" => Served(d)'
    BY HookDeviceServes
  <1>4. QED
    BY <1>1, <1>2, <1>3 DEF HookedOK

LEMMA ResolveExistingHookedOK ==
    ASSUME TypeInv, HookedOK, ResolveExisting
    PROVE  HookedOK'
  <1>1. /\ UNCHANGED <<pulled, local, app, trigger, todo>>
        /\ phase = "exists" /\ phase' = "hooks"
        /\ \A e \in Devices \ {dev} : ran'[e] = ran[e]
    BY ResolveExistingRan DEF ResolveExisting, listVars
  <1>2. ASSUME trigger, NEW e \in Devices \ todo, e # dev
        PROVE  Served(e)'
    <2>1. Served(e)
      BY <1>1, <1>2 DEF HookedOK
    <2>2. QED
      BY <1>1, <1>2, <2>1 DEF Served, Agrees
  <1>3. ASSUME NEW e \in Devices, e = dev
        PROVE  Served(e)'
    BY <1>3, ResolveExistingServes
  <1>4. QED
    BY <1>1, <1>2, <1>3 DEF HookedOK

LEMMA ReturnHookedOK ==
    ASSUME Return
    PROVE  HookedOK'
  BY DEF Return, Forget, HookedOK

LEMMA PassHookedOK ==
    ASSUME TypeInv, HookedOK, Pass
    PROVE  HookedOK'
  <1>1. CASE NextAppPage \/ NextPage \/ \E a \in Apps : EnterApp(a)
    BY <1>1 DEF NextAppPage, NextPage, EnterApp, HookedOK
  <1>2. ASSUME NEW d \in Devices, PullDevice(d)
        PROVE  HookedOK'
    BY <1>2 DEF PullDevice, HookedOK
  <1>3. CASE PullDone
    <2>1. /\ phase' = "hooks"
          /\ UNCHANGED <<pulled, trigger>>
          /\ trigger => todo' = {d \in Devices : pulled[d] # Missing}
      BY <1>3 DEF PullDone
    <2>2. ASSUME trigger', NEW d \in Devices \ todo'
          PROVE  Served(d)'
      <3>1. pulled'[d] = Missing
        BY <2>1, <2>2
      <3>2. QED
        BY <3>1, AddrAssumption DEF Served, Addr
    <2>3. QED
      BY <2>1, <2>2 DEF HookedOK
  <1>4. ASSUME NEW d \in Devices, HookDevice(d)
        PROVE  HookedOK'
    BY <1>4, HookDeviceHookedOK
  <1>5. CASE ResolveExisting
    BY <1>5, ResolveExistingHookedOK
  <1>6. CASE HooksDone
    BY <1>6 DEF HooksDone, HookedOK, Served, Agrees, listVars
  <1>7. ASSUME NEW d \in Devices, RemoveDevice(d)
        PROVE  HookedOK'
    <2>1. /\ UNCHANGED <<pulled, local, app, trigger>>
          /\ phase = "remove" /\ phase' = "remove"
          /\ todo' = todo \ {d} /\ d \in todo
          /\ \A e \in Devices \ {d} : ran'[e] = ran[e]
      BY <1>7 DEF RemoveDevice, listVars, TypeInv, TypeOK
    <2>2. pulled[d] = Missing
      BY <2>1 DEF TypeInv, ControlOK
    <2>3. Served(d)'
      BY <2>1, <2>2, AddrAssumption DEF Served, Addr
    <2>4. ASSUME trigger, NEW e \in Devices \ todo', e # d
          PROVE  Served(e)'
      <3>1. Served(e)
        BY <2>1, <2>4 DEF HookedOK
      <3>2. QED
        BY <2>1, <2>4, <3>1 DEF Served, Agrees
    <2>5. QED
      BY <2>1, <2>3, <2>4 DEF HookedOK
  <1>8. ASSUME NEW d \in Devices, PullGone(d) \/ UpdateUnknown(d)
        PROVE  HookedOK'
    BY <1>8, ReturnHookedOK DEF PullGone, UpdateUnknown, Raise
  <1>9. CASE Swap \/ EndPass
    BY <1>9, ReturnHookedOK DEF Swap, EndPass, HookedOK
  <1>10. QED
    BY <1>1, <1>2, <1>3, <1>4, <1>5, <1>6, <1>7, <1>8, <1>9 DEF Pass, PassStep

LEMMA ChirpStackFrame ==
    ASSUME ChirpStack
    PROVE  UNCHANGED <<ran, listVars, passVars, failures>>
  BY DEF ChirpStack, CreateDevice, DeleteDevice, ActivateDevice, Changed,
         DropApplication

LEMMA NextHookedOK == TypeInv /\ HookedOK /\ [Next]_vars => HookedOK'
  <1> SUFFICES ASSUME TypeInv, HookedOK, [Next]_vars PROVE HookedOK'
    OBVIOUS
  <1>1. CASE StartPass(TRUE)
    BY <1>1 DEF StartPass, HookedOK
  <1>2. CASE Pass
    BY <1>2, PassHookedOK
  <1>3. CASE Abort
    BY <1>3, ReturnHookedOK DEF Abort, Raise
  <1>4. CASE UNCHANGED <<ran, listVars, passVars>>
    BY <1>4 DEF listVars, passVars, HookedOK, Served, Agrees
  <1>5. QED
    BY <1>1, <1>2, <1>3, <1>4, ChirpStackFrame DEF Next, vars

\* When a pass has called the hooks of an application, RAN has every device they
\* were called for, at the address they were called with: whatever RAN had before,
\* and whichever calls of earlier passes failed.
THEOREM HookedRouted == Spec => []HookedIsRouted
  <1>1. Init => HookedOK
    BY DEF Init, InitPass, HookedOK
  <1>2. TypeInv /\ HookedOK /\ [Next]_vars => HookedOK'
    BY NextHookedOK
  <1>3. TypeInv /\ HookedOK => HookedIsRouted
    <2> SUFFICES ASSUME TypeInv, HookedOK, phase = "remove", trigger,
                        NEW d \in Devices
                 PROVE  Served(d)
      BY DEF HookedIsRouted, Served
    <2>1. CASE d \in todo
      BY <2>1, UnpulledServed DEF TypeInv, ControlOK
    <2>2. CASE d \notin todo
      BY <2>2 DEF HookedOK
    <2>3. QED
      BY <2>1, <2>2
  <1>4. QED
    BY <1>1, <1>2, <1>3, TypeInvariant, PTL DEF Spec

-----------------------------------------------------------------------------
(* Agreement between passes, for a tenant with one application, a            *)

\* RAN is as the local list says, or as the hooks have been told.
AsListed(a, d) ==
    /\ local[a][d] # Missing => ran[d].in /\ Agrees(d, local[a][d])
    /\ ran[d].in => local[a][d] # Missing \/ drops > 0
AsPulled(d) == ran[d].in /\ Agrees(d, pulled[d])

\* How far the pass has taken RAN from the one to the other.
Taken(a, d) ==
    /\ phase \in {"idle", "apps", "pull"} => AsListed(a, d)
    /\ phase \in {"hooks", "exists"} =>
          IF d \in todo \/ pulled[d] = Missing THEN AsListed(a, d)
          ELSE IF phase = "exists" /\ d = dev THEN ran[d].in
          ELSE AsPulled(d)
    /\ phase = "remove" =>
          IF pulled[d] # Missing THEN AsPulled(d)
          ELSE d \in todo \/ ~ran[d].in \/ drops > 0

\* A list that is not kept is empty, and one is only dropped if ChirpStack
\* dropped its application.
KeptOK(a) ==
    /\ a \notin children => \A d \in Devices : local[a][d] = Missing
    /\ app = a => a \in children
    /\ apps = Apps \/ drops > 0
    /\ appOffset > 0 => a \in listed

AgreeOK(a) ==
    /\ trigger
    /\ KeptOK(a)
    /\ failures = 0 => \A d \in Devices : Taken(a, d)

\* An application that is the only one is on the first page.
LEMMA OnFirstPage ==
    ASSUME NEW a, Apps = {a}, apps = Apps, appOffset = 0
    PROVE  AppPage # {}
  <1>1. {b \in apps : AppOrder[b] <= AppOrder[a]} \in {{a}, {}}
    OBVIOUS
  <1>2. AppOrder[a] \in Nat
    BY OrderAssumption DEF Injection
  <1>3. {b \in apps : AppOrder[b] <= AppOrder[a]} = {a}
    BY <1>2
  <1>4. Rank(apps, AppOrder, a) = 1
    BY <1>3, FS_Singleton DEF Rank
  <1>5. 1 \in 0 + 1 .. 0 + BatchSize
    BY OrderAssumption
  <1>6. a \in AppPage
    BY <1>4, <1>5 DEF AppPage, Page
  <1>7. QED
    BY <1>6

LEMMA InitAgreeOK ==
    ASSUME NEW a, Apps = {a}, Init
    PROVE  AgreeOK(a)
  <1> USE DEF Init, InitChirpStack, InitPass
  <1>1. KeptOK(a)
    BY AppAssumption DEF KeptOK
  <1>2. ASSUME NEW d \in Devices
        PROVE  AsListed(a, d)
    <2>1. local[a][d] = IF home[d] = a THEN csAddr[d] ELSE Missing
      OBVIOUS
    <2>2. CASE home[d] = NoApp
      <3>1. ran[d] = Absent /\ local[a][d] = Missing
        BY <2>1, <2>2, AppAssumption
      <3>2. QED
        BY <3>1 DEF AsListed, Absent
    <2>3. CASE home[d] = a
      <3>1. ran[d] = Entry("own", csAddr[d])
        BY <2>3, AppAssumption
      <3>2. local[a][d] = csAddr[d] /\ csAddr[d] # Missing
        BY <2>1, <2>3, AddrAssumption
      <3>3. ran[d].in /\ ran[d].active = csAddr[d]
        BY <3>1 DEF Entry
      <3>4. QED
        BY <3>2, <3>3 DEF AsListed, Agrees
    <2>4. QED
      BY <2>2, <2>3
  <1>3. QED
    BY <1>1, <1>2 DEF AgreeOK, Taken

LEMMA HookDeviceTaken ==
    ASSUME NEW a, Apps = {a}, TypeInv, NEW d \in Devices, HookDevice(d), trigger,
           \A e \in Devices : Taken(a, e)
    PROVE  \A e \in Devices : Taken(a, e)'
  <1>1. /\ UNCHANGED <<pulled, local, app, drops>>
        /\ phase = "hooks" /\ todo' = todo \ {d} /\ d \in todo
        /\ phase' \in {"hooks", "exists"}
        /\ \A e \in Devices \ {d} : ran'[e] = ran[e]
    BY HookDeviceRan DEF HookDevice, listVars, csVars, KeepDevice, AddDevice
  <1>2. /\ phase' = "exists" => dev' = d /\ ran'[d].in
        /\ phase' # "exists" => Served(d)'
    BY HookDeviceServes
  <1>3. app = a /\ AsListed(a, d) /\ pulled[d] \in Addr /\ pulled[d] # Missing
    BY <1>1, PulledAddr DEF TypeInv, ControlOK, Taken
  <1>4. phase' # "exists" => AsPulled(d)'
    <2>1. CASE local[a][d] = Missing \/ pulled[d] \notin {local[a][d], NoAddr}
      BY <2>1, <1>1, <1>2, <1>3 DEF Served, AsPulled, Addr
    <2>2. CASE local[a][d] # Missing /\ pulled[d] \in {local[a][d], NoAddr}
      <3>1. ran[d].in /\ Agrees(d, local[a][d])
        BY <2>2, <1>3 DEF AsListed
      <3>2. KeepDevice(d) /\ ~Moved(local[a][d], pulled[d])
        BY <2>2, <1>3 DEF HookDevice, AddDevice, Moved
      <3>3. UNCHANGED ran
        BY <3>2, <1>3 DEF KeepDevice, UpdateRan
      <3>4. QED
        BY <2>2, <1>1, <3>1, <3>3 DEF AsPulled, Agrees
    <2>3. QED
      BY <2>1, <2>2
  <1>5. Taken(a, d)'
    BY <1>1, <1>2, <1>3, <1>4 DEF Taken
  <1>6. ASSUME NEW e \in Devices \ {d}
        PROVE  Taken(a, e)'
    <2>1. Taken(a, e)
      OBVIOUS
    <2>2. phase' = "exists" => dev' # e
      BY <1>2, <1>6
    <2>3. QED
      BY <1>1, <2>1, <2>2 DEF Taken, AsListed, AsPulled, Agrees
  <1>7. QED
    BY <1>5, <1>6

LEMMA ResolveExistingTaken ==
    ASSUME NEW a, TypeInv, ResolveExisting, \A e \in Devices : Taken(a, e)
    PROVE  \A e \in Devices : Taken(a, e)'
  <1>1. /\ UNCHANGED <<pulled, local, todo, drops>>
        /\ phase = "exists" /\ phase' = "hooks"
        /\ \A e \in Devices \ {dev} : ran'[e] = ran[e]
    BY ResolveExistingRan DEF ResolveExisting, listVars, csVars
  <1>2. /\ dev \in Devices \ todo /\ pulled[dev] # Missing
        /\ ran'[dev].in = ran[dev].in
        /\ ran'[dev].active = IF Moved(ran[dev].active, pulled[dev])
                              THEN pulled[dev] ELSE ran[dev].active
    BY <1>1, ResolveExistingRan DEF TypeInv, ControlOK
  <1>3. ASSUME NEW e \in Devices, e = dev
        PROVE  Taken(a, e)'
    <2>1. ran[e].in
      BY <1>1, <1>2, <1>3 DEF Taken
    <2>2. AsPulled(e)'
      BY <1>1, <1>2, <1>3, <2>1 DEF AsPulled, Agrees, Moved
    <2>3. QED
      BY <1>1, <1>2, <1>3, <2>2 DEF Taken
  <1>4. ASSUME NEW e \in Devices, e # dev
        PROVE  Taken(a, e)'
    <2>1. Taken(a, e) /\ ran'[e] = ran[e]
      BY <1>1, <1>4
    <2>2. QED
      BY <1>1, <1>4, <2>1 DEF Taken, AsListed, AsPulled, Agrees
  <1>5. QED
    BY <1>3, <1>4

\* Every step that is part of a pass takes RAN on its way; by itself it fails only
\* where it has called no hook yet.
LEMMA PassTaken ==
    ASSUME NEW a, Apps = {a}, TypeInv, AgreeOK(a), failures = 0, Pass
    PROVE  \A d \in Devices : Taken(a, d)'
  <1> USE DEF AgreeOK
  <1>1. CASE NextAppPage \/ \E b \in Apps : EnterApp(b)
    BY <1>1 DEF NextAppPage, EnterApp, csVars, listVars, Taken, AsListed, Agrees
  <1>2. CASE NextPage \/ \E d \in Devices : PullDevice(d)
    BY <1>2 DEF NextPage, PullDevice, csVars, listVars, Taken, AsListed, Agrees
  <1>3. CASE PullDone
    <2>1. /\ phase = "pull" /\ phase' = "hooks"
          /\ todo' = {d \in Devices : pulled[d] # Missing}
          /\ UNCHANGED <<pulled, ran, local, drops>>
      BY <1>3 DEF PullDone, csVars, listVars
    <2>2. QED
      BY <2>1 DEF Taken, AsListed, Agrees
  <1>4. ASSUME NEW d \in Devices, HookDevice(d)
        PROVE  \A e \in Devices : Taken(a, e)'
    BY <1>4, HookDeviceTaken
  <1>5. CASE ResolveExisting
    BY <1>5, ResolveExistingTaken
  <1>6. CASE HooksDone
    <2>1. /\ phase = "hooks" /\ phase' = "remove" /\ todo = {} /\ app = a
          /\ todo' = {d \in Devices : local[a][d] # Missing /\ pulled[d] = Missing}
          /\ UNCHANGED <<pulled, ran, local, drops>>
      BY <1>6 DEF HooksDone, csVars, listVars, TypeInv, ControlOK
    <2>2. QED
      BY <2>1 DEF Taken, AsListed, AsPulled, Agrees
  <1>7. ASSUME NEW d \in Devices, RemoveDevice(d)
        PROVE  \A e \in Devices : Taken(a, e)'
    <2>1. /\ phase = "remove" /\ phase' = "remove" /\ todo' = todo \ {d} /\ d \in todo
          /\ UNCHANGED <<pulled, local, drops>>
          /\ ran'[d] = Absent
          /\ \A e \in Devices \ {d} : ran'[e] = ran[e]
      BY <1>7 DEF RemoveDevice, csVars, listVars, TypeInv, TypeOK
    <2>2. ~ran'[d].in /\ pulled[d] = Missing
      BY <2>1 DEF Absent, TypeInv, ControlOK
    <2>3. QED
      BY <2>1, <2>2 DEF Taken, AsPulled, Agrees
  <1>8. ASSUME NEW d \in Devices, UpdateUnknown(d)
        PROVE  FALSE
    <2>1. app = a /\ AsListed(a, d)
      BY <1>8 DEF UpdateUnknown, TypeInv, ControlOK, Taken
    <2>2. QED
      BY <1>8, <2>1 DEF UpdateUnknown, AsListed
  <1>9. CASE Swap
    <2>1. /\ phase = "remove" /\ todo = {} /\ phase' = "apps" /\ app = a
          /\ local'[a] = pulled
          /\ UNCHANGED <<ran, drops>>
      BY <1>9 DEF Swap, csVars, TypeInv, TypeOK, ControlOK
    <2>2. QED
      BY <2>1 DEF Taken, AsListed, AsPulled, Agrees
  <1>10. CASE EndPass
    <2>1. /\ phase = "apps" /\ phase' = "idle"
          /\ UNCHANGED <<ran, drops>>
          /\ local'[a] = IF a \in listed THEN local[a] ELSE NoOne
      BY <1>10 DEF EndPass, Return, Forget, csVars
    <2>2. a \notin listed => drops > 0
      BY <1>10, OnFirstPage DEF EndPass, KeptOK, TypeInv, TypeOK
    <2>3. \A d \in Devices : NoOne[d] = Missing
      BY DEF NoOne
    <2>4. QED
      BY <2>1, <2>2, <2>3 DEF Taken, AsListed, Agrees
  <1>11. ASSUME NEW d \in Devices, PullGone(d)
         PROVE  \A e \in Devices : Taken(a, e)'
    BY <1>11 DEF PullGone, Raise, Return, Forget, csVars, listVars, Taken, AsListed, Agrees
  <1>12. QED
    BY <1>1, <1>2, <1>3, <1>4, <1>5, <1>6, <1>7, <1>8, <1>9, <1>10, <1>11
    DEF Pass, PassStep

LEMMA PassKeptOK ==
    ASSUME NEW a, Apps = {a}, TypeInv, KeptOK(a), Pass
    PROVE  KeptOK(a)'
  <1> USE DEF KeptOK
  <1>1. CASE NextAppPage
    <2>1. AppPage \subseteq {a}
      BY DEF AppPage, Page, TypeInv, TypeOK
    <2>2. QED
      BY <1>1, <2>1 DEF NextAppPage, csVars, listVars
  <1>2. ASSUME NEW b \in Apps, EnterApp(b)
        PROVE  KeptOK(a)'
    BY <1>2 DEF EnterApp, csVars
  <1>3. CASE NextPage \/ PullDone \/ \E d \in Devices : PullDevice(d)
    BY <1>3 DEF NextPage, PullDone, PullDevice, csVars, listVars, askVars
  <1>4. CASE ResolveExisting \/ HooksDone
    BY <1>4 DEF ResolveExisting, HooksDone, csVars, listVars, askVars
  <1>5. ASSUME NEW d \in Devices, HookDevice(d) \/ RemoveDevice(d)
        PROVE  KeptOK(a)'
    BY <1>5 DEF HookDevice, RemoveDevice, csVars, listVars, askVars
  <1>6. ASSUME NEW d \in Devices, PullGone(d) \/ UpdateUnknown(d)
        PROVE  KeptOK(a)'
    BY <1>6, AppAssumption DEF PullGone, UpdateUnknown, Raise, Return, Forget, csVars, listVars
  <1>7. CASE Swap
    BY <1>7, AppAssumption DEF Swap, csVars, askVars, TypeInv, TypeOK, ControlOK
  <1>8. CASE EndPass
    <2>1. \A d \in Devices : NoOne[d] = Missing
      BY DEF NoOne
    <2>2. QED
      BY <1>8, <2>1, AppAssumption DEF EndPass, Return, Forget, csVars
  <1>9. QED
    BY <1>1, <1>2, <1>3, <1>4, <1>5, <1>6, <1>7, <1>8 DEF Pass, PassStep

LEMMA ChirpStackAgreeOK ==
    ASSUME NEW a, TypeInv, AgreeOK(a), ChirpStack
    PROVE  AgreeOK(a)'
  <1>1. UNCHANGED <<ran, listVars, passVars, failures>>
    BY ChirpStackFrame
  <1>2. \/ UNCHANGED <<apps, drops>>
        \/ drops' = drops + 1 /\ drops \in Nat
    BY BoundAssumption
    DEF ChirpStack, CreateDevice, DeleteDevice, ActivateDevice, Changed,
        DropApplication, TypeInv, TypeOK
  <1>3. drops' > 0 \/ drops' = drops
    BY <1>2
  <1>4. drops > 0 => drops' > 0
    BY <1>2
  <1>5. KeptOK(a)'
    BY <1>1, <1>2, <1>4 DEF AgreeOK, KeptOK, listVars, passVars, askVars
  <1>6. ASSUME failures = 0, NEW d \in Devices
        PROVE  Taken(a, d)'
    <2>1. Taken(a, d)
      BY <1>6 DEF AgreeOK
    <2>2. QED
      BY <1>1, <1>4, <2>1
      DEF listVars, passVars, Taken, AsListed, AsPulled, Agrees
  <1>7. QED
    BY <1>1, <1>5, <1>6 DEF AgreeOK, passVars

LEMMA NextAgreeOK ==
    ASSUME NEW a, Apps = {a}, TypeInv, AgreeOK(a), [Next]_vars
    PROVE  AgreeOK(a)'
  <1>1. CASE StartPass(TRUE)
    BY <1>1, AppAssumption
    DEF StartPass, csVars, listVars, AgreeOK, KeptOK, Taken, AsListed, Agrees
  <1>2. CASE Pass
    <2>1. trigger' = trigger
      BY <1>2 DEF Pass, PassStep, NextAppPage, EnterApp, NextPage, PullDevice, PullGone,
                  PullDone, HookDevice, ResolveExisting, HooksDone, RemoveDevice,
                  UpdateUnknown, Raise, Return, Forget, Swap, EndPass
    <2>2. failures' = failures
      BY <1>2 DEF Pass, PassStep, NextAppPage, EnterApp, NextPage, PullDevice, PullGone,
                  PullDone, HookDevice, ResolveExisting, HooksDone, RemoveDevice,
                  UpdateUnknown, Swap, EndPass
    <2>3. KeptOK(a)'
      BY <1>2, PassKeptOK DEF AgreeOK
    <2>4. failures = 0 => \A d \in Devices : Taken(a, d)'
      BY <1>2, PassTaken
    <2>5. QED
      BY <2>1, <2>2, <2>3, <2>4 DEF AgreeOK
  <1>3. CASE Abort
    <2>1. failures' # 0
      BY <1>3, BoundAssumption DEF Abort, TypeInv, TypeOK
    <2>2. trigger' = trigger /\ KeptOK(a)'
      BY <1>3, AppAssumption
      DEF Abort, Raise, Return, Forget, csVars, listVars, AgreeOK, KeptOK
    <2>3. QED
      BY <2>1, <2>2 DEF AgreeOK
  <1>4. CASE ChirpStack
    BY <1>4, ChirpStackAgreeOK
  <1>5. CASE UNCHANGED vars
    BY <1>5 DEF vars, csVars, listVars, passVars, askVars, AgreeOK, KeptOK, Taken,
                AsListed, AsPulled, Agrees
  <1>6. QED
    BY <1>1, <1>2, <1>3, <1>4, <1>5 DEF Next

\* For a tenant with one application: as long as no call fails, RAN has between
\* passes the devices of the local list and no other, each at its address there,
\* whatever ChirpStack's users do while a pass runs and whatever pages skip.
THEOREM IdleAgreed ==
    ASSUME NEW a, Apps = {a}
    PROVE  Spec => []IdleAgreement
  <1>1. Init => AgreeOK(a)
    BY InitAgreeOK
  <1>2. TypeInv /\ AgreeOK(a) /\ [Next]_vars => AgreeOK(a)'
    BY NextAgreeOK
  <1>3. TypeInv /\ AgreeOK(a) => IdleAgreement
    <2> SUFFICES ASSUME TypeInv, AgreeOK(a), failures = 0, phase = "idle",
                        NEW d \in Devices
                 PROVE  /\ Known(d) => ran[d].in
                        /\ ran[d].in => Known(d) \/ drops > 0
                        /\ \A b \in children :
                              local[b][d] # Missing => Agrees(d, local[b][d])
      BY DEF IdleAgreement
    <2>1. AsListed(a, d) /\ KeptOK(a)
      BY DEF AgreeOK, Taken
    <2>2. children \subseteq {a}
      BY DEF TypeInv, TypeOK
    <2>3. QED
      BY <2>1, <2>2 DEF AsListed, KeptOK, Known
  <1>4. QED
    BY <1>1, <1>2, <1>3, TypeInvariant, PTL DEF Spec

-----------------------------------------------------------------------------
(* Places in a listing *)

\* No two devices are at the same place of ChirpStack's order.
LEMMA DeviceOrderType ==
    /\ \A d \in Devices : DeviceOrder[d] \in Nat
    /\ \A d, e \in Devices : DeviceOrder[d] = DeviceOrder[e] => d = e
  BY OrderAssumption DEF Injection, IsInjective

\* Some set of a family is contained in no other.
LEMMA SmallestSet ==
    ASSUME NEW F \in SUBSET (SUBSET Devices), F # {}
    PROVE  \E U \in F : \A V \in F : V \subseteq U => V = U
  <1>1. IsWellFoundedOn(StrictSubsetOrdering(Devices), FiniteSubsetsOf(Devices))
    BY FS_StrictSubsetOrderingWellFounded
  <1>2. F \subseteq FiniteSubsetsOf(Devices)
    BY DevicesFinite DEF FiniteSubsetsOf
  <1>3. PICK U \in F : \A V \in F : ~(<<V, U>> \in StrictSubsetOrdering(Devices))
    BY <1>1, <1>2, WFMin
  <1>4. QED
    BY <1>3 DEF StrictSubsetOrdering

\* Of some devices, one is listed first, and one last.
LEMMA FirstAndLast ==
    ASSUME NEW T \in SUBSET Devices, T # {}
    PROVE  /\ \E x \in T : \A y \in T : DeviceOrder[x] <= DeviceOrder[y]
           /\ \E x \in T : \A y \in T : DeviceOrder[y] <= DeviceOrder[x]
  <1> DEFINE upTo(x) == {d \in Devices : DeviceOrder[d] <= DeviceOrder[x]}
             from(x) == {d \in Devices : DeviceOrder[x] <= DeviceOrder[d]}
  <1>1. \A d \in Devices : DeviceOrder[d] \in Nat
    BY DeviceOrderType
  <1>2. PICK x \in T : \A y \in T : upTo(y) \subseteq upTo(x) => upTo(y) = upTo(x)
    <2> DEFINE F == {upTo(y) : y \in T}
    <2>1. F \in SUBSET (SUBSET Devices) /\ F # {}
      OBVIOUS
    <2>2. PICK U \in F : \A V \in F : V \subseteq U => V = U
      <3> HIDE DEF F
      <3>1. QED
        BY <2>1, SmallestSet
    <2>3. PICK x \in T : U = upTo(x)
      OBVIOUS
    <2>4. \A y \in T : upTo(y) \subseteq upTo(x) => upTo(y) = upTo(x)
      <3>1. \A y \in T : upTo(y) \in F
        OBVIOUS
      <3> HIDE DEF F, upTo
      <3>2. QED
        BY <2>2, <2>3, <3>1
    <2>5. QED
      BY <2>4
  <1>3. PICK z \in T : \A y \in T : from(y) \subseteq from(z) => from(y) = from(z)
    <2> DEFINE F == {from(y) : y \in T}
    <2>1. F \in SUBSET (SUBSET Devices) /\ F # {}
      OBVIOUS
    <2>2. PICK U \in F : \A V \in F : V \subseteq U => V = U
      <3> HIDE DEF F
      <3>1. QED
        BY <2>1, SmallestSet
    <2>3. PICK z \in T : U = from(z)
      OBVIOUS
    <2>4. \A y \in T : from(y) \subseteq from(z) => from(y) = from(z)
      <3>1. \A y \in T : from(y) \in F
        OBVIOUS
      <3> HIDE DEF F, from
      <3>2. QED
        BY <2>2, <2>3, <3>1
    <2>5. QED
      BY <2>4
  <1>4. ASSUME NEW y \in T
        PROVE  DeviceOrder[x] <= DeviceOrder[y]
    <2>1. CASE DeviceOrder[y] < DeviceOrder[x]
      <3>1. upTo(y) \subseteq upTo(x) /\ x \in upTo(x) /\ x \notin upTo(y)
        BY <1>1, <2>1
      <3>2. QED
        BY <1>2, <3>1
    <2>2. QED
      BY <1>1, <2>1
  <1>5. ASSUME NEW y \in T
        PROVE  DeviceOrder[y] <= DeviceOrder[z]
    <2>1. CASE DeviceOrder[z] < DeviceOrder[y]
      <3>1. from(y) \subseteq from(z) /\ z \in from(z) /\ z \notin from(y)
        BY <1>1, <2>1
      <3>2. QED
        BY <1>3, <3>1
    <2>2. QED
      BY <1>1, <2>1
  <1>6. QED
    BY <1>4, <1>5

LEMMA RankType ==
    ASSUME NEW S \in SUBSET Devices, NEW x \in S
    PROVE  /\ Rank(S, DeviceOrder, x) \in Nat
           /\ Rank(S, DeviceOrder, x) >= 1
  <1> DEFINE upTo == {y \in S : DeviceOrder[y] <= DeviceOrder[x]}
  <1>1. x \in upTo /\ upTo \in SUBSET Devices
    BY DeviceOrderType
  <1>2. IsFiniteSet(upTo) /\ Cardinality(upTo) \in Nat
    BY <1>1, DevicesFinite
  <1>3. Cardinality(upTo) # 0
    BY <1>1, <1>2, FS_EmptySet
  <1> HIDE DEF upTo
  <1>4. Cardinality(upTo) >= 1
    BY <1>2, <1>3
  <1>5. QED
    BY <1>2, <1>4 DEF Rank, upTo

\* Entries of a listing are at different places, in the order of the listing.
LEMMA RankUnique ==
    ASSUME NEW S \in SUBSET Devices, NEW x \in S, NEW y \in S,
           Rank(S, DeviceOrder, x) = Rank(S, DeviceOrder, y)
    PROVE  x = y
  <1>1. ASSUME NEW a \in S, NEW b \in S, DeviceOrder[a] < DeviceOrder[b]
        PROVE  Rank(S, DeviceOrder, a) # Rank(S, DeviceOrder, b)
    <2> DEFINE upTo(c) == {z \in S : DeviceOrder[z] <= DeviceOrder[c]}
    <2>1. \A z \in S : DeviceOrder[z] \in Nat
      BY DeviceOrderType
    <2>2. /\ upTo(a) \in SUBSET upTo(b) /\ upTo(b) \in SUBSET Devices
          /\ b \in upTo(b) /\ b \notin upTo(a)
      BY <1>1, <2>1
    <2>3. IsFiniteSet(upTo(b))
      BY <2>2, DevicesFinite
    <2> HIDE DEF upTo
    <2>4. Cardinality(upTo(b)) # Cardinality(upTo(a))
      BY <2>2, <2>3, FS_Subset
    <2>5. QED
      BY <2>4 DEF Rank, upTo
  <1>2. DeviceOrder[x] \in Nat /\ DeviceOrder[y] \in Nat
    BY DeviceOrderType
  <1>3. DeviceOrder[x] = DeviceOrder[y]
    BY <1>1, <1>2
  <1>4. QED
    BY <1>3, DeviceOrderType

\* An entry that leaves takes the ones after it one place forward.
LEMMA RankAfterLeave ==
    ASSUME NEW S \in SUBSET Devices, NEW e, NEW x \in S \ {e}
    PROVE  \/ Rank(S \ {e}, DeviceOrder, x) = Rank(S, DeviceOrder, x)
           \/ Rank(S \ {e}, DeviceOrder, x) = Rank(S, DeviceOrder, x) - 1
  <1> DEFINE upTo(T) == {y \in T : DeviceOrder[y] <= DeviceOrder[x]}
  <1>1. upTo(S \ {e}) = upTo(S) \ {e} /\ upTo(S) \in SUBSET Devices
    OBVIOUS
  <1>2. IsFiniteSet(upTo(S))
    BY <1>1, DevicesFinite
  <1> HIDE DEF upTo
  <1>3. \/ Cardinality(upTo(S \ {e})) = Cardinality(upTo(S))
        \/ Cardinality(upTo(S \ {e})) = Cardinality(upTo(S)) - 1
    BY <1>1, <1>2, FS_RemoveElement
  <1>4. QED
    BY <1>3 DEF Rank, upTo

LEMMA RankAfterEnter ==
    ASSUME NEW S \in SUBSET Devices, NEW e \in Devices, NEW x \in S
    PROVE  Rank(S, DeviceOrder, x) <= Rank(S \cup {e}, DeviceOrder, x)
  <1> DEFINE upTo(T) == {y \in T : DeviceOrder[y] <= DeviceOrder[x]}
  <1>1. upTo(S) \in SUBSET upTo(S \cup {e}) /\ upTo(S \cup {e}) \in SUBSET Devices
    OBVIOUS
  <1>2. IsFiniteSet(upTo(S \cup {e}))
    BY <1>1, DevicesFinite
  <1> HIDE DEF upTo
  <1>3. Cardinality(upTo(S)) <= Cardinality(upTo(S \cup {e}))
    BY <1>1, <1>2, FS_Subset
  <1>4. QED
    BY <1>3 DEF Rank, upTo

\* The entry before another is one place before it.
LEMMA OneBefore ==
    ASSUME NEW S \in SUBSET Devices, NEW x \in S, Rank(S, DeviceOrder, x) # 1
    PROVE  \E z \in S : /\ DeviceOrder[z] < DeviceOrder[x]
                        /\ Rank(S, DeviceOrder, x) = Rank(S, DeviceOrder, z) + 1
  <1> DEFINE upTo(c) == {w \in S : DeviceOrder[w] <= DeviceOrder[c]}
             before == upTo(x) \ {x}
  <1>1. \A w \in S : DeviceOrder[w] \in Nat
    BY DeviceOrderType
  <1>2. /\ IsFiniteSet(upTo(x)) /\ Cardinality(upTo(x)) \in Nat
        /\ x \in upTo(x)
    BY <1>1, DevicesFinite
  <1>3. /\ IsFiniteSet(before) /\ Cardinality(before) = Cardinality(upTo(x)) - 1
    BY <1>2, FS_RemoveElement
  <1>4. before # {}
    <2>1. Cardinality(upTo(x)) # 1
      BY DEF Rank
    <2> HIDE DEF upTo, before
    <2>2. QED
      BY <1>2, <1>3, <2>1, FS_EmptySet
  <1>5. before \in SUBSET Devices
    OBVIOUS
  <1>6. PICK z \in before : \A w \in before : DeviceOrder[w] <= DeviceOrder[z]
    <2> HIDE DEF before
    <2>1. QED
      BY <1>4, <1>5, FirstAndLast
  <1>7. z \in S /\ DeviceOrder[z] < DeviceOrder[x]
    BY <1>1, DeviceOrderType
  <1>8. upTo(z) = before
    BY <1>1, <1>6, <1>7
  <1>9. Rank(S, DeviceOrder, x) = Rank(S, DeviceOrder, z) + 1
    <2>1. Cardinality(upTo(z)) = Cardinality(upTo(x)) - 1
      BY <1>3, <1>8
    <2>2. /\ Rank(S, DeviceOrder, x) = Cardinality(upTo(x))
          /\ Rank(S, DeviceOrder, z) = Cardinality(upTo(z))
      BY DEF Rank
    <2> HIDE DEF upTo
    <2>3. QED
      BY <1>2, <2>1, <2>2
  <1>10. QED
    BY <1>7, <1>9

\* A listing has no empty place: one with an entry beyond place n has one at
\* place n + 1.
LEMMA NoGap ==
    ASSUME NEW S \in SUBSET Devices, NEW n \in Nat,
           NEW x \in S, Rank(S, DeviceOrder, x) > n
    PROVE  \E y \in S : Rank(S, DeviceOrder, y) = n + 1
  <1> DEFINE beyond == {y \in S : Rank(S, DeviceOrder, y) > n}
  <1>1. \A y \in S : DeviceOrder[y] \in Nat
    BY DeviceOrderType
  <1>2. beyond \in SUBSET Devices /\ beyond # {}
    OBVIOUS
  <1>3. PICK y \in beyond : \A z \in beyond : DeviceOrder[y] <= DeviceOrder[z]
    <2> HIDE DEF beyond
    <2>1. QED
      BY <1>2, FirstAndLast
  <1>4. \A z \in S : Rank(S, DeviceOrder, z) \in Nat
    BY RankType
  <1>5. CASE Rank(S, DeviceOrder, y) = 1
    BY <1>4, <1>5
  <1>6. CASE Rank(S, DeviceOrder, y) # 1
    <2>1. PICK z \in S : /\ DeviceOrder[z] < DeviceOrder[y]
                         /\ Rank(S, DeviceOrder, y) = Rank(S, DeviceOrder, z) + 1
      BY <1>6, OneBefore
    <2>2. z \notin beyond
      BY <1>1, <1>3, <2>1
    <2>3. QED
      BY <1>4, <2>1, <2>2
  <1>7. QED
    BY <1>5, <1>6

-----------------------------------------------------------------------------
(* What paging skips *)

\* Devices of the application the pass will not be given: behind the offset when
\* their page was asked for.
Unpulled == {d \in InApp(app) : pulled[d] = Missing}
Behind   == {d \in Unpulled : d \notin todo /\ Rank(InApp(app), DeviceOrder, d) <= offset}

PagingOK ==
    /\ phase = "pull" => Cardinality(Behind) <= shifts
    /\ phase \in {"hooks", "exists", "remove"} => Cardinality(Unpulled) <= shifts

LEMMA AtMost ==
    ASSUME NEW S \in SUBSET Devices, NEW n \in Nat, Cardinality(S) <= n,
           NEW T \in SUBSET Devices
    PROVE  /\ T \subseteq S => Cardinality(T) <= n
           /\ \A e \in Devices : T \subseteq S \cup {e} => Cardinality(T) <= n + 1
  <1>1. /\ IsFiniteSet(S) /\ Cardinality(S) \in Nat
        /\ Cardinality(T) \in Nat
    BY DevicesFinite
  <1>2. ASSUME T \subseteq S
        PROVE  Cardinality(T) <= n
    <2>1. Cardinality(T) <= Cardinality(S)
      BY <1>1, <1>2, FS_Subset
    <2>2. QED
      BY <1>1, <2>1
  <1>3. ASSUME NEW e \in Devices, T \subseteq S \cup {e}
        PROVE  Cardinality(T) <= n + 1
    <2>1. /\ IsFiniteSet(S \cup {e})
          /\ Cardinality(S \cup {e}) \in Nat
          /\ Cardinality(S \cup {e}) <= Cardinality(S) + 1
      BY <1>1, FS_AddElement
    <2>2. Cardinality(T) <= Cardinality(S \cup {e})
      BY <1>3, <2>1, FS_Subset
    <2>3. QED
      BY <1>1, <2>1, <2>2
  <1>4. QED
    BY <1>2, <1>3

\* A page holds the places after the offset, so no device is behind the next one
\* that was not behind this one.
LEMMA NextPagePagingOK ==
    ASSUME TypeInv, PagingOK, NextPage
    PROVE  PagingOK'
  <1>1. /\ UNCHANGED <<pulled, app, home, shifts>>
        /\ phase = "pull" /\ phase' = "pull" /\ todo = {}
        /\ todo' = DevicePage /\ offset' = offset + BatchSize
        /\ InApp(app)' = InApp(app)
    BY DEF NextPage, csVars, InApp
  <1>2. offset \in Nat /\ shifts \in Nat /\ BatchSize \in Nat
    BY OrderAssumption DEF TypeInv, TypeOK
  <1>3. InApp(app) \in SUBSET Devices
    BY DEF InApp
  <1>4. ASSUME NEW d \in Behind'
        PROVE  d \in Behind
    <2>1. d \in Unpulled /\ d \in InApp(app) /\ d \notin DevicePage
          /\ Rank(InApp(app), DeviceOrder, d) <= offset + BatchSize
      BY <1>1 DEF Behind, Unpulled
    <2>2. Rank(InApp(app), DeviceOrder, d) \in Nat
      BY <1>3, <2>1, RankType
    <2>3. Rank(InApp(app), DeviceOrder, d) <= offset
      BY <1>2, <2>1, <2>2 DEF DevicePage, Page
    <2>4. QED
      BY <1>1, <2>1, <2>3 DEF Behind
  <1>5. Behind \in SUBSET Devices /\ Behind' \in SUBSET Devices
    BY DEF Behind, Unpulled, InApp
  <1>6. Cardinality(Behind') <= shifts
    BY <1>1, <1>2, <1>4, <1>5, AtMost DEF PagingOK
  <1>7. QED
    BY <1>1, <1>6 DEF PagingOK

LEMMA PullDevicePagingOK ==
    ASSUME TypeInv, PagingOK, NEW d \in Devices, PullDevice(d)
    PROVE  PagingOK'
  <1>1. /\ UNCHANGED <<app, home, shifts, offset>>
        /\ phase = "pull" /\ phase' = "pull"
        /\ pulled' = [pulled EXCEPT ![d] = csAddr[d]]
        /\ todo' = todo \ {d}
        /\ InApp(app)' = InApp(app)
    BY DEF PullDevice, csVars, askVars, InApp
  <1>2. /\ shifts \in Nat
        /\ pulled'[d] # Missing
        /\ \A e \in Devices \ {d} : pulled'[e] = pulled[e]
    BY <1>1, AddrAssumption DEF TypeInv, TypeOK, DictSet
  <1>3. Behind \in SUBSET Devices /\ Behind' \in SUBSET Devices
    BY DEF Behind, Unpulled, InApp
  <1>4. Behind' \subseteq Behind
    BY <1>1, <1>2, <1>3 DEF Behind, Unpulled
  <1>5. Cardinality(Behind') <= shifts
    BY <1>1, <1>2, <1>3, <1>4, AtMost DEF PagingOK
  <1>6. QED
    BY <1>1, <1>5 DEF PagingOK

\* The empty page: every device of the application is behind the offset.
LEMMA PullDonePagingOK ==
    ASSUME TypeInv, PagingOK, PullDone
    PROVE  PagingOK'
  <1>1. /\ UNCHANGED <<pulled, app, home, shifts>>
        /\ phase = "pull" /\ phase' = "hooks"
        /\ todo = {} /\ DevicePage = {}
        /\ InApp(app)' = InApp(app)
    BY DEF PullDone, csVars, InApp
  <1>2. /\ offset \in Nat /\ shifts \in Nat
        /\ BatchSize \in Nat \ {0}
        /\ InApp(app) \in SUBSET Devices
    BY OrderAssumption DEF TypeInv, TypeOK, InApp
  <1>3. ASSUME NEW d \in InApp(app)
        PROVE  Rank(InApp(app), DeviceOrder, d) <= offset
    <2>1. CASE Rank(InApp(app), DeviceOrder, d) > offset
      <3>1. PICK e \in InApp(app) : Rank(InApp(app), DeviceOrder, e) = offset + 1
        BY <1>2, <1>3, <2>1, NoGap
      <3>2. offset + 1 \in offset + 1 .. offset + BatchSize
        BY <1>2
      <3>3. e \in DevicePage
        BY <3>1, <3>2 DEF DevicePage, Page
      <3>4. QED
        BY <1>1, <3>3
    <2>2. QED
      BY <1>2, <1>3, <2>1, RankType
  <1>4. Unpulled' = Unpulled /\ Unpulled \subseteq Behind
    BY <1>1, <1>3 DEF Unpulled, Behind
  <1>5. Behind \in SUBSET Devices
    BY DEF Behind, Unpulled, InApp
  <1>6. Cardinality(Unpulled') <= shifts
    BY <1>1, <1>2, <1>4, <1>5, AtMost DEF PagingOK
  <1>7. QED
    BY <1>1, <1>6 DEF PagingOK

\* Nothing is behind the start.
LEMMA EnterAppPagingOK ==
    ASSUME NEW a \in Apps, EnterApp(a)
    PROVE  PagingOK'
  <1>1. phase' = "pull" /\ offset' = 0 /\ shifts' = 0
    BY DEF EnterApp
  <1>2. InApp(app)' \in SUBSET Devices
    BY DEF InApp
  <1>3. ASSUME NEW d \in InApp(app)'
        PROVE  ~(Rank(InApp(app), DeviceOrder, d)' <= offset')
    <2>1. /\ Rank(InApp(app)', DeviceOrder, d) \in Nat
          /\ Rank(InApp(app)', DeviceOrder, d) >= 1
      BY <1>2, <1>3, RankType
    <2>2. QED
      BY <1>1, <2>1 DEF Rank
  <1>4. Behind' = {}
    BY <1>3 DEF Behind, Unpulled
  <1>5. QED
    BY <1>1, <1>4, FS_EmptySet DEF PagingOK

\* From there on the pass reads no listing.
LEMMA PassPagingOK ==
    ASSUME TypeInv, PagingOK, Pass
    PROVE  PagingOK'
  <1>1. CASE ResolveExisting \/ HooksDone
             \/ \E d \in Devices : HookDevice(d) \/ RemoveDevice(d)
    <2>1. /\ UNCHANGED <<pulled, app, home, shifts>>
          /\ phase \in {"hooks", "exists", "remove"}
          /\ phase' \in {"hooks", "exists", "remove"}
      BY <1>1 DEF ResolveExisting, HooksDone, HookDevice, RemoveDevice, KeepDevice,
                  AddDevice, csVars
    <2>2. Unpulled' = Unpulled
      BY <2>1 DEF Unpulled, InApp
    <2>3. QED
      BY <2>1, <2>2 DEF PagingOK
  <1>2. CASE \/ NextAppPage \/ Swap \/ EndPass
             \/ \E d \in Devices : PullGone(d) \/ UpdateUnknown(d)
    BY <1>2 DEF NextAppPage, Swap, EndPass, PullGone, UpdateUnknown, Raise, Return, Forget, PagingOK
  <1>3. QED
    BY <1>1, <1>2, NextPagePagingOK, PullDevicePagingOK, PullDonePagingOK,
       EnterAppPagingOK DEF Pass, PassStep

\* A device that comes or goes moves one device at most behind the offset: itself,
\* or the one that was first after it.
LEMMA OneShift ==
    ASSUME TypeInv, app \in Apps, Shift,
           NEW d \in Devices, (home[d] = app) # (home'[d] = app)
    PROVE  shifts \in Nat /\ shifts' \in Nat /\ shifts + 1 <= shifts'
  <1> DEFINE S == {e \in Devices : (home[e] = app) # (home'[e] = app)}
  <1>1. shifts' = shifts + Cardinality(S)
    BY AppAssumption DEF Shift
  <1>2. IsFiniteSet(S) /\ Cardinality(S) \in Nat /\ d \in S
    BY DevicesFinite
  <1> HIDE DEF S
  <1>3. Cardinality(S) # 0
    BY <1>2, FS_EmptySet
  <1>4. shifts \in Nat
    BY DEF TypeInv, TypeOK
  <1>5. QED
    BY <1>1, <1>2, <1>3, <1>4

LEMMA OneEntersPagingOK ==
    ASSUME TypeInv, PagingOK, UNCHANGED passVars, app \in Apps, Shift,
           NEW d \in Devices, d \notin InApp(app), InApp(app)' = InApp(app) \cup {d}
    PROVE  PagingOK'
  <1>1. /\ UNCHANGED <<phase, pulled, app, todo, offset>>
        /\ (home[d] = app) # (home'[d] = app)
    BY DEF passVars, askVars, InApp
  <1>2. shifts \in Nat /\ shifts' \in Nat /\ shifts + 1 <= shifts'
    BY <1>1, OneShift
  <1>3. InApp(app) \in SUBSET Devices /\ offset \in Nat
    BY DEF InApp, TypeInv, TypeOK
  <1>4. Unpulled' \subseteq Unpulled \cup {d}
    BY <1>1 DEF Unpulled
  <1>5. ASSUME NEW e \in Behind', e # d
        PROVE  e \in Behind
    <2>1. /\ e \in Unpulled /\ e \in InApp(app) /\ e \notin todo
          /\ Rank(InApp(app) \cup {d}, DeviceOrder, e) <= offset
      BY <1>1, <1>4, <1>5 DEF Behind, Unpulled, Rank
    <2>2. /\ Rank(InApp(app), DeviceOrder, e) \in Nat
          /\ Rank(InApp(app) \cup {d}, DeviceOrder, e) \in Nat
      <3>1. InApp(app) \cup {d} \in SUBSET Devices /\ e \in InApp(app) \cup {d}
        BY <1>3, <2>1
      <3>2. QED
        BY <1>3, <2>1, <3>1, RankType
    <2>3. Rank(InApp(app), DeviceOrder, e) <= Rank(InApp(app) \cup {d}, DeviceOrder, e)
      BY <1>3, <2>1, RankAfterEnter
    <2>4. QED
      BY <1>3, <2>1, <2>2, <2>3 DEF Behind
  <1>6. /\ Behind' \subseteq Behind \cup {d}
        /\ Behind \in SUBSET Devices /\ Behind' \in SUBSET Devices
        /\ Unpulled \in SUBSET Devices /\ Unpulled' \in SUBSET Devices
    BY <1>5 DEF Behind, Unpulled, InApp
  <1>7. /\ Cardinality(Behind') \in Nat /\ Cardinality(Unpulled') \in Nat
    BY <1>6, DevicesFinite
  <1>8. /\ Cardinality(Behind) <= shifts => Cardinality(Behind') <= shifts + 1
        /\ Cardinality(Unpulled) <= shifts => Cardinality(Unpulled') <= shifts + 1
    BY <1>2, <1>4, <1>6, AtMost
  <1>9. QED
    BY <1>1, <1>2, <1>7, <1>8 DEF PagingOK

LEMMA OneLeavesPagingOK ==
    ASSUME TypeInv, PagingOK, UNCHANGED passVars, app \in Apps, Shift,
           NEW d \in Devices, d \in InApp(app), InApp(app)' = InApp(app) \ {d}
    PROVE  PagingOK'
  <1>1. /\ UNCHANGED <<phase, pulled, app, todo, offset>>
        /\ (home[d] = app) # (home'[d] = app)
    BY DEF passVars, askVars, InApp
  <1>2. shifts \in Nat /\ shifts' \in Nat /\ shifts + 1 <= shifts'
    BY <1>1, OneShift
  <1>3. InApp(app) \in SUBSET Devices /\ offset \in Nat
    BY DEF InApp, TypeInv, TypeOK
  <1>4. Unpulled' \subseteq Unpulled
    BY <1>1 DEF Unpulled
  <1>5. /\ Behind \in SUBSET Devices /\ Behind' \in SUBSET Devices
        /\ Unpulled \in SUBSET Devices /\ Unpulled' \in SUBSET Devices
    BY DEF Behind, Unpulled, InApp
  \* The device first after the offset is behind it now.
  <1>6. ASSUME NEW e \in Behind'
        PROVE  e \in Behind \/ Rank(InApp(app), DeviceOrder, e) = offset + 1
    <2>1. /\ e \in Unpulled /\ e \in InApp(app) \ {d} /\ e \notin todo
          /\ Rank(InApp(app) \ {d}, DeviceOrder, e) <= offset
      BY <1>1, <1>4 DEF Behind, Unpulled, Rank
    <2>2. Rank(InApp(app), DeviceOrder, e) \in Nat
      BY <1>3, <2>1, RankType
    <2>3. \/ Rank(InApp(app) \ {d}, DeviceOrder, e) = Rank(InApp(app), DeviceOrder, e)
          \/ Rank(InApp(app) \ {d}, DeviceOrder, e)
                = Rank(InApp(app), DeviceOrder, e) - 1
      BY <1>3, <2>1, RankAfterLeave
    <2>4. QED
      BY <1>3, <2>1, <2>2, <2>3 DEF Behind
  <1>7. \A e \in Behind' : e \in InApp(app)
    BY <1>1, <1>4 DEF Behind, Unpulled
  <1>8. Cardinality(Behind) <= shifts => Cardinality(Behind') <= shifts + 1
    <2>1. CASE \E e \in Behind' : Rank(InApp(app), DeviceOrder, e) = offset + 1
      <3>1. PICK e \in Behind' : Rank(InApp(app), DeviceOrder, e) = offset + 1
        BY <2>1
      <3>2. \A f \in Behind' : f \in Behind \cup {e}
        BY <1>3, <1>6, <1>7, <3>1, RankUnique
      <3>3. QED
        BY <1>2, <1>5, <3>2, AtMost
    <2>2. CASE ~ \E e \in Behind' : Rank(InApp(app), DeviceOrder, e) = offset + 1
      <3>1. Behind' \subseteq Behind
        BY <1>6, <2>2
      <3>2. Cardinality(Behind) <= shifts => Cardinality(Behind') <= shifts
        BY <1>2, <1>5, <3>1, AtMost
      <3>3. Cardinality(Behind') \in Nat
        BY <1>5, DevicesFinite
      <3>4. QED
        BY <1>2, <3>2, <3>3
    <2>3. QED
      BY <2>1, <2>2
  <1>9. Cardinality(Unpulled) <= shifts => Cardinality(Unpulled') <= shifts
    BY <1>2, <1>4, <1>5, AtMost
  <1>10. Cardinality(Behind') \in Nat /\ Cardinality(Unpulled') \in Nat
    BY <1>5, DevicesFinite
  <1>11. QED
    BY <1>1, <1>2, <1>8, <1>9, <1>10 DEF PagingOK

\* What happens elsewhere moves no device of the application.
LEMMA NoneMovesPagingOK ==
    ASSUME TypeInv, PagingOK, UNCHANGED passVars, shifts' \in Nat, shifts' >= shifts,
           InApp(app)' = InApp(app)
    PROVE  PagingOK'
  <1>1. UNCHANGED <<phase, pulled, app, todo, offset>>
    BY DEF passVars, askVars
  <1>2. /\ Unpulled' = Unpulled /\ Unpulled \in SUBSET Devices
    BY <1>1 DEF Unpulled, InApp
  <1>3. /\ Behind' = Behind /\ Behind \in SUBSET Devices
    BY <1>1, <1>2 DEF Behind, Unpulled, Rank
  <1>4. /\ Cardinality(Behind) \in Nat /\ Cardinality(Unpulled) \in Nat
        /\ shifts \in Nat
    BY <1>2, <1>3, DevicesFinite DEF TypeInv, TypeOK
  <1>5. QED
    BY <1>1, <1>2, <1>3, <1>4 DEF PagingOK

LEMMA ChirpStackPagingOK ==
    ASSUME TypeInv, PagingOK, ChirpStack
    PROVE  PagingOK'
  <1>1. UNCHANGED passVars /\ Shift
    BY DEF ChirpStack, CreateDevice, DeleteDevice, ActivateDevice, Changed,
           DropApplication
  <1>2. shifts' \in Nat /\ shifts' >= shifts
    BY <1>1, ShiftType DEF TypeInv, TypeOK
  <1>3. CASE app \notin Apps
    BY <1>1, <1>3 DEF TypeInv, ControlOK, PagingOK, passVars
  <1>4. CASE app \in Apps /\ \E d \in Devices : CreateDevice(d)
    <2>1. PICK d \in Devices, a \in apps : /\ home[d] = NoApp
                                           /\ home' = [home EXCEPT ![d] = a]
      BY <1>4 DEF CreateDevice
    <2>2. app' = app /\ app # NoApp /\ home \in [Devices -> Apps \cup {NoApp}]
      BY <1>1, <1>4, AppAssumption DEF passVars, TypeInv, TypeOK
    <2>3. CASE a = app
      <3>1. d \notin InApp(app) /\ InApp(app)' = InApp(app) \cup {d}
        BY <2>1, <2>2, <2>3 DEF InApp
      <3>2. QED
        BY <1>1, <1>4, <3>1, OneEntersPagingOK
    <2>4. CASE a # app
      <3>1. InApp(app)' = InApp(app)
        BY <2>1, <2>2, <2>4 DEF InApp
      <3>2. QED
        BY <1>1, <1>2, <3>1, NoneMovesPagingOK
    <2>5. QED
      BY <2>3, <2>4
  <1>5. CASE app \in Apps /\ \E d \in Devices : DeleteDevice(d)
    <2>1. PICK d \in Devices : home' = [home EXCEPT ![d] = NoApp]
      BY <1>5 DEF DeleteDevice
    <2>2. app' = app /\ app # NoApp /\ home \in [Devices -> Apps \cup {NoApp}]
      BY <1>1, <1>5, AppAssumption DEF passVars, TypeInv, TypeOK
    <2>3. CASE home[d] = app
      <3>1. d \in InApp(app) /\ InApp(app)' = InApp(app) \ {d}
        BY <2>1, <2>2, <2>3 DEF InApp
      <3>2. QED
        BY <1>1, <1>5, <3>1, OneLeavesPagingOK
    <2>4. CASE home[d] # app
      <3>1. InApp(app)' = InApp(app)
        BY <2>1, <2>2, <2>4 DEF InApp
      <3>2. QED
        BY <1>1, <1>2, <3>1, NoneMovesPagingOK
    <2>5. QED
      BY <2>3, <2>4
  <1>6. CASE app \in Apps /\ \E d \in Devices : ActivateDevice(d)
    <2>1. InApp(app)' = InApp(app)
      BY <1>1, <1>6 DEF ActivateDevice, InApp, passVars
    <2>2. QED
      BY <1>1, <1>2, <2>1, NoneMovesPagingOK
  <1>7. CASE app \in Apps /\ \E a \in Apps : DropApplication(a)
    <2>1. PICK a \in Apps :
             home' = [d \in Devices |-> IF home[d] = a THEN NoApp ELSE home[d]]
      BY <1>7 DEF DropApplication
    <2>2. app' = app /\ app # NoApp
      BY <1>1, <1>7, AppAssumption DEF passVars
    <2>3. CASE a = app
      <3>1. InApp(app)' = {}
        BY <2>1, <2>2, <2>3 DEF InApp
      <3>2. Behind' = {} /\ Unpulled' = {}
        BY <3>1 DEF Behind, Unpulled
      <3>3. QED
        BY <1>2, <3>2, FS_EmptySet DEF PagingOK
    <2>4. CASE a # app
      <3>1. InApp(app)' = InApp(app)
        BY <2>1, <2>2, <2>4 DEF InApp
      <3>2. QED
        BY <1>1, <1>2, <3>1, NoneMovesPagingOK
    <2>5. QED
      BY <2>3, <2>4
  <1>8. QED
    BY <1>3, <1>4, <1>5, <1>6, <1>7 DEF ChirpStack

LEMMA NextPagingOK == TypeInv /\ PagingOK /\ [Next]_vars => PagingOK'
  <1> SUFFICES ASSUME TypeInv, PagingOK, [Next]_vars PROVE PagingOK'
    OBVIOUS
  <1>1. CASE StartPass(TRUE) \/ Abort
    BY <1>1 DEF StartPass, Abort, Raise, Return, Forget, PagingOK
  <1>2. CASE UNCHANGED vars
    <2>1. /\ UNCHANGED <<passVars, shifts>> /\ InApp(app)' = InApp(app)
      BY <1>2 DEF vars, csVars, passVars, InApp
    <2>2. QED
      BY <2>1, NoneMovesPagingOK DEF TypeInv, TypeOK
  <1>3. QED
    BY <1>1, <1>2, PassPagingOK, ChirpStackPagingOK DEF Next

\* Whatever the size of the pages, the order of the listing and the moment a user
\* comes in between: of the devices a pass takes for gone, no more are in the
\* application than entered or left it while it was listed.
THEOREM SkipsBounded == Spec => []SkippedBounded
  <1>1. Init => PagingOK
    BY DEF Init, InitPass, PagingOK
  <1>2. TypeInv /\ PagingOK /\ [Next]_vars => PagingOK'
    BY NextPagingOK
  <1>3. TypeInv /\ PagingOK => SkippedBounded
    <2> SUFFICES ASSUME TypeInv, PagingOK, phase \in {"hooks", "remove"}
                 PROVE  Cardinality({d \in Devices : /\ local[app][d] # Missing
                                                     /\ pulled[d] = Missing
                                                     /\ home[d] = app}) <= shifts
      BY DEF SkippedBounded
    <2> DEFINE Skipped == {d \in Devices : /\ local[app][d] # Missing
                                           /\ pulled[d] = Missing
                                           /\ home[d] = app}
    <2>1. /\ Skipped \subseteq Unpulled /\ Skipped \in SUBSET Devices
          /\ Unpulled \in SUBSET Devices
      BY DEF Unpulled, InApp
    <2>2. Cardinality(Unpulled) <= shifts /\ shifts \in Nat
      BY DEF PagingOK, TypeInv, TypeOK
    <2> HIDE DEF Skipped
    <2>3. Cardinality(Skipped) <= shifts
      BY <2>1, <2>2, AtMost
    <2>4. QED
      BY <2>3 DEF Skipped
  <1>4. QED
    BY <1>1, <1>2, <1>3, TypeInvariant, PTL DEF Spec
=============================================================================
