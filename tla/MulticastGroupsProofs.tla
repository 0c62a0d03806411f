----------------------- MODULE MulticastGroupsProofs -----------------------
(***************************************************************************)
(* Proofs about MulticastGroups: type correctness, for any constants, and, *)
(* where an address belongs to one group, that the members the hook leaves *)
(* in RAN are those of the local copy, for any number of groups, devices,  *)
(* addresses, changes and errors.                                          *)
(*                                                                         *)
(* What the local copy promises of a group's address (Holds) is handed     *)
(* over within a pass: as long as the group is not pulled, the old copy    *)
(* makes the promise (UnpulledOK); once its hook has returned, the new one *)
(* (PulledOK); in between, the calls the hook still has to make are just   *)
(* what is missing to it (HookOK).                                         *)
(***************************************************************************)
EXTENDS MulticastGroups, TLAPS

HookPhases == {"update", "drop", "add"}
InHook(g)  == phase \in HookPhases /\ g = cur

\* An address is used by one group.
OwnAddresses == \A a \in McAddrs : \A g, h \in Users[a] : g = h

\* The hook runs for a group that was pulled; on_group_updated for one the
\* local copy has, on_group_add for another.
CurOK ==
    phase \in HookPhases =>
        /\ cur \in Groups
        /\ seen[cur] # Missing
        /\ isAdd <=> local[cur] = Missing

\* The removal loop handles groups of the local copy, and all of them.
SweepOK ==
    /\ \A h \in sweep : local[h] # Missing
    /\ phase # "sweep" => sweep = {}

\* What the loop has not reached is not in the new copy.
TodoOK == \A g \in todo : seen[g] = Missing

TypeInv == TypeOK /\ CurOK /\ SweepOK /\ TodoOK

UsersOK(dict) == \A g \in Groups : dict[g] # Missing => g \in Users[dict[g].addr]

\* A member was routed when it was added.
RoutedOK ==
    routes = 0 =>
        /\ \A a \in McAddrs : ranGroups[a] # Missing => ranGroups[a] \subseteq routed
        /\ phase = "add" => add \subseteq routed

\* RAN has at the address of a group no member but its own, and those that are
\* routed, or has no group there.
Holds(group) ==
    ranGroups[group.addr] # Missing =>
        /\ ranGroups[group.addr] \subseteq group.devices
        /\ routes = 0 => group.devices \cap routed \subseteq ranGroups[group.addr]

UnpulledOK ==
    \A g \in Groups :
        /\ local[g] # Missing
        /\ phase = "idle" \/ seen[g] = Missing
        => Holds(local[g])

PulledOK ==
    phase # "idle" =>
        \A g \in Groups : seen[g] # Missing /\ ~InHook(g) => Holds(seen[g])

\* What the hook still has to remove and to add.
HookOK ==
    /\ phase = "update" /\ ~isAdd => Holds(local[cur])
    /\ phase \in {"drop", "add"} =>
          /\ drop \cap New.devices = {}
          /\ add \subseteq New.devices
          /\ ranGroups[New.addr] # Missing =>
                /\ ranGroups[New.addr] \subseteq New.devices \cup drop
                /\ routes = 0 => New.devices \cap routed \subseteq ranGroups[New.addr] \cup add
    /\ phase = "add" => drop = {}

OwnersOK == UsersOK(remote) /\ UsersOK(local) /\ UsersOK(seen)

IInv == /\ TypeInv
        /\ OwnersOK
        /\ RoutedOK
        /\ ~cut => UnpulledOK /\ PulledOK /\ HookOK

-----------------------------------------------------------------------------
(* Types *)

\* A group that is there, in a dict.
LEMMA DictEntry ==
    ASSUME NEW dict \in Dict, NEW g \in Groups, dict[g] # Missing
    PROVE  dict[g] \in Group /\ dict[g].addr \in McAddrs /\ dict[g].devices \in Members
  BY DEF Dict, Group

\* The group whose hook runs.
LEMMA NewEntry ==
    ASSUME TypeInv, phase \in HookPhases
    PROVE  /\ cur \in Groups /\ seen[cur] # Missing
           /\ New \in Group /\ New.addr \in McAddrs /\ New.devices \in Members
  BY DictEntry DEF TypeInv, TypeOK, CurOK, New

LEMMA InitTypeInv == Init => TypeInv
  <1> SUFFICES ASSUME Init PROVE TypeInv
    OBVIOUS
  <1>1. TypeOK
    <2>1. NoGroups \in Dict /\ remote \in Dict
      BY DEF Init, NoGroups, Dict
    <2>2. ranGroups \in [McAddrs -> Members \cup {Missing}]
      BY DEF Init
    <2>3. drop \in Members /\ add \in Members
      BY DEF Init, Members
    <2>4. local \in Dict /\ seen \in Dict /\ cur \in Groups \cup {Missing}
      BY <2>1 DEF Init
    <2>5. isAdd \in BOOLEAN /\ cut \in BOOLEAN /\ routed \in Members
      BY DEF Init
    <2>6. /\ phase \in Phases
          /\ listed \in SUBSET Groups /\ todo \in SUBSET Groups
          /\ sweep \in SUBSET Groups /\ astray \in SUBSET McAddrs
      BY DEF Init, Phases
    <2>7. /\ changes \in 0 .. MaxChanges
          /\ routes \in 0 .. MaxRoutes
          /\ failures \in 0 .. MaxFailures
      BY BoundAssumption DEF Init
    <2>8. QED
      BY <2>1, <2>2, <2>3, <2>4, <2>5, <2>6, <2>7 DEF TypeOK
  <1>2. CurOK /\ SweepOK /\ TodoOK
    BY DEF Init, CurOK, SweepOK, TodoOK, HookPhases
  <1>3. QED
    BY <1>1, <1>2 DEF TypeInv

LEMMA RaiseTypeInv ==
    ASSUME TypeInv, Raise, failures' \in 0 .. MaxFailures
    PROVE  TypeInv'
  <1>1. TypeOK'
    BY DEF TypeInv, TypeOK, Raise, Phases, Members
  <1>2. CurOK' /\ SweepOK' /\ TodoOK'
    BY DEF Raise, CurOK, SweepOK, TodoOK, HookPhases
  <1>3. QED
    BY <1>1, <1>2 DEF TypeInv

LEMMA StartPassTypeInv ==
    ASSUME TypeInv, StartPass
    PROVE  TypeInv'
  <1> USE DEF StartPass, done, bounds
  <1>1. TypeOK'
    BY DEF TypeInv, TypeOK, Phases, Exists, NoGroups, Dict
  <1>2. CurOK' /\ SweepOK' /\ TodoOK'
    BY DEF TypeInv, CurOK, SweepOK, TodoOK, HookPhases, Exists, NoGroups
  <1>3. QED
    BY <1>1, <1>2 DEF TypeInv

LEMMA PullGroupTypeInv ==
    ASSUME TypeInv, NEW g \in Groups, PullGroup(g)
    PROVE  TypeInv'
  <1> USE DEF PullGroup, done, bounds
  <1>1. remote[g] \in Group /\ g # Missing
    BY DictEntry, MissingAssumption DEF TypeInv, TypeOK
  <1>2. seen' \in Dict /\ seen'[g] # Missing
    BY <1>1 DEF TypeInv, TypeOK, Dict
  <1>3. TypeOK'
    BY <1>2 DEF TypeInv, TypeOK, Phases, Unseen
  <1>4. CurOK'
    BY <1>2 DEF CurOK, HookPhases
  <1>5. SweepOK' /\ TodoOK'
    BY DEF TypeInv, TypeOK, SweepOK, TodoOK, Unseen, HookPhases
  <1>6. QED
    BY <1>3, <1>4, <1>5 DEF TypeInv

LEMMA RemoveGroupTypeInv ==
    ASSUME TypeInv, NEW h \in Groups, RemoveGroup(h)
    PROVE  TypeInv'
  <1> USE DEF RemoveGroup, bounds
  <1>1. local[h].addr \in McAddrs
    BY DictEntry DEF TypeInv, TypeOK, SweepOK
  <1>2. TypeOK'
    BY <1>1 DEF TypeInv, TypeOK
  <1>3. CurOK' /\ SweepOK' /\ TodoOK'
    BY DEF TypeInv, CurOK, SweepOK, TodoOK, HookPhases
  <1>4. QED
    BY <1>2, <1>3 DEF TypeInv

LEMMA SweepDoneTypeInv ==
    ASSUME TypeInv, SweepDone
    PROVE  TypeInv'
  <1> USE DEF SweepDone, done, bounds
  <1>1. TypeOK'
    BY DEF TypeInv, TypeOK, Phases
  <1>2. CurOK' /\ SweepOK' /\ TodoOK'
    BY DEF TypeInv, CurOK, SweepOK, TodoOK, HookPhases
  <1>3. QED
    BY <1>1, <1>2 DEF TypeInv

LEMMA SwapTypeInv ==
    ASSUME TypeInv, Swap
    PROVE  TypeInv'
  <1> USE DEF Swap, bounds
  <1>1. TypeOK'
    BY DEF TypeInv, TypeOK, Phases
  <1>2. CurOK' /\ SweepOK' /\ TodoOK'
    BY DEF TypeInv, CurOK, SweepOK, TodoOK, HookPhases
  <1>3. QED
    BY <1>1, <1>2 DEF TypeInv

LEMMA CreateGroupTypeInv ==
    ASSUME TypeInv, CreateGroup
    PROVE  TypeInv'
  <1> USE DEF CreateGroup, bounds, HookPhases
  <1>1. New.addr \in McAddrs /\ New.devices \in Members
    BY NewEntry
  <1>2. ranGroups[New.addr] # Missing => ranGroups[New.addr] \in Members
    BY <1>1 DEF TypeInv, TypeOK
  <1>3. drop' \in Members /\ add' \in Members
    BY <1>1, <1>2 DEF Members
  <1>4. ranGroups' \in [McAddrs -> Members \cup {Missing}]
    BY <1>1 DEF TypeInv, TypeOK, Members
  <1>5. TypeOK'
    BY <1>3, <1>4 DEF TypeInv, TypeOK, Phases
  <1>6. CurOK' /\ SweepOK' /\ TodoOK'
    BY DEF TypeInv, CurOK, SweepOK, TodoOK
  <1>7. QED
    BY <1>5, <1>6 DEF TypeInv

LEMMA MoveGroupTypeInv ==
    ASSUME TypeInv, MoveGroup
    PROVE  TypeInv'
  <1> USE DEF MoveGroup, done, bounds, HookPhases
  <1>1. New.addr \in McAddrs /\ New.devices \in Members
    BY NewEntry
  <1>2. local[cur].addr \in McAddrs /\ local[cur].devices \in Members
    BY DictEntry DEF TypeInv, TypeOK, CurOK
  <1>3. drop' \in Members /\ add' \in Members
    BY <1>1, <1>2 DEF Members
  <1>4. ranGroups' \in [McAddrs -> Members \cup {Missing}]
    BY <1>1, <1>2 DEF TypeInv, TypeOK
  <1>5. TypeOK'
    BY <1>3, <1>4 DEF TypeInv, TypeOK, Phases
  <1>6. CurOK' /\ SweepOK' /\ TodoOK'
    BY DEF TypeInv, CurOK, SweepOK, TodoOK
  <1>7. QED
    BY <1>5, <1>6 DEF TypeInv

LEMMA DropMemberTypeInv ==
    ASSUME TypeInv, NEW d \in Devices, DropMember(d)
    PROVE  TypeInv'
  <1> USE DEF DropMember, done, bounds, HookPhases
  <1>1. New.addr \in McAddrs
    BY NewEntry
  <1>2. ranGroups[New.addr] \in Members
    BY <1>1 DEF TypeInv, TypeOK
  <1>3. /\ drop' \in Members
        /\ ranGroups' \in [McAddrs -> Members \cup {Missing}]
    BY <1>1, <1>2 DEF TypeInv, TypeOK, Members
  <1>4. TypeOK'
    BY <1>3 DEF TypeInv, TypeOK
  <1>5. CurOK' /\ SweepOK' /\ TodoOK'
    BY DEF TypeInv, CurOK, SweepOK, TodoOK
  <1>6. QED
    BY <1>4, <1>5 DEF TypeInv

LEMMA SelectMembersTypeInv ==
    ASSUME TypeInv, SelectMembers
    PROVE  TypeInv'
  <1> USE DEF SelectMembers, done, bounds, HookPhases
  <1>1. TypeOK'
    BY DEF TypeInv, TypeOK, Phases, Members
  <1>2. CurOK' /\ SweepOK' /\ TodoOK'
    BY DEF TypeInv, CurOK, SweepOK, TodoOK
  <1>3. QED
    BY <1>1, <1>2 DEF TypeInv

LEMMA AddMemberTypeInv ==
    ASSUME TypeInv, NEW d \in Devices, AddMember(d)
    PROVE  TypeInv'
  <1> USE DEF AddMember, done, bounds, HookPhases
  <1>1. New.addr \in McAddrs
    BY NewEntry
  <1>2. ranGroups[New.addr] \in Members
    BY <1>1 DEF TypeInv, TypeOK
  <1>3. /\ add' \in Members
        /\ ranGroups' \in [McAddrs -> Members \cup {Missing}]
    BY <1>1, <1>2 DEF TypeInv, TypeOK, Members
  <1>4. TypeOK'
    BY <1>3 DEF TypeInv, TypeOK
  <1>5. CurOK' /\ SweepOK' /\ TodoOK'
    BY DEF TypeInv, CurOK, SweepOK, TodoOK
  <1>6. QED
    BY <1>4, <1>5 DEF TypeInv

LEMMA HookDoneTypeInv ==
    ASSUME TypeInv, HookDone
    PROVE  TypeInv'
  <1> USE DEF HookDone, HookReturns, done, bounds, HookPhases
  <1>1. TypeOK'
    BY DEF TypeInv, TypeOK, Phases, Unseen
  <1>2. CurOK' /\ SweepOK' /\ TodoOK'
    BY DEF TypeInv, CurOK, SweepOK, TodoOK, Unseen
  <1>3. QED
    BY <1>1, <1>2 DEF TypeInv

LEMMA ChangeGroupTypeInv ==
    ASSUME TypeInv, NEW g \in Groups, ChangeGroup(g)
    PROVE  TypeInv'
  <1> USE DEF ChangeGroup, passVars, done
  <1>1. remote' \in Dict
    BY DEF TypeInv, TypeOK, Dict
  <1>2. TypeOK'
    BY <1>1, BoundAssumption DEF TypeInv, TypeOK
  <1>3. CurOK' /\ SweepOK' /\ TodoOK'
    BY DEF TypeInv, CurOK, SweepOK, TodoOK, HookPhases
  <1>4. QED
    BY <1>2, <1>3 DEF TypeInv

LEMMA RouteDeviceTypeInv ==
    ASSUME TypeInv, NEW d \in Devices, RouteDevice(d)
    PROVE  TypeInv'
  <1> USE DEF RouteDevice, passVars, done
  <1>1. TypeOK'
    BY BoundAssumption DEF TypeInv, TypeOK, Members
  <1>2. CurOK' /\ SweepOK' /\ TodoOK'
    BY DEF TypeInv, CurOK, SweepOK, TodoOK, HookPhases
  <1>3. QED
    BY <1>1, <1>2 DEF TypeInv

LEMMA NextTypeInv == TypeInv /\ [Next]_vars => TypeInv'
  <1> SUFFICES ASSUME TypeInv, [Next]_vars PROVE TypeInv'
    OBVIOUS
  <1>1. CASE UNCHANGED vars
    BY <1>1 DEF vars, passVars, done, bounds, TypeInv, TypeOK, CurOK, SweepOK, TodoOK,
       HookPhases
  <1>2. CASE StartPass \/ Swap \/ SweepDone
    BY <1>2, StartPassTypeInv, SwapTypeInv, SweepDoneTypeInv
  <1>3. CASE CreateGroup \/ MoveGroup \/ SelectMembers \/ HookDone
    BY <1>3, CreateGroupTypeInv, MoveGroupTypeInv, SelectMembersTypeInv,
       HookDoneTypeInv
  <1>4. ASSUME NEW g \in Groups, PullGroup(g) \/ RemoveGroup(g) \/ ChangeGroup(g)
        PROVE  TypeInv'
    BY <1>4, PullGroupTypeInv, RemoveGroupTypeInv, ChangeGroupTypeInv
  <1>5. ASSUME NEW d \in Devices, DropMember(d) \/ AddMember(d) \/ RouteDevice(d)
        PROVE  TypeInv'
    BY <1>5, DropMemberTypeInv, AddMemberTypeInv, RouteDeviceTypeInv
  <1>6. CASE Refused
    BY <1>6, RaiseTypeInv DEF Refused, TypeInv, TypeOK
  <1>7. CASE Abort
    <2>1. failures' \in 0 .. MaxFailures
      BY <1>7, BoundAssumption DEF Abort, TypeInv, TypeOK
    <2>2. QED
      BY <1>7, <2>1, RaiseTypeInv DEF Abort
  <1>8. QED
    BY <1>1, <1>2, <1>3, <1>4, <1>5, <1>6, <1>7 DEF Next, Pass

LEMMA TypeInvariant == Spec => []TypeInv
  <1>1. Init => TypeInv
    BY InitTypeInv
  <1>2. TypeInv /\ [Next]_vars => TypeInv'
    BY NextTypeInv
  <1>3. QED
    BY <1>1, <1>2, PTL DEF Spec

\* The variables keep their types, for any groups, addresses and users of an
\* address, and whatever calls fail: in particular every key the hook passes to
\* RAN is an address, and its members are devices.
THEOREM TypeCorrect == Spec => []TypeOK
  <1>1. TypeInv => TypeOK
    BY DEF TypeInv
  <1>2. QED
    BY <1>1, TypeInvariant, PTL

-----------------------------------------------------------------------------
(* The owners of addresses, and members that are routed *)

LEMMA InitIInv == Init => IInv
  <1> SUFFICES ASSUME Init PROVE IInv
    OBVIOUS
  <1>1. TypeInv
    BY InitTypeInv
  <1>2. OwnersOK
    BY DEF Init, OwnersOK, UsersOK, Possible, NoGroups
  <1>3. RoutedOK
    BY DEF Init, RoutedOK
  <1>4. UnpulledOK /\ PulledOK /\ HookOK
    BY DEF Init, UnpulledOK, PulledOK, HookOK, NoGroups
  <1>5. QED
    BY <1>1, <1>2, <1>3, <1>4 DEF IInv

LEMMA NextOwnersOK ==
    ASSUME TypeInv, OwnersOK, Next
    PROVE  OwnersOK'
  <1> USE DEF OwnersOK, UsersOK
  <1>1. CASE UNCHANGED <<remote, local, seen>>
    BY <1>1
  <1>2. CASE StartPass
    BY <1>2 DEF StartPass, NoGroups
  <1>3. CASE Swap
    BY <1>3 DEF Swap
  <1>4. ASSUME NEW g \in Groups, PullGroup(g)
        PROVE  OwnersOK'
    BY <1>4 DEF PullGroup, TypeInv, TypeOK, Dict
  <1>5. ASSUME NEW g \in Groups, ChangeGroup(g)
        PROVE  OwnersOK'
    BY <1>5 DEF ChangeGroup, Possible, passVars
  <1>6. ASSUME NEW g \in Groups, RemoveGroup(g)
        PROVE  UNCHANGED <<remote, local, seen>>
    BY <1>6 DEF RemoveGroup
  <1>7. ASSUME NEW d \in Devices, DropMember(d) \/ AddMember(d) \/ RouteDevice(d)
        PROVE  UNCHANGED <<remote, local, seen>>
    BY <1>7 DEF DropMember, AddMember, RouteDevice, passVars
  <1>8. CASE SweepDone \/ CreateGroup \/ MoveGroup \/ SelectMembers \/ HookDone
    <2>1. UNCHANGED <<remote, local, seen>>
      BY <1>8 DEF SweepDone, CreateGroup, MoveGroup, SelectMembers, HookDone
    <2>2. QED
      BY <1>1, <2>1
  <1>9. CASE Refused \/ Abort
    <2>1. UNCHANGED <<remote, local, seen>>
      BY <1>9 DEF Refused, Abort, Raise
    <2>2. QED
      BY <1>1, <2>1
  <1>10. QED
    BY <1>1, <1>2, <1>3, <1>4, <1>5, <1>6, <1>7, <1>8, <1>9 DEF Next, Pass

LEMMA NextRoutedOK ==
    ASSUME TypeInv, RoutedOK, Next
    PROVE  RoutedOK'
  <1> USE DEF RoutedOK
  <1>1. CASE StartPass \/ Swap \/ SweepDone \/ HookDone
    BY <1>1 DEF StartPass, Swap, SweepDone, HookDone, HookReturns, done, bounds
  <1>2. CASE Refused \/ Abort
    BY <1>2 DEF Refused, Abort, Raise
  <1>3. ASSUME NEW g \in Groups, PullGroup(g) \/ ChangeGroup(g)
        PROVE  RoutedOK'
    BY <1>3 DEF PullGroup, ChangeGroup, passVars, done, bounds
  <1>4. ASSUME NEW g \in Groups, RemoveGroup(g)
        PROVE  RoutedOK'
    BY <1>4 DEF RemoveGroup, bounds, TypeInv, TypeOK
  <1>5. ASSUME NEW d \in Devices, RouteDevice(d)
        PROVE  RoutedOK'
    <2>1. routes' = routes + 1 /\ routes \in Nat
      BY <1>5, BoundAssumption DEF RouteDevice, TypeInv, TypeOK
    <2>2. QED
      BY <2>1
  <1>6. ASSUME NEW d \in Devices, DropMember(d)
        PROVE  RoutedOK'
    <2>1. New.addr \in McAddrs
      BY <1>6, NewEntry DEF DropMember, HookPhases
    <2>2. QED
      BY <1>6, <2>1 DEF DropMember, done, bounds, TypeInv, TypeOK
  <1>7. ASSUME NEW d \in Devices, AddMember(d)
        PROVE  RoutedOK'
    <2>1. New.addr \in McAddrs
      BY <1>7, NewEntry DEF AddMember, HookPhases
    <2>2. QED
      BY <1>7, <2>1 DEF AddMember, done, bounds, TypeInv, TypeOK
  <1>8. CASE SelectMembers
    BY <1>8 DEF SelectMembers, done, bounds
  <1>9. CASE CreateGroup
    <2>1. New.addr \in McAddrs
      BY <1>9, NewEntry DEF CreateGroup, HookPhases
    <2>2. QED
      BY <1>9, <2>1 DEF CreateGroup, bounds, TypeInv, TypeOK
  <1>10. CASE MoveGroup
    <2>1. New.addr \in McAddrs /\ local[cur].addr \in McAddrs
      BY <1>10, NewEntry, DictEntry
      DEF MoveGroup, HookPhases, TypeInv, TypeOK, CurOK
    <2>2. QED
      BY <1>10, <2>1 DEF MoveGroup, done, bounds, TypeInv, TypeOK
  <1>11. QED
    BY <1>1, <1>2, <1>3, <1>4, <1>5, <1>6, <1>7, <1>8, <1>9, <1>10 DEF Next, Pass

-----------------------------------------------------------------------------
(* What the copies promise of RAN *)

Promises == UnpulledOK /\ PulledOK /\ HookOK

\* No other group, old or new, is where the hook is at work.
LEMMA Apart ==
    ASSUME TypeInv, OwnersOK, OwnAddresses, phase \in HookPhases,
           NEW g \in Groups \ {cur}
    PROVE  /\ local[g] # Missing =>
                 /\ local[g].addr # New.addr
                 /\ local[cur] # Missing => local[g].addr # local[cur].addr
           /\ seen[g] # Missing =>
                 /\ seen[g].addr # New.addr
                 /\ local[cur] # Missing => seen[g].addr # local[cur].addr
  <1>1. cur \in Groups /\ seen[cur] # Missing /\ New = seen[cur]
    BY NewEntry DEF New
  <1>2. local \in Dict /\ seen \in Dict
    BY DEF TypeInv, TypeOK
  <1>3. /\ \A h \in Groups : local[h] # Missing =>
              local[h].addr \in McAddrs /\ h \in Users[local[h].addr]
        /\ \A h \in Groups : seen[h] # Missing =>
              seen[h].addr \in McAddrs /\ h \in Users[seen[h].addr]
    BY <1>2, DictEntry DEF OwnersOK, UsersOK
  <1>4. QED
    BY <1>1, <1>3 DEF OwnAddresses

LEMMA StartPassPromises ==
    ASSUME TypeInv, Promises, StartPass
    PROVE  Promises'
  <1> USE DEF Promises, StartPass, done, bounds
  <1>1. UnpulledOK'
    BY DEF UnpulledOK, Holds
  <1>2. PulledOK'
    BY DEF PulledOK, NoGroups
  <1>3. HookOK'
    BY DEF HookOK
  <1>4. QED
    BY <1>1, <1>2, <1>3

LEMMA PullGroupPromises ==
    ASSUME TypeInv, Promises, NEW g \in Groups, PullGroup(g)
    PROVE  Promises'
  <1> USE DEF Promises, PullGroup, done, bounds
  <1>0. seen[g] = Missing
    BY DEF TypeInv, TodoOK
  <1>1. /\ seen'[g] = remote[g] /\ seen'[g] # Missing
        /\ \A h \in Groups \ {g} : seen'[h] = seen[h]
    BY DEF TypeInv, TypeOK, Dict
  <1>2. UnpulledOK'
    BY <1>1 DEF UnpulledOK, Holds, Unseen
  <1>3. PulledOK'
    <2>1. ASSUME NEW h \in Groups, seen'[h] # Missing, ~InHook(h)'
          PROVE  Holds(seen[h])'
      <3>1. CASE h = g
        <4>1. phase' = "sweep" /\ local[g] = remote[g]
          BY <2>1, <3>1 DEF InHook, HookPhases
        <4>2. seen'[h] = local[g] /\ local[g] # Missing
          BY <4>1, <3>1, <1>1
        <4>3. Holds(local[g])
          BY <1>0, <4>2 DEF UnpulledOK
        <4>4. QED
          BY <4>2, <4>3 DEF Holds
      <3>2. CASE h # g
        BY <2>1, <3>2, <1>1 DEF PulledOK, InHook, HookPhases, Holds
      <3>3. QED
        BY <3>1, <3>2
    <2>2. QED
      BY <2>1 DEF PulledOK
  <1>4. HookOK'
    BY <1>0, <1>1 DEF UnpulledOK, HookOK, Holds
  <1>5. QED
    BY <1>2, <1>3, <1>4

LEMMA RemoveGroupPromises ==
    ASSUME TypeInv, Promises, NEW h \in Groups, RemoveGroup(h)
    PROVE  Promises'
  <1> USE DEF Promises, RemoveGroup, bounds
  <1>1. \A group \in Group : Holds(group) => Holds(group)'
    <2> SUFFICES ASSUME NEW group \in Group, Holds(group) PROVE Holds(group)'
      OBVIOUS
    <2>1. ranGroups'[group.addr] # Missing => ranGroups'[group.addr] = ranGroups[group.addr]
      BY DEF TypeInv, TypeOK, Group
    <2>2. QED
      BY <2>1 DEF Holds
  <1>2. UnpulledOK'
    BY <1>1, DictEntry DEF UnpulledOK, Holds, TypeInv, TypeOK
  <1>3. PulledOK'
    BY <1>1, DictEntry DEF PulledOK, InHook, HookPhases, Holds, TypeInv, TypeOK
  <1>4. HookOK'
    BY DEF HookOK
  <1>5. QED
    BY <1>2, <1>3, <1>4

LEMMA SweepDonePromises ==
    ASSUME Promises, SweepDone
    PROVE  Promises'
  <1> USE DEF Promises, SweepDone, done, bounds
  <1>1. UnpulledOK'
    BY DEF UnpulledOK, Holds
  <1>2. PulledOK'
    BY DEF PulledOK, InHook, HookPhases, Holds
  <1>3. HookOK'
    BY DEF HookOK
  <1>4. QED
    BY <1>1, <1>2, <1>3

\* The new copy takes over: every group in it has been through its hook.
LEMMA SwapPromises ==
    ASSUME Promises, Swap
    PROVE  Promises'
  <1> USE DEF Promises, Swap, bounds
  <1>1. UnpulledOK'
    BY DEF UnpulledOK, PulledOK, InHook, HookPhases, Holds
  <1>2. PulledOK'
    BY DEF PulledOK
  <1>3. HookOK'
    BY DEF HookOK
  <1>4. QED
    BY <1>1, <1>2, <1>3

\* What the hook does at its group's addresses touches no other's promise.
LEMMA ElsewherePromises ==
    ASSUME TypeInv, OwnersOK, OwnAddresses, Promises,
           phase \in HookPhases, phase' \in HookPhases,
           UNCHANGED <<local, seen, cur, routes, routed>>,
           \A a \in McAddrs :
               \/ ranGroups'[a] = ranGroups[a]
               \/ a = New.addr
               \/ local[cur] # Missing /\ a = local[cur].addr
    PROVE  UnpulledOK' /\ PulledOK'
  <1> USE DEF Promises
  <1>1. /\ \A g \in Groups : local[g] # Missing => local[g].addr \in McAddrs
        /\ \A g \in Groups : seen[g] # Missing => seen[g].addr \in McAddrs
    BY DictEntry DEF TypeInv, TypeOK
  <1>2. \A g \in Groups \ {cur} :
           /\ local[g] # Missing =>
                 ranGroups'[local[g].addr] = ranGroups[local[g].addr]
           /\ seen[g] # Missing =>
                 ranGroups'[seen[g].addr] = ranGroups[seen[g].addr]
    BY <1>1, Apart
  <1>3. cur \in Groups /\ seen[cur] # Missing /\ phase # "idle" /\ phase' # "idle"
    BY NewEntry DEF HookPhases
  <1>4. UnpulledOK'
    BY <1>2, <1>3 DEF UnpulledOK, Holds
  <1>5. PulledOK'
    BY <1>2, <1>3 DEF PulledOK, InHook, Holds
  <1>6. QED
    BY <1>4, <1>5

LEMMA CreateGroupPromises ==
    ASSUME TypeInv, OwnersOK, OwnAddresses, Promises, CreateGroup
    PROVE  Promises'
  <1> USE DEF Promises, CreateGroup, bounds, HookPhases
  <1>1. New.addr \in McAddrs /\ New.devices \in Members
    BY NewEntry
  <1>2. UNCHANGED New
    BY DEF New
  <1>3. UnpulledOK' /\ PulledOK'
    BY <1>1, ElsewherePromises DEF TypeInv, TypeOK
  <1>4. HookOK'
    <2>1. CASE ranGroups[New.addr] = Missing
      BY <2>1, <1>1, <1>2 DEF HookOK, TypeInv, TypeOK
    <2>2. CASE ranGroups[New.addr] # Missing
      BY <2>2, <1>1, <1>2 DEF HookOK
    <2>3. QED
      BY <2>1, <2>2
  <1>5. QED
    BY <1>3, <1>4

LEMMA MoveGroupPromises ==
    ASSUME TypeInv, OwnersOK, OwnAddresses, Promises, MoveGroup
    PROVE  Promises'
  <1> USE DEF Promises, MoveGroup, done, bounds, HookPhases
  <1>1. New.addr \in McAddrs /\ New.devices \in Members
    BY NewEntry
  <1>2. local[cur] # Missing /\ local[cur].addr \in McAddrs
    BY DictEntry DEF TypeInv, TypeOK, CurOK
  <1>3. UNCHANGED New
    BY DEF New
  <1>4. UnpulledOK' /\ PulledOK'
    <2>1. ASSUME NEW a \in McAddrs, a # New.addr, a # local[cur].addr
          PROVE  ranGroups'[a] = ranGroups[a]
      BY <2>1 DEF TypeInv, TypeOK
    <2>2. QED
      BY <1>2, <2>1, ElsewherePromises
  <1>5. HookOK'
    <2>1. Holds(local[cur])
      BY DEF HookOK
    <2>2. ranGroups'[New.addr] = ranGroups[local[cur].addr]
      BY <1>1, <1>2 DEF TypeInv, TypeOK
    <2>3. QED
      BY <2>1, <2>2, <1>3 DEF HookOK, Holds
  <1>6. QED
    BY <1>4, <1>5

LEMMA DropMemberPromises ==
    ASSUME TypeInv, OwnersOK, OwnAddresses, Promises, NEW d \in Devices,
           DropMember(d)
    PROVE  Promises'
  <1> USE DEF Promises, DropMember, done, bounds, HookPhases
  <1>1. New.addr \in McAddrs /\ New.devices \in Members
    BY NewEntry
  <1>2. UNCHANGED New
    BY DEF New
  <1>3. ranGroups'[New.addr] = ranGroups[New.addr] \ {d}
    BY <1>1 DEF TypeInv, TypeOK
  <1>4. UnpulledOK' /\ PulledOK'
    BY <1>1, ElsewherePromises DEF TypeInv, TypeOK
  <1>5. HookOK'
    BY <1>2, <1>3 DEF HookOK
  <1>6. QED
    BY <1>4, <1>5

LEMMA SelectMembersPromises ==
    ASSUME TypeInv, Promises, SelectMembers
    PROVE  Promises'
  <1> USE DEF Promises, SelectMembers, done, bounds, HookPhases
  <1>1. UNCHANGED New
    BY DEF New
  <1>2. UnpulledOK'
    BY DEF UnpulledOK, Holds
  <1>3. PulledOK'
    BY DEF PulledOK, InHook, Holds
  <1>4. HookOK'
    BY <1>1 DEF HookOK
  <1>5. QED
    BY <1>2, <1>3, <1>4

LEMMA AddMemberPromises ==
    ASSUME TypeInv, OwnersOK, OwnAddresses, Promises, NEW d \in Devices,
           AddMember(d)
    PROVE  Promises'
  <1> USE DEF Promises, AddMember, done, bounds, HookPhases
  <1>1. New.addr \in McAddrs /\ New.devices \in Members
    BY NewEntry
  <1>2. UNCHANGED New
    BY DEF New
  <1>3. ranGroups'[New.addr] = ranGroups[New.addr] \cup {d}
    BY <1>1 DEF TypeInv, TypeOK
  <1>4. UnpulledOK' /\ PulledOK'
    BY <1>1, ElsewherePromises DEF TypeInv, TypeOK
  <1>5. HookOK'
    BY <1>2, <1>3 DEF HookOK
  <1>6. QED
    BY <1>4, <1>5

LEMMA HookDonePromises ==
    ASSUME TypeInv, Promises, HookDone
    PROVE  Promises'
  <1> USE DEF Promises, HookDone, HookReturns, done, bounds, HookPhases
  <1>1. seen[cur] # Missing /\ Holds(seen[cur])
    BY NewEntry DEF HookOK, Holds, New
  <1>2. UnpulledOK'
    BY DEF UnpulledOK, Holds
  <1>3. PulledOK'
    BY <1>1 DEF PulledOK, InHook, Holds
  <1>4. HookOK'
    BY DEF HookOK
  <1>5. QED
    BY <1>2, <1>3, <1>4

LEMMA ChangeGroupPromises ==
    ASSUME Promises, NEW g \in Groups, ChangeGroup(g)
    PROVE  Promises'
  <1> USE DEF Promises, ChangeGroup, passVars, done
  <1>1. UnpulledOK' /\ PulledOK'
    BY DEF UnpulledOK, PulledOK, InHook, Holds
  <1>2. HookOK'
    BY DEF HookOK, Holds, New
  <1>3. QED
    BY <1>1, <1>2

LEMMA RouteDevicePromises ==
    ASSUME TypeInv, Promises, NEW d \in Devices, RouteDevice(d)
    PROVE  Promises'
  <1> USE DEF Promises, RouteDevice, passVars, done
  <1>1. routes' # 0
    BY BoundAssumption DEF TypeInv, TypeOK
  <1>2. UnpulledOK' /\ PulledOK'
    BY <1>1 DEF UnpulledOK, PulledOK, InHook, Holds
  <1>3. HookOK'
    BY <1>1 DEF HookOK, Holds, New
  <1>4. QED
    BY <1>2, <1>3

-----------------------------------------------------------------------------
(* The theorem *)

LEMMA NextPromises ==
    ASSUME TypeInv, OwnersOK, OwnAddresses, Promises, Next, ~cut'
    PROVE  Promises'
  <1>1. CASE StartPass \/ SweepDone \/ Swap
    BY <1>1, StartPassPromises, SweepDonePromises, SwapPromises
  <1>2. CASE CreateGroup \/ MoveGroup \/ SelectMembers \/ HookDone
    BY <1>2, CreateGroupPromises, MoveGroupPromises, SelectMembersPromises,
       HookDonePromises
  <1>3. ASSUME NEW g \in Groups, PullGroup(g) \/ RemoveGroup(g) \/ ChangeGroup(g)
        PROVE  Promises'
    BY <1>3, PullGroupPromises, RemoveGroupPromises, ChangeGroupPromises
  <1>4. ASSUME NEW d \in Devices, DropMember(d) \/ AddMember(d) \/ RouteDevice(d)
        PROVE  Promises'
    BY <1>4, DropMemberPromises, AddMemberPromises, RouteDevicePromises
  <1>5. ~Refused /\ ~Abort
    BY DEF Refused, Abort, Raise
  <1>6. QED
    BY <1>1, <1>2, <1>3, <1>4, <1>5 DEF Next, Pass

\* A pass that was cut short is never forgotten.
LEMMA CutStays ==
    ASSUME TypeInv, Next, cut
    PROVE  cut'
  <1>1. CASE StartPass \/ SweepDone \/ Swap \/ Refused \/ Abort
    BY <1>1 DEF StartPass, SweepDone, Swap, Refused, Abort, Raise, done
  <1>2. CASE CreateGroup \/ MoveGroup \/ SelectMembers \/ HookDone
    BY <1>2 DEF CreateGroup, MoveGroup, SelectMembers, HookDone, done
  <1>3. ASSUME NEW g \in Groups, PullGroup(g) \/ RemoveGroup(g) \/ ChangeGroup(g)
        PROVE  cut'
    BY <1>3 DEF PullGroup, RemoveGroup, ChangeGroup, done
  <1>4. ASSUME NEW d \in Devices, DropMember(d) \/ AddMember(d) \/ RouteDevice(d)
        PROVE  cut'
    BY <1>4 DEF DropMember, AddMember, RouteDevice, done
  <1>5. QED
    BY <1>1, <1>2, <1>3, <1>4 DEF Next, Pass

LEMMA NextIInv == OwnAddresses /\ IInv /\ [Next]_vars => IInv'
  <1> SUFFICES ASSUME OwnAddresses, IInv, [Next]_vars PROVE IInv'
    OBVIOUS
  <1>1. TypeInv'
    BY NextTypeInv DEF IInv
  <1>2. CASE Next
    <2>1. OwnersOK' /\ RoutedOK'
      BY <1>2, NextOwnersOK, NextRoutedOK DEF IInv
    <2>2. ~cut' => Promises'
      BY <1>2, NextPromises, CutStays DEF IInv, Promises
    <2>3. QED
      BY <1>1, <2>1, <2>2 DEF IInv, Promises
  <1>3. CASE UNCHANGED vars
    <2> USE <1>3 DEF vars, passVars, done, bounds, IInv
    <2>1. OwnersOK' /\ RoutedOK'
      BY DEF OwnersOK, UsersOK, RoutedOK
    <2>2. UnpulledOK' <=> UnpulledOK
      BY DEF UnpulledOK, Holds
    <2>3. PulledOK' <=> PulledOK
      BY DEF PulledOK, InHook, Holds
    <2>4. HookOK' <=> HookOK
      BY DEF HookOK, Holds, New
    <2>5. QED
      BY <1>1, <2>1, <2>2, <2>3, <2>4
  <1>4. QED
    BY <1>2, <1>3

\* Where no address passes from one group to another, the members RAN has at a
\* group's address between passes are those of the local copy that are routed:
\* the calls of all hooks add up, whatever changes while they run, until an
\* error cuts a pass short.
THEOREM MembersAgreed == OwnAddresses => (Spec => []MembersAgree)
  <1> SUFFICES ASSUME OwnAddresses PROVE Spec => []MembersAgree
    OBVIOUS
  <1>1. Init => IInv
    BY InitIInv
  <1>2. IInv /\ [Next]_vars => IInv'
    BY NextIInv
  <1>3. IInv => MembersAgree
    <2> SUFFICES ASSUME IInv, ~cut, phase = "idle", NEW g \in Groups,
                        local[g] # Missing, ranGroups[local[g].addr] # Missing
                 PROVE  /\ ranGroups[local[g].addr] \subseteq local[g].devices
                        /\ routes = 0 => ranGroups[local[g].addr]
                                            = local[g].devices \cap routed
      BY DEF MembersAgree
    <2>1. Holds(local[g])
      BY DEF IInv, UnpulledOK
    <2>2. local[g].addr \in McAddrs
      BY DictEntry DEF IInv, TypeInv, TypeOK
    <2>3. routes = 0 => ranGroups[local[g].addr] \subseteq routed
      BY <2>2 DEF IInv, RoutedOK
    <2>4. QED
      BY <2>1, <2>3 DEF Holds
  <1>4. QED
    BY <1>1, <1>2, <1>3, PTL DEF Spec
=============================================================================
