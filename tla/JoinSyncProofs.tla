---------------------------- MODULE JoinSyncProofs ----------------------------
(***************************************************************************)
(* Proofs about JoinSync: joins and passes of the list sync may overtake   *)
(* one another at every await, and still the two dicts of a list agree but *)
(* for the entries a join is known to get wrong.                           *)
(***************************************************************************)
EXTENDS JoinSync, DeviceListProofs

Maps == [Addrs -> Devices \cup {Missing}]

JoinTypes ==
    /\ byAddr \in [Apps -> Maps]
    /\ join \in [Devices -> JoinStates]
    /\ held \in [Devices -> Object]
    /\ got \in [Devices -> Addr]
    /\ joins \in [Devices -> 0 .. MaxJoins]
    /\ lost \in SUBSET Devices
    /\ readded \in BOOLEAN
    /\ astray \in SUBSET (Apps \X Devices)

\* An object that is the list's own is in the list.
HeldOK == \A d \in Devices :
              held[d].listed => /\ held[d].app \in Apps
                                /\ local[held[d].app][d] # Missing

JoinInv == TypeInv /\ JoinTypes /\ HeldOK

-----------------------------------------------------------------------------
(* Types *)

LEMMA InitJoinInv == JoinInit => JoinInv
  <1> SUFFICES ASSUME JoinInit PROVE JoinInv
    OBVIOUS
  <1>1. TypeInv
    BY InitTypeInv DEF JoinInit
  <1>2. JoinTypes
    <2>1. byAddr \in [Apps -> Maps] /\ joins \in [Devices -> 0 .. MaxJoins]
      BY JoinAssumption DEF JoinInit, Maps
    <2>2. join \in [Devices -> JoinStates] /\ got \in [Devices -> Addr]
      BY DEF JoinInit, JoinStates, Addr
    <2>3. NoObject \in Object
      BY DEF NoObject, Object, Addr
    <2>4. QED
      BY <2>1, <2>2, <2>3 DEF JoinInit, JoinTypes
  <1>3. HeldOK
    BY DEF JoinInit, HeldOK, NoObject
  <1>4. QED
    BY <1>1, <1>2, <1>3 DEF JoinInv

\* Steps of DeviceList that keep the lists.
LEMMA ListsKept ==
    ASSUME StartPass(TRUE) \/ PassStep \/ Abort \/
           (\E d \in Devices : CreateDevice(d) \/ DeleteDevice(d))
    PROVE  UNCHANGED local
  BY DEF StartPass, PassStep, EnterApp, PullDevice, PullGone, HookDevice, UpdateUnknown,
         RemoveDevice, NextAppPage, NextPage, PullDone, ResolveExisting, HooksDone,
         Abort, Raise, CreateDevice, DeleteDevice, Changed, listVars

LEMMA KeepingTypeInv ==
    ASSUME TypeInv, StartPass(TRUE) \/ PassStep \/ Abort \/
           (\E d \in Devices : CreateDevice(d) \/ DeleteDevice(d))
    PROVE  TypeInv'
  <1>1. TRUE \in BOOLEAN
    OBVIOUS
  <1>2. QED
    BY <1>1, StartPassTypeInv, PassStepTypeInv, AbortTypeInv, CreateDeviceTypeInv,
       DeleteDeviceTypeInv

LEMMA DetachedType ==
    ASSUME JoinTypes, NEW S
    PROVE  /\ Detached(S) \in [Devices -> Object]
           /\ \A d \in Devices :
                 Detached(S)[d].listed => /\ Detached(S)[d] = held[d]
                                          /\ held[d].listed /\ held[d].app \notin S
  BY DEF JoinTypes, Detached, Object

LEMMA SwapListsJoinInv ==
    ASSUME JoinInv, SwapLists
    PROVE  JoinInv'
  <1> USE DEF JoinInv
  <1>1. TypeInv' /\ app \in Apps
    BY SwapTypeInv DEF SwapLists, Swap, TypeInv, ControlOK
  <1>2. PICK f \in MapsOf(pulled) : byAddr' = [byAddr EXCEPT ![app] = f]
    BY DEF SwapLists
  <1>3. f \in Maps
    BY DEF MapsOf, Maps
  <1>4. held' = Detached({app})
    BY DEF SwapLists
  <1>5. JoinTypes'
    <2>1. byAddr' \in [Apps -> Maps]
      BY <1>2, <1>3 DEF JoinTypes
    <2>2. held' \in [Devices -> Object]
      BY <1>4, DetachedType
    <2>3. QED
      BY <2>1, <2>2 DEF SwapLists, JoinTypes
  <1>6. HeldOK'
    <2>1. local' = [local EXCEPT ![app] = pulled]
      BY DEF SwapLists, Swap
    <2>2. QED
      BY <1>1, <1>4, <2>1, DetachedType DEF HeldOK, TypeInv, TypeOK
  <1>7. QED
    BY <1>1, <1>5, <1>6

LEMMA DropListsJoinInv ==
    ASSUME JoinInv, DropLists
    PROVE  JoinInv'
  <1> USE DEF JoinInv
  <1>1. TypeInv'
    BY EndPassTypeInv DEF DropLists
  <1>2. /\ held' \in [Devices -> Object]
        /\ \A d \in Devices : held'[d].listed => held'[d] = held[d] /\ held[d].app \in listed
    BY DEF DropLists, JoinTypes, Object
  <1>3. byAddr' \in [Apps -> Maps]
    BY DEF DropLists, JoinTypes, Maps, NoneThere
  <1>4. JoinTypes'
    BY <1>2, <1>3 DEF DropLists, JoinTypes
  <1>5. local' = [a \in Apps |-> IF a \in listed THEN local[a] ELSE NoOne]
    BY DEF DropLists, EndPass
  <1>6. HeldOK'
    BY <1>2, <1>5 DEF HeldOK
  <1>7. QED
    BY <1>1, <1>4, <1>6

\* Steps of one join that keep the lists.
LEMMA JoinKeepsJoinInv ==
    ASSUME JoinInv, NEW d \in Devices,
           \/ RequestJoin(d) \/ AnswerJoin(d) \/ PullJoined(d)
           \/ Deliver(d) \/ LoseAccept(d)
    PROVE  JoinInv' /\ UNCHANGED <<local, byAddr, astray>>
  <1> USE DEF JoinInv
  <1>1. CASE RequestJoin(d)
    <2>1. TypeInv'
      BY <1>1, UnchangedTypeInv DEF RequestJoin
    <2>2. joins' \in [Devices -> 0 .. MaxJoins]
      BY <1>1, JoinAssumption DEF RequestJoin, JoinTypes
    <2>3. PICK a \in children :
             /\ local[a][d] # Missing
             /\ held' = [held EXCEPT ![d] =
                          [app |-> a, addr |-> local[a][d], listed |-> TRUE]]
      BY <1>1 DEF RequestJoin
    <2>4. a \in Apps /\ local[a][d] \in Addr
      BY <2>3 DEF TypeInv, TypeOK, DictSet
    <2>5. held' \in [Devices -> Object]
      BY <2>3, <2>4 DEF JoinTypes, Object
    <2>6. JoinTypes'
      BY <1>1, <2>2, <2>5 DEF RequestJoin, JoinTypes, JoinStates
    <2>7. HeldOK' /\ UNCHANGED local
      BY <1>1, <2>3, <2>4 DEF RequestJoin, HeldOK, JoinTypes, vars, listVars
    <2>8. QED
      BY <1>1, <2>1, <2>6, <2>7 DEF RequestJoin
  <1>2. CASE AnswerJoin(d)
    <2>1. csAddr' \in [Devices -> Addr]
      BY <1>2 DEF AnswerJoin, TypeInv, TypeOK, Addr
    <2>2. TypeInv'
      BY <1>2, <2>1
      DEF AnswerJoin, listVars, passVars, askVars, TypeInv, TypeOK, ControlOK
    <2>3. JoinTypes' /\ HeldOK'
      BY <1>2 DEF AnswerJoin, JoinTypes, JoinStates, HeldOK, listVars
    <2>4. QED
      BY <1>2, <2>2, <2>3 DEF AnswerJoin, listVars
  <1>3. CASE PullJoined(d)
    <2>1. TypeInv'
      BY <1>3, UnchangedTypeInv DEF PullJoined
    <2>2. JoinTypes' /\ HeldOK'
      BY <1>3 DEF PullJoined, JoinTypes, JoinStates, HeldOK, vars, listVars,
                  TypeInv, TypeOK
    <2>3. QED
      BY <1>3, <2>1, <2>2 DEF PullJoined, vars, listVars
  <1>4. CASE Deliver(d)
    <2>1. ran' \in [Devices -> RanEntry]
      BY <1>4 DEF Deliver, JoinTypes, TypeInv, TypeOK, RanEntry
    <2>2. TypeInv'
      BY <1>4, <2>1
      DEF Deliver, csVars, listVars, passVars, askVars, TypeInv, TypeOK, ControlOK
    <2>3. JoinTypes' /\ HeldOK'
      BY <1>4 DEF Deliver, JoinTypes, JoinStates, HeldOK, listVars
    <2>4. QED
      BY <1>4, <2>2, <2>3 DEF Deliver, listVars
  <1>5. CASE LoseAccept(d)
    <2>1. failures' \in 0 .. MaxFailures /\ UNCHANGED listVars
      BY <1>5, BoundAssumption DEF LoseAccept, TypeInv, TypeOK
    <2>2. TypeInv'
      BY <1>5, <2>1
      DEF LoseAccept, csVars, listVars, passVars, askVars, TypeInv, TypeOK, ControlOK
    <2>3. JoinTypes' /\ HeldOK'
      BY <1>5 DEF LoseAccept, JoinTypes, JoinStates, HeldOK, listVars, NoObject,
                  Object, Addr
    <2>4. QED
      BY <1>5, <2>2, <2>3 DEF LoseAccept, listVars
  <1>6. QED
    BY <1>1, <1>2, <1>3, <1>4, <1>5

\* What _update_local_device leaves in the two dicts.
LEMMA UpdateLocalType ==
    ASSUME JoinInv, NEW a \in Apps, NEW d \in Devices, NEW new \in Addr,
           UpdateLocal(a, d, new)
    PROVE  /\ local' \in [Apps -> DictSet]
           /\ byAddr' \in [Apps -> Maps]
           /\ astray' \in SUBSET (Apps \X Devices)
           /\ \A b \in Apps, e \in Devices :
                 local'[b][e] = IF b = a /\ e = d /\ (local[a][d] = Missing \/ held[d].listed)
                                THEN new ELSE local[b][e]
           /\ \A b \in Apps, x \in Addrs :
                 byAddr'[b][x] = IF b = a /\ local[a][d] # new
                                 THEN MovedInMap(a, d, new)[x] ELSE byAddr[b][x]
           /\ astray \subseteq astray'
  <1>1. local \in [Apps -> DictSet] /\ byAddr \in [Apps -> Maps]
    BY DEF JoinInv, JoinTypes, TypeInv, TypeOK
  <1>2. MovedInMap(a, d, new) \in Maps
    BY <1>1 DEF MovedInMap, Maps
  <1>3. byAddr' \in [Apps -> Maps]
    BY <1>1, <1>2 DEF UpdateLocal
  <1>4. [local EXCEPT ![a][d] = new] \in [Apps -> DictSet]
    BY <1>1 DEF DictSet
  <1>5. astray' \in SUBSET (Apps \X Devices) /\ astray \subseteq astray'
    BY DEF UpdateLocal, JoinInv, JoinTypes
  <1>6. \A b \in Apps, e \in Devices :
           local'[b][e] = IF b = a /\ e = d /\ (local[a][d] = Missing \/ held[d].listed)
                          THEN new ELSE local[b][e]
    BY <1>1 DEF UpdateLocal, DictSet
  <1>7. \A b \in Apps, x \in Addrs :
           byAddr'[b][x] = IF b = a /\ local[a][d] # new
                           THEN MovedInMap(a, d, new)[x] ELSE byAddr[b][x]
    BY <1>1 DEF UpdateLocal
  <1>8. QED
    BY <1>1, <1>3, <1>4, <1>5, <1>6, <1>7 DEF UpdateLocal

\* A JoinAccept changes the dicts of a list or nothing of DeviceList.
LEMMA ApplyJoinedCases ==
    ASSUME JoinInv, NEW d \in Devices, ApplyJoined(d)
    PROVE  /\ held' = [held EXCEPT ![d] = NoObject]
           /\ \/ UNCHANGED <<vars, byAddr, astray, readded>>
              \/ /\ held[d].app \in Apps /\ got[d] \in Addr
                 /\ got[d] # ObjectAddr(d)
                 /\ UpdateLocal(held[d].app, d, got[d])
                 /\ UNCHANGED <<csVars, children, failures>>
                 /\ RemovalBreaks \/ UNCHANGED <<ran, passVars, shifts>>
  <1>1. held[d].app \in Apps \cup {NoApp} /\ got[d] \in Addr
    BY DEF JoinInv, JoinTypes, Object
  <1>2. QED
    BY <1>1 DEF ApplyJoined

LEMMA ApplyJoinedJoinInv ==
    ASSUME JoinInv, NEW d \in Devices, ApplyJoined(d)
    PROVE  JoinInv'
  <1> USE DEF JoinInv
  <1>1. held' = [held EXCEPT ![d] = NoObject]
    BY ApplyJoinedCases
  <1>2. held' \in [Devices -> Object] /\ ~held'[d].listed
    BY <1>1 DEF JoinTypes, NoObject, Object, Addr
  <1>3. CASE UNCHANGED <<vars, byAddr, astray, readded>>
    <2>1. TypeInv'
      BY <1>3, UnchangedTypeInv
    <2>2. JoinTypes'
      BY <1>2, <1>3 DEF ApplyJoined, JoinTypes, JoinStates
    <2>3. HeldOK'
      BY <1>1, <1>2, <1>3 DEF HeldOK, JoinTypes, vars, listVars
    <2>4. QED
      BY <2>1, <2>2, <2>3
  <1>4. CASE /\ held[d].app \in Apps /\ got[d] \in Addr
             /\ UpdateLocal(held[d].app, d, got[d])
             /\ UNCHANGED <<csVars, children, failures>>
             /\ RemovalBreaks \/ UNCHANGED <<ran, passVars, shifts>>
    <2>1. local' \in [Apps -> DictSet] /\ byAddr' \in [Apps -> Maps]
      BY <1>4, UpdateLocalType
    <2>2. TypeInv'
      <3>1. CASE RemovalBreaks
        <4>1. ran' \in [Devices -> RanEntry]
          BY <3>1, EntryType DEF RemovalBreaks, TypeInv, TypeOK
        <4>2. QED
          BY <1>4, <2>1, <3>1, <4>1, ForgetTypeInv DEF RemovalBreaks, TypeInv, TypeOK
      <3>2. CASE UNCHANGED <<ran, passVars, shifts>>
        <4>1. TypeOK'
          BY <1>4, <2>1, <3>2 DEF csVars, passVars, askVars, TypeInv, TypeOK
        <4>2. ControlOK'
          BY <3>2 DEF passVars, askVars, TypeInv, ControlOK
        <4>3. QED
          BY <4>1, <4>2 DEF TypeInv
      <3>3. QED
        BY <1>4, <3>1, <3>2
    <2>3. astray' \in SUBSET (Apps \X Devices) /\ readded' \in BOOLEAN
      BY <1>4, UpdateLocalType DEF UpdateLocal, JoinTypes
    <2>4. JoinTypes'
      BY <1>2, <2>1, <2>3 DEF ApplyJoined, JoinTypes, JoinStates
    <2>5. \A e \in Devices \ {d} : held'[e] = held[e]
      BY <1>1 DEF JoinTypes
    <2>6. \A b \in Apps, e \in Devices \ {d} : local'[b][e] = local[b][e]
      BY <1>4, UpdateLocalType
    <2>7. HeldOK'
      BY <1>2, <2>5, <2>6 DEF HeldOK
    <2>8. QED
      BY <2>2, <2>4, <2>7
  <1>5. QED
    BY <1>3, <1>4, ApplyJoinedCases

LEMMA NextJoinInv == JoinInv /\ [JoinNext]_allVars => JoinInv'
  <1> SUFFICES ASSUME JoinInv, [JoinNext]_allVars PROVE JoinInv'
    OBVIOUS
  <1>1. CASE /\ \/ StartPass(TRUE) \/ PassStep \/ Abort
                \/ \E d \in Devices : CreateDevice(d) \/ DeleteDevice(d)
             /\ UNCHANGED joinVars
    <2>1. TypeInv' /\ UNCHANGED local
      BY <1>1, KeepingTypeInv, ListsKept DEF JoinInv
    <2>2. QED
      BY <1>1, <2>1 DEF joinVars, JoinInv, JoinTypes, HeldOK
  <1>2. CASE UNCHANGED allVars
    <2>1. TypeInv'
      BY <1>2, UnchangedTypeInv DEF allVars, JoinInv
    <2>2. JoinTypes' /\ HeldOK'
      BY <1>2 DEF allVars, vars, listVars, joinVars, JoinInv, JoinTypes, HeldOK
    <2>3. QED
      BY <2>1, <2>2 DEF JoinInv
  <1>3. QED
    BY <1>1, <1>2, SwapListsJoinInv, DropListsJoinInv, JoinKeepsJoinInv,
       ApplyJoinedJoinInv DEF JoinNext, ListStep, JoinStep

LEMMA JoinInvariant == JoinSpec => []JoinInv
  BY InitJoinInv, NextJoinInv, PTL DEF JoinSpec

\* The variables keep their types: an address of a map finds a device or none,
\* and what a join writes into a list is an address.
THEOREM JoinTypeCorrect == JoinSpec => []JoinTypeOK
  <1>1. JoinInv => JoinTypeOK
    BY DEF JoinInv, TypeInv, JoinTypes, Maps, JoinTypeOK
  <1>2. QED
    BY <1>1, JoinInvariant, PTL

-----------------------------------------------------------------------------
(* The two dicts of a list *)

\* A device and its entry in the map agree.
FoundOK(a, d) ==
    \/ <<a, d>> \in astray
    \/ \A x \in Addrs : /\ local[a][d] = x => byAddr[a][x] # Missing
                        /\ byAddr[a][x] = d => local[a][d] = x

\* It holds of every application, so that a list that is created again, after a
\* pass dropped it, starts from two empty dicts.
MapsOK == \A a \in Apps, d \in Devices : FoundOK(a, d)

LEMMA BuiltFound ==
    ASSUME NEW dict \in DictSet, NEW f \in MapsOf(dict), NEW d \in Devices,
           NEW x \in Addrs
    PROVE  (dict[d] = x => f[x] # Missing) /\ (f[x] = d => dict[d] = x)
  BY JoinAssumption DEF MapsOf

LEMMA SwapListsMapsOK ==
    ASSUME JoinInv, MapsOK, SwapLists
    PROVE  MapsOK'
  <1>1. app \in Apps /\ pulled \in DictSet /\ local \in [Apps -> DictSet]
        /\ byAddr \in [Apps -> Maps]
    BY DEF SwapLists, Swap, JoinInv, JoinTypes, TypeInv, TypeOK, ControlOK
  <1>2. PICK f \in MapsOf(pulled) : byAddr' = [byAddr EXCEPT ![app] = f]
    BY DEF SwapLists
  <1>3. /\ local' = [local EXCEPT ![app] = pulled]
        /\ astray' = {p \in astray : p[1] # app}
    BY DEF SwapLists, Swap
  <1>4. ASSUME NEW a \in Apps, NEW d \in Devices, a = app
        PROVE  FoundOK(a, d)'
    <2>1. local'[a] = pulled /\ byAddr'[a] = f
      BY <1>1, <1>2, <1>3, <1>4
    <2>2. QED
      BY <1>1, <2>1, BuiltFound DEF FoundOK
  <1>5. ASSUME NEW a \in Apps, NEW d \in Devices, a # app
        PROVE  FoundOK(a, d)'
    <2>1. /\ local'[a] = local[a] /\ byAddr'[a] = byAddr[a]
          /\ <<a, d>> \in astray => <<a, d>> \in astray'
      BY <1>1, <1>2, <1>3, <1>5
    <2>2. QED
      BY <2>1 DEF MapsOK, FoundOK
  <1>6. QED
    BY <1>4, <1>5 DEF MapsOK

LEMMA DropListsMapsOK ==
    ASSUME JoinInv, MapsOK, DropLists
    PROVE  MapsOK'
  <1> SUFFICES ASSUME NEW a \in Apps, NEW d \in Devices
               PROVE  FoundOK(a, d)'
    BY DEF MapsOK
  <1>1. /\ local'[a] = IF a \in listed THEN local[a] ELSE NoOne
        /\ byAddr'[a] = IF a \in listed THEN byAddr[a] ELSE NoneThere
        /\ astray' = {p \in astray : p[1] \in listed}
    BY DEF DropLists, EndPass
  <1>2. CASE a \in listed
    <2>1. <<a, d>> \in astray => <<a, d>> \in astray'
      BY <1>1, <1>2
    <2>2. FoundOK(a, d)
      BY DEF MapsOK
    <2>3. QED
      BY <1>1, <1>2, <2>1, <2>2 DEF FoundOK
  <1>3. CASE a \notin listed
    <2>1. \A x \in Addrs : local'[a][d] # x /\ byAddr'[a][x] # d
      BY <1>1, <1>3, AddrAssumption, JoinAssumption DEF NoOne, NoneThere, Addr
    <2>2. QED
      BY <2>1 DEF FoundOK
  <1>4. QED
    BY <1>2, <1>3

LEMMA UpdateLocalMapsOK ==
    ASSUME JoinInv, MapsOK, NEW a \in Apps, NEW d \in Devices, NEW new \in Addr,
           UpdateLocal(a, d, new)
    PROVE  MapsOK'
  <1>1. /\ \A b \in Apps, e \in Devices :
              local'[b][e] = IF b = a /\ e = d /\ (local[a][d] = Missing \/ held[d].listed)
                             THEN new ELSE local[b][e]
        /\ \A b \in Apps, x \in Addrs :
              byAddr'[b][x] = IF b = a /\ local[a][d] # new
                              THEN MovedInMap(a, d, new)[x] ELSE byAddr[b][x]
        /\ astray \subseteq astray'
    BY UpdateLocalType
  <1>2. \A x \in Addrs :
           MovedInMap(a, d, new)[x] = IF x = new THEN d
                                      ELSE IF x = local[a][d] THEN Missing
                                      ELSE byAddr[a][x]
    BY DEF MovedInMap
  <1>3. ASSUME NEW b \in Apps, NEW e \in Devices, b # a \/ local[a][d] = new
        PROVE  FoundOK(b, e)'
    <2>1. /\ local'[b][e] = local[b][e]
          /\ \A x \in Addrs : byAddr'[b][x] = byAddr[b][x]
      BY <1>1, <1>3, AddrAssumption
    <2>2. QED
      BY <1>1, <2>1 DEF MapsOK, FoundOK
  <1>4. ASSUME local[a][d] # new, NEW e \in Devices, e # d
        PROVE  FoundOK(a, e)'
    <2>1. local'[a][e] = local[a][e]
      BY <1>1, <1>4
    <2>2. CASE local[a][e] = local[a][d] /\ local[a][d] \in Addrs
      BY <1>4, <2>2 DEF UpdateLocal, FoundOK
    <2>3. CASE ~(local[a][e] = local[a][d] /\ local[a][d] \in Addrs)
      BY <1>1, <1>2, <1>4, <2>1, <2>3, JoinAssumption DEF MapsOK, FoundOK
    <2>4. QED
      BY <2>2, <2>3
  <1>5. ASSUME local[a][d] # new
        PROVE  FoundOK(a, d)'
    <2>1. CASE ~held[d].listed
      BY <2>1 DEF UpdateLocal, FoundOK
    <2>2. CASE held[d].listed
      BY <1>1, <1>2, <1>5, <2>2, JoinAssumption DEF MapsOK, FoundOK
    <2>3. QED
      BY <2>1, <2>2
  <1>6. QED
    BY <1>3, <1>4, <1>5 DEF MapsOK

LEMMA NextMapsOK == JoinInv /\ MapsOK /\ [JoinNext]_allVars => MapsOK'
  <1> SUFFICES ASSUME JoinInv, MapsOK, [JoinNext]_allVars PROVE MapsOK'
    OBVIOUS
  <1>1. CASE UNCHANGED <<local, byAddr, astray>>
    <2>1. ASSUME NEW a \in Apps, NEW d \in Devices, FoundOK(a, d)
          PROVE  FoundOK(a, d)'
      BY <1>1, <2>1 DEF FoundOK
    <2>2. QED
      BY <2>1 DEF MapsOK
  <1>2. ASSUME NEW d \in Devices, ApplyJoined(d)
        PROVE  MapsOK'
    BY <1>1, <1>2, ApplyJoinedCases, UpdateLocalMapsOK DEF vars, listVars
  <1>3. QED
    BY <1>1, <1>2, SwapListsMapsOK, DropListsMapsOK, JoinKeepsJoinInv, ListsKept
    DEF JoinNext, ListStep, JoinStep, joinVars, allVars, vars, listVars

\* In every list, whatever joins and passes overtake one another, a device is found
\* by its address and an address finds a device that has it, but for the entries
\* that a join between two swaps is known to get wrong.
THEOREM FoundByItsAddress == JoinSpec => []FoundByAddress
  <1>1. JoinInit => MapsOK
    <2> SUFFICES ASSUME JoinInit, NEW a \in Apps, NEW d \in Devices
                 PROVE  FoundOK(a, d)
      BY DEF MapsOK
    <2>1. local[a] \in DictSet /\ byAddr[a] \in MapsOf(local[a])
      BY InitTypeInv DEF JoinInit, TypeInv, TypeOK
    <2>2. QED
      BY <2>1, BuiltFound DEF FoundOK
  <1>2. JoinInv /\ MapsOK /\ [JoinNext]_allVars => MapsOK'
    BY NextMapsOK
  <1>3. JoinInv /\ MapsOK => FoundByAddress
    <2> SUFFICES ASSUME JoinInv, MapsOK, NEW a \in children, NEW d \in Devices,
                        NEW x \in Addrs, <<a, d>> \notin astray
                 PROVE  /\ local[a][d] = x => byAddr[a][x] # Missing
                        /\ byAddr[a][x] = d => local[a][d] = x
      BY DEF FoundByAddress
    <2>1. a \in Apps
      BY DEF JoinInv, TypeInv, TypeOK
    <2>2. QED
      BY <2>1 DEF MapsOK, FoundOK
  <1>4. QED
    BY <1>1, <1>2, <1>3, JoinInvariant, PTL DEF JoinSpec
=============================================================================
