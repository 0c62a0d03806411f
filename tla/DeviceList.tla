----------------------------- MODULE DeviceList -----------------------------
(***************************************************************************)
(* The periodic device list sync: MultiApplicationDeviceList pulls the     *)
(* devices of every application from ChirpStack, calls RanDevicesSyncHook  *)
(* for what differs from its local copy, and then replaces the copy.       *)
(*                                                                         *)
(* Source: src/src/lib/chirpstack/devices.py, src/src/lib/ran_hooks/devices.py, *)
(* run by Periodic (src/src/lib/utils.py).                                 *)
(*                                                                         *)
(* The bridge never reads RAN's routing table again once it runs: what it  *)
(* knows of RAN is its local copy, so every step that changes one and not  *)
(* the other, in either order, counts.                                     *)
(*                                                                         *)
(* Listings come in pages of the list as it stands when the page is asked  *)
(* for (api.py:125-133): a device or application that leaves the list      *)
(* behind the offset makes another be skipped.                             *)
(***************************************************************************)
EXTENDS Naturals, FiniteSets, Functions

CONSTANTS
    Devices,     \* dev_eui of the devices
    Apps,        \* ids of the applications of the tenant
    DeviceOrder, AppOrder,  \* places: ChirpStack lists them in this order
    BatchSize,   \* entries of a page (20)
    Addrs,       \* dev_addr a device may have
    NoAddr,      \* dev_addr is None
    NoApp,       \* not a device of the tenant
    Missing,     \* no entry in a dict
    Changing,    \* devices that change in ChirpStack during a run
    MaxChanges,  \* bound on the changes of one of them
    MaxDrops,    \* bound on the applications deleted from ChirpStack
    MaxFailures  \* bound on the calls to ChirpStack or RAN that raise

Addr == Addrs \cup {NoAddr}

ASSUME AddrAssumption  == NoAddr \notin Addrs /\ Missing \notin Addr
ASSUME AppAssumption   == NoApp \notin Apps
ASSUME OrderAssumption == /\ IsFiniteSet(Devices) /\ IsFiniteSet(Apps)
                          /\ DeviceOrder \in Injection(Devices, Nat)
                          /\ AppOrder \in Injection(Apps, Nat)
                          /\ BatchSize \in Nat \ {0}
ASSUME BoundAssumption == /\ Changing \subseteq Devices
                          /\ MaxChanges \in Nat
                          /\ MaxDrops \in Nat
                          /\ MaxFailures \in Nat

VARIABLES
    apps, home, csAddr,  \* ChirpStack: applications, application and address of a device
    changes, drops,      \* consumed bounds of the environment
    ran,                 \* RAN's routing table
    children,            \* keys of MultiApplicationDeviceList._children
    local,               \* _dev_eui_to_device of each child: the address known
    phase,               \* where sync_from_remote of the child is suspended
    trigger,             \* its parameter trigger_update_hook
    listed, left,        \* applications of this pass: all, still to visit
    appOffset, offset,   \* request.offset of the two listings
    app,                 \* the application it is at
    pulled,              \* its local dict dev_eui_to_device
    todo,                \* devices its current loop has not reached
    dev,                 \* the device whose insert found it in RAN already
    failures,            \* consumed bound
    shifts               \* devices that entered or left app since it was entered

csVars   == <<apps, home, csAddr, changes, drops>>
askVars  == <<listed, left, appOffset, offset>>
passVars == <<phase, trigger, askVars, app, pulled, todo, dev>>
listVars == <<children, local>>
vars     == <<csVars, ran, listVars, passVars, failures, shifts>>

-----------------------------------------------------------------------------
(* State spaces.  join and target matter to the start-up sync only. *)

Joins    == {"none", "own", "other"}
RanEntry == [in : BOOLEAN, join : Joins, active : Addr, target : Addr]
Absent   == [in |-> FALSE, join |-> "none", active |-> NoAddr, target |-> NoAddr]
Entry(join, addr) == [in |-> TRUE, join |-> join, active |-> addr, target |-> NoAddr]

Phases  == {"idle", "apps", "pull", "hooks", "exists", "remove"}
NoOne   == [d \in Devices |-> Missing]
DictSet == [Devices -> Addr \cup {Missing}]

TypeOK ==
    /\ apps \in SUBSET Apps
    /\ home \in [Devices -> Apps \cup {NoApp}]
    /\ csAddr \in [Devices -> Addr]
    /\ changes \in [Devices -> 0 .. MaxChanges]
    /\ drops \in 0 .. MaxDrops
    /\ ran \in [Devices -> RanEntry]
    /\ children \in SUBSET Apps
    /\ local \in [Apps -> DictSet]
    /\ phase \in Phases
    /\ trigger \in BOOLEAN
    /\ listed \in SUBSET Apps
    /\ left \in SUBSET Apps
    /\ appOffset \in Nat
    /\ offset \in Nat
    /\ app \in Apps \cup {NoApp}
    /\ pulled \in DictSet
    /\ todo \in SUBSET Devices
    /\ dev \in Devices \cup {Missing}
    /\ failures \in 0 .. MaxFailures
    /\ shifts \in Nat

\* ChirpStack at any moment; no pass has begun.
InitChirpStack ==
    /\ apps = Apps
    /\ home \in [Devices -> Apps \cup {NoApp}]
    /\ csAddr \in [Devices -> Addr]
    /\ \A d \in Devices : home[d] = NoApp => csAddr[d] = NoAddr
    /\ changes = [d \in Devices |-> 0]
    /\ drops = 0

InitPass ==
    /\ phase = "idle"
    /\ trigger = TRUE
    /\ listed = {}
    /\ left = {}
    /\ appOffset = 0
    /\ offset = 0
    /\ app = NoApp
    /\ pulled = NoOne
    /\ todo = {}
    /\ dev = Missing
    /\ failures = 0
    /\ shifts = 0

\* The state a start-up sync without errors leaves: RAN and the local lists
\* mirror ChirpStack.
Init ==
    /\ InitChirpStack
    /\ InitPass
    /\ ran = [d \in Devices |-> IF home[d] = NoApp THEN Absent
                                ELSE Entry("own", csAddr[d])]
    /\ children = Apps
    /\ local = [a \in Apps |-> [d \in Devices |->
                   IF home[d] = a THEN csAddr[d] ELSE Missing]]

-----------------------------------------------------------------------------
(* A pass of MultiApplicationDeviceList.sync_from_remote *)

\* Where x is in the listing of S.
Rank(S, order, x) == Cardinality({y \in S : order[y] <= order[x]})

\* The page of a listing at an offset; the list's end is an empty one.
Page(S, order, from) ==
    {x \in S : Rank(S, order, x) \in from + 1 .. from + BatchSize}

StartPass(hooks) ==
    /\ phase = "idle"
    /\ phase' = "apps"
    /\ trigger' = hooks
    /\ listed' = {}
    /\ left' = {}
    /\ appOffset' = 0
    /\ UNCHANGED <<csVars, ran, listVars, offset, app, pulled, todo, dev, failures,
                   shifts>>

AppPage == Page(apps, AppOrder, appOffset)

NextAppPage ==
    /\ phase = "apps"
    /\ left = {}
    /\ AppPage # {}
    /\ left' = AppPage
    /\ listed' = listed \cup AppPage
    /\ appOffset' = appOffset + BatchSize
    /\ UNCHANGED <<csVars, ran, listVars, phase, trigger, offset, app, pulled, todo,
                   dev, failures, shifts>>

\* ApplicationDeviceList.sync_from_remote begins.
EnterApp(a) ==
    /\ phase = "apps"
    /\ a \in left
    /\ left' = left \ {a}
    /\ app' = a
    /\ children' = children \cup {a}
    /\ phase' = "pull"
    /\ offset' = 0
    /\ shifts' = 0
    /\ UNCHANGED <<csVars, ran, local, trigger, listed, appOffset, pulled, todo, dev,
                   failures>>

\* The devices of an application that match the tags.
InApp(a) == {d \in Devices : home[d] = a}

DevicePage == Page(InApp(app), DeviceOrder, offset)

\* (variant for mutation) the offset runs ahead of the page
NextPageAhead ==
    /\ phase = "pull"
    /\ todo = {}
    /\ DevicePage # {}
    /\ todo' = DevicePage
    /\ offset' = offset + 2 * BatchSize
    /\ UNCHANGED <<csVars, ran, listVars, phase, trigger, listed, left, appOffset, app,
                   pulled, dev, failures, shifts>>

NextPage ==
    /\ phase = "pull"
    /\ todo = {}
    /\ DevicePage # {}
    /\ todo' = DevicePage
    /\ offset' = offset + BatchSize
    /\ UNCHANGED <<csVars, ran, listVars, phase, trigger, listed, left, appOffset, app,
                   pulled, dev, failures, shifts>>

\* get_device and _pull_device_from_remote of a listed device.
PullDevice(d) ==
    /\ phase = "pull"
    /\ d \in todo
    /\ home[d] # NoApp
    /\ pulled' = [pulled EXCEPT ![d] = csAddr[d]]
    /\ todo' = todo \ {d}
    /\ UNCHANGED <<csVars, ran, listVars, phase, trigger, askVars, app, dev, failures,
                   shifts>>

\* (variant for mutation) the hooks run for devices that were not pulled, too
PullDoneForAll ==
    /\ phase = "pull"
    /\ todo = {} /\ DevicePage = {}
    /\ phase' = "hooks"
    /\ todo' = IF trigger THEN Devices ELSE {}
    /\ offset' = 0
    /\ UNCHANGED <<csVars, ran, listVars, trigger, listed, left, appOffset, app, pulled,
                   dev, failures, shifts>>

\* Both loops of the hooks, then "self._dev_eui_to_device = ...".
PullDone ==
    /\ phase = "pull"
    /\ todo = {} /\ DevicePage = {}
    /\ phase' = "hooks"
    /\ todo' = IF trigger THEN {d \in Devices : pulled[d] # Missing} ELSE {}
    /\ offset' = 0
    /\ UNCHANGED <<csVars, ran, listVars, trigger, listed, left, appOffset, app, pulled,
                   dev, failures, shifts>>

\* (variant for mutation) only a first address is told
MovedFirst(old, new) == old = NoAddr /\ new # NoAddr

\* RanDevicesSyncHook.on_device_updated: RAN is told of a new address only.
Moved(old, new) == old # new /\ new # NoAddr

UpdateRan(d, old, new) ==
    ran' = IF Moved(old, new) THEN [ran EXCEPT ![d].active = new] ELSE ran

\* A device both have, whose fields differ: on_device_updated; or the same.
KeepDevice(d) ==
    /\ local[app][d] # Missing
    /\ ran[d].in \/ ~Moved(local[app][d], pulled[d])
    /\ UpdateRan(d, local[app][d], pulled[d])
    /\ UNCHANGED <<phase, dev>>

\* on_device_add: insert, which raises ApiDeviceAlreadyExistsError if RAN has it.
AddDevice(d) ==
    /\ local[app][d] = Missing
    /\ \/ /\ ~ran[d].in
          /\ ran' = [ran EXCEPT ![d] = Entry("own", pulled[d])]
          /\ UNCHANGED <<phase, dev>>
       \/ /\ ran[d].in
          /\ phase' = "exists"
          /\ dev' = d
          /\ UNCHANGED ran

HookDevice(d) ==
    /\ phase = "hooks"
    /\ d \in todo
    /\ todo' = todo \ {d}
    /\ KeepDevice(d) \/ AddDevice(d)
    /\ UNCHANGED <<csVars, listVars, trigger, askVars, app, pulled,
                   failures, shifts>>

\* (variant for mutation) that RAN has the device already is good enough
ResolveExistingIgnored ==
    /\ phase = "exists"
    /\ phase' = "hooks"
    /\ dev' = Missing
    /\ UNCHANGED <<csVars, ran, listVars, trigger, askVars, app, pulled, todo,
                   failures, shifts>>

\* The except branch: RAN's own entry is the old device of on_device_updated.
ResolveExisting ==
    /\ phase = "exists"
    /\ UpdateRan(dev, ran[dev].active, pulled[dev])
    /\ phase' = "hooks"
    /\ dev' = Missing
    /\ UNCHANGED <<csVars, listVars, trigger, askVars, app, pulled, todo,
                   failures, shifts>>

\* (variant for mutation) the two dicts of the removal loop are swapped
HooksDoneSwapped ==
    /\ phase = "hooks"
    /\ todo = {}
    /\ phase' = "remove"
    /\ todo' = IF trigger
               THEN {d \in Devices : local[app][d] = Missing /\ pulled[d] # Missing}
               ELSE {}
    /\ UNCHANGED <<csVars, ran, listVars, trigger, askVars, app, pulled, dev,
                   failures, shifts>>

HooksDone ==
    /\ phase = "hooks"
    /\ todo = {}
    /\ phase' = "remove"
    /\ todo' = IF trigger
               THEN {d \in Devices : local[app][d] # Missing /\ pulled[d] = Missing}
               ELSE {}
    /\ UNCHANGED <<csVars, ran, listVars, trigger, askVars, app, pulled, dev,
                   failures, shifts>>

\* on_device_remove.
RemoveDevice(d) ==
    /\ phase = "remove"
    /\ d \in todo
    /\ todo' = todo \ {d}
    /\ ran' = [ran EXCEPT ![d] = Absent]
    /\ UNCHANGED <<csVars, listVars, phase, trigger, askVars, app, pulled, dev,
                   failures, shifts>>

Swap ==
    /\ phase = "remove"
    /\ todo = {}
    /\ local' = [local EXCEPT ![app] = pulled]
    /\ phase' = "apps"
    /\ app' = NoApp
    /\ pulled' = NoOne
    /\ shifts' = 0
    /\ UNCHANGED <<csVars, ran, children, trigger, askVars, todo, dev, failures>>

\* The pass is over and its local variables are gone.
Forget ==
    /\ phase' = "idle"
    /\ listed' = {} /\ left' = {} /\ appOffset' = 0
    /\ offset' = 0 /\ app' = NoApp /\ pulled' = NoOne /\ shifts' = 0
    /\ todo' = {} /\ dev' = Missing
    /\ UNCHANGED trigger

Return == Forget /\ UNCHANGED <<csVars, ran>>

\* Lists of deleted applications go, without a hook call for their devices.
EndPass ==
    /\ phase = "apps"
    /\ left = {} /\ AppPage = {}
    /\ children' = children \cap listed
    /\ local' = [a \in Apps |-> IF a \in listed THEN local[a] ELSE NoOne]
    /\ Return
    /\ UNCHANGED failures

\* A call raises, before or after its effect (the state is then the one the
\* call's step left): what the pass had pulled is forgotten, and Periodic logs
\* the error and calls again later.
Raise == Return /\ UNCHANGED listVars

Abort ==
    /\ phase # "idle"
    /\ failures < MaxFailures
    /\ failures' = failures + 1
    /\ Raise

\* The listed device is deleted by now: the call always raises (of the three only
\* get_device_keys suppresses NOT_FOUND).
PullGone(d) ==
    /\ phase = "pull"
    /\ d \in todo
    /\ home[d] = NoApp
    /\ UNCHANGED failures
    /\ Raise

\* RAN does not know the device it is told to update: the call always raises.
UpdateUnknown(d) ==
    /\ phase = "hooks"
    /\ d \in todo
    /\ local[app][d] # Missing
    /\ ~ran[d].in /\ Moved(local[app][d], pulled[d])
    /\ UNCHANGED failures
    /\ Raise

PassStep ==
    \/ \E a \in Apps : EnterApp(a)
    \/ \E d \in Devices : \/ PullDevice(d) \/ PullGone(d) \/ HookDevice(d)
                         \/ UpdateUnknown(d) \/ RemoveDevice(d)
    \/ NextAppPage \/ NextPage \/ PullDone \/ ResolveExisting \/ HooksDone

Pass == PassStep \/ Swap \/ EndPass

-----------------------------------------------------------------------------
(* ChirpStack's users: devices come, go, get a session; applications go *)

\* How many devices enter or leave the application being synced.
Shift == shifts' = IF app = NoApp THEN shifts ELSE
             shifts + Cardinality({d \in Devices : (home[d] = app) # (home'[d] = app)})

Changed(d) ==
    /\ d \in Changing
    /\ changes[d] < MaxChanges
    /\ changes' = [changes EXCEPT ![d] = @ + 1]
    /\ Shift
    /\ UNCHANGED <<apps, drops, ran, listVars, passVars, failures>>

CreateDevice(d) ==
    /\ home[d] = NoApp
    /\ \E a \in apps, addr \in Addr :
          /\ home' = [home EXCEPT ![d] = a]
          /\ csAddr' = [csAddr EXCEPT ![d] = addr]
    /\ Changed(d)

DeleteDevice(d) ==
    /\ home[d] # NoApp
    /\ home' = [home EXCEPT ![d] = NoApp]
    /\ csAddr' = [csAddr EXCEPT ![d] = NoAddr]
    /\ Changed(d)

ActivateDevice(d) ==
    /\ home[d] # NoApp
    /\ \E addr \in Addrs \ {csAddr[d]} : csAddr' = [csAddr EXCEPT ![d] = addr]
    /\ UNCHANGED home
    /\ Changed(d)

DropApplication(a) ==
    /\ a \in apps
    /\ drops < MaxDrops
    /\ drops' = drops + 1
    /\ apps' = apps \ {a}
    /\ home' = [d \in Devices |-> IF home[d] = a THEN NoApp ELSE home[d]]
    /\ csAddr' = [d \in Devices |-> IF home[d] = a THEN NoAddr ELSE csAddr[d]]
    /\ Shift
    /\ UNCHANGED <<changes, ran, listVars, passVars, failures>>

ChirpStack == \/ \E d \in Devices :
                    CreateDevice(d) \/ DeleteDevice(d) \/ ActivateDevice(d)
              \/ \E a \in Apps : DropApplication(a)

-----------------------------------------------------------------------------
Next == StartPass(TRUE) \/ Pass \/ Abort \/ ChirpStack

Spec == Init /\ [][Next]_vars

\* Periodic calls again and again, and every call to ChirpStack or RAN ends.
LiveSpec == Spec /\ WF_vars(StartPass(TRUE) \/ Pass)

-----------------------------------------------------------------------------
(* Properties *)

Known(d) == \E a \in children : local[a][d] # Missing

\* What the local list says of a device's address, RAN routes by.  (A device
\* that lost its session keeps its last address in RAN.)
Agrees(d, addr) == addr = NoAddr \/ ran[d].active = addr

\* Between passes, and as long as no call failed, the bridge's picture of RAN
\* is right: RAN has the devices of the local lists and no other, each at the
\* address of its list.  For one application: a device that went from one to
\* another breaks it.
IdleAgreement ==
    failures = 0 /\ phase = "idle" =>
        \A d \in Devices :
            /\ Known(d) => ran[d].in
            /\ ran[d].in => Known(d) \/ drops > 0
            /\ \A a \in children : local[a][d] # Missing => Agrees(d, local[a][d])

\* When a pass has run an application's hooks, RAN has every device they were
\* called for with an address to tell, or to add, whatever was cut short before
\* and left RAN ahead of the local list (insert refused, select, update).
HookedIsRouted ==
    phase = "remove" /\ trigger =>
        \A d \in Devices :
            \/ pulled[d] # Missing /\ local[app][d] = Missing
            \/ pulled[d] \in Addrs /\ local[app][d] # pulled[d]
            => ran[d].in /\ Agrees(d, pulled[d])

\* An entry that leaves a listing while its pages are read costs at most one
\* other entry its place: of the devices a pass takes for gone, and has RAN
\* delete, no more are in the application than entered or left it meanwhile.
SkippedBounded ==
    phase \in {"hooks", "remove"} =>
        Cardinality({d \in Devices : /\ local[app][d] # Missing
                                     /\ pulled[d] = Missing
                                     /\ home[d] = app}) <= shifts

\* RAN mirrors ChirpStack for a device.
Mirrors(d) ==
    /\ ran[d].in <=> home[d] # NoApp
    /\ ran[d].in => Agrees(d, csAddr[d])

\* RAN comes to mirror ChirpStack if no device moves: whatever pages skipped and
\* whatever call failed on the way, unless, with an error before a local copy is
\* replaced, a device changed twice or another was deleted (which may have made
\* the pass remove this one): RAN then keeps what no later pass corrects.  It
\* also keeps the devices of a deleted application.
Settles ==
    \A d \in Devices :
        <>[](\/ Mirrors(d)
             \/ home[d] = NoApp /\ drops > 0
             \/ failures > 0 /\ \E e \in Devices :
                    changes[e] > 1 \/ (changes[e] = 1 /\ home[e] = NoApp))

\* "The integration periodically fetches devices from the ChirpStack API and
\* add these device to the Everynet RAN routing table" (README.md:40): once
\* ChirpStack is left alone and calls succeed, RAN comes to mirror it.
Converges == <>[](\A d \in Devices : Mirrors(d))
=============================================================================
