------------------------------ MODULE JoinSync ------------------------------
(***************************************************************************)
(* Joins while the device lists are synced.  A JoinRequest leaves its      *)
(* Device object in the context cache; the JoinAccept pulls the device     *)
(* again, writes its new address into the list and into the object, and    *)
(* takes it along to RAN.  No hook is called: RAN learns the address from  *)
(* the downlink, or from a pass of DeviceList that saw it first.           *)
(*                                                                         *)
(* Source: Device.sync_from_remote and _update_local_device of             *)
(* src/src/lib/chirpstack/devices.py, their callers in                     *)
(* src/src/lib/traffic/chirpstack.py, and DeviceList.  An address stands   *)
(* for the session that came with it.                                      *)
(***************************************************************************)
EXTENDS DeviceList

CONSTANTS
    Joining,  \* devices that join
    MaxJoins  \* bound on the JoinRequests of a device

ASSUME JoinAssumption == /\ Joining \subseteq Devices
                         /\ MaxJoins \in Nat
                         /\ Missing \notin Devices

VARIABLES
    byAddr,    \* _dev_addr_to_dev_eui of each child
    join,      \* where the join of a device is
    held,      \* the Device object of its context
    got,       \* the address the JoinAccept pulled
    joins,     \* consumed bound
    lost,      \* devices of which a JoinAccept was lost
    readded,   \* a JoinAccept put a device back that a pass had taken off
    astray     \* <<app, device>> whose entry in the map a join got wrong

joinVars == <<byAddr, join, held, got, joins, lost, astray, readded>>
allVars  == <<vars, joinVars>>

JoinStates == {"none", "requested", "answered", "pulled", "queued"}

\* The list that made the object (NoApp: one no longer used), the address the
\* object has, and whether it is the one the list has now.
Object    == [app : Apps \cup {NoApp}, addr : Addr, listed : BOOLEAN]
NoObject  == [app |-> NoApp, addr |-> NoAddr, listed |-> FALSE]
NoneThere == [x \in Addrs |-> Missing]

JoinTypeOK ==
    /\ TypeOK
    /\ byAddr \in [Apps -> [Addrs -> Devices \cup {Missing}]]
    /\ join \in [Devices -> JoinStates]
    /\ held \in [Devices -> Object]
    /\ got \in [Devices -> Addr]
    /\ joins \in [Devices -> 0 .. MaxJoins]
    /\ lost \in SUBSET Devices
    /\ readded \in BOOLEAN
    /\ astray \in SUBSET (Apps \X Devices)

\* Maps of a dict's addresses to its devices; of two at one address any may be
\* the later one.
MapsOf(dict) ==
    {f \in [Addrs -> Devices \cup {Missing}] :
        \A x \in Addrs :
            IF \E d \in Devices : dict[d] = x
            THEN f[x] # Missing /\ dict[f[x]] = x
            ELSE f[x] = Missing}

JoinInit ==
    /\ Init
    /\ byAddr \in [Apps -> [Addrs -> Devices \cup {Missing}]]
    /\ \A a \in Apps : byAddr[a] \in MapsOf(local[a])
    /\ join = [d \in Devices |-> "none"]
    /\ held = [d \in Devices |-> NoObject]
    /\ got = [d \in Devices |-> NoAddr]
    /\ joins = [d \in Devices |-> 0]
    /\ lost = {}
    /\ readded = FALSE
    /\ astray = {}

-----------------------------------------------------------------------------
(* A pass replaces both dicts; objects of the old one live on in contexts *)

Detached(apps1) ==
    [d \in Devices |-> IF held[d].listed /\ held[d].app \in apps1
                       THEN [held[d] EXCEPT !.listed = FALSE] ELSE held[d]]

\* (variant for mutation) the map of addresses is not replaced
SwapListsKeepsMap ==
    /\ Swap
    /\ held' = Detached({app})
    /\ astray' = {p \in astray : p[1] # app}
    /\ UNCHANGED <<byAddr, join, got, joins, lost, readded>>

SwapLists ==
    /\ Swap
    /\ \E f \in MapsOf(pulled) : byAddr' = [byAddr EXCEPT ![app] = f]
    /\ held' = Detached({app})
    /\ astray' = {p \in astray : p[1] # app}
    /\ UNCHANGED <<join, got, joins, lost, readded>>

\* The list of an application that is gone, or was skipped, is dropped.
DropLists ==
    /\ EndPass
    /\ byAddr' = [a \in Apps |-> IF a \in listed THEN byAddr[a] ELSE NoneThere]
    /\ held' = [d \in Devices |-> IF held[d].app \in listed THEN held[d]
                                  ELSE [held[d] EXCEPT !.app = NoApp, !.listed = FALSE]]
    /\ astray' = {p \in astray : p[1] \in listed}
    /\ UNCHANGED <<join, got, joins, lost, readded>>

-----------------------------------------------------------------------------
(* A join *)

\* (variant for mutation) "if not device" is left out
RequestJoinUnlisted(d) ==
    /\ d \in Joining
    /\ join[d] \in {"none", "requested"}
    /\ joins[d] < MaxJoins
    /\ joins' = [joins EXCEPT ![d] = @ + 1]
    /\ \E a \in children :
          held' = [held EXCEPT ![d] =
                      [app |-> a, addr |-> local[a][d], listed |-> TRUE]]
    /\ join' = [join EXCEPT ![d] = "requested"]
    /\ UNCHANGED <<vars, byAddr, got, lost, astray, readded>>

\* _handle_join_request: the object get_device_by_dev_eui found is kept, and
\* the request goes to ChirpStack.
RequestJoin(d) ==
    /\ d \in Joining
    /\ join[d] \in {"none", "requested"}
    /\ joins[d] < MaxJoins
    /\ joins' = [joins EXCEPT ![d] = @ + 1]
    /\ \E a \in children :
          /\ local[a][d] # Missing
          /\ held' = [held EXCEPT ![d] =
                        [app |-> a, addr |-> local[a][d], listed |-> TRUE]]
    /\ join' = [join EXCEPT ![d] = "requested"]
    /\ UNCHANGED <<vars, byAddr, got, lost, astray, readded>>

\* ChirpStack activates the device and answers; or it does not.
AnswerJoin(d) ==
    /\ join[d] = "requested"
    /\ home[d] # NoApp
    /\ \E x \in Addrs : csAddr' = [csAddr EXCEPT ![d] = x]
    /\ join' = [join EXCEPT ![d] = "answered"]
    /\ UNCHANGED <<apps, home, changes, drops, ran, listVars, passVars, failures,
                   shifts, byAddr, held, got, joins, lost, astray, readded>>

\* The loop over ChirpStack's frames is in sync_from_remote: the activation was
\* read, the keys are being read.
PullJoined(d) ==
    /\ join[d] = "answered"
    /\ home[d] # NoApp
    /\ \A e \in Devices : join[e] # "pulled"
    /\ join' = [join EXCEPT ![d] = "pulled"]
    /\ got' = [got EXCEPT ![d] = csAddr[d]]
    /\ UNCHANGED <<vars, byAddr, held, joins, lost, astray, readded>>

ObjectAddr(d) == IF held[d].listed THEN local[held[d].app][d] ELSE held[d].addr

\* (variant for mutation) the old address is left in the map
MovedInMapOnlyAdds(a, d, new) ==
    [x \in Addrs |-> IF x = new THEN d ELSE byAddr[a][x]]

\* The map with an address of the list's object replaced by a new one.
MovedInMap(a, d, new) ==
    [x \in Addrs |-> IF x = new THEN d
                     ELSE IF x = local[a][d] THEN Missing ELSE byAddr[a][x]]

\* _update_local_device: a device the list lost meanwhile is added; otherwise
\* only the map is told, and the list's object changes if it is the one held.
UpdateLocal(a, d, new) ==
    /\ byAddr' = IF local[a][d] = new THEN byAddr
                 ELSE [byAddr EXCEPT ![a] = MovedInMap(a, d, new)]
    /\ local' = IF local[a][d] = Missing \/ held[d].listed
                THEN [local EXCEPT ![a][d] = new] ELSE local
    /\ readded' = (readded \/ local[a][d] = Missing)
    /\ astray' = astray \cup
          {<<a, e>> : e \in {e \in Devices :
              \/ e = d /\ ~held[d].listed
              \/ e # d /\ local[a][e] = local[a][d] /\ local[a][d] \in Addrs}}

\* A key more in the dict the removal loop is iterating over.
BreaksRemoval(d) == LET a == held[d].app IN
    phase = "remove" /\ app = a /\ local[a][d] = Missing

\* RuntimeError, when the on_device_remove that is under way has returned.
RemovalBreaks ==
    /\ \E e \in todo : ran' = [ran EXCEPT ![e] = Absent]
    /\ Forget

\* The rest of sync_from_remote, and the downlink is put in the queue.  (A pass
\* with nothing left to remove does not suspend before its swap.)
ApplyJoined(d) ==
    /\ join[d] = "pulled"
    /\ phase = "remove" => todo # {}
    /\ join' = [join EXCEPT ![d] = "queued"]
    /\ LET a == held[d].app
       IN IF got[d] = ObjectAddr(d) \/ a = NoApp
          THEN UNCHANGED <<vars, byAddr, astray, readded>>
          ELSE /\ UpdateLocal(a, d, got[d])
               /\ UNCHANGED <<csVars, children, failures>>
               /\ IF BreaksRemoval(d) THEN RemovalBreaks
                                      ELSE UNCHANGED <<ran, passVars, shifts>>
    /\ held' = [held EXCEPT ![d] = NoObject]
    /\ UNCHANGED <<got, joins, lost>>

\* (variant for mutation) the downlink carries no target_dev_addr
DeliverUntargeted(d) ==
    /\ join[d] = "queued"
    /\ join' = [join EXCEPT ![d] = "none"]
    /\ UNCHANGED <<vars, byAddr, held, got, joins, lost, astray, readded>>

\* RAN gets the downlink, with the address as target_dev_addr.
Deliver(d) ==
    /\ join[d] = "queued"
    /\ join' = [join EXCEPT ![d] = "none"]
    /\ ran' = IF ran[d].in /\ got[d] # NoAddr
              THEN [ran EXCEPT ![d].target = got[d]] ELSE ran
    /\ UNCHANGED <<csVars, listVars, passVars, failures, shifts, byAddr, held, got,
                   joins, lost, astray, readded>>

\* A call to ChirpStack or the send raises, as it always does when the device is
\* gone: nobody gets the JoinAccept.
LoseAccept(d) ==
    /\ \/ /\ join[d] \in {"answered", "queued"}
          /\ failures < MaxFailures
          /\ failures' = failures + 1
       \/ /\ join[d] = "answered" /\ home[d] = NoApp
          /\ UNCHANGED failures
    /\ join' = [join EXCEPT ![d] = "none"]
    /\ held' = [held EXCEPT ![d] = NoObject]
    /\ lost' = lost \cup {d}
    /\ UNCHANGED <<csVars, ran, listVars, passVars, shifts, byAddr, got, joins,
                   astray, readded>>

-----------------------------------------------------------------------------
JoinStep == \E d \in Devices : PullJoined(d) \/ ApplyJoined(d) \/ Deliver(d)

ListStep == \/ (StartPass(TRUE) \/ PassStep) /\ UNCHANGED joinVars
            \/ SwapLists \/ DropLists

JoinNext ==
    \/ ListStep \/ JoinStep
    \/ \E d \in Devices : RequestJoin(d) \/ AnswerJoin(d) \/ LoseAccept(d)
    \/ /\ Abort \/ \E d \in Devices : CreateDevice(d) \/ DeleteDevice(d)
       /\ UNCHANGED joinVars

JoinSpec == JoinInit /\ [][JoinNext]_allVars

JoinLiveSpec == JoinSpec /\ WF_allVars(ListStep) /\ WF_allVars(JoinStep)

-----------------------------------------------------------------------------
(* Properties *)

\* A device of a list is found by its address, and what an address finds has
\* that address, so that an uplink is checked with the keys of its session.
\* Until the next swap a join breaks this in two ways only: for its device, if
\* the list was swapped between JoinRequest and JoinAccept (the map is told, the
\* list's new object is not), and for devices that share its old address (the
\* map has one entry for them).
FoundByAddress ==
    \A a \in children, d \in Devices, x \in Addrs :
        \/ <<a, d>> \in astray
        \/ /\ local[a][d] = x => byAddr[a][x] # Missing
           /\ byAddr[a][x] = d => local[a][d] = x

\* What no later pass makes up for: a JoinAccept that put a device back on a list
\* RAN has no entry for (every pass then fails to update it and ends), and, as
\* in Settles, a call that failed together with a second change of a device.
Excused == \/ readded
           \/ failures > 0 /\ \E d \in Devices : joins[d] + changes[d] > 1

\* Once ChirpStack is left alone, each device is found by the address it has
\* there, whatever joins and passes overwrote of each other.
ListHeals ==
    \A d \in Devices :
        <>[](\/ csAddr[d] = NoAddr
             \/ \E a \in children : /\ byAddr[a][csAddr[d]] # Missing
                                    /\ csAddr[byAddr[a][csAddr[d]]] = csAddr[d]
             \/ Excused)

\* RAN knows the address a device joined with, as active or as target, unless
\* the JoinAccept, which the device then has not got either, was lost.
RanLearns ==
    \A d \in Devices :
        <>[](\/ ~ran[d].in \/ csAddr[d] \in {NoAddr, ran[d].active, ran[d].target}
             \/ d \in lost
             \/ Excused)
=============================================================================
