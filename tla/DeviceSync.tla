----------------------------- MODULE DeviceSync -----------------------------
(***************************************************************************)
(* The start of the bridge: DeviceSync.perform_full_sync brings RAN's      *)
(* routing table and ChirpStack together once, then the periodic sync of   *)
(* DeviceList takes over and relies on what the start left.                *)
(*                                                                         *)
(* Source: src/src/lib/device_sync.py, called by src/src/main.py:162-174.  *)
(***************************************************************************)
EXTENDS DeviceList

CONSTANTS
    LeadingZero,  \* devices whose 16-digit dev_eui begins with a zero
    SkipOrphans   \* SKIP_RAN_ORPHANED_DEVICES

ASSUME LeadingZeroAssumption == LeadingZero \subseteq Devices
ASSUME SkipAssumption        == SkipOrphans \in BOOLEAN

VARIABLES
    stage,    \* where perform_full_sync is
    snap,     \* ran_devices: the routing table when it was selected
    work,     \* devices its current loop has not reached
    pend,     \* the insert of a reactivation, whose delete is done
    hit       \* devices whose handler a failed call ended

syncVars == <<stage, snap, work, pend, hit>>
allVars  == <<vars, syncVars>>

Stages == {"boot", "fetch", "select", "both", "only_cs", "only_ran",
           "synced", "running", "terminated"}
Pending == [dev : Devices, join : Joins, addr : Addr]
Nothing == [dev |-> Missing]

SyncTypeOK ==
    /\ TypeOK
    /\ stage \in Stages
    /\ snap \in [Devices -> RanEntry]
    /\ work \in SUBSET Devices
    /\ pend \in Pending \cup {Nothing}
    /\ hit \in SUBSET Devices

\* RAN holds whatever an earlier run, or somebody else, left there.
SyncInit ==
    /\ InitChirpStack
    /\ InitPass
    /\ ran \in [Devices -> {e \in RanEntry : e.in \/ e = Absent}]
    /\ children = {}
    /\ local = [a \in Apps |-> NoOne]
    /\ stage = "boot"
    /\ snap = [d \in Devices |-> Absent]
    /\ work = {}
    /\ pend = Nothing
    /\ hit = {}

-----------------------------------------------------------------------------
(* The two maps of perform_full_sync *)

InList(d)   == \E a \in children : local[a][d] # Missing
ListAddr(d) == LET a == CHOOSE b \in children : local[b][d] # Missing
               IN local[a][d]

\* RAN's side is keyed by hex(dev_eui).lstrip("0x"), ChirpStack's by all 16
\* digits: the keys of a device with a leading zero differ.
SameKey(d) == d \notin LeadingZero

Common == {d \in Devices : InList(d) /\ snap[d].in /\ SameKey(d)}
OnlyCs == {d \in Devices : InList(d) /\ ~(snap[d].in /\ SameKey(d))}

\* (variant for mutation) ChirpStack's keys are not taken away
OnlyRanAndBoth == {d \in Devices : snap[d].in}

OnlyRan == {d \in Devices : snap[d].in /\ ~(InList(d) /\ SameKey(d))}

-----------------------------------------------------------------------------
(* Fetching *)

FetchDevices ==
    /\ stage = "boot"
    /\ StartPass(FALSE)
    /\ stage' = "fetch"
    /\ UNCHANGED <<snap, work, pend, hit>>

\* An error of the pass (PullGone) ends the program.
FetchStep ==
    /\ stage = "fetch"
    /\ Pass
    /\ stage' = IF phase' # "idle" THEN "fetch"
                ELSE IF phase = "apps" THEN "select" ELSE "terminated"
    /\ UNCHANGED <<snap, work, pend, hit>>

SelectRan ==
    /\ stage = "select"
    /\ snap' = ran
    /\ stage' = "both"
    /\ work' = {d \in Devices : InList(d) /\ ran[d].in /\ SameKey(d)}
    /\ UNCHANGED <<vars, pend, hit>>

\* An error before the loops ends the program.
FetchFails ==
    /\ stage \in {"fetch", "select"}
    /\ failures < MaxFailures
    /\ failures' = failures + 1
    /\ stage' = "terminated"
    /\ UNCHANGED <<csVars, ran, listVars, passVars, shifts, snap, work, pend, hit>>

-----------------------------------------------------------------------------
(* The handlers of one device, each in its own handle_error *)

Take(d, loop) ==
    /\ stage = loop
    /\ pend = Nothing
    /\ d \in work
    /\ work' = work \ {d}
    /\ UNCHANGED <<csVars, listVars, passVars, failures, shifts, stage, snap, hit>>

\* (variant for mutation) insert is handed RAN's device, not its dev_eui
ReactivateDevice(d, join, addr) ==
    /\ ran' = [ran EXCEPT ![d] = Absent]
    /\ pend' = [dev |-> snap[d], join |-> join, addr |-> addr]

\* "Reactivation is sequential call of delete and insert".
Reactivate(d, join, addr) ==
    /\ ran' = [ran EXCEPT ![d] = Absent]
    /\ pend' = [dev |-> d, join |-> join, addr |-> addr]

SameAddr(e, addr) ==
    \/ addr = e.active /\ e.target = NoAddr
    \/ addr = e.target /\ e.active = NoAddr
    \/ addr = e.target /\ addr = e.active

HandleBothExist(d) ==
    /\ Take(d, "both")
    /\ LET e    == snap[d]
           addr == ListAddr(d)
           bare == e.active = NoAddr /\ e.target = NoAddr
       IN \/ /\ e.join = "other"
             /\ Reactivate(d, "own", addr)
          \/ /\ e.join # "other" /\ addr = NoAddr /\ ~bare
             /\ Reactivate(d, e.join, NoAddr)
          \/ /\ e.join # "other"
             /\ IF addr = NoAddr THEN bare ELSE SameAddr(e, addr)
             /\ UNCHANGED <<ran, pend>>
          \/ /\ e.join = "own" /\ addr # NoAddr /\ ~SameAddr(e, addr)
             /\ ran' = [ran EXCEPT ![d].active = addr, ![d].target = NoAddr]
             /\ UNCHANGED pend
          \/ /\ e.join = "none" /\ addr # NoAddr /\ ~SameAddr(e, addr)
             /\ Reactivate(d, "none", addr)

InsertPending ==
    /\ pend # Nothing
    /\ ran' = [ran EXCEPT ![pend.dev] = Entry(pend.join, pend.addr)]
    /\ pend' = Nothing
    /\ UNCHANGED <<csVars, listVars, passVars, failures, shifts, stage, snap, work, hit>>

\* (variant for mutation) the call of insert is not awaited
HandleOnlyInChirpstackDry(d) ==
    /\ Take(d, "only_cs")
    /\ UNCHANGED <<ran, pend>>

\* insert: refused, and the error only logged, if RAN has the device.
HandleOnlyInChirpstack(d) ==
    /\ Take(d, "only_cs")
    /\ ran' = IF ran[d].in THEN ran
              ELSE [ran EXCEPT ![d] = Entry("own", ListAddr(d))]
    /\ UNCHANGED pend

HandleOnlyInRan(d) ==
    /\ Take(d, "only_ran")
    /\ ran' = IF SkipOrphans THEN ran ELSE [ran EXCEPT ![d] = Absent]
    /\ UNCHANGED pend

\* (variant for mutation) handle_error is around the loop
HandlerFailsEndsLoop(d) ==
    /\ failures < MaxFailures
    /\ failures' = failures + 1
    /\ stage \in {"both", "only_cs", "only_ran"}
    /\ \/ pend = Nothing /\ d \in work
       \/ pend.dev = d
    /\ work' = {}
    /\ pend' = Nothing
    /\ hit' = hit \cup {d}
    /\ UNCHANGED <<csVars, ran, listVars, passVars, shifts, stage, snap>>

\* A call of a handler raises: handle_error logs it, the loop goes on with the
\* next device.  In a reactivation it may be the insert, after the delete.
HandlerFails(d) ==
    /\ failures < MaxFailures
    /\ failures' = failures + 1
    /\ stage \in {"both", "only_cs", "only_ran"}
    /\ \/ pend = Nothing /\ d \in work
       \/ pend.dev = d
    /\ work' = work \ {d}
    /\ pend' = Nothing
    /\ hit' = hit \cup {d}
    /\ UNCHANGED <<csVars, ran, listVars, passVars, shifts, stage, snap>>

NextLoop ==
    /\ work = {} /\ pend = Nothing
    /\ \/ stage = "both"     /\ stage' = "only_cs"  /\ work' = OnlyCs
       \/ stage = "only_cs"  /\ stage' = "only_ran" /\ work' = OnlyRan
       \/ stage = "only_ran" /\ stage' = "synced"   /\ work' = {}
    /\ UNCHANGED <<vars, snap, pend, hit>>

-----------------------------------------------------------------------------
(* The periodic sync afterwards *)

RunPeriodic ==
    /\ \/ stage = "synced" /\ StartPass(TRUE)
       \/ stage = "running" /\ (StartPass(TRUE) \/ Pass \/ Abort)
    /\ stage' = "running"
    /\ UNCHANGED <<snap, work, pend, hit>>

SyncStep ==
    \/ FetchDevices \/ FetchStep \/ SelectRan \/ FetchFails
    \/ \E d \in Devices :
          \/ HandleBothExist(d) \/ HandleOnlyInChirpstack(d)
          \/ HandleOnlyInRan(d) \/ HandlerFails(d)
    \/ InsertPending \/ NextLoop

SyncNext == \/ SyncStep
            \/ RunPeriodic
            \/ ChirpStack /\ UNCHANGED syncVars

SyncSpec == SyncInit /\ [][SyncNext]_allVars

SyncLiveSpec == SyncSpec /\ WF_allVars(SyncStep \/ RunPeriodic)

-----------------------------------------------------------------------------
(* Properties *)

\* RAN routes the device as the list says (device_sync.py:134-157).
Routed(d) ==
    /\ ran[d].in
    /\ ran[d].join # "other"
    /\ IF ListAddr(d) = NoAddr
       THEN ran[d].active = NoAddr /\ ran[d].target = NoAddr
       ELSE SameAddr(ran[d], ListAddr(d))

\* After the full sync every device of the lists is routed as they say and no
\* other is (unless orphans are kept): whatever RAN held before, and whatever
\* calls for other devices failed.
ErrorsAreIsolated ==
    stage = "synced" =>
        \A d \in Devices \ hit :
            IF InList(d) THEN Routed(d) ELSE ran[d].in => SkipOrphans

\* "If device.join_eui and device.dev_addr matches - do nothing"
\* (device_sync.py:51): an entry that was right is never touched on the way.
MatchingUntouched ==
    stage \in {"both", "only_cs", "only_ran", "synced"} =>
        \A d \in Devices :
            /\ InList(d) /\ snap[d].in /\ snap[d].join # "other"
            /\ IF ListAddr(d) = NoAddr
               THEN snap[d].active = NoAddr /\ snap[d].target = NoAddr
               ELSE SameAddr(snap[d], ListAddr(d))
            => ran[d] = snap[d]

\* "fetch device list from the ChirpStack and sync it with Everynet RAN", every
\* CHIRPSTACK_DEVICES_REFRESH_PERIOD (README.md:71): when the bridge runs on,
\* every device of ChirpStack comes to be routed for good, except one whose
\* handler a failed call ended (what the start did not insert, the periodic sync
\* takes for known).  A page that skips a device, at the start or later, may have
\* RAN delete it, but a pass adds it again; a call that fails between the two, or
\* with a change of the device, may leave it out.
EventuallyRouted ==
    \A d \in Devices :
        <>[](\/ home[d] # NoApp => ran[d].in
             \/ d \in hit
             \/ stage = "terminated"
             \/ failures > 0 /\ \E e \in Devices : changes[e] > 0)
=============================================================================
