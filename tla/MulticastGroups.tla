-------------------------- MODULE MulticastGroups --------------------------
(***************************************************************************)
(* The periodic multicast group sync of one application:                   *)
(* ApplicationMulticastGroupList.sync_from_remote pulls its groups from    *)
(* ChirpStack one by one and calls RanMulticastGroupsSyncHook for what     *)
(* differs from the local copy.                                            *)
(*                                                                         *)
(* Source: src/src/lib/chirpstack/multicast_groups.py and                  *)
(* src/src/lib/ran_hooks/multicast_groups.py.                              *)
(***************************************************************************)
EXTENDS Naturals, FiniteSets

CONSTANTS
    Groups,      \* ids of multicast groups
    Devices,     \* dev_eui of the devices
    McAddrs,     \* mc_addr: RAN's key of a group
    Missing,     \* no entry in a dict
    Users,       \* the groups that may use an address
    Deletes,     \* TRUE if groups are also deleted
    MaxChanges,  \* bound on the changes in ChirpStack
    MaxRoutes,   \* bound on the devices that enter or leave the routing table
    MaxFailures  \* bound on the calls that raise

Members == SUBSET Devices
Group   == [addr : McAddrs, devices : Members]

ASSUME MissingAssumption == Missing \notin Group \cup Groups
ASSUME UsersAssumption   == Users \in [McAddrs -> SUBSET Groups]
ASSUME DeletesAssumption == Deletes \in BOOLEAN
ASSUME BoundAssumption ==
    MaxChanges \in Nat /\ MaxRoutes \in Nat /\ MaxFailures \in Nat

VARIABLES
    remote,    \* ChirpStack's groups
    routed,    \* devices of RAN's routing table
    ranGroups, \* RAN's multicast groups: members by address
    local,     \* _id_to_group
    phase,     \* where sync_from_remote is suspended
    listed,    \* groups the listing of this pass returns
    todo,      \* those the loop has not reached
    seen,      \* id_to_group, the new local copy
    cur,       \* the group whose hook runs
    isAdd,     \* the hook was called as on_group_add
    drop, add, \* devices the hook still removes or adds
    sweep,     \* groups the removal loop still hands to on_group_remove
    cut,       \* some pass was cut short by an error
    astray,    \* addresses a pass removed though listed, or left though deleted
    changes, routes, failures  \* consumed bounds

passVars == <<phase, listed, todo, seen, cur, isAdd, drop, add, sweep>>
bounds   == <<changes, routes, failures>>
done     == <<cut, astray>>
vars     == <<remote, routed, ranGroups, local, passVars, done, bounds>>

Dict     == [Groups -> Group \cup {Missing}]
Phases   == {"idle", "next", "update", "drop", "select", "add", "sweep"}
NoGroups == [g \in Groups |-> Missing]

TypeOK ==
    /\ remote \in Dict
    /\ routed \in Members
    /\ ranGroups \in [McAddrs -> Members \cup {Missing}]
    /\ local \in Dict
    /\ phase \in Phases
    /\ listed \in SUBSET Groups
    /\ todo \in SUBSET Groups
    /\ seen \in Dict
    /\ cur \in Groups \cup {Missing}
    /\ isAdd \in BOOLEAN
    /\ drop \in Members
    /\ add \in Members
    /\ sweep \in SUBSET Groups
    /\ cut \in BOOLEAN
    /\ astray \in SUBSET McAddrs
    /\ changes \in 0 .. MaxChanges
    /\ routes \in 0 .. MaxRoutes
    /\ failures \in 0 .. MaxFailures

Possible(groups) ==
    /\ \A g \in Groups : groups[g] # Missing => g \in Users[groups[g].addr]
    /\ \A g, h \in Groups :
          g # h /\ groups[g] # Missing /\ groups[h] # Missing =>
              groups[g].addr # groups[h].addr

\* main removes RAN's groups before the first sync (main.py:154-160).
Init ==
    /\ remote \in {r \in Dict : Possible(r)}
    /\ routed \in Members
    /\ ranGroups = [a \in McAddrs |-> Missing]
    /\ local = NoGroups
    /\ phase = "idle"
    /\ listed = {}
    /\ todo = {}
    /\ seen = NoGroups
    /\ cur = Missing
    /\ isAdd = FALSE
    /\ drop = {}
    /\ add = {}
    /\ sweep = {}
    /\ cut = FALSE
    /\ astray = {}
    /\ changes = 0
    /\ routes = 0
    /\ failures = 0

-----------------------------------------------------------------------------
(* ApplicationMulticastGroupList.sync_from_remote *)

Exists(dict) == {g \in Groups : dict[g] # Missing}

StartPass ==
    /\ phase = "idle"
    /\ phase' = "next"
    /\ listed' = Exists(remote)
    /\ todo' = Exists(remote)
    /\ seen' = NoGroups
    /\ UNCHANGED <<remote, routed, ranGroups, local, cur, isAdd, drop, add, sweep,
                   done, bounds>>

\* (variant for mutation) the groups themselves instead of their ids
UnseenGroups(dict) ==
    {local[h] : h \in {i \in Groups : local[i] # Missing /\ dict[i] = Missing}}

\* The removal loop is in the body of the loop over the listing: what is not
\* in id_to_group yet is taken for deleted.
Unseen(dict) == {h \in Groups : local[h] # Missing /\ dict[h] = Missing}

\* _pull_group_from_remote, up to the first call of the hook.
PullGroup(g) ==
    /\ phase = "next"
    /\ g \in todo
    /\ remote[g] # Missing
    /\ todo' = todo \ {g}
    /\ seen' = [seen EXCEPT ![g] = remote[g]]
    /\ cur' = g
    /\ \/ /\ local[g] = Missing
          /\ isAdd' = TRUE
          /\ phase' = "update"
          /\ UNCHANGED sweep
       \/ /\ local[g] \notin {Missing, remote[g]}
          /\ isAdd' = FALSE
          /\ phase' = "update"
          /\ UNCHANGED sweep
       \/ /\ local[g] = remote[g]
          /\ isAdd' = FALSE
          /\ phase' = "sweep"
          /\ sweep' = Unseen(seen')
    /\ UNCHANGED <<remote, routed, ranGroups, local, listed, drop, add, done, bounds>>

\* Leaving on_group_add is "continue", on_group_updated goes on to the sweep.
HookReturns(add1) ==
    IF add1 THEN phase' = "next" /\ sweep' = {}
            ELSE phase' = "sweep" /\ sweep' = Unseen(seen)

RemoveGroup(h) ==
    /\ phase = "sweep"
    /\ h \in sweep
    /\ sweep' = sweep \ {h}
    /\ ranGroups' = [ranGroups EXCEPT ![local[h].addr] = Missing]
    /\ astray' = astray \cup (IF h \in listed THEN {local[h].addr} ELSE {})
    /\ UNCHANGED <<remote, routed, local, phase, listed, todo, seen, cur, isAdd,
                   drop, add, cut, bounds>>

SweepDone ==
    /\ phase = "sweep"
    /\ sweep = {}
    /\ phase' = "next"
    /\ UNCHANGED <<remote, routed, ranGroups, local, listed, todo, seen, cur, isAdd,
                   drop, add, sweep, done, bounds>>

Swap ==
    /\ phase = "next"
    /\ todo = {}
    /\ local' = seen
    /\ phase' = "idle"
    /\ LET gone == {h \in Groups : seen[h] = Missing /\ local[h] # Missing}
       IN astray' = astray \cup
             {a \in McAddrs : ranGroups[a] # Missing /\ \E h \in gone : local[h].addr = a}
    /\ UNCHANGED <<remote, routed, ranGroups, listed, todo, seen, cur, isAdd, drop,
                   add, sweep, cut, bounds>>

-----------------------------------------------------------------------------
(* RanMulticastGroupsSyncHook *)

New == seen[cur]

\* on_group_add: create_multicast_group; if RAN has the address already, its
\* members stand in for the old group's and on_group_updated does the rest.
CreateGroup ==
    /\ phase = "update" /\ isAdd
    /\ \/ /\ ranGroups[New.addr] = Missing
          /\ ranGroups' = [ranGroups EXCEPT ![New.addr] = {}]
          /\ drop' = {}
          /\ add' = New.devices
       \/ /\ ranGroups[New.addr] # Missing
          /\ drop' = ranGroups[New.addr] \ New.devices
          /\ add' = New.devices \ ranGroups[New.addr]
          /\ UNCHANGED ranGroups
    /\ phase' = "drop"
    /\ astray' = astray \ {New.addr}
    /\ UNCHANGED <<remote, routed, local, listed, todo, seen, cur, isAdd, sweep,
                   cut, bounds>>

\* on_group_updated: update_multicast_group if the address is new.
MoveGroup ==
    /\ phase = "update" /\ ~isAdd
    /\ LET old == local[cur]
       IN /\ \/ old.addr = New.addr /\ UNCHANGED ranGroups
             \/ /\ old.addr # New.addr
                /\ ranGroups[old.addr] # Missing /\ ranGroups[New.addr] = Missing
                /\ ranGroups' = [ranGroups EXCEPT ![New.addr] = ranGroups[old.addr],
                                                  ![old.addr] = Missing]
          /\ drop' = old.devices \ New.devices
          /\ add' = New.devices \ old.devices
    /\ phase' = "drop"
    /\ UNCHANGED <<remote, routed, local, listed, todo, seen, cur, isAdd, sweep,
                   done, bounds>>

DropMember(d) ==
    /\ phase = "drop"
    /\ d \in drop
    /\ ranGroups[New.addr] # Missing
    /\ drop' = drop \ {d}
    /\ ranGroups' = [ranGroups EXCEPT ![New.addr] = @ \ {d}]
    /\ UNCHANGED <<remote, routed, local, phase, listed, todo, seen, cur, isAdd, add,
                   sweep, done, bounds>>

\* (variant for mutation) what select returned is not looked at
SelectMembersAll ==
    /\ phase = "drop"
    /\ drop = {}
    /\ phase' = "add"
    /\ UNCHANGED <<remote, routed, ranGroups, local, listed, todo, seen, cur, isAdd,
                   drop, add, sweep, done, bounds>>

\* routing_table.select: the members it does not return are skipped.
SelectMembers ==
    /\ phase = "drop"
    /\ drop = {}
    /\ add' = add \cap routed
    /\ phase' = "add"
    /\ UNCHANGED <<remote, routed, ranGroups, local, listed, todo, seen, cur, isAdd,
                   drop, sweep, done, bounds>>

AddMember(d) ==
    /\ phase = "add"
    /\ d \in add
    /\ ranGroups[New.addr] # Missing
    /\ add' = add \ {d}
    /\ ranGroups' = [ranGroups EXCEPT ![New.addr] = @ \cup {d}]
    /\ UNCHANGED <<remote, routed, local, phase, listed, todo, seen, cur, isAdd, drop,
                   sweep, done, bounds>>

HookDone ==
    /\ phase = "add"
    /\ add = {}
    /\ HookReturns(isAdd)
    /\ UNCHANGED <<remote, routed, ranGroups, local, listed, todo, seen, cur, isAdd,
                   drop, add, done, bounds>>

-----------------------------------------------------------------------------
(* Errors: the pass ends, nothing is kept of it, Periodic calls again *)

\* (variant for mutation) the local dict is replaced before the hooks are called
RaiseAfterSwap ==
    /\ phase' = "idle"
    /\ cut' = TRUE
    /\ cur' = Missing
    /\ drop' = {} /\ add' = {} /\ sweep' = {} /\ todo' = {}
    /\ local' = seen
    /\ UNCHANGED <<remote, routed, ranGroups, listed, seen, isAdd, changes, routes,
                   astray>>

Raise ==
    /\ phase' = "idle"
    /\ cut' = TRUE
    /\ cur' = Missing
    /\ drop' = {} /\ add' = {} /\ sweep' = {} /\ todo' = {}
    /\ UNCHANGED <<remote, routed, ranGroups, local, listed, seen, isAdd, changes,
                   routes, astray>>

Abort ==
    /\ phase # "idle"
    /\ failures < MaxFailures
    /\ failures' = failures + 1
    /\ Raise

\* A group deleted since it was listed; or RAN refuses: the group it is told to
\* change is not there, or the address it is to move to is taken.
Refused ==
    /\ \/ phase = "next" /\ \E g \in todo : remote[g] = Missing
       \/ /\ phase = "update" /\ ~isAdd /\ local[cur].addr # New.addr
          /\ ranGroups[local[cur].addr] = Missing \/ ranGroups[New.addr] # Missing
       \/ phase = "drop" /\ drop # {} /\ ranGroups[New.addr] = Missing
       \/ phase = "add" /\ add # {} /\ ranGroups[New.addr] = Missing
    /\ UNCHANGED failures
    /\ Raise

Pass == \/ StartPass \/ Swap \/ SweepDone \/ CreateGroup \/ MoveGroup
        \/ SelectMembers \/ HookDone \/ Refused
        \/ \E g \in Groups : PullGroup(g) \/ RemoveGroup(g)
        \/ \E d \in Devices : DropMember(d) \/ AddMember(d)

-----------------------------------------------------------------------------
(* ChirpStack's users, and the device list sync *)

ChangeGroup(g) ==
    /\ changes < MaxChanges
    /\ changes' = changes + 1
    /\ \E new \in Group \cup {Missing} :
          /\ new # remote[g]
          /\ new = Missing => Deletes
          /\ remote' = [remote EXCEPT ![g] = new]
    /\ Possible(remote')
    /\ UNCHANGED <<routed, ranGroups, local, passVars, done, routes, failures>>

RouteDevice(d) ==
    /\ routes < MaxRoutes
    /\ routes' = routes + 1
    /\ routed' = IF d \in routed THEN routed \ {d} ELSE routed \cup {d}
    /\ UNCHANGED <<remote, ranGroups, local, passVars, done, changes, failures>>

Next == \/ Pass \/ Abort
        \/ \E g \in Groups : ChangeGroup(g)
        \/ \E d \in Devices : RouteDevice(d)

Spec == Init /\ [][Next]_vars

\* Periodic calls again and again, and every call ends.
LiveSpec == Spec /\ WF_vars(Pass)

-----------------------------------------------------------------------------
(* Properties *)

\* A group of RAN that the last complete pass left has no member that the local
\* copy does not have, and just those that are routed if routing stood still, as
\* long as no pass was cut short: what on_group_add and on_group_updated do to
\* it adds up, with devices that enter and leave the routing table and groups
\* that change while they are pulled.  (An address that passes from one group
\* to another can break it.)
MembersAgree ==
    ~cut /\ phase = "idle" =>
        \A g \in Groups :
            local[g] # Missing /\ ranGroups[local[g].addr] # Missing =>
                /\ ranGroups[local[g].addr] \subseteq local[g].devices
                /\ routes = 0 => ranGroups[local[g].addr]
                                    = local[g].devices \cap routed

\* on_group_remove is called with "deleted_group" (multicast_groups.py:177-179):
\* a group that the listing of this pass does not have.
OnlyDeletedRemoved == phase = "sweep" => sweep \cap listed = {}

\* RAN has at an address the members of ChirpStack's group there that are routed.
MirrorsAt(a) ==
    LET gs == {g \in Groups : remote[g] # Missing /\ remote[g].addr = a}
    IN IF gs = {} THEN ranGroups[a] = Missing
       ELSE \E g \in gs : ranGroups[a] = remote[g].devices \cap routed

\* RAN refuses what every pass asks for a group: the group is not where the local
\* copy has it, or another has the address it is to move to.
Refuses(g) ==
    /\ local[g] # Missing /\ remote[g] # Missing /\ local[g] # remote[g]
    /\ LET old == local[g].addr
           new == remote[g].addr
       IN \/ ranGroups[old] = Missing
          \/ old # new /\ ranGroups[new] # Missing

\* No group, of ChirpStack or of the local copy, has the address.
Nobodys(a) ==
    \A g \in Groups : \A group \in {remote[g], local[g]} \ {Missing} : group.addr # a

\* Once ChirpStack is left alone, RAN comes to hold at every address the members
\* of ChirpStack's group there, whatever group was created, moved, changed or
\* deleted and whatever call failed on the way (sync_from_remote and the hook).
\* What is excepted is what the code cannot repair: an early removal or a deletion
\* no removal loop ran for (astray); a call RAN refuses in every pass, as the
\* second attempt at a move that an error followed; a device routed after its
\* group was pulled; and a pass cut short when the group then went back to what
\* the local copy says, or was deleted before a pass had it whole.
GroupsConverge ==
    \A a \in McAddrs :
        <>[](\/ MirrorsAt(a)
             \/ a \in astray
             \/ \E g \in Groups : Refuses(g)
             \/ routes > 0
             \/ cut /\ (changes > 1 \/ Nobodys(a)))
=============================================================================
