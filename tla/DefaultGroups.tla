---------------------------- MODULE DefaultGroups ----------------------------
(***************************************************************************)
(* EnsureDefaultHostgroups beside the worker of the namespaces.  Every 60  *)
(* seconds a goroutine of its own creates or repairs the custom resource   *)
(* of a default group, kube-system/nodes or kube-system/infrastructure (a  *)
(* HostGroup, or a Host with the host mapping).  A namespace of that name  *)
(* has the very same custom resource, which the namespace's worker and its *)
(* delete handler write and delete.                                        *)
(*                                                                         *)
(* The groups take turns in the goroutine; this is what one of them sees.  *)
(***************************************************************************)
EXTENDS WorkloadMonitor

CONSTANTS
    Group,          \* the default group: also the name of a namespace
    DefaultSpec     \* the specification the goroutine gives the group

ASSUME GroupAssumption ==
    Kind = "Namespace" /\ Group \in Ids /\ DefaultSpec \in OtherSpecs

VARIABLES
    ensurer,        \* the goroutine of EnsureDefaultHostgroups
    versionRequired \* the API refuses an update without a resource version: that
                    \* of a custom resource definition does, it never changes

IdleEnsurer == [pc |-> "idle", seen |-> None]

Ensurers == {IdleEnsurer} \cup [pc: {"create"}, seen: {None}] \cup [pc: {"update"}, seen: CRs]

\* Type invariant: above all, the goroutine updates only what it has read.
GroupTypeOK == TypeOK /\ ensurer \in Ensurers /\ versionRequired \in BOOLEAN

GroupInit == Init /\ ensurer = IdleEnsurer /\ versionRequired \in BOOLEAN

-----------------------------------------------------------------------------
\* The specification has the group's name; the namespace's has it, too.
Named(c) == c.spec \in {DefaultSpec, NoNotes}

\* Mutant: with the hostgroup mapping, the whole specification is compared.
RepairsAll(c) == c.spec # DefaultSpec

\* The hostgroup mapping looks at the name only, the host mapping (reconcileHost)
\* at the whole specification.
Repairs(c) == IF Mapping = "hostgroup" THEN ~Named(c) ELSE c.spec # DefaultSpec

EnsurerOnly == UNCHANGED <<objs, namespace, informers, queue, worker, housekeeper,
                           changes, edits, crashes, excused, versionRequired>>

\* Mutant: a group that is not there is not created.
EnsureGetNoCreate ==
    /\ ensurer.pc = "idle"
    /\ crs[Group] # None /\ Repairs(crs[Group]) /\ NoFault
    /\ ensurer' = [pc |-> "update", seen |-> crs[Group]]
    /\ UNCHANGED crs /\ EnsurerOnly

\* Mutant: an error of the Get is not looked at.
EnsureGetUnchecked ==
    /\ ensurer.pc = "idle"
    /\ crs[Group] = None \/ Repairs(crs[Group])
    /\ ensurer' = [pc |-> "update", seen |-> crs[Group]]
    /\ NoFault
    /\ UNCHANGED crs /\ EnsurerOnly

\* Two reads, of the namespace kube-system and of the group; if one of them
\* fails, the round is over. A group that needs nothing changes nothing.
EnsureGet ==
    /\ ensurer.pc = "idle"
    /\ NoFault
    /\ \/ crs[Group] = None /\ ensurer' = [pc |-> "create", seen |-> None]
       \/ /\ crs[Group] # None /\ Repairs(crs[Group])
          /\ ensurer' = [pc |-> "update", seen |-> crs[Group]]
    /\ UNCHANGED crs /\ EnsurerOnly

\* A creation fails if the namespace's worker or a user was first.
EnsureCreate ==
    /\ ensurer.pc = "create"
    /\ \/ /\ crs[Group] = None /\ NoFault
          /\ crs' = [crs EXCEPT ![Group] = [spec |-> DefaultSpec, owned |-> TRUE]]
       \/ /\ (crs[Group] # None /\ NoFault) \/ Fault
          /\ UNCHANGED crs
    /\ ensurer' = IdleEnsurer
    /\ EnsurerOnly

\* With the hostgroup mapping the update is the new resource itself, without
\* the version of the old one, and an API that requires one refuses it each time;
\* reconcileHost updates what it has read.
Accepted ==
    /\ crs[Group] # None
    /\ Mapping = "hostgroup" => ~versionRequired
    /\ Mapping = "host" => crs[Group] = ensurer.seen

EnsureUpdate ==
    /\ ensurer.pc = "update"
    /\ \/ /\ Accepted /\ NoFault
          /\ crs' = [crs EXCEPT ![Group].spec = DefaultSpec,
                                ![Group].owned = @ \/ Mapping = "hostgroup"]
       \/ /\ (~Accepted /\ NoFault) \/ Fault
          /\ UNCHANGED crs
    /\ ensurer' = IdleEnsurer
    /\ EnsurerOnly

EnsureDefaultHostgroups == EnsureGet \/ EnsureCreate \/ EnsureUpdate

-----------------------------------------------------------------------------
\* A restart stops this goroutine with the others.
Others ==
    /\ Next
    /\ ensurer' = IF crashes' # crashes THEN IdleEnsurer ELSE ensurer
    /\ UNCHANGED versionRequired

GroupVars == <<vars, excused, ensurer, versionRequired>>

GroupNext == Others \/ EnsureDefaultHostgroups

GroupSpec == GroupInit /\ [][GroupNext]_GroupVars

\* The goroutine loops for ever, with 60 seconds between the rounds.
GroupFairSpec ==
    /\ GroupSpec
    /\ Fairness
    /\ WF_GroupVars(EnsureDefaultHostgroups)

-----------------------------------------------------------------------------
(* Properties                                                              *)

\* A namespace of that name that is not to be monitored: its worker deletes the
\* group's resource again and again.
Fought == objs[Group] # None /\ ~Wanted(Group)

\* "By default [...] two additional Hostgroups created for Nodes and
\* Infrastructure": in the end the group is there, whatever namespaces of that
\* name came and went and whatever users did to it, unless a namespace of that
\* name excludes itself from monitoring; and it is there under its name, if the
\* API takes the update that gives the name back.
EventuallyGrouped ==
    <>[](~Fought => crs[Group] # None /\ (versionRequired \/ Named(crs[Group])))
=============================================================================
