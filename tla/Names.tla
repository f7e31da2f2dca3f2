-------------------------------- MODULE Names --------------------------------
(***************************************************************************)
(* The names the two mappings give to custom resources and to objects in   *)
(* Icinga, and the vars they carry.  These are pure functions; the other   *)
(* modules take them for injective, and NamesProofs says where they are.   *)
(*                                                                         *)
(* A name is a sequence of tokens: words, and the marks between them.      *)
(***************************************************************************)
EXTENDS Sequences

CONSTANT Words      \* words in the names of the cluster's objects

Marks == {"-", ".", "!"}

\* Words that the mappings use.
OwnWords == {"po", "deploy", "ds", "rs", "statefulset", "cs",
             "nodes", "infrastructure", "kube", "system"}

Tokens == Words \cup OwnWords \cup Marks

WorkloadKinds == {"Pod", "Deployment", "DaemonSet", "ReplicaSet", "StatefulSet"}

\* "Default" stands for the default groups, nodes and infrastructure.
GroupKinds == {"Namespace", "Default"}
LeafKinds == WorkloadKinds \cup {"Node", "ComponentStatus"}

\* What is monitored. Names of namespaces have no dots (DNS labels); what is not
\* a workload has no namespace.
Monitorables == [kind: LeafKinds \cup GroupKinds, namespace: Seq(Tokens \ {".", "!"}),
                 name: Seq(Tokens)]

WellFormed(o) ==
    /\ o \in Monitorables
    /\ o.kind \notin WorkloadKinds => o.namespace = <<>>
    /\ o.kind = "Default" => o.name \in {<<"nodes">>, <<"infrastructure">>}

-----------------------------------------------------------------------------
(* Custom resources                                                        *)

Abbreviation(kind) ==
    CASE kind = "Pod" -> "po"
      [] kind = "Deployment" -> "deploy"
      [] kind = "DaemonSet" -> "ds"
      [] kind = "ReplicaSet" -> "rs"
      [] kind = "StatefulSet" -> "statefulset"
      [] kind = "ComponentStatus" -> "cs"

Abbreviated == WorkloadKinds \cup {"ComponentStatus"}

KubeSystem == <<"kube", "-", "system">>

MakeName(o) == IF o.kind \in Abbreviated THEN <<Abbreviation(o.kind), "-">> \o o.name
                                         ELSE o.name

MakeNamespace(o) == IF o.kind \in WorkloadKinds THEN o.namespace ELSE KubeSystem

HostGroupMapping(o) == IF o.kind \in GroupKinds THEN "HostGroup" ELSE "Host"

HostMapping(o) == IF o.kind \in GroupKinds THEN "Host" ELSE "Check"

ResourceKind(m, o) == IF m = "hostgroup" THEN HostGroupMapping(o) ELSE HostMapping(o)

MakeObjectMeta(m, o) == [kind |-> ResourceKind(m, o), namespace |-> MakeNamespace(o),
                         name |-> MakeName(o)]

-----------------------------------------------------------------------------
(* Objects in Icinga                                                       *)

\* A name below another one.
Below(parent, mark, name) == parent \o (<<mark>> \o name)

\* The group (host group, or host) that a workload, node or status belongs to.
GroupName(o) ==
    CASE o.kind \in WorkloadKinds -> o.namespace
      [] o.kind = "Node" -> <<"nodes">>
      [] o.kind = "ComponentStatus" -> <<"infrastructure">>

\* A host is named group.name, a service host!name.
Mark(m) == IF m = "hostgroup" THEN "." ELSE "!"

\* What the mapping writes into the resource and the controller makes of it, all
\* of it below the tag of the cluster. Host groups, hosts and services have
\* name spaces of their own.
IcingaObject(m, tag, o) ==
    [kind |-> ResourceKind(m, o),
     name |-> Below(tag, ".", IF o.kind \in GroupKinds THEN o.name
                              ELSE Below(GroupName(o), Mark(m), MakeName(o)))]

-----------------------------------------------------------------------------
(* Vars                                                                    *)

VarCluster == "kubernetes_cluster"
VarOwner == "kubernetes_owner"

\* Later maps win.
mergeVars(f, g) == [v \in DOMAIN f \cup DOMAIN g |-> IF v \in DOMAIN g THEN g[v] ELSE f[v]]

\* The vars of a mapped resource, over the configured defaults.
MakeVars(defaults, tag, type, o) ==
    mergeVars(defaults, [kubernetes_name |-> o.name, kubernetes_type |-> type,
                         kubernetes_cluster |-> tag, kubernetes_namespace |-> o.namespace])

\* The vars of the Icinga object of a resource with vars spec.
IcingaVars(defaults, spec, tag, owner) ==
    mergeVars(mergeVars(defaults, spec),
              [kubernetes_cluster |-> tag, kubernetes_owner |-> owner])

-----------------------------------------------------------------------------
(* Who shares a name                                                       *)

\* A default group and a namespace of its name are the same group.
SameGroup(a, b) == a.kind = "Default" /\ b.kind = "Namespace" /\ a.name = b.name

\* Node a has the name that the custom resource of b is given, in kube-system.
SharesResource(a, b) ==
    \/ /\ a.kind = "Node" /\ b.kind \in Abbreviated /\ a.name = MakeName(b)
       /\ b.kind \in WorkloadKinds => b.namespace = KubeSystem
    \/ SameGroup(a, b)

\* Node a has the name that workload b is given, in a namespace called nodes.
SharesIcingaObject(a, b) ==
    \/ a.kind = "Node" /\ b.kind \in WorkloadKinds /\ a.name = MakeName(b)
       /\ b.namespace = <<"nodes">>
    \/ SameGroup(a, b)
=============================================================================
