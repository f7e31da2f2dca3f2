----------------------------- MODULE NamesProofs -----------------------------
(***************************************************************************)
(* Which objects share a custom resource or an object in Icinga, for all   *)
(* names and both mappings, and that the controller's own vars win.        *)
(***************************************************************************)
EXTENDS Names, Integers, SequenceTheorems, TLAPS

-----------------------------------------------------------------------------
(* Sequences with a mark                                                   *)

\* What follows the same beginning is the same.
LEMMA Cancel ==
    ASSUME NEW p \in Seq(Tokens), NEW s \in Seq(Tokens), NEW t \in Seq(Tokens), p \o s = p \o t
    PROVE  s = t
<1>1. \A S : \A x, y, z \in Seq(S) : x \o y = x \o z => y = z
    BY ConcatSimplifications
<1>2. QED BY <1>1

\* A name begins with its abbreviation and a dash.
LEMMA PrefixUnique ==
    ASSUME NEW a \in Tokens, NEW b \in Tokens, NEW s \in Seq(Tokens), NEW t \in Seq(Tokens),
           <<a, "-">> \o s = <<b, "-">> \o t
    PROVE  a = b /\ s = t
<1>1. "-" \in Tokens
    BY DEF Tokens, Marks
<1>2. <<a, "-">> \in Seq(Tokens) /\ <<b, "-">> \in Seq(Tokens)
    BY <1>1
<1>3. (<<a, "-">> \o s)[1] = a /\ (<<b, "-">> \o t)[1] = b
    BY <1>2
<1>4. a = b
    BY <1>3
<1>5. QED BY <1>2, <1>4, Cancel

\* Where the part before the mark does not have it, a name has one reading.
LEMMA MarkUnique ==
    ASSUME NEW d \in Tokens, NEW p \in Seq(Tokens \ {d}), NEW q \in Seq(Tokens \ {d}),
           NEW s \in Seq(Tokens), NEW t \in Seq(Tokens), Below(p, d, s) = Below(q, d, t)
    PROVE  p = q /\ s = t
<1>1. p \in Seq(Tokens) /\ q \in Seq(Tokens) /\ <<d>> \in Seq(Tokens)
    OBVIOUS
<1>2. /\ <<d>> \o s \in Seq(Tokens) /\ Len(<<d>> \o s) > 0 /\ (<<d>> \o s)[1] = d
      /\ <<d>> \o t \in Seq(Tokens) /\ Len(<<d>> \o t) > 0 /\ (<<d>> \o t)[1] = d
    BY <1>1, ConcatProperties
<1>3. /\ \A i \in 1 .. Len(p) : p[i] # d /\ Below(p, d, s)[i] = p[i]
      /\ \A i \in 1 .. Len(q) : q[i] # d /\ Below(q, d, t)[i] = q[i]
      /\ Below(p, d, s)[Len(p) + 1] = d
      /\ Below(q, d, t)[Len(q) + 1] = d
    BY <1>1, <1>2, ConcatProperties DEF Below
<1>4. Len(p) = Len(q)
  <2>1. Len(p) \in Nat /\ Len(q) \in Nat
    OBVIOUS
  <2>2. ASSUME Len(p) < Len(q) PROVE FALSE
    <3>1. Len(p) + 1 \in 1 .. Len(q)
        BY <2>1, <2>2
    <3>2. Below(q, d, t)[Len(p) + 1] # d
        BY <1>3, <3>1
    <3>3. QED BY <1>3, <3>2
  <2>3. ASSUME Len(q) < Len(p) PROVE FALSE
    <3>1. Len(q) + 1 \in 1 .. Len(p)
        BY <2>1, <2>3
    <3>2. Below(p, d, s)[Len(q) + 1] # d
        BY <1>3, <3>1
    <3>3. QED BY <1>3, <3>2
  <2>4. QED BY <2>1, <2>2, <2>3
<1>5. p = q
    BY <1>1, <1>3, <1>4, SeqEqual
<1>6. <<d>> \o s = <<d>> \o t
    BY <1>1, <1>2, <1>5, Cancel DEF Below
<1>7. QED BY <1>1, <1>5, <1>6, Cancel

-----------------------------------------------------------------------------
(* Custom resources                                                        *)

LEMMA AbbreviationUnique ==
    /\ \A k \in Abbreviated : Abbreviation(k) \in Tokens
    /\ \A j, k \in Abbreviated : Abbreviation(j) = Abbreviation(k) => j = k
<1>1. /\ Abbreviation("Pod") = "po" /\ Abbreviation("Deployment") = "deploy"
      /\ Abbreviation("DaemonSet") = "ds" /\ Abbreviation("ReplicaSet") = "rs"
      /\ Abbreviation("StatefulSet") = "statefulset" /\ Abbreviation("ComponentStatus") = "cs"
    BY DEF Abbreviation
<1>2. QED BY <1>1 DEF Abbreviated, WorkloadKinds, Tokens, OwnWords

LEMMA MakeNameType == \A o \in Monitorables : MakeName(o) \in Seq(Tokens)
<1> SUFFICES ASSUME NEW o \in Monitorables, o.kind \in Abbreviated
             PROVE  <<Abbreviation(o.kind), "-">> \o o.name \in Seq(Tokens)
    BY DEF MakeName, Monitorables
<1>1. Abbreviation(o.kind) \in Tokens /\ "-" \in Tokens
    BY AbbreviationUnique DEF Tokens, Marks
<1>2. o.name \in Seq(Tokens)
    BY DEF Monitorables
<1>3. QED BY <1>1, <1>2

\* Two abbreviated names are the same for the same object only.
LEMMA MakeNameUnique ==
    ASSUME NEW a \in Monitorables, NEW b \in Monitorables,
           a.kind \in Abbreviated, b.kind \in Abbreviated, MakeName(a) = MakeName(b)
    PROVE  a.kind = b.kind /\ a.name = b.name
<1>1. /\ Abbreviation(a.kind) \in Tokens /\ a.name \in Seq(Tokens)
      /\ Abbreviation(b.kind) \in Tokens /\ b.name \in Seq(Tokens)
    BY AbbreviationUnique DEF Monitorables
<1>2. <<Abbreviation(a.kind), "-">> \o a.name = <<Abbreviation(b.kind), "-">> \o b.name
    BY DEF MakeName
<1>3. Abbreviation(a.kind) = Abbreviation(b.kind) /\ a.name = b.name
    BY <1>1, <1>2, PrefixUnique
<1>4. QED BY <1>3, AbbreviationUnique

LEMMA KindsApart ==
    /\ GroupKinds \cap LeafKinds = {}
    /\ LeafKinds = Abbreviated \cup {"Node"} /\ "Node" \notin Abbreviated
    /\ WorkloadKinds \subseteq Abbreviated /\ "Node" \notin GroupKinds
    /\ \A k \in Abbreviated : k \notin WorkloadKinds => k = "ComponentStatus"
BY DEF GroupKinds, LeafKinds, Abbreviated, WorkloadKinds

LEMMA ResourceKindApart ==
    ASSUME NEW m \in {"hostgroup", "host"}, NEW a \in Monitorables, NEW b \in Monitorables
    PROVE  ResourceKind(m, a) = ResourceKind(m, b) <=> (a.kind \in GroupKinds <=> b.kind \in GroupKinds)
BY DEF ResourceKind, HostGroupMapping, HostMapping

\* Monitored objects are the same when all that is said of them is.
LEMMA SameObject ==
    ASSUME NEW a \in Monitorables, NEW b \in Monitorables,
           a.kind = b.kind, a.namespace = b.namespace, a.name = b.name
    PROVE  a = b
BY DEF Monitorables

\* What is named alike and is neither a workload nor a group of its own.
LEMMA SameName ==
    ASSUME NEW a, WellFormed(a), NEW b, WellFormed(b), a.kind \in LeafKinds, b.kind \in LeafKinds,
           MakeName(a) = MakeName(b)
    PROVE  \/ a.kind = b.kind /\ a.name = b.name
           \/ a.kind = "Node" /\ b.kind \in Abbreviated /\ a.name = MakeName(b)
           \/ b.kind = "Node" /\ a.kind \in Abbreviated /\ b.name = MakeName(a)
<1>1. a \in Monitorables /\ b \in Monitorables
    BY DEF WellFormed
<1>2. CASE a.kind \in Abbreviated /\ b.kind \in Abbreviated
    BY <1>1, <1>2, MakeNameUnique
<1>3. CASE a.kind = "Node"
    BY <1>3, KindsApart DEF MakeName
<1>4. CASE b.kind = "Node"
    BY <1>4, KindsApart DEF MakeName
<1>5. QED BY <1>2, <1>3, <1>4, KindsApart

LEMMA SameGroupName ==
    ASSUME NEW a, WellFormed(a), NEW b, WellFormed(b), a.kind \in GroupKinds, b.kind \in GroupKinds,
           a.name = b.name
    PROVE  a = b \/ SameGroup(a, b) \/ SameGroup(b, a)
<1>1. a \in Monitorables /\ b \in Monitorables /\ a.namespace = b.namespace
    BY KindsApart DEF WellFormed, LeafKinds
<1>2. CASE a.kind = b.kind
    BY <1>1, <1>2, SameObject
<1>3. CASE a.kind # b.kind
    BY <1>3 DEF GroupKinds, SameGroup
<1>4. QED BY <1>2, <1>3

\* Two monitored objects share a custom resource in two cases only, with either
\* mapping: a node is called like the resource of a workload of kube-system or of
\* a component status (node "po-x", pod "x"), or a namespace is called like a
\* default group (MakeObjectMeta; the mappings' ObjectMeta).
THEOREM SharedResources ==
    ASSUME NEW m \in {"hostgroup", "host"}, NEW a, WellFormed(a), NEW b, WellFormed(b)
    PROVE  MakeObjectMeta(m, a) = MakeObjectMeta(m, b)
               <=> a = b \/ SharesResource(a, b) \/ SharesResource(b, a)
<1> USE KindsApart
<1>1. a \in Monitorables /\ b \in Monitorables
    BY DEF WellFormed
<1>2. MakeObjectMeta(m, a) = MakeObjectMeta(m, b)
          <=> /\ a.kind \in GroupKinds <=> b.kind \in GroupKinds
              /\ MakeNamespace(a) = MakeNamespace(b)
              /\ MakeName(a) = MakeName(b)
    BY <1>1, ResourceKindApart DEF MakeObjectMeta
<1>3. ASSUME a.kind \in GroupKinds, b.kind \in GroupKinds
      PROVE  /\ MakeNamespace(a) = MakeNamespace(b)
             /\ MakeName(a) = a.name /\ MakeName(b) = b.name
    BY <1>3 DEF MakeNamespace, MakeName, LeafKinds
<1>4. ASSUME a.kind \in LeafKinds, b.kind \in LeafKinds, MakeNamespace(a) = MakeNamespace(b),
             MakeName(a) = MakeName(b)
      PROVE  a = b \/ SharesResource(a, b) \/ SharesResource(b, a)
  <2>1. CASE a.kind = b.kind /\ a.name = b.name
    <3>1. a.namespace = b.namespace
        BY <1>4, <2>1 DEF MakeNamespace, WellFormed
    <3>2. QED BY <1>1, <2>1, <3>1, SameObject
  <2>2. CASE a.kind = "Node" /\ b.kind \in Abbreviated /\ a.name = MakeName(b)
    BY <1>4, <2>2 DEF SharesResource, MakeNamespace
  <2>3. CASE b.kind = "Node" /\ a.kind \in Abbreviated /\ b.name = MakeName(a)
    BY <1>4, <2>3 DEF SharesResource, MakeNamespace
  <2>4. QED BY <1>4, <2>1, <2>2, <2>3, SameName
<1>5. ASSUME NEW n, WellFormed(n), NEW o, WellFormed(o), SharesResource(n, o)
      PROVE  /\ n.kind \in GroupKinds <=> o.kind \in GroupKinds
             /\ MakeNamespace(n) = MakeNamespace(o) /\ MakeName(n) = MakeName(o)
  <2>1. CASE SameGroup(n, o)
    BY <2>1 DEF SameGroup, GroupKinds, LeafKinds, MakeNamespace, MakeName
  <2>2. CASE ~SameGroup(n, o)
    BY <1>5, <2>2 DEF SharesResource, MakeNamespace, MakeName
  <2>3. QED BY <2>1, <2>2
<1>6. ASSUME MakeObjectMeta(m, a) = MakeObjectMeta(m, b)
      PROVE  a = b \/ SharesResource(a, b) \/ SharesResource(b, a)
  <2>1. CASE a.kind \in GroupKinds
    BY <1>2, <1>3, <1>6, <2>1, SameGroupName DEF SharesResource
  <2>2. CASE a.kind \notin GroupKinds
    <3>1. a.kind \in LeafKinds /\ b.kind \in LeafKinds
        BY <1>1, <1>2, <1>6, <2>2 DEF Monitorables
    <3>2. QED BY <1>2, <1>4, <1>6, <3>1
  <2>3. QED BY <2>1, <2>2
<1>7. QED BY <1>2, <1>5, <1>6

-----------------------------------------------------------------------------
(* Objects in Icinga                                                       *)

LEMMA GroupNameOf ==
    ASSUME NEW o
    PROVE  /\ o.kind \in WorkloadKinds => GroupName(o) = o.namespace
           /\ o.kind = "Node" => GroupName(o) = <<"nodes">>
           /\ o.kind = "ComponentStatus" => GroupName(o) = <<"infrastructure">>
BY DEF GroupName, WorkloadKinds

LEMMA GroupNameType ==
    ASSUME NEW m \in {"hostgroup", "host"}, NEW o, WellFormed(o), o.kind \in LeafKinds
    PROVE  Mark(m) \in Tokens /\ GroupName(o) \in Seq(Tokens \ {Mark(m)})
<1>1. Mark(m) \in {".", "!"} /\ Mark(m) \in Tokens
    BY DEF Mark, Tokens, Marks
<1>2. CASE o.kind \in WorkloadKinds
  <2>1. GroupName(o) = o.namespace
    BY <1>2, GroupNameOf
  <2>2. o.namespace \in Seq(Tokens \ {".", "!"})
    BY DEF WellFormed, Monitorables
  <2>3. QED BY <1>1, <2>1, <2>2
<1>3. CASE o.kind \notin WorkloadKinds
  <2>1. GroupName(o) = <<"nodes">> \/ GroupName(o) = <<"infrastructure">>
    BY <1>3, GroupNameOf DEF LeafKinds
  <2>2. "nodes" \in Tokens \ {Mark(m)} /\ "infrastructure" \in Tokens \ {Mark(m)}
    BY DEF Mark, Tokens, OwnWords
  <2>3. <<"nodes">> \in Seq(Tokens \ {Mark(m)}) /\ <<"infrastructure">> \in Seq(Tokens \ {Mark(m)})
    BY <2>2
  <2>4. QED BY <1>1, <2>1, <2>3
<1>4. QED BY <1>2, <1>3

\* What comes below the tag decides.
LEMMA BelowTag ==
    ASSUME NEW tag \in Seq(Tokens), NEW s \in Seq(Tokens), NEW t \in Seq(Tokens),
           Below(tag, ".", s) = Below(tag, ".", t)
    PROVE  s = t
<1>1. <<".">> \in Seq(Tokens)
    BY DEF Tokens, Marks
<1>2. <<".">> \o s \in Seq(Tokens) /\ <<".">> \o t \in Seq(Tokens)
    BY <1>1
<1>3. <<".">> \o s = <<".">> \o t
    BY <1>2, Cancel DEF Below
<1>4. QED BY <1>1, <1>3, Cancel

LEMMA BelowType ==
    ASSUME NEW p \in Seq(Tokens), NEW d \in Tokens, NEW s \in Seq(Tokens)
    PROVE  Below(p, d, s) \in Seq(Tokens)
<1>1. <<d>> \o s \in Seq(Tokens)
    OBVIOUS
<1>2. QED BY <1>1 DEF Below

\* Two monitored objects share an object in Icinga in two cases only, whatever
\* the tag and the mapping: a node is called like a workload of a namespace that
\* is itself called nodes, or a namespace is called like a default group (the
\* names that the mappings and icinga.go put together).
THEOREM SharedIcingaObjects ==
    ASSUME NEW m \in {"hostgroup", "host"}, NEW tag \in Seq(Tokens),
           NEW a, WellFormed(a), NEW b, WellFormed(b)
    PROVE  IcingaObject(m, tag, a) = IcingaObject(m, tag, b)
               <=> a = b \/ SharesIcingaObject(a, b) \/ SharesIcingaObject(b, a)
<1> USE KindsApart
<1> DEFINE Last(o) == Below(GroupName(o), Mark(m), MakeName(o))
           Rest(o) == IF o.kind \in GroupKinds THEN o.name ELSE Last(o)
<1>1. a \in Monitorables /\ b \in Monitorables
    BY DEF WellFormed
<1>2. ASSUME NEW o, WellFormed(o)
      PROVE  Rest(o) \in Seq(Tokens)
  <2>1. o \in Monitorables
    BY <1>2 DEF WellFormed
  <2>2. CASE o.kind \in GroupKinds
    BY <2>1, <2>2 DEF Monitorables
  <2>3. CASE o.kind \notin GroupKinds
    <3>1. o.kind \in LeafKinds
        BY <2>1, <2>3 DEF Monitorables
    <3>2. Mark(m) \in Tokens /\ GroupName(o) \in Seq(Tokens \ {Mark(m)})
        BY <1>2, <3>1, GroupNameType
    <3>3. GroupName(o) \in Seq(Tokens)
        BY <3>2
    <3>4. Last(o) \in Seq(Tokens)
        BY <2>1, <3>2, <3>3, MakeNameType, BelowType
    <3>5. QED BY <2>3, <3>4
  <2>4. QED BY <2>2, <2>3
<1>3. IcingaObject(m, tag, a) = IcingaObject(m, tag, b)
          <=> /\ a.kind \in GroupKinds <=> b.kind \in GroupKinds
              /\ Rest(a) = Rest(b)
  <2>1. Below(tag, ".", Rest(a)) = Below(tag, ".", Rest(b)) <=> Rest(a) = Rest(b)
    <3>1. Rest(a) \in Seq(Tokens) /\ Rest(b) \in Seq(Tokens)
        BY <1>2
    <3>2. ASSUME Below(tag, ".", Rest(a)) = Below(tag, ".", Rest(b)) PROVE Rest(a) = Rest(b)
        <4> HIDE DEF Rest
        <4>1. QED BY <3>1, <3>2, BelowTag
    <3>3. QED BY <3>2
  <2>2. /\ IcingaObject(m, tag, a) = [kind |-> ResourceKind(m, a), name |-> Below(tag, ".", Rest(a))]
        /\ IcingaObject(m, tag, b) = [kind |-> ResourceKind(m, b), name |-> Below(tag, ".", Rest(b))]
    BY DEF IcingaObject
  <2> HIDE DEF Rest
  <2>3. QED BY <1>1, <2>1, <2>2, ResourceKindApart
<1>4. ASSUME a.kind \in LeafKinds, b.kind \in LeafKinds
      PROVE  Last(a) = Last(b) <=> GroupName(a) = GroupName(b) /\ MakeName(a) = MakeName(b)
  <2>1. /\ GroupName(a) \in Seq(Tokens \ {Mark(m)}) /\ GroupName(b) \in Seq(Tokens \ {Mark(m)})
        /\ Mark(m) \in Tokens
    BY <1>4, GroupNameType
  <2>2. MakeName(a) \in Seq(Tokens) /\ MakeName(b) \in Seq(Tokens)
    BY <1>1, MakeNameType
  <2>3. ASSUME Last(a) = Last(b)
        PROVE  GroupName(a) = GroupName(b) /\ MakeName(a) = MakeName(b)
    <3>1. Below(GroupName(a), Mark(m), MakeName(a)) = Below(GroupName(b), Mark(m), MakeName(b))
        BY <2>3
    <3> HIDE DEF Last, Rest
    <3>2. QED BY ONLY <2>1, <2>2, <3>1, MarkUnique
  <2>4. QED BY <2>3
<1>5. ASSUME a.kind \in LeafKinds, b.kind \in LeafKinds, GroupName(a) = GroupName(b),
             MakeName(a) = MakeName(b)
      PROVE  a = b \/ SharesIcingaObject(a, b) \/ SharesIcingaObject(b, a)
  <2>1. CASE a.kind = b.kind /\ a.name = b.name
    <3>1. a.namespace = b.namespace
        BY <1>5, <2>1, GroupNameOf DEF WellFormed
    <3>2. QED BY <1>1, <2>1, <3>1, SameObject
  <2>2. ASSUME NEW n, NEW o, n.kind = "Node", o.kind \in Abbreviated, n.name = MakeName(o),
               GroupName(n) = GroupName(o)
        PROVE  SharesIcingaObject(n, o)
    <3>1. GroupName(n) = <<"nodes">>
        BY <2>2, GroupNameOf
    <3>2. o.kind \in WorkloadKinds /\ GroupName(o) = o.namespace
        <4>1. o.kind = "ComponentStatus" => GroupName(o) = <<"infrastructure">>
            BY GroupNameOf
        <4>2. o.kind \in WorkloadKinds
            BY <2>2, <3>1, <4>1
        <4>3. QED BY <4>2, GroupNameOf
    <3>3. QED BY <2>2, <3>1, <3>2 DEF SharesIcingaObject
  <2>3. QED BY <1>5, <2>1, <2>2, SameName
<1>6. ASSUME NEW n, WellFormed(n), NEW o, WellFormed(o), SharesIcingaObject(n, o)
      PROVE  /\ n.kind \in GroupKinds <=> o.kind \in GroupKinds
             /\ Rest(n) = Rest(o)
  <2>1. CASE SameGroup(n, o)
    BY <2>1 DEF SameGroup, GroupKinds
  <2>2. CASE ~SameGroup(n, o)
    <3>1. n.kind = "Node" /\ o.kind \in WorkloadKinds /\ n.name = MakeName(o)
          /\ o.namespace = <<"nodes">>
        BY <1>6, <2>2 DEF SharesIcingaObject
    <3>2. GroupName(n) = <<"nodes">> /\ GroupName(o) = <<"nodes">> /\ MakeName(n) = MakeName(o)
        BY <3>1, GroupNameOf DEF MakeName
    <3>3. n.kind \notin GroupKinds /\ o.kind \notin GroupKinds
        BY <3>1
    <3>4. QED BY <3>2, <3>3
  <2>3. QED BY <2>1, <2>2
<1>7. ASSUME IcingaObject(m, tag, a) = IcingaObject(m, tag, b)
      PROVE  a = b \/ SharesIcingaObject(a, b) \/ SharesIcingaObject(b, a)
  <2>1. CASE a.kind \in GroupKinds
    BY <1>3, <1>7, <2>1, SameGroupName DEF SharesIcingaObject
  <2>2. CASE a.kind \notin GroupKinds
    <3>1. a.kind \in LeafKinds /\ b.kind \in LeafKinds
        BY <1>1, <1>3, <1>7, <2>2 DEF Monitorables
    <3>2. QED BY <1>3, <1>4, <1>5, <1>7, <3>1
  <2>3. QED BY <2>1, <2>2
<1> HIDE DEF Rest
<1>8. QED BY <1>3, <1>6, <1>7

-----------------------------------------------------------------------------
(* Vars                                                                    *)

\* Whatever the configured defaults and a resource's own vars say, the object in
\* Icinga has the cluster's tag and its resource as owner: what Icinga
\* housekeeping and the other clusters go by (icinga.go, mergeVars).
THEOREM OwnVarsWin ==
    ASSUME NEW defaults, NEW spec, NEW tag, NEW owner
    PROVE  LET v == IcingaVars(defaults, spec, tag, owner)
           IN  v[VarCluster] = tag /\ v[VarOwner] = owner
BY DEF IcingaVars, mergeVars, VarCluster, VarOwner

\* A mapped resource carries the tag, which housekeeping of custom resources asks
\* for, and the name of the object it stands for, also over defaults.
THEOREM MappedVarsWin ==
    ASSUME NEW defaults, NEW tag, NEW type, NEW o
    PROVE  LET v == MakeVars(defaults, tag, type, o)
           IN  v[VarCluster] = tag /\ v["kubernetes_name"] = o.name
BY DEF MakeVars, mergeVars, VarCluster
=============================================================================
