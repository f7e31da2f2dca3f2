------------------------- MODULE DefaultGroupsProofs -------------------------
(***************************************************************************)
(* Machine-checked proof of the type invariant of DefaultGroups, for every *)
(* group, every set of namespaces and every bound, under either mapping.   *)
(***************************************************************************)
EXTENDS DefaultGroups, WorkloadMonitorProofs

LEMMA GroupResources ==
    /\ Group \in Ids
    /\ [spec |-> DefaultSpec, owned |-> TRUE] \in CRs
    /\ \A c \in CRs, o \in BOOLEAN :
           [c EXCEPT !.spec = DefaultSpec, !.owned = o] \in CRs
BY GroupAssumption DEF CRs

\* The goroutine writes the resource of its group and no other.
LEMMA EnsurerWrites ==
    ASSUME TypeOK, EnsureDefaultHostgroups
    PROVE  /\ crs' \in [Ids -> CRs \cup {None}]
           /\ \A i \in Ids \ {Group} : crs'[i] = crs[i]
           /\ crs[Group] # None => crs'[Group] # None
           /\ faults' \in Nat
<1>0. faults' \in Nat
  <2>1. Fault \/ NoFault
    BY Zenon DEF EnsureDefaultHostgroups, EnsureGet, EnsureCreate, EnsureUpdate
  <2>2. QED BY <2>1 DEF Fault, NoFault, TypeOK
<1> USE NoneAssumption, GroupResources DEF TypeOK
<1>1. CASE EnsureGet
    BY <1>1, <1>0 DEF EnsureGet
<1>2. CASE EnsureCreate
  <2>1. CASE UNCHANGED crs
    BY <1>2, <2>1, <1>0 DEF EnsureCreate
  <2>2. CASE ~UNCHANGED crs
    <3> DEFINE c == [spec |-> DefaultSpec, owned |-> TRUE]
    <3>1. crs' = [crs EXCEPT ![Group] = c] /\ c \in CRs
        BY <1>2, <2>2 DEF EnsureCreate
    <3> HIDE DEF c
    <3>2. QED BY <3>1, <1>0
  <2>3. QED BY <2>1, <2>2
<1>3. CASE EnsureUpdate
  <2>1. CASE UNCHANGED crs
    BY <1>3, <2>1, <1>0 DEF EnsureUpdate
  <2>2. CASE ~UNCHANGED crs
    <3> DEFINE o == crs[Group].owned \/ Mapping = "hostgroup"
               c == [crs[Group] EXCEPT !.spec = DefaultSpec, !.owned = o]
    <3>1. crs[Group] \in CRs
        BY <1>3, <2>2 DEF EnsureUpdate, Accepted
    <3>2. crs' = [crs EXCEPT ![Group] = c]
        BY <1>3, <2>2, <3>1 DEF EnsureUpdate, CRs
    <3>3. o \in BOOLEAN
        OBVIOUS
    <3>4. c \in CRs
        BY <3>1, <3>3
    <3> HIDE DEF c
    <3>5. QED BY <1>0, <3>1, <3>2, <3>4
  <2>3. QED BY <2>1, <2>2
<1>4. QED BY <1>1, <1>2, <1>3 DEF EnsureDefaultHostgroups

LEMMA EnsurerMoves ==
    ASSUME TypeOK, EnsureDefaultHostgroups
    PROVE  ensurer' \in Ensurers
<1>1. crs[Group] \in CRs \cup {None}
    BY GroupResources DEF TypeOK
<1>2. QED BY <1>1 DEF EnsureDefaultHostgroups, EnsureGet, EnsureCreate, EnsureUpdate,
                      Ensurers, IdleEnsurer

LEMMA InitGroupTypeOK == GroupInit => GroupTypeOK
BY InitTypeOK DEF GroupInit, GroupTypeOK, Ensurers

LEMMA NextGroupTypeOK == GroupTypeOK /\ [GroupNext]_GroupVars => GroupTypeOK'
<1> SUFFICES ASSUME GroupTypeOK, [GroupNext]_GroupVars PROVE GroupTypeOK'
    OBVIOUS
<1>1. CASE UNCHANGED GroupVars
    BY <1>1 DEF GroupVars, vars, GroupTypeOK, TypeOK
<1>2. CASE Others
  <2>1. TypeOK'
    BY <1>2, NextTypeOK DEF Others, GroupTypeOK
  <2>2. ensurer' \in Ensurers
    BY <1>2 DEF Others, GroupTypeOK, Ensurers
  <2>3. QED BY <1>2, <2>1, <2>2 DEF Others, GroupTypeOK
<1>3. CASE EnsureDefaultHostgroups
  <2>1. EnsurerOnly
    BY <1>3 DEF EnsureDefaultHostgroups, EnsureGet, EnsureCreate, EnsureUpdate
  <2>2. TypeOK'
    BY <1>3, <2>1, EnsurerWrites DEF EnsurerOnly, informers, GroupTypeOK, TypeOK
  <2>3. ensurer' \in Ensurers
    BY <1>3, EnsurerMoves DEF GroupTypeOK
  <2>4. QED BY <2>1, <2>2, <2>3 DEF EnsurerOnly, GroupTypeOK
<1>4. QED BY <1>1, <1>2, <1>3 DEF GroupNext

\* What EnsureDefaultHostgroups is about to update is a resource it has read,
\* whatever the namespaces' threads do to the group meanwhile.
THEOREM GroupTypeCorrect == GroupSpec => []GroupTypeOK
<1>1. QED BY InitGroupTypeOK, NextGroupTypeOK, PTL DEF GroupSpec
=============================================================================
