---- MODULE MCIcingaSync ----
(* Small instances of IcingaSync for TLC. *)
EXTENDS IcingaSync, TLC

CONSTANTS v1, c1, g1

\* A resource starts absent or with a default specification under any name; a
\* name in Icinga starts free, with an object of this cluster, or taken by the
\* other cluster.
MCInitSpecs ==
    {None} \cup [name: Names, vars: {v1}, command: {NoCommand}, groups: {g1}]

MCInitObjects ==
    {None} \cup [cluster: {OtherTag}, owner: {NoOwner}, vars: {v1},
                 command: {NoCommand}, groups: {g1}]
           \cup [cluster: {Tag}, owner: Keys, vars: {v1},
                 command: {NoCommand}, groups: {g1}]

MCNoObjects == {None}

Symmetry == Permutations(Keys) \cup Permutations(Names)
====
