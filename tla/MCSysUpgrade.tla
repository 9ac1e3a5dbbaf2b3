---------------------------- MODULE MCSysUpgrade ----------------------------
(* Three installed packages and two repositories. *)
EXTENDS SysUpgrade

Package(n, v, why, olds) ==
    [name |-> n, ver |-> v, reason |-> why,
     replaces |-> {[name |-> m, mod |-> "ANY", ver |-> 0] : m \in olds}]
New(n, v, olds) == {Package(n, v, "EXPLICIT", olds)}

Installed ==
    {{Package(n, 2, why[n], {}) : n \in {x \in 1..3 : why[x] # "absent"}} :
        why \in [1..3 -> {"absent", "EXPLICIT", "DEPEND"}]}

\* The first repository may upgrade package 1 and replace packages by 3 and 4; the second
\* one has upgrades, one of which also replaces package 2.
TwoRepos ==
    {<<[pkgs |-> a \cup b \cup c, usage |-> u], [pkgs |-> New(2, 3, {}) \cup d \cup e, usage |-> {"UPGRADE"}]>> :
        a \in {{}, New(1, 1, {}), New(1, 3, {})},
        b \in {{}, New(3, 3, {1}), New(3, 2, {1, 2})},
        c \in {{}, New(4, 1, {1, 2}), New(4, 1, {3})},
        d \in {{}, New(1, 3, {})},
        e \in {{}, New(3, 4, {2})},
        u \in {{"UPGRADE"}, {"INSTALL"}}}
=============================================================================
