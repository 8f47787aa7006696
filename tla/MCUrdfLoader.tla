---------------------------- MODULE MCUrdfLoader ----------------------------
(***************************************************************************)
(* Bounds for checking UrdfLoader: every tree of six links, and two legs   *)
(* that list four of them, in an order that may or may not be a chain,     *)
(* fewer, more, links the tree does not have, or nothing.                  *)
(***************************************************************************)
EXTENDS UrdfLoader, TLC

CONSTANTS base, shoulder, hip, thigh, calf, ankle, other

MCLinks == {base, shoulder, hip, thigh, calf, ankle}

\* Every sum of a subset of these is another number.
MCOrigin ==
    (shoulder :> 1) @@ (hip :> 2) @@ (thigh :> 4) @@ (calf :> 8) @@ (ankle :> 16)

UpTo[p \in [MCLinks \ {base} -> MCLinks], l \in MCLinks, n \in 0 .. 5] ==
    IF n = 0 \/ l = base THEN l ELSE UpTo[p, p[l], n - 1]

MCTrees ==
    {p \in [MCLinks \ {base} -> MCLinks] : \A l \in MCLinks : UpTo[p, l, 5] = base}

Listed(links) == [links |-> links, joints |-> links]

MCNames == MCLinks \cup {other}

MCLegs ==
    {Listed(<<hip, thigh, calf, ankle>>),
     Listed(<<shoulder, hip, calf, ankle>>),
     Listed(<<hip, thigh, calf, other>>)}

MCConfigs ==
    {[links_map |-> <<a.links, b.links>>, joints_map |-> <<a.joints, b.joints>>] :
        a, b \in MCLegs}
    \cup {[links_map |-> <<<<hip, thigh, calf, ankle>>, NoParameter>>,
           joints_map |-> <<<<hip, thigh, calf>>, NoParameter>>],
          [links_map |-> <<<<hip, thigh, calf, ankle>>, <<hip, thigh, calf, ankle>>>>,
           joints_map |-> <<<<hip, thigh, calf>>, NoParameter>>],
          \* one link too few and one too many, and a joint too few
          [links_map |-> <<<<hip, thigh, calf>>, <<hip, thigh, calf, ankle, other>>>>,
           joints_map |-> <<<<hip, thigh>>, <<hip, thigh, calf>>>>],
          \* the first two links of a leg alone
          [links_map |-> <<<<hip, thigh, calf, ankle>>, <<hip, thigh>>>>,
           joints_map |-> <<<<hip, thigh, calf>>, <<hip, thigh, calf>>>>]}
=============================================================================
