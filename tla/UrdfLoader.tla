----------------------------- MODULE UrdfLoader -----------------------------
(***************************************************************************)
(* champ::URDF: loadFromString with fillLeg and getPose, which turn the    *)
(* tree of the URDF and the links each leg lists into the translations of  *)
(* its joint chain, and getJointNames, called right after it by both       *)
(* nodes.  One iteration of a loop is one step; a null pointer that is     *)
(* followed ends in "crashed", an exception in "thrown".  A list that is   *)
(* shorter than the code takes it to be is read beyond its end: that ends  *)
(* in "crashed" as well, or takes what is found there for some name.       *)
(*                                                                         *)
(* A joint has the name of its child link.  A translation is one of its    *)
(* coordinates; the rotation of an origin is ignored by the code.          *)
(***************************************************************************)
EXTENDS Integers, Sequences

CONSTANTS
    LegCount,     \* 4
    Links,        \* the links that a URDF may have
    Root,         \* the one that getRoot() returns
    Trees,        \* the URDFs: the parent of each link but the root
    Origin,       \* the position of a link in its parent
    Names,        \* the names that a file may list, of links or of nothing
    Configs,      \* the parameter files: [links_map, joints_map]
    NoParameter   \* a leg that a file leaves out

Legs == 1 .. LegCount
\* A chain ends at the foot, whose translation is that of its fourth link.
Chain == 1 .. 4

\* A tree has no cycle: no set of links lies wholly below itself.
ASSUME LoaderAssumption ==
    /\ LegCount \in Nat \ {0}
    /\ Root \in Links
    /\ Trees \subseteq [Links \ {Root} -> Links]
    /\ \A tree \in Trees, S \in SUBSET (Links \ {Root}) :
        S # {} => \E link \in S : tree[link] \notin S
    /\ Origin \in [Links \ {Root} -> Int]
    /\ Links \subseteq Names
    /\ \A config \in Configs, leg \in Legs :
        /\ config.links_map[leg] \in Seq(Names) \cup {NoParameter}
        /\ config.joints_map[leg] \in Seq(Names) \cup {NoParameter}

VARIABLES
    parent,               \* the tree of the URDF given
    parsed,               \* whether initString accepted it
    config,               \* the parameters given
    pc,
    leg, i,               \* the leg and the link that come next
    ref_link,
    current_parent_name,
    pose,
    translation,          \* joint_chain[i] of every leg
    joint_names

loaderVars == <<parent, parsed, config, pc, leg, i, ref_link, current_parent_name,
                pose, translation, joint_names>>

Ended == {"done", "crashed", "thrown"}

Init ==
    /\ parent \in Trees
    /\ parsed \in BOOLEAN
    /\ config \in Configs
    /\ pc = "parse"
    /\ leg = 1
    /\ i = 4
    /\ ref_link = Root
    /\ current_parent_name = Root
    /\ pose = 0
    /\ translation = [l \in Legs |-> [c \in Chain |-> 0]]
    /\ joint_names = <<>>

\* A model that failed to parse is empty; the code goes on with it.
LoadFromString ==
    /\ pc = "parse"
    /\ pc' = "fillLeg"
    /\ UNCHANGED <<parent, parsed, config, leg, i, ref_link, current_parent_name, pose,
                   translation, joint_names>>

-----------------------------------------------------------------------------
Known(link) == parsed /\ link \in Links

LinksOf(l) == config.links_map[l]

\* What an unchecked index reads.
NameAt(list, k) == IF k \in DOMAIN list THEN {list[k]} ELSE Names

FillLeg ==
    /\ pc = "fillLeg"
    /\ i' = 4
    /\ pc' = IF LinksOf(leg) = NoParameter THEN "thrown" ELSE "readLinks"
    /\ UNCHANGED <<parent, parsed, config, leg, ref_link, current_parent_name, pose,
                   translation, joint_names>>

RefLinkBelow == IF i < 4 THEN NameAt(LinksOf(leg), i + 1) ELSE {Root}

\* The link above, in the list; the first link of a leg is placed in the root.
RefLink == IF i > 1 THEN NameAt(LinksOf(leg), i - 1) ELSE {Root}

ReadLinks ==
    /\ pc = "readLinks"
    /\ ref_link' \in RefLink
    /\ current_parent_name' \in NameAt(LinksOf(leg), i)
    /\ pose' = 0
    /\ pc' = "getPose"
    /\ UNCHANGED <<parent, parsed, config, leg, i, translation, joint_names>>

StepUpLast == Origin[current_parent_name]

\* += for each joint on the way.
StepUp == pose + Origin[current_parent_name]

\* The loop of getPose: from a link to its parent, until the link listed above.
Climb ==
    /\ pc = "getPose"
    /\ Known(ref_link)
    /\ ref_link # current_parent_name
    /\ Known(current_parent_name)
    /\ current_parent_name # Root
    /\ pose' = StepUp
    /\ current_parent_name' = parent[current_parent_name]
    /\ UNCHANGED <<parent, parsed, config, pc, leg, i, ref_link, translation, joint_names>>

\* getRoot() or getLink() returned null, or the root has no parent joint.
FollowNull ==
    /\ pc = "getPose"
    /\ \/ ~Known(ref_link)
       \/ /\ ref_link # current_parent_name
          /\ \/ ~Known(current_parent_name)
             \/ current_parent_name = Root
    /\ pc' = "crashed"
    /\ UNCHANGED <<parent, parsed, config, leg, i, ref_link, current_parent_name, pose,
                   translation, joint_names>>

NextIndexKept == i

NextIndex == i - 1

\* The end of the loop: setTranslation, and on to the next link, leg or file.
SetTranslation ==
    /\ pc = "getPose"
    /\ Known(ref_link)
    /\ ref_link = current_parent_name
    /\ translation' = [translation EXCEPT ![leg][i] = pose]
    /\ \/ /\ i > 1
          /\ i' = NextIndex
          /\ pc' = "readLinks"
          /\ UNCHANGED leg
       \/ /\ i = 1
          /\ leg' = IF leg < LegCount THEN leg + 1 ELSE 1
          /\ pc' = IF leg < LegCount THEN "fillLeg" ELSE "getJointNames"
          /\ UNCHANGED i
    /\ UNCHANGED <<parent, parsed, config, ref_link, current_parent_name, pose, joint_names>>

-----------------------------------------------------------------------------
JointsOf(l) == config.joints_map[l]

NamesTakenAll == {JointsOf(leg)}

\* The files list the joint of the foot as well, which is fixed.
NamesTaken ==
    {names \in [1 .. 3 -> Names] : \A j \in 1 .. 3 : names[j] \in NameAt(JointsOf(leg), j)}

GetJointNames ==
    /\ pc = "getJointNames"
    /\ \/ /\ JointsOf(leg) = NoParameter
          /\ pc' = "thrown"
          /\ UNCHANGED <<leg, joint_names>>
       \/ /\ JointsOf(leg) # NoParameter
          /\ joint_names' \in {joint_names \o names : names \in NamesTaken}
          /\ leg' = leg + 1
          /\ pc' = IF leg < LegCount THEN pc ELSE "done"
    /\ UNCHANGED <<parent, parsed, config, i, ref_link, current_parent_name, pose, translation>>

\* Memory behind a list that holds no string is followed.
ReadBeyond ==
    /\ \/ pc = "readLinks" /\ \E c \in {i - 1, i} \cap Chain : c \notin DOMAIN LinksOf(leg)
       \/ /\ pc = "getJointNames"
          /\ JointsOf(leg) # NoParameter
          /\ \E j \in 1 .. 3 : j \notin DOMAIN JointsOf(leg)
    /\ pc' = "crashed"
    /\ UNCHANGED <<parent, parsed, config, leg, i, ref_link, current_parent_name, pose,
                   translation, joint_names>>

Next ==
    \/ LoadFromString
    \/ FillLeg
    \/ ReadLinks
    \/ Climb
    \/ FollowNull
    \/ SetTranslation
    \/ GetJointNames
    \/ ReadBeyond

Spec == Init /\ [][Next]_loaderVars /\ WF_loaderVars(Next)

-----------------------------------------------------------------------------
\* A set that holds, with a link, the one above it.
GoesUp(S) == \A link \in S \ {Root} : parent[link] \in S

\* The links from a link up to the root.
Above(link) ==
    {a \in Links : \A S \in SUBSET Links : link \in S /\ GoesUp(S) => a \in S}

\* The lists of a leg that no index of the code reads beyond.
ListsLinks(l) == LinksOf(l) # NoParameter /\ Chain \subseteq DOMAIN LinksOf(l)

ListsJoints(l) == JointsOf(l) # NoParameter /\ 1 .. 3 \subseteq DOMAIN JointsOf(l)

\* A foot below a leg, and each link below, or at, the one listed before it.
ListsChain(l) ==
    /\ ListsLinks(l)
    /\ \A c \in Chain : LinksOf(l)[c] \in Links
    /\ \A c \in 2 .. 4 : LinksOf(l)[c - 1] \in Above(LinksOf(l)[c])

\* Where the URDF places a link, from the root.
PlaceOf[link \in Links] ==
    IF link = Root THEN 0 ELSE Origin[link] + PlaceOf[parent[link]]

-----------------------------------------------------------------------------
\* The translations of a loaded leg add up: however many links of the tree lie
\* between two listed ones, link by link they lead to where the URDF places
\* each listed link (urdf_loader.h:48-57, 70-90).  Of a list of fewer than four
\* links, which the code reads beyond its end, nothing can be said.
TranslationsLeadToLinks ==
    pc = "done" =>
        \A l \in Legs : ListsLinks(l) =>
            LET t == translation[l]
                place(c) == PlaceOf[LinksOf(l)[c]]
            IN  /\ t[1] = place(1)
                /\ t[1] + t[2] = place(2)
                /\ t[1] + t[2] + t[3] = place(3)
                /\ t[1] + t[2] + t[3] + t[4] = place(4)

\* Three names a leg, twelve in all, however long or short the lists: and
\* joint_names[3 * leg + joint] is the joint whose translation
\* joint_chain[joint] of that leg holds, if that leg lists its joints, whatever
\* the others list.  The indices of base.legs, of the plan and of the measured
\* joints all rely on it.
NamesMatchChains ==
    pc = "done" =>
        /\ Len(joint_names) = 3 * LegCount
        /\ \A l \in Legs, c \in 1 .. 3 :
               ListsLinks(l) /\ ListsJoints(l) /\ JointsOf(l)[c] = LinksOf(l)[c] =>
                   joint_names[3 * (l - 1) + c] = LinksOf(l)[c]

\* No null pointer is followed, and nothing beyond a list, while a leg is read
\* whose links are a chain of a URDF that was parsed and whose joints are three
\* or more.
ChainsAreSafe ==
    pc = "crashed" => ~parsed \/ ~ListsChain(leg) \/ ~ListsJoints(leg)

\* The loops end, for every tree and every list of links: a leg that lists no
\* chain runs into the root.
LoadEnds == <>(pc \in Ended)
=============================================================================
