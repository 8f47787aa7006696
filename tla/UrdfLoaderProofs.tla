-------------------------- MODULE UrdfLoaderProofs --------------------------
(***************************************************************************)
(* Theorems about UrdfLoader, for any number of legs, any tree of links    *)
(* and any parameters.                                                     *)
(***************************************************************************)
EXTENDS UrdfLoader, SequenceTheorems, TLAPS

-----------------------------------------------------------------------------
(* The tree *)

LEMMA TreeFacts ==
    ASSUME parent \in Trees
    PROVE  /\ Root \in Links
           /\ \A l \in Links \ {Root} : parent[l] \in Links /\ Origin[l] \in Int
           /\ \A S \in SUBSET (Links \ {Root}) : S # {} => \E l \in S : parent[l] \notin S
BY LoaderAssumption

\* What holds of the root, and of a link when it holds of the link above, holds
\* of every link: induction along the tree, over a set in place of a formula.
LEMMA TreeInduction ==
    ASSUME parent \in Trees, NEW S \in SUBSET Links, Root \in S,
           \A l \in Links \ {Root} : parent[l] \in S => l \in S
    PROVE  S = Links
<1> SUFFICES ASSUME Links \ S # {} PROVE FALSE
  OBVIOUS
<1>1. PICK l \in Links \ S : parent[l] \notin Links \ S
  BY TreeFacts
<1>2. parent[l] \in S
  BY <1>1, TreeFacts
<1> QED
  BY <1>1, <1>2

LEMMA AboveRoot == ASSUME parent \in Trees, NEW a \in Above(Root) PROVE a = Root
<1>1. {Root} \in SUBSET Links /\ GoesUp({Root})
  BY TreeFacts DEF GoesUp
<1> QED
  BY <1>1 DEF Above

\* What is above a link, and is not the link, is above its parent.
LEMMA AboveParent ==
    ASSUME parent \in Trees, NEW l \in Links \ {Root}, NEW a \in Above(l), a # l
    PROVE  a \in Above(parent[l])
<1>1. a \in Links /\ \A S \in SUBSET Links : l \in S /\ GoesUp(S) => a \in S
  BY DEF Above
<1>2. ASSUME NEW S \in SUBSET Links, parent[l] \in S, GoesUp(S) PROVE a \in S
  <2>1. S \cup {l} \in SUBSET Links /\ GoesUp(S \cup {l})
    BY <1>2 DEF GoesUp
  <2> QED
    BY <1>1, <2>1
<1> QED
  BY <1>1, <1>2 DEF Above

-----------------------------------------------------------------------------
(* The place of a link: that the recursive definition has a solution *)

\* The root is at 0, and a link at its origin from where its parent is.
Derives(R) ==
    /\ <<Root, 0>> \in R
    /\ \A l \in Links \ {Root}, v \in Int :
           <<parent[l], v>> \in R => <<l, Origin[l] + v>> \in R

Derived == {r \in Links \X Int : \A R \in SUBSET (Links \X Int) : Derives(R) => r \in R}

LEMMA DerivedDerives == ASSUME parent \in Trees PROVE Derives(Derived)
<1>1. <<Root, 0>> \in Derived
  BY TreeFacts DEF Derived, Derives
<1>2. ASSUME NEW l \in Links \ {Root}, NEW v \in Int, <<parent[l], v>> \in Derived
      PROVE  <<l, Origin[l] + v>> \in Derived
  <2>1. <<l, Origin[l] + v>> \in Links \X Int
    BY TreeFacts
  <2>2. \A R \in SUBSET (Links \X Int) : Derives(R) => <<parent[l], v>> \in R
    BY <1>2 DEF Derived
  <2>3. \A R \in SUBSET (Links \X Int) : Derives(R) => <<l, Origin[l] + v>> \in R
    BY <2>2 DEF Derives
  <2> QED
    BY <2>1, <2>3 DEF Derived
<1> QED
  BY <1>1, <1>2 DEF Derives

\* A pair that no rule derives is not derived.
LEMMA DerivedOnly ==
    ASSUME parent \in Trees, NEW r \in Links \X Int, r # <<Root, 0>>,
           \A l \in Links \ {Root}, v \in Int :
               <<parent[l], v>> \in Derived => r # <<l, Origin[l] + v>>
    PROVE  r \notin Derived
<1>1. Derived \ {r} \in SUBSET (Links \X Int)
  BY DEF Derived
<1>2. Derives(Derived \ {r})
  BY DerivedDerives DEF Derives
<1> QED
  BY <1>1, <1>2 DEF Derived

\* Every link has one place.
LEMMA OnePlace ==
    ASSUME parent \in Trees
    PROVE  \A l \in Links : \E v \in Int :
               /\ <<l, v>> \in Derived
               /\ \A w \in Int : <<l, w>> \in Derived => w = v
<1> DEFINE Has(l, v) == /\ <<l, v>> \in Derived
                        /\ \A w \in Int : <<l, w>> \in Derived => w = v
           S == {l \in Links : \E v \in Int : Has(l, v)}
<1>1. Root \in S
  <2>1. Has(Root, 0)
    <3>1. <<Root, 0>> \in Derived
      BY DerivedDerives DEF Derives
    <3>2. ASSUME NEW w \in Int, w # 0 PROVE <<Root, w>> \notin Derived
      <4>1. <<Root, w>> \in Links \X Int /\ <<Root, w>> # <<Root, 0>>
        BY <3>2, TreeFacts
      <4>2. \A l \in Links \ {Root}, v \in Int : <<Root, w>> # <<l, Origin[l] + v>>
        OBVIOUS
      <4> QED
        BY <4>1, <4>2, DerivedOnly
    <3> QED
      BY <3>1, <3>2
  <2> QED
    BY <2>1, TreeFacts
<1>2. ASSUME NEW l \in Links \ {Root}, parent[l] \in S PROVE l \in S
  <2>1. PICK v \in Int : Has(parent[l], v)
    BY <1>2
  <2>2. Origin[l] + v \in Int /\ <<l, Origin[l] + v>> \in Derived
    BY <2>1, TreeFacts, DerivedDerives DEF Derives
  <2>3. ASSUME NEW w \in Int, w # Origin[l] + v PROVE <<l, w>> \notin Derived
    <3>1. <<l, w>> \in Links \X Int /\ <<l, w>> # <<Root, 0>>
      OBVIOUS
    <3>2. ASSUME NEW k \in Links \ {Root}, NEW u \in Int, <<parent[k], u>> \in Derived
          PROVE  <<l, w>> # <<k, Origin[k] + u>>
      BY <2>1, <2>3, <3>2
    <3> QED
      BY <3>1, <3>2, DerivedOnly
  <2>4. Has(l, Origin[l] + v)
    BY <2>2, <2>3
  <2> QED
    BY <2>2, <2>4
<1> HIDE DEF Has
<1>3. S = Links
  BY <1>1, <1>2, TreeInduction
<1>4. \A l \in Links : \E v \in Int : Has(l, v)
  BY <1>3
<1> QED
  BY <1>4 DEF Has

\* The equation that defines PlaceOf holds of it.
LEMMA PlaceOfEquation ==
    ASSUME parent \in Trees
    PROVE  /\ PlaceOf[Root] = 0
           /\ \A l \in Links : PlaceOf[l] \in Int
           /\ \A l \in Links \ {Root} : PlaceOf[l] = Origin[l] + PlaceOf[parent[l]]
<1> DEFINE At(l) == CHOOSE v \in Int : <<l, v>> \in Derived
           f == [l \in Links |-> At(l)]
           Solves(g) == g = [link \in Links |->
                                IF link = Root THEN 0 ELSE Origin[link] + g[parent[link]]]
<1>1. \A l \in Links : At(l) \in Int /\ <<l, At(l)>> \in Derived
  BY OnePlace
<1>2. \A l \in Links, v \in Int : <<l, v>> \in Derived => v = At(l)
  BY <1>1, OnePlace
<1> HIDE DEF At
<1>3. At(Root) = 0
  <2>1. <<Root, 0>> \in Derived
    BY DerivedDerives DEF Derives
  <2> QED
    BY <1>2, <2>1, TreeFacts
<1>4. \A l \in Links \ {Root} : At(l) = Origin[l] + At(parent[l])
  <2>1. TAKE l \in Links \ {Root}
  <2>2. At(parent[l]) \in Int /\ <<parent[l], At(parent[l])>> \in Derived
    BY <1>1, TreeFacts
  <2>3. <<l, Origin[l] + At(parent[l])>> \in Derived
    BY <2>2, DerivedDerives DEF Derives
  <2> QED
    BY <1>2, <2>2, <2>3, TreeFacts
<1>5. Solves(f)
  BY <1>3, <1>4, TreeFacts
<1>6. PlaceOf = CHOOSE g : Solves(g)
  BY DEF PlaceOf
<1> HIDE DEF Solves, f
<1>7. Solves(PlaceOf)
  BY <1>5, <1>6
<1> USE DEF Solves
<1>8. PlaceOf[Root] = 0 /\ \A l \in Links \ {Root} : PlaceOf[l] = Origin[l] + PlaceOf[parent[l]]
  BY <1>7, TreeFacts
<1>9. \A l \in Links : PlaceOf[l] \in Int
  <2> DEFINE S == {l \in Links : PlaceOf[l] \in Int}
  <2>1. Root \in S /\ \A l \in Links \ {Root} : parent[l] \in S => l \in S
    BY <1>8, TreeFacts
  <2> HIDE DEF S
  <2>2. S = Links
    BY <2>1, TreeInduction DEF S
  <2> QED
    BY <2>2 DEF S
<1> QED
  BY <1>8, <1>9

-----------------------------------------------------------------------------
(* The invariant *)

LoaderTypeOK ==
    /\ parent \in Trees
    /\ config \in Configs
    /\ pc \in {"parse", "fillLeg", "readLinks", "getPose", "getJointNames"} \cup Ended
    /\ leg \in 1 .. LegCount + 1
    /\ pc # "done" => leg \in Legs
    /\ i \in Chain
    /\ pose \in Int
    /\ translation \in [Legs -> [Chain -> Int]]
    /\ joint_names \in Seq(Names)

\* The link listed above a link of a leg.
RefLinkOf(l, c) == IF c > 1 THEN LinksOf(l)[c - 1] ELSE Root

\* setTranslation has been called for the link c of the leg l.
IsSet(l, c) ==
    \/ pc \in {"fillLeg", "readLinks", "getPose"} /\ l < leg
    \/ pc \in {"readLinks", "getPose"} /\ l = leg /\ c > i
    \/ pc \in {"getJointNames", "done"}

\* A translation that is set leads from the link listed above to the link.
SetLeads ==
    \A l \in Legs, c \in Chain : IsSet(l, c) /\ ListsLinks(l) =>
        /\ LinksOf(l)[c] \in Links /\ RefLinkOf(l, c) \in Links
        /\ translation[l][c] = PlaceOf[LinksOf(l)[c]] - PlaceOf[RefLinkOf(l, c)]

\* The pose is what getPose has climbed so far.
PoseIsClimbed ==
    pc = "getPose" /\ ListsLinks(leg) =>
        /\ ref_link = RefLinkOf(leg, i)
        /\ current_parent_name \in Links =>
            /\ LinksOf(leg)[i] \in Links
            /\ pose = PlaceOf[LinksOf(leg)[i]] - PlaceOf[current_parent_name]

\* On the way up from a link of a chain, the link to reach is still above.
RefLinkAhead ==
    pc = "getPose" /\ parsed /\ ListsChain(leg) =>
        /\ current_parent_name \in Links
        /\ i > 1 => ref_link \in Above(current_parent_name)

\* The legs whose joints getJointNames has appended.
LegsNamed == IF pc \in {"getJointNames", "done"} THEN leg - 1 ELSE 0

NamesAppended ==
    /\ pc = "done" => leg = LegCount + 1
    /\ pc \notin {"crashed", "thrown"} =>
        /\ Len(joint_names) = 3 * LegsNamed
        /\ \A l \in 1 .. LegsNamed, c \in 1 .. 3 :
               joint_names[3 * (l - 1) + c] \in NameAt(JointsOf(l), c)

LoaderInv ==
    /\ LoaderTypeOK
    /\ pc = "parse" => leg = 1
    /\ SetLeads
    /\ PoseIsClimbed
    /\ RefLinkAhead
    /\ NamesAppended
    /\ ChainsAreSafe

LEMMA SameTree ==
    ASSUME UNCHANGED <<parent, parsed, config>>
    PROVE  /\ PlaceOf' = PlaceOf
           /\ \A l : LinksOf(l)' = LinksOf(l) /\ JointsOf(l)' = JointsOf(l)
           /\ \A l, k : NameAt(JointsOf(l), k)' = NameAt(JointsOf(l), k)
           /\ \A l : (ListsLinks(l)' <=> ListsLinks(l)) /\ (ListsJoints(l)' <=> ListsJoints(l))
           /\ \A l : ListsChain(l)' <=> ListsChain(l)
           /\ \A l, c : RefLinkOf(l, c)' = RefLinkOf(l, c)
           /\ \A l : Above(l)' = Above(l)
<1>1. PlaceOf' = PlaceOf
  BY DEF PlaceOf
<1>2. \A l : LinksOf(l)' = LinksOf(l) /\ JointsOf(l)' = JointsOf(l)
  BY DEF LinksOf, JointsOf
<1>3. \A l : Above(l)' = Above(l)
  BY DEF Above, GoesUp
<1>4. \A l : (ListsLinks(l)' <=> ListsLinks(l)) /\ (ListsJoints(l)' <=> ListsJoints(l))
  BY <1>2 DEF ListsLinks, ListsJoints
<1>5. \A l : ListsChain(l)' <=> ListsChain(l)
  BY <1>2, <1>3, <1>4 DEF ListsChain
<1>6. \A l, c : RefLinkOf(l, c)' = RefLinkOf(l, c)
  BY <1>2 DEF RefLinkOf
<1>7. \A l, k : NameAt(JointsOf(l), k)' = NameAt(JointsOf(l), k)
  BY <1>2 DEF NameAt
<1> QED
  BY <1>1, <1>2, <1>3, <1>4, <1>5, <1>6, <1>7

LEMMA LoaderInit == Init => LoaderInv
<1> SUFFICES ASSUME Init PROVE LoaderInv
  OBVIOUS
<1>1. LoaderTypeOK
  <2>1. translation \in [Legs -> [Chain -> Int]]
    BY DEF Init
  <2> QED
    BY <2>1, LoaderAssumption DEF Init, LoaderTypeOK, Legs, Chain
<1>2. NamesAppended
  BY DEF Init, NamesAppended, LegsNamed
<1> QED
  BY <1>1, <1>2
     DEF Init, LoaderInv, SetLeads, IsSet, PoseIsClimbed, RefLinkAhead, ChainsAreSafe

LEMMA LoadFromStringPreserves == ASSUME LoaderInv, LoadFromString PROVE LoaderInv'
<1>1. UNCHANGED <<parent, parsed, config>> /\ leg = 1 /\ pc' = "fillLeg"
  BY DEF LoadFromString, LoaderInv
<1>2. LoaderTypeOK'
  BY <1>1, SameTree DEF LoadFromString, LoaderInv, LoaderTypeOK
<1>3. SetLeads'
  BY <1>1 DEF LoadFromString, SetLeads, IsSet, Legs
<1>4. NamesAppended'
  BY DEF LoadFromString, LoaderInv, NamesAppended, LegsNamed
<1> QED
  BY <1>1, <1>2, <1>3, <1>4
     DEF LoaderInv, PoseIsClimbed, RefLinkAhead, ChainsAreSafe

LEMMA FillLegPreserves == ASSUME LoaderInv, FillLeg PROVE LoaderInv'
<1>1. /\ UNCHANGED <<parent, parsed, config, leg, translation>>
      /\ pc = "fillLeg" /\ pc' \in {"thrown", "readLinks"} /\ i' = 4 /\ 4 \in Chain
  BY DEF FillLeg, Chain
<1>2. LoaderTypeOK'
  BY <1>1, SameTree DEF FillLeg, LoaderInv, LoaderTypeOK, Ended
<1>3. NamesAppended'
  BY DEF FillLeg, LoaderInv, NamesAppended, LegsNamed
<1>4. SetLeads'
  <2>1. ASSUME NEW l \in Legs, NEW c \in Chain, IsSet(l, c)' PROVE IsSet(l, c)
    BY <1>1, <2>1 DEF IsSet, Chain
  <2> QED
    BY <1>1, <2>1, SameTree DEF LoaderInv, SetLeads
<1> QED
  BY <1>1, <1>2, <1>3, <1>4 DEF LoaderInv, PoseIsClimbed, RefLinkAhead, ChainsAreSafe

\* Of a list that is long enough the names read are those listed.
LEMMA ReadLinksPreserves == ASSUME LoaderInv, ReadLinks PROVE LoaderInv'
<1>1. /\ UNCHANGED <<parent, parsed, config, leg, i, translation, joint_names>>
      /\ pc = "readLinks" /\ pc' = "getPose" /\ pose' = 0
      /\ parent \in Trees /\ leg \in Legs /\ i \in Chain
  BY DEF ReadLinks, LoaderInv, LoaderTypeOK
<1>2. LoaderTypeOK'
  BY <1>1, SameTree DEF LoaderInv, LoaderTypeOK
<1>3. NamesAppended'
  BY <1>1 DEF LoaderInv, NamesAppended, LegsNamed
<1>4. SetLeads'
  BY <1>1, SameTree DEF LoaderInv, SetLeads, IsSet
<1>5. ASSUME ListsLinks(leg)
      PROVE  ref_link' = RefLinkOf(leg, i) /\ current_parent_name' = LinksOf(leg)[i]
  <2>1. i \in DOMAIN LinksOf(leg) /\ (i > 1 => i - 1 \in DOMAIN LinksOf(leg))
    BY <1>1, <1>5 DEF ListsLinks, Chain
  <2> QED
    BY <1>1, <2>1 DEF ReadLinks, RefLink, NameAt, RefLinkOf
<1>6. PoseIsClimbed'
  <2>1. LinksOf(leg)[i] \in Links => 0 = PlaceOf[LinksOf(leg)[i]] - PlaceOf[LinksOf(leg)[i]]
    BY <1>1, PlaceOfEquation
  <2> QED
    BY <1>1, <1>5, <2>1, SameTree DEF PoseIsClimbed
<1>7. RefLinkAhead'
  <2>1. ASSUME ListsChain(leg)
        PROVE  /\ LinksOf(leg)[i] \in Links
               /\ i > 1 => RefLinkOf(leg, i) \in Above(LinksOf(leg)[i])
    <3>1. i > 1 => i \in 2 .. 4
      BY <1>1 DEF Chain
    <3> QED
      BY <1>1, <2>1, <3>1 DEF ListsChain, RefLinkOf
  <2>2. ListsChain(leg) => ListsLinks(leg)
    BY DEF ListsChain
  <2> QED
    BY <1>1, <1>5, <2>1, <2>2, SameTree DEF RefLinkAhead
<1> QED
  BY <1>1, <1>2, <1>3, <1>4, <1>6, <1>7 DEF LoaderInv, ChainsAreSafe

LEMMA ClimbPreserves == ASSUME LoaderInv, Climb PROVE LoaderInv'
<1>1. /\ UNCHANGED <<parent, parsed, config, pc, leg, i, ref_link, translation, joint_names>>
      /\ pc = "getPose" /\ parent \in Trees /\ pose \in Int /\ i \in Chain /\ leg \in Legs
      /\ ref_link # current_parent_name
      /\ current_parent_name \in Links \ {Root}
      /\ pose' = pose + Origin[current_parent_name]
      /\ current_parent_name' = parent[current_parent_name]
  BY DEF Climb, Known, StepUp, LoaderInv, LoaderTypeOK
<1>2. parent[current_parent_name] \in Links /\ Origin[current_parent_name] \in Int
  BY <1>1, TreeFacts
<1>3. LoaderTypeOK'
  BY <1>1, <1>2, SameTree DEF LoaderInv, LoaderTypeOK
<1>4. SetLeads'
  BY <1>1, SameTree DEF LoaderInv, SetLeads, IsSet
<1>5. PoseIsClimbed'
  <2> SUFFICES ASSUME ListsLinks(leg)
               PROVE  /\ ref_link = RefLinkOf(leg, i)
                      /\ LinksOf(leg)[i] \in Links
                      /\ pose + Origin[current_parent_name]
                           = PlaceOf[LinksOf(leg)[i]] - PlaceOf[parent[current_parent_name]]
    BY <1>1, SameTree DEF PoseIsClimbed
  <2>1. /\ ref_link = RefLinkOf(leg, i) /\ LinksOf(leg)[i] \in Links
        /\ pose = PlaceOf[LinksOf(leg)[i]] - PlaceOf[current_parent_name]
    BY <1>1 DEF LoaderInv, PoseIsClimbed
  <2>2. PlaceOf[current_parent_name]
          = Origin[current_parent_name] + PlaceOf[parent[current_parent_name]]
    BY <1>1, PlaceOfEquation
  <2>3. /\ PlaceOf[LinksOf(leg)[i]] \in Int
        /\ PlaceOf[parent[current_parent_name]] \in Int
    BY <1>1, <1>2, <2>1, PlaceOfEquation
  <2>4. pose + Origin[current_parent_name]
          = PlaceOf[LinksOf(leg)[i]] - PlaceOf[parent[current_parent_name]]
    BY <1>1, <1>2, <2>1, <2>2, <2>3
  <2> QED
    BY <2>1, <2>4
<1>6. RefLinkAhead'
  <2>1. ASSUME parsed, ListsChain(leg), i > 1
        PROVE  ref_link \in Above(parent[current_parent_name])
    BY <1>1, <2>1, AboveParent DEF LoaderInv, RefLinkAhead
  <2> QED
    BY <1>1, <1>2, <2>1, SameTree DEF RefLinkAhead
<1>7. NamesAppended'
  BY <1>1 DEF LoaderInv, NamesAppended, LegsNamed
<1> QED
  BY <1>1, <1>3, <1>4, <1>5, <1>6, <1>7 DEF LoaderInv, ChainsAreSafe

LEMMA FollowNullPreserves == ASSUME LoaderInv, FollowNull PROVE LoaderInv'
<1>1. /\ UNCHANGED <<parent, parsed, config, leg, i, pose, translation, joint_names>>
      /\ pc = "getPose" /\ pc' = "crashed" /\ parent \in Trees /\ i \in Chain /\ leg \in Legs
  BY DEF FollowNull, LoaderInv, LoaderTypeOK
<1>2. LoaderTypeOK'
  BY <1>1, SameTree DEF LoaderInv, LoaderTypeOK, Ended
<1>3. ~parsed \/ ~ListsChain(leg)
  <2>1. SUFFICES ASSUME parsed, ListsChain(leg) PROVE FALSE
    OBVIOUS
  <2>2. current_parent_name \in Links /\ (i > 1 => ref_link \in Above(current_parent_name))
    BY <1>1, <2>1 DEF LoaderInv, RefLinkAhead
  <2>3. ref_link = RefLinkOf(leg, i) /\ (~(i > 1) => ref_link = Root)
    BY <1>1, <2>1 DEF LoaderInv, PoseIsClimbed, ListsChain, RefLinkOf
  <2>4. ref_link \in Links
    BY <2>2, <2>3, TreeFacts, <1>1 DEF Above
  <2>5. current_parent_name = Root /\ ref_link # Root
    BY <2>1, <2>2, <2>4 DEF FollowNull, Known
  <2> QED
    BY <1>1, <2>2, <2>3, <2>5, AboveRoot
<1>4. ChainsAreSafe'
  BY <1>1, <1>3, SameTree DEF ChainsAreSafe
<1> QED
  BY <1>1, <1>2, <1>4
     DEF LoaderInv, SetLeads, IsSet, PoseIsClimbed, RefLinkAhead, NamesAppended

LEMMA SetTranslationPreserves == ASSUME LoaderInv, SetTranslation PROVE LoaderInv'
<1>1. /\ UNCHANGED <<parent, parsed, config, pose, joint_names>>
      /\ pc = "getPose" /\ parent \in Trees /\ pose \in Int /\ i \in Chain /\ leg \in Legs
      /\ translation \in [Legs -> [Chain -> Int]]
      /\ translation' = [translation EXCEPT ![leg][i] = pose]
      /\ ref_link = current_parent_name /\ ref_link \in Links
  BY DEF SetTranslation, Known, LoaderInv, LoaderTypeOK
<1>2. /\ translation' \in [Legs -> [Chain -> Int]]
      /\ translation'[leg][i] = pose
      /\ \A l \in Legs, c \in Chain :
             l # leg \/ c # i => translation'[l][c] = translation[l][c]
  BY <1>1
<1>3. LegCount \in Nat \ {0}
  BY LoaderAssumption
<1>4. \/ /\ i > 1 /\ i' = i - 1 /\ pc' = "readLinks" /\ leg' = leg
      \/ /\ i = 1 /\ i' = i /\ leg < LegCount /\ leg' = leg + 1 /\ pc' = "fillLeg"
      \/ /\ i = 1 /\ i' = i /\ leg = LegCount /\ leg' = 1 /\ pc' = "getJointNames"
  BY <1>1, <1>3 DEF SetTranslation, NextIndex, Legs
<1>5. LoaderTypeOK'
  <2>1. i' \in Chain
    BY <1>1, <1>4 DEF Chain
  <2>2. leg' \in Legs /\ leg' \in 1 .. LegCount + 1
    BY <1>1, <1>3, <1>4 DEF Legs
  <2> QED
    BY <1>1, <1>2, <1>4, <2>1, <2>2, SameTree DEF LoaderInv, LoaderTypeOK
\* The translation that is set now leads from the link listed above.
<1>6. SetLeads'
  <2>1. ListsLinks(leg) =>
            /\ LinksOf(leg)[i] \in Links /\ RefLinkOf(leg, i) \in Links
            /\ pose = PlaceOf[LinksOf(leg)[i]] - PlaceOf[RefLinkOf(leg, i)]
    BY <1>1 DEF LoaderInv, PoseIsClimbed
  <2>2. ASSUME NEW l \in Legs, NEW c \in Chain, IsSet(l, c)'
        PROVE  (l = leg /\ c = i) \/ (IsSet(l, c) /\ (l # leg \/ c # i))
    <3>1. l \in Int /\ l >= 1 /\ l <= LegCount /\ leg \in Int /\ c \in 1 .. 4 /\ i \in 1 .. 4
      BY <1>1, <1>3 DEF Legs, Chain
    <3>2. CASE pc' = "readLinks"
      BY ONLY <1>1, <1>4, <2>2, <3>1, <3>2 DEF IsSet
    <3>3. CASE pc' = "fillLeg"
      BY ONLY <1>1, <1>4, <2>2, <3>1, <3>3 DEF IsSet
    <3>4. CASE pc' = "getJointNames"
      BY ONLY <1>1, <1>3, <1>4, <2>2, <3>1, <3>4 DEF IsSet
    <3> QED
      BY ONLY <1>4, <3>2, <3>3, <3>4
  <2>3. ASSUME NEW l \in Legs, NEW c \in Chain, IsSet(l, c)', ListsLinks(l)
        PROVE  /\ LinksOf(l)[c] \in Links /\ RefLinkOf(l, c) \in Links
               /\ translation'[l][c] = PlaceOf[LinksOf(l)[c]] - PlaceOf[RefLinkOf(l, c)]
    <3>1. CASE l = leg /\ c = i
      BY <1>2, <2>1, <2>3, <3>1
    <3>2. CASE IsSet(l, c) /\ (l # leg \/ c # i)
      BY <1>2, <2>3, <3>2 DEF LoaderInv, SetLeads
    <3> QED
      BY <2>2, <2>3, <3>1, <3>2
  <2> QED
    BY <1>1, <2>3, SameTree DEF SetLeads
<1>7. PoseIsClimbed' /\ RefLinkAhead'
  BY <1>4 DEF PoseIsClimbed, RefLinkAhead
<1>8. NamesAppended'
  <2>1. LegsNamed = 0 /\ Len(joint_names) = 3 * 0
    BY <1>1 DEF LoaderInv, NamesAppended, LegsNamed
  <2>2. LegsNamed' = 0
    BY <1>4 DEF LegsNamed
  <2>3. pc' # "done"
    BY <1>4
  <2> QED
    BY <1>1, <2>1, <2>2, <2>3 DEF NamesAppended
<1> QED
  BY <1>4, <1>5, <1>6, <1>7, <1>8 DEF LoaderInv, ChainsAreSafe

\* The three names of a leg follow those of the legs before it.
LEMMA GetJointNamesPreserves == ASSUME LoaderInv, GetJointNames PROVE LoaderInv'
<1>1. /\ UNCHANGED <<parent, parsed, config, i, current_parent_name, pose, translation>>
      /\ pc = "getJointNames" /\ leg \in Legs /\ joint_names \in Seq(Names)
      /\ LegCount \in Nat \ {0}
  BY LoaderAssumption DEF GetJointNames, LoaderInv, LoaderTypeOK
<1>2. \A l \in Legs, c \in Chain : IsSet(l, c)' => IsSet(l, c)
  BY <1>1 DEF IsSet
<1>3. SetLeads'
  BY <1>1, <1>2, SameTree DEF LoaderInv, SetLeads
<1>4. CASE JointsOf(leg) = NoParameter
  <2>1. pc' = "thrown" /\ leg' = leg /\ joint_names' = joint_names
    BY <1>4 DEF GetJointNames
  <2>2. LoaderTypeOK'
    BY <1>1, <2>1, SameTree DEF LoaderInv, LoaderTypeOK, Ended
  <2> QED
    BY <1>3, <2>1, <2>2
       DEF LoaderInv, PoseIsClimbed, RefLinkAhead, NamesAppended, ChainsAreSafe
<1>5. CASE JointsOf(leg) # NoParameter
  <2>1. /\ leg' = leg + 1
        /\ pc' = IF leg < LegCount THEN "getJointNames" ELSE "done"
    BY <1>1, <1>5 DEF GetJointNames
  <2>2. PICK taken \in NamesTaken : joint_names' = joint_names \o taken
    BY <1>5 DEF GetJointNames
  <2>3. /\ taken \in Seq(Names) /\ Len(taken) = 3
        /\ \A c \in 1 .. 3 : taken[c] \in NameAt(JointsOf(leg), c)
    <3>1. taken \in [1 .. 3 -> Names] /\ \A c \in 1 .. 3 : taken[c] \in NameAt(JointsOf(leg), c)
      BY DEF NamesTaken
    <3>2. taken \in Seq(Names)
      BY ONLY <3>1, SeqDef
    <3> QED
      BY <3>1, <3>2, LenProperties
  <2>4. /\ joint_names' \in Seq(Names) /\ Len(joint_names) \in Nat
        /\ Len(joint_names') = Len(joint_names) + 3
        /\ \A k \in 1 .. Len(joint_names) + 3 :
               joint_names'[k] = IF k <= Len(joint_names) THEN joint_names[k]
                                 ELSE taken[k - Len(joint_names)]
    <3>1. /\ joint_names \o taken \in Seq(Names)
          /\ Len(joint_names \o taken) = Len(joint_names) + Len(taken)
          /\ \A k \in 1 .. Len(joint_names) + Len(taken) :
                 (joint_names \o taken)[k] =
                     IF k <= Len(joint_names) THEN joint_names[k]
                     ELSE taken[k - Len(joint_names)]
      BY ONLY <1>1, <2>3, ConcatProperties
    <3>2. Len(joint_names) \in Nat
      BY ONLY <1>1, LenProperties
    <3> QED
      BY ONLY <2>2, <2>3, <3>1, <3>2
  <2>5. LoaderTypeOK'
    <3>1. leg' \in 1 .. LegCount + 1 /\ (pc' # "done" => leg' \in Legs)
      BY <1>1, <2>1 DEF Legs
    <3> QED
      BY <1>1, <2>1, <2>4, <3>1, SameTree DEF LoaderInv, LoaderTypeOK, Ended
  <2>6. NamesAppended'
    <3>1. LegsNamed = leg - 1 /\ LegsNamed' = leg /\ (pc' = "done" => leg' = LegCount + 1)
      BY <1>1, <2>1 DEF LegsNamed, Legs
    <3>2. /\ Len(joint_names) = 3 * (leg - 1)
          /\ \A l \in 1 .. leg - 1, c \in 1 .. 3 :
                 joint_names[3 * (l - 1) + c] \in NameAt(JointsOf(l), c)
      BY <1>1, <3>1 DEF LoaderInv, NamesAppended
    <3>3. Len(joint_names') = 3 * leg
      BY <1>1, <2>4, <3>2 DEF Legs
    <3>4. ASSUME NEW l \in 1 .. leg, NEW c \in 1 .. 3
          PROVE  joint_names'[3 * (l - 1) + c] \in NameAt(JointsOf(l), c)
      <4> DEFINE k == 3 * (l - 1) + c
      <4>1. k \in 1 .. Len(joint_names) + 3
        BY <1>1, <3>2 DEF Legs
      <4>2. CASE l < leg
        <5>1. k <= Len(joint_names) /\ l \in 1 .. leg - 1
          BY <1>1, <3>2, <4>2 DEF Legs
        <5> HIDE DEF k
        <5>2. joint_names'[k] = joint_names[k]
          BY <2>4, <4>1, <5>1
        <5> QED
          BY <3>2, <5>1, <5>2 DEF k
      <4>3. CASE l = leg
        <5>1. ~(k <= Len(joint_names)) /\ k - Len(joint_names) = c
          BY <1>1, <3>2, <4>3 DEF Legs
        <5> HIDE DEF k
        <5>2. joint_names'[k] = taken[c]
          BY <2>4, <4>1, <5>1
        <5> QED
          BY <2>3, <4>3, <5>2 DEF k
      <4> QED
        BY <1>1, <4>2, <4>3 DEF Legs
    <3>5. \A l \in 1 .. LegsNamed', c \in 1 .. 3 :
              joint_names'[3 * (l - 1) + c] \in NameAt(JointsOf(l), c)'
      BY <1>1, <3>1, <3>4, SameTree
    <3> QED
      BY <3>1, <3>3, <3>5 DEF NamesAppended
  <2> QED
    BY <1>1, <1>3, <2>1, <2>5, <2>6
       DEF LoaderInv, PoseIsClimbed, RefLinkAhead, ChainsAreSafe
<1> QED
  BY <1>4, <1>5

\* A leg that lists a chain and three joints is read to the end of no list.
LEMMA ReadBeyondPreserves == ASSUME LoaderInv, ReadBeyond PROVE LoaderInv'
<1>1. /\ UNCHANGED <<parent, parsed, config, leg, i, pose, translation, joint_names>>
      /\ pc \in {"readLinks", "getJointNames"} /\ pc' = "crashed" /\ i \in Chain /\ leg \in Legs
  BY DEF ReadBeyond, LoaderInv, LoaderTypeOK
<1>2. LoaderTypeOK'
  BY <1>1, SameTree DEF LoaderInv, LoaderTypeOK, Ended
<1>3. ~ListsChain(leg) \/ ~ListsJoints(leg)
  BY DEF ReadBeyond, ListsChain, ListsLinks, ListsJoints
<1>4. ChainsAreSafe'
  BY <1>1, <1>3, SameTree DEF ChainsAreSafe
<1> QED
  BY <1>1, <1>2, <1>4
     DEF LoaderInv, SetLeads, IsSet, PoseIsClimbed, RefLinkAhead, NamesAppended

LEMMA LoaderNext == LoaderInv /\ [Next]_loaderVars => LoaderInv'
<1> SUFFICES ASSUME LoaderInv, [Next]_loaderVars PROVE LoaderInv'
  OBVIOUS
<1>1. CASE UNCHANGED loaderVars
  <2>1. UNCHANGED <<parent, parsed, config>>
    BY <1>1 DEF loaderVars
  <2> QED
    BY <1>1, <2>1, SameTree
       DEF loaderVars, LoaderInv, LoaderTypeOK, SetLeads, IsSet, PoseIsClimbed,
           RefLinkAhead, NamesAppended, LegsNamed, ChainsAreSafe
<1> QED
  BY <1>1, LoadFromStringPreserves, FillLegPreserves, ReadLinksPreserves, ClimbPreserves,
     FollowNullPreserves, SetTranslationPreserves, GetJointNamesPreserves,
     ReadBeyondPreserves DEF Next

\* The invariant holds for every tree, every file and any number of legs.
THEOREM LoaderInvariance == Spec => []LoaderInv
BY LoaderInit, LoaderNext, PTL DEF Spec

\* The translations of a leg add up to where the URDF places its links, for
\* every tree and every list of four links that getPose gets to the end of.
THEOREM LoadedTranslationsLead == Spec => []TranslationsLeadToLinks
<1>1. LoaderInv => TranslationsLeadToLinks
  <2> SUFFICES ASSUME LoaderInv, pc = "done", NEW l \in Legs, ListsLinks(l)
               PROVE  LET t == translation[l]
                          place(c) == PlaceOf[LinksOf(l)[c]]
                      IN  /\ t[1] = place(1)
                          /\ t[1] + t[2] = place(2)
                          /\ t[1] + t[2] + t[3] = place(3)
                          /\ t[1] + t[2] + t[3] + t[4] = place(4)
    BY DEF TranslationsLeadToLinks
  <2> DEFINE t == translation[l]
             place(c) == PlaceOf[LinksOf(l)[c]]
  <2>1. parent \in Trees
    BY DEF LoaderInv, LoaderTypeOK
  <2>2. \A c \in Chain :
            /\ LinksOf(l)[c] \in Links
            /\ t[c] = place(c) - PlaceOf[RefLinkOf(l, c)]
    BY DEF LoaderInv, SetLeads, IsSet
  <2>3. place(1) \in Int /\ place(2) \in Int /\ place(3) \in Int /\ place(4) \in Int
    BY <2>1, <2>2, PlaceOfEquation DEF Chain
  <2>4. /\ RefLinkOf(l, 1) = Root /\ RefLinkOf(l, 2) = LinksOf(l)[1]
        /\ RefLinkOf(l, 3) = LinksOf(l)[2] /\ RefLinkOf(l, 4) = LinksOf(l)[3]
    BY DEF RefLinkOf
  <2>5. PlaceOf[Root] = 0
    BY <2>1, PlaceOfEquation
  <2>6. /\ t[1] = place(1) - 0 /\ t[2] = place(2) - place(1)
        /\ t[3] = place(3) - place(2) /\ t[4] = place(4) - place(3)
    BY <2>2, <2>4, <2>5 DEF Chain
  <2> HIDE DEF t, place
  <2>7. /\ t[1] = place(1)
        /\ t[1] + t[2] = place(2)
        /\ t[1] + t[2] + t[3] = place(3)
        /\ t[1] + t[2] + t[3] + t[4] = place(4)
    BY <2>3, <2>6
  <2> QED
    BY <2>7 DEF t, place
<1> QED
  BY <1>1, LoaderInvariance, PTL

\* Three names a leg, each at the index of the translation of its joint, for
\* any number of legs and whatever else is listed.
THEOREM LoadedNamesMatch == Spec => []NamesMatchChains
<1>1. LoaderInv => NamesMatchChains
  <2> SUFFICES ASSUME LoaderInv, pc = "done"
               PROVE  /\ Len(joint_names) = 3 * LegCount
                      /\ \A l \in Legs, c \in 1 .. 3 :
                             ListsLinks(l) /\ ListsJoints(l) /\ JointsOf(l)[c] = LinksOf(l)[c] =>
                                 joint_names[3 * (l - 1) + c] = LinksOf(l)[c]
    BY DEF NamesMatchChains
  <2>1. LegsNamed = LegCount
    BY LoaderAssumption DEF LoaderInv, NamesAppended, LegsNamed
  <2>2. /\ Len(joint_names) = 3 * LegCount
        /\ \A l \in Legs, c \in 1 .. 3 :
               joint_names[3 * (l - 1) + c] \in NameAt(JointsOf(l), c)
    BY <2>1 DEF LoaderInv, NamesAppended, Legs
  <2>3. \A l \in Legs, c \in 1 .. 3 : ListsJoints(l) => NameAt(JointsOf(l), c) = {JointsOf(l)[c]}
    BY DEF ListsJoints, NameAt
  <2> QED
    BY <2>2, <2>3
<1> QED
  BY <1>1, LoaderInvariance, PTL

\* A leg whose links are a chain of the tree, and that lists its three joints,
\* is read without following a null pointer or the end of a list.
THEOREM ChainsNeverCrash == Spec => []ChainsAreSafe
<1>1. LoaderInv => ChainsAreSafe
  BY DEF LoaderInv
<1> QED
  BY <1>1, LoaderInvariance, PTL

-----------------------------------------------------------------------------
(* Loading ends: what each step brings closer *)

\* No link is above its own parent.
LEMMA NotAboveParent ==
    ASSUME parent \in Trees, NEW l \in Links \ {Root}
    PROVE  l \notin Above(parent[l])
<1> SUFFICES ASSUME l \in Above(parent[l]) PROVE FALSE
  OBVIOUS
<1> DEFINE C == {x \in Links \ {Root} : l \in Above(x)}
<1>1. l \in C
  BY DEF Above
<1>2. ASSUME NEW x \in C PROVE parent[x] \in C
  <2>1. l \in Above(parent[x])
    BY AboveParent
  <2>2. parent[x] # Root
    BY <2>1, AboveRoot
  <2> QED
    BY <2>1, <2>2, TreeFacts
<1> QED
  BY <1>1, <1>2, TreeFacts

\* A step up leaves fewer links above.
LEMMA ParentHasFewerAbove ==
    ASSUME parent \in Trees, NEW l \in Links \ {Root}
    PROVE  Above(parent[l]) \subseteq Above(l) \ {l}
<1>1. ASSUME NEW a \in Above(parent[l]) PROVE a \in Above(l)
  BY <1>1 DEF Above, GoesUp
<1> QED
  BY <1>1, NotAboveParent

\* Whatever the tree, there is no endless way up.
LEMMA ClimbIsFinite ==
    ASSUME parent \in Trees
    PROVE  ~ \E way \in [Nat -> Links \ {Root}] : \A n \in Nat : way[n + 1] = parent[way[n]]
<1> SUFFICES ASSUME NEW way \in [Nat -> Links \ {Root}],
                    \A n \in Nat : way[n + 1] = parent[way[n]]
             PROVE  FALSE
  OBVIOUS
<1> DEFINE S == {way[n] : n \in Nat}
<1>1. S \in SUBSET (Links \ {Root}) /\ way[0] \in S
  OBVIOUS
<1>2. ASSUME NEW l \in S PROVE parent[l] \in S
  <2>1. PICK n \in Nat : l = way[n]
    OBVIOUS
  <2>2. n + 1 \in Nat /\ parent[l] = way[n + 1]
    BY <2>1
  <2> QED
    BY <2>2
<1> HIDE DEF S
<1> QED
  BY <1>1, <1>2, TreeFacts

Stage ==
    IF pc = "parse" THEN 0
    ELSE IF pc \in {"fillLeg", "readLinks", "getPose"} THEN 1
    ELSE IF pc = "getJointNames" THEN 2
    ELSE 3

\* The stages, in each the legs, in each leg its links from the foot up, and
\* from each link the way up the tree.
GoesForward ==
    \/ Stage' > Stage
    \/ /\ Stage' = Stage
       /\ leg' > leg
    \/ /\ leg' = leg
       /\ pc = "fillLeg" /\ pc' = "readLinks"
    \/ /\ leg' = leg /\ i' = i
       /\ pc = "readLinks" /\ pc' = "getPose"
    \/ /\ leg' = leg /\ i' < i
       /\ pc = "getPose" /\ pc' = "readLinks"
    \/ /\ leg' = leg /\ i' = i
       /\ pc = "getPose" /\ pc' = "getPose"
       /\ current_parent_name' = parent[current_parent_name]
       /\ Above(current_parent_name)' \subseteq
              Above(current_parent_name) \ {current_parent_name}

\* No loop of the loader ever turns in place or back, whatever tree and list it
\* is given: with ClimbIsFinite, what LoadEnds owes to the code; that a program
\* which may go on does go on is the rest.
THEOREM LoaderGoesForward == Spec => [][GoesForward]_loaderVars
<1>1. LoaderInv /\ [Next]_loaderVars => [GoesForward]_loaderVars
  <2> SUFFICES ASSUME LoaderInv, Next PROVE GoesForward
    OBVIOUS
  <2>1. leg \in Nat /\ i \in Chain /\ parent \in Trees
    BY DEF LoaderInv, LoaderTypeOK
  <2>2. CASE LoadFromString
    BY <2>2 DEF LoadFromString, GoesForward, Stage
  <2>3. CASE FillLeg
    BY <2>3 DEF FillLeg, GoesForward, Stage
  <2>8. CASE ReadLinks
    BY <2>8 DEF ReadLinks, GoesForward
  <2>9. CASE ReadBeyond
    BY <2>9 DEF ReadBeyond, GoesForward, Stage
  <2>4. CASE Climb
    <3>1. /\ current_parent_name \in Links \ {Root}
          /\ current_parent_name' = parent[current_parent_name]
          /\ UNCHANGED <<parent, pc, leg, i>> /\ pc = "getPose"
      BY <2>4 DEF Climb, Known
    <3>2. Above(parent[current_parent_name]) \subseteq
              Above(current_parent_name) \ {current_parent_name}
      BY <2>1, <3>1, ParentHasFewerAbove
    <3>3. Above(current_parent_name)' = Above(parent[current_parent_name])
      BY <3>1 DEF Above, GoesUp
    <3> QED
      BY <3>1, <3>2, <3>3 DEF GoesForward
  <2>5. CASE FollowNull
    BY <2>5 DEF FollowNull, GoesForward, Stage
  <2>6. CASE SetTranslation
    <3>1. CASE i > 1
      BY <2>1, <2>6, <3>1 DEF SetTranslation, NextIndex, GoesForward, Chain
    <3>2. CASE i = 1
      BY <2>1, <2>6, <3>2 DEF SetTranslation, GoesForward, Stage
    <3> QED
      BY <2>1, <3>1, <3>2 DEF Chain
  <2>7. CASE GetJointNames
    BY <2>1, <2>7 DEF GetJointNames, GoesForward, Stage
  <2> QED
    BY <2>2, <2>3, <2>4, <2>5, <2>6, <2>7, <2>8, <2>9 DEF Next
<1> QED
  BY <1>1, LoaderInvariance, PTL DEF Spec
=============================================================================
