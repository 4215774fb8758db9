-------------------------- MODULE RootfsBuild_proofs --------------------------
(***************************************************************************)
(* Proofs about RootfsBuild for every package index and every list of      *)
(* wanted packages, and for every number of builds, interrupted anywhere.  *)
(***************************************************************************)
EXTENDS RootfsBuild, WellFoundedInduction, SequenceTheorems, TLAPS

(* The parts of the state a choice depends on, and what the loop of resolve keeps of them. *)
ResolveInv ==
  /\ index \in Indexes \cup {NoIndex}
  /\ wanted \in Seq(Names) /\ groups \in Seq(Seq(Names)) /\ selected \subseteq Names
  /\ SelectionClosed

(* The tree holds nothing but the selection while it is filled, and all of it from then on,
   although the build before this one may have left another tree, half unpacked. *)
TreeInv ==
  /\ step = "unpack" => tree.unpacked \subseteq selected
  /\ step = "configure" => tree.unpacked = selected
  /\ step \in {"image", "mke2fs"} => tree.unpacked = selected /\ tree.status = selected
  /\ DOMAIN tree = {"unpacked", "status"} /\ DOMAIN image = {"packages", "status", "whole"}
  /\ step = "mke2fs" => ~image.whole
  /\ ImageIsSelection
-------------------------------------------------------------------------------
(* A list that has an element of S has a first one, and FirstIn is it. *)
LEMMA FirstIsIn ==
  ASSUME NEW list \in Seq(Names), NEW S, ToSet(list) \cap S # {}
  PROVE  FirstIn(list, S) \in S /\ FirstIn(list, S) \in ToSet(list)
<1>. DEFINE T == {k \in DOMAIN list : list[k] \in S}
<1>1. T \subseteq Nat /\ T # {}
  BY DEF ToSet
<1>2. PICK k \in T : \A j \in T : ~(<<j, k>> \in OpToRel(<, Nat))
  <2>. HIDE DEF T
  <2>. QED BY <1>1, NatLessThanWellFounded, WFMin
<1>3. \A j \in T : ~(j < k)
  BY <1>1, <1>2 DEF OpToRel
<1>4. k \in DOMAIN list /\ list[k] \in S /\ \A j \in 1..(k - 1) : list[j] \notin S
  BY <1>3
<1>. QED BY <1>4 DEF FirstIn, ToSet

(* What the index says of a name. *)
LEMMA IndexType ==
  ASSUME index \in Indexes \cup {NoIndex}
  PROVE  /\ index.packages \subseteq Names
         /\ \A n \in Names : index.provides[n] \in Seq(Names) /\ index.deps[n] \in Seq(Seq(Names))
         /\ \A n \in Virtual : index.provides[n][1] \in index.packages
<1>1. CASE index \in Indexes
  <2>1. /\ index.packages \subseteq Names
        /\ \A n \in Names : index.provides[n] \in Seq(Names) /\ index.deps[n] \in Seq(Seq(Names))
    BY <1>1, RootfsAssumption DEF Index
  <2>2. ASSUME NEW n \in Virtual PROVE index.provides[n][1] \in index.packages
    <3>1. n \in Names /\ index.provides[n] \in Seq(Names) /\ index.provides[n] # <<>>
      BY <2>1 DEF Virtual
    <3>2. 1 \in DOMAIN index.provides[n]
      BY <3>1
    <3>. QED BY <1>1, <3>1, <3>2, RootfsAssumption
  <2>. QED BY <2>1, <2>2
<1>2. CASE index = NoIndex
  BY <1>2 DEF NoIndex, Virtual
<1>. QED BY <1>1, <1>2

(* A choice is a package of the index, also when only a virtual name was there to choose. *)
LEMMA ChoiceIsPackage ==
  ASSUME index \in Indexes \cup {NoIndex}, NEW g \in Seq(Names), Choosable(g)
  PROVE  Choice(g) \in index.packages
<1>1. CASE ToSet(g) \cap index.packages # {}
  BY <1>1, FirstIsIn DEF Choice, PackageFor, Real
<1>2. CASE ToSet(g) \cap index.packages = {}
  <2>1. ToSet(g) \cap Virtual # {}
    BY <1>2 DEF Choosable
  <2>2. FirstIn(g, Virtual) \in Virtual
    BY <2>1, FirstIsIn
  <2>3. PackageFor(FirstIn(g, Virtual)) \in index.packages
    BY <2>2, IndexType DEF PackageFor, Real
  <2>. QED BY <1>2, <2>3 DEF Choice
<1>. QED BY <1>1, <1>2
-------------------------------------------------------------------------------
(* Lists and their elements. *)
LEMMA TailElements ==
  ASSUME NEW S, NEW list \in Seq(S), list # <<>>
  PROVE  /\ Head(list) \in S /\ Tail(list) \in Seq(S)
         /\ ToSet(list) = ToSet(Tail(list)) \cup {Head(list)}
<1>1. Head(list) \in S /\ Tail(list) \in Seq(S) /\ Len(list) > 0
  OBVIOUS
<1>2. \A k \in 1..Len(list) : list[k] = IF k = 1 THEN Head(list) ELSE Tail(list)[k - 1]
  BY <1>1
<1>3. DOMAIN Tail(list) = 1..(Len(list) - 1) /\ DOMAIN list = 1..Len(list)
  BY <1>1
<1>4. \A k \in 1..(Len(list) - 1) : Tail(list)[k] = list[k + 1]
  BY <1>1
<1>5. ASSUME NEW k \in DOMAIN Tail(list) PROVE Tail(list)[k] \in ToSet(list)
  BY <1>1, <1>3, <1>4 DEF ToSet
<1>6. Head(list) \in ToSet(list)
  BY <1>1, <1>3 DEF ToSet
<1>7. ASSUME NEW k \in DOMAIN list PROVE list[k] \in ToSet(Tail(list)) \cup {Head(list)}
  <2>1. CASE k = 1
    BY <2>1, <1>2, <1>3
  <2>2. CASE k # 1
    <3>1. k - 1 \in DOMAIN Tail(list) /\ list[k] = Tail(list)[k - 1]
      BY <1>1, <1>2, <1>3, <2>2
    <3>. QED BY <3>1 DEF ToSet
  <2>. QED BY <2>1, <2>2
<1>. QED BY <1>1, <1>5, <1>6, <1>7 DEF ToSet

LEMMA AppendElements ==
  ASSUME NEW S, NEW list \in Seq(S), NEW x \in S
  PROVE  /\ Append(list, x) \in Seq(S)
         /\ ToSet(list) \subseteq ToSet(Append(list, x)) /\ x \in ToSet(Append(list, x))
<1>1. /\ Append(list, x) \in Seq(S) /\ DOMAIN Append(list, x) = 1..(Len(list) + 1)
      /\ DOMAIN list = 1..Len(list)
      /\ \A k \in 1..Len(list) : Append(list, x)[k] = list[k]
      /\ Append(list, x)[Len(list) + 1] = x
  OBVIOUS
<1>2. Len(list) + 1 \in DOMAIN Append(list, x)
  BY <1>1
<1>. QED BY <1>1, <1>2 DEF ToSet

LEMMA GroupType ==
  ASSUME ResolveInv, NEW p \in Names, NEW g \in Groups(p)
  PROVE  g \in Seq(Names)
BY IndexType DEF ResolveInv, Groups, ToSet

LEMMA InitResolve == BuildInit => ResolveInv
BY DEF BuildInit, ResolveInv, SelectionClosed

(* A choice depends on the index alone. *)
LEMMA SameIndex ==
  ASSUME UNCHANGED index
  PROVE  /\ \A q : Groups(q)' = Groups(q)
         /\ \A g : Choosable(g)' = Choosable(g) /\ Choice(g)' = Choice(g)
<1>1. ASSUME NEW q PROVE Groups(q)' = Groups(q)
  BY DEF Groups
<1>2. Virtual' = Virtual
  BY DEF Virtual
<1>3. ASSUME NEW g PROVE Choosable(g)' = Choosable(g)
  BY <1>2 DEF Choosable
<1>4. ASSUME NEW n PROVE PackageFor(n)' = PackageFor(n)
  BY DEF PackageFor, Real
<1>5. ASSUME NEW g PROVE Choice(g)' = Choice(g)
  BY <1>2, <1>4 DEF Choice, PackageFor, Real
<1>. QED BY <1>1, <1>3, <1>5

LEMMA StaysClosed ==
  ASSUME UNCHANGED index,
         \A q \in selected' : \A g \in Groups(q) \ ToSet(groups') :
           IF Choosable(g) THEN Choice(g) \in selected' \cup ToSet(wanted') ELSE g \in missing'
  PROVE  SelectionClosed'
BY SameIndex DEF SelectionClosed

(* The name that leaves the queue becomes a selected package; a choice that was waiting for it
   is that package, for a choice is never a virtual name. *)
LEMMA SelectStep == ASSUME ResolveInv, SelectPackage PROVE ResolveInv'
<1>. DEFINE p == PackageFor(Next1)
<1>1. /\ groups = <<>> /\ wanted # <<>> /\ wanted' = Tail(wanted) /\ selected' = selected \cup {p}
      /\ groups' = IF p \in selected THEN <<>> ELSE index.deps[p]
      /\ UNCHANGED <<index, missing>> /\ (Real(Next1) \/ Next1 \in Virtual)
  BY DEF SelectPackage, Selecting, others
<1>2. /\ wanted \in Seq(Names) /\ Next1 \in Names /\ wanted' \in Seq(Names)
      /\ ToSet(wanted) = ToSet(wanted') \cup {Next1}
  BY <1>1, TailElements DEF ResolveInv, Next1
<1>3. p \in index.packages /\ p \in Names /\ index.deps[p] \in Seq(Seq(Names))
  BY <1>1, IndexType DEF ResolveInv, PackageFor, Real
<1>4. Real(Next1) => p = Next1
  BY DEF PackageFor
<1>. HIDE DEF p
<1>5. ASSUME NEW q \in selected', NEW g \in Groups(q) \ ToSet(groups')
      PROVE  IF Choosable(g) THEN Choice(g) \in selected' \cup ToSet(wanted') ELSE g \in missing
  <2>1. CASE q \in selected
    <3>1. g \in Groups(q) \ ToSet(groups) /\ g \in Seq(Names)
      BY <1>1, <2>1, GroupType DEF ResolveInv, ToSet
    <3>2. IF Choosable(g) THEN Choice(g) \in selected \cup ToSet(wanted) ELSE g \in missing
      BY <2>1, <3>1 DEF ResolveInv, SelectionClosed
    <3>3. Choosable(g) => Real(Choice(g))
      BY <3>1, ChoiceIsPackage DEF ResolveInv, Real
    <3>. QED BY <1>1, <1>2, <1>4, <3>2, <3>3
  <2>2. CASE q = p /\ p \notin selected
    BY <1>1, <2>2 DEF Groups
  <2>. QED BY <1>1, <2>1, <2>2
<1>6. SelectionClosed'
  BY <1>1, <1>5, StaysClosed
<1>7. groups' \in Seq(Seq(Names)) /\ selected' \subseteq Names
  BY <1>1, <1>3 DEF ResolveInv
<1>. QED BY <1>1, <1>2, <1>6, <1>7 DEF ResolveInv

(* The group that is looked at is closed, and the others stay so. *)
LEMMA GroupStep == ASSUME ResolveInv, LookAtGroup PROVE ResolveInv'
<1>. DEFINE h == Head(groups)
<1>1. /\ groups # <<>> /\ groups' = Tail(groups)
      /\ IF Choosable(h)
         THEN /\ wanted' = IF Choice(h) \in selected THEN wanted ELSE Append(wanted, Choice(h))
              /\ missing' = missing
         ELSE missing' = missing \cup {h} /\ wanted' = wanted
      /\ UNCHANGED <<index, selected>>
  BY DEF LookAtGroup, others
<1>2. /\ h \in Seq(Names) /\ groups' \in Seq(Seq(Names))
      /\ ToSet(groups) = ToSet(groups') \cup {h}
  BY <1>1, TailElements DEF ResolveInv
<1>. HIDE DEF h
<1>3. Choosable(h) => Choice(h) \in Names
  BY <1>2, ChoiceIsPackage, IndexType DEF ResolveInv
<1>4. /\ wanted' \in Seq(Names) /\ ToSet(wanted) \subseteq ToSet(wanted') /\ missing \subseteq missing'
      /\ IF Choosable(h) THEN Choice(h) \in selected \cup ToSet(wanted') ELSE h \in missing'
  BY <1>1, <1>3, AppendElements DEF ResolveInv
<1>5. ASSUME NEW q \in selected, NEW g \in Groups(q) \ ToSet(groups')
      PROVE  IF Choosable(g) THEN Choice(g) \in selected \cup ToSet(wanted') ELSE g \in missing'
  <2>1. CASE g = h
    BY <1>4, <2>1
  <2>2. CASE g # h
    <3>1. IF Choosable(g) THEN Choice(g) \in selected \cup ToSet(wanted) ELSE g \in missing
      BY <1>2, <2>2 DEF ResolveInv, SelectionClosed
    <3>. QED BY <1>4, <3>1
  <2>. QED BY <2>1, <2>2
<1>6. SelectionClosed'
  BY <1>1, <1>5, StaysClosed
<1>. QED BY <1>1, <1>2, <1>4, <1>6 DEF ResolveInv

LEMMA MissingStep == ASSUME ResolveInv, NameMissing PROVE ResolveInv'
<1>1. /\ groups = <<>> /\ wanted # <<>> /\ wanted' = Tail(wanted) /\ missing' = missing \cup {<<Next1>>}
      /\ UNCHANGED <<index, selected, groups>> /\ ~Real(Next1)
  BY DEF NameMissing, Selecting, others
<1>2. wanted' \in Seq(Names) /\ ToSet(wanted) = ToSet(wanted') \cup {Next1}
  BY <1>1, TailElements DEF ResolveInv, Next1
<1>3. ASSUME NEW q \in selected, NEW g \in Groups(q) \ ToSet(groups)
      PROVE  IF Choosable(g) THEN Choice(g) \in selected \cup ToSet(wanted') ELSE g \in missing'
  <2>1. g \in Seq(Names)
    BY GroupType DEF ResolveInv
  <2>2. Choosable(g) => Real(Choice(g))
    BY <2>1, ChoiceIsPackage DEF ResolveInv, Real
  <2>. QED BY <1>1, <1>2, <2>2 DEF ResolveInv, SelectionClosed
<1>4. SelectionClosed'
  BY <1>1, <1>3, StaysClosed
<1>. QED BY <1>1, <1>2, <1>4 DEF ResolveInv

LEMMA ResolveStep == ResolveInv /\ [BuildNext]_buildVars => ResolveInv'
<1>. SUFFICES ASSUME ResolveInv, [BuildNext]_buildVars PROVE ResolveInv'
  OBVIOUS
<1>1. CASE ReadIndex
  <2>1. /\ index' \in Indexes \cup {NoIndex} /\ wanted' \in Requests
        /\ selected' = {} /\ groups' = <<>>
    BY <1>1 DEF ReadIndex, ResolveInv
  <2>. QED BY <2>1, RootfsAssumption DEF ResolveInv, SelectionClosed
<1>2. CASE UNCHANGED <<index, found>>
  <2>1. /\ UNCHANGED <<index, selected, missing, wanted, groups>>
        /\ \A q \in selected : \A g \in Groups(q) \ ToSet(groups) :
             IF Choosable(g) THEN Choice(g) \in selected \cup ToSet(wanted) ELSE g \in missing
    BY <1>2 DEF found, ResolveInv, SelectionClosed
  <2>. QED BY <2>1, StaysClosed DEF ResolveInv
<1>. QED
  BY <1>1, <1>2, SelectStep, GroupStep, MissingStep DEF BuildNext, Resolves, Resolved, Download, ClearTree,
     Unpack, Configure, RemoveImage, MakeImage, Interrupted, buildVars, found

(* resolve selects a closed set of packages of every index it may read, with cycles, virtual
   names and packages nobody has, for every list of wanted packages. *)
THEOREM SelectionIsClosed == BuildSpec => []SelectionClosed
<1>1. ResolveInv => SelectionClosed
  BY DEF ResolveInv
<1>. QED BY <1>1, InitResolve, ResolveStep, PTL DEF BuildSpec
-------------------------------------------------------------------------------
LEMMA InitTree == BuildInit => TreeInv
BY DEF BuildInit, TreeInv, NoTree, NoImage, ImageIsSelection

LEMMA TreeStep == TreeInv /\ [BuildNext]_buildVars => TreeInv'
<1>. SUFFICES ASSUME TreeInv, [BuildNext]_buildVars PROVE TreeInv'
  OBVIOUS
<1>. USE DEF TreeInv, ImageIsSelection
<1>1. CASE ReadIndex \/ NameMissing \/ SelectPackage \/ LookAtGroup \/ Resolved \/ Download
  BY <1>1 DEF ReadIndex, NameMissing, SelectPackage, LookAtGroup, Resolved, Download, Selecting, others, found
<1>2. CASE ClearTree
  BY <1>2 DEF ClearTree, NoTree, found
<1>3. CASE Unpack
  BY <1>3 DEF Unpack, found
<1>4. CASE Configure
  BY <1>4 DEF Configure, found
<1>5. CASE RemoveImage
  BY <1>5 DEF RemoveImage, NoImage, found
<1>6. CASE MakeImage
  BY <1>6 DEF MakeImage, found
<1>7. CASE Interrupted
  BY <1>7 DEF Interrupted, found
<1>8. CASE UNCHANGED buildVars
  BY <1>8 DEF buildVars
<1>. QED BY <1>1, <1>2, <1>3, <1>4, <1>5, <1>6, <1>7, <1>8 DEF BuildNext, Resolves

(* A finished image holds what its status file of dpkg names, after any number of builds with
   other lists of packages that were interrupted anywhere. *)
THEOREM ImageIsWhole == BuildSpec => []ImageIsSelection
<1>1. TreeInv => ImageIsSelection
  BY DEF TreeInv
<1>. QED BY <1>1, InitTree, TreeStep, PTL DEF BuildSpec
-------------------------------------------------------------------------------
(* Types: what is selected, cached, unpacked or in the image is a package of the index, which
   is read once. *)
BuildInv == ResolveInv /\ TreeInv /\ BuildTypeOK

LEMMA NoIndexType == NoIndex \in Index /\ NoIndex.packages = {} /\ Indexes \subseteq Index
<1>1. <<>> \in Seq(Names) /\ <<>> \in Seq(Seq(Names))
  OBVIOUS
<1>. QED BY <1>1, RootfsAssumption DEF NoIndex, Index

LEMMA InitBuild == BuildInit => BuildInv
<1>. SUFFICES ASSUME BuildInit PROVE BuildInv
  OBVIOUS
<1>1. 0 \in 0..MaxBuilds
  BY RootfsAssumption
<1>2. BuildTypeOK
  BY <1>1, NoIndexType DEF BuildInit, BuildTypeOK, NoTree, NoImage
<1>. QED BY <1>2, InitResolve, InitTree DEF BuildInv

(* Of the resolver. *)
LEMMA ResolveTypes == ASSUME ResolveInv, ResolveInv', BuildTypeOK, Resolves PROVE BuildTypeOK'
<1>1. wanted' \in Seq(Names) /\ groups' \in Seq(Seq(Names)) /\ index' = index
  BY DEF ResolveInv, Resolves, NameMissing, SelectPackage, LookAtGroup, Resolved, others
<1>2. UNCHANGED <<cache, tree, image, builds>> /\ step' \in {step, "download"}
  BY DEF Resolves, NameMissing, SelectPackage, LookAtGroup, Resolved, others
<1>3. selected' \subseteq index.packages
  <2>1. CASE SelectPackage
    <3>1. (Real(Next1) \/ Next1 \in Virtual) /\ wanted # <<>> /\ selected' = selected \cup {PackageFor(Next1)}
      BY <2>1 DEF SelectPackage, Selecting
    <3>2. Next1 \in Names
      BY <3>1, TailElements DEF ResolveInv, Next1
    <3>3. PackageFor(Next1) \in index.packages
      BY <3>1, <3>2, IndexType DEF ResolveInv, PackageFor, Real
    <3>. QED BY <3>1, <3>3 DEF BuildTypeOK
  <2>2. CASE UNCHANGED selected
    BY <2>2 DEF BuildTypeOK
  <2>. QED BY <2>1, <2>2 DEF Resolves, NameMissing, LookAtGroup, Resolved, found
<1>4. missing' \subseteq Seq(Names)
  <2>1. missing \subseteq Seq(Names)
    BY DEF BuildTypeOK
  <2>2. CASE NameMissing
    <3>1. wanted # <<>> /\ missing' = missing \cup {<<Next1>>}
      BY <2>2 DEF NameMissing, Selecting
    <3>2. Next1 \in Names
      BY <3>1, TailElements DEF ResolveInv, Next1
    <3>3. \A n \in Names : <<n>> \in Seq(Names)
      OBVIOUS
    <3>. QED BY <2>1, <3>1, <3>2, <3>3
  <2>3. CASE LookAtGroup
    <3>1. groups # <<>> /\ missing' \subseteq missing \cup {Head(groups)}
      BY <2>3 DEF LookAtGroup
    <3>2. Head(groups) \in Seq(Names)
      BY <3>1, TailElements DEF ResolveInv
    <3>. QED BY <2>1, <3>1, <3>2
  <2>4. CASE SelectPackage \/ Resolved
    BY <2>1, <2>4 DEF SelectPackage, Resolved, found
  <2>. QED BY <2>2, <2>3, <2>4 DEF Resolves
<1>. QED BY <1>1, <1>2, <1>3, <1>4 DEF BuildTypeOK

LEMMA ReadTypes == ASSUME ResolveInv, ResolveInv', BuildTypeOK, ReadIndex PROVE BuildTypeOK'
<1>1. /\ step' = "resolve" /\ selected' = {} /\ missing' = {} /\ UNCHANGED <<cache, tree, image>>
      /\ builds < MaxBuilds /\ builds' = builds + 1
  BY DEF ReadIndex
<1>2. builds' \in 0..MaxBuilds
  BY <1>1, RootfsAssumption DEF BuildTypeOK
<1>3. wanted' \in Seq(Names) /\ groups' \in Seq(Seq(Names))
  BY DEF ResolveInv
<1>4. index' \in Index /\ index.packages \subseteq index'.packages
  <2>1. CASE index = NoIndex
    BY <2>1, NoIndexType DEF ReadIndex
  <2>2. CASE index # NoIndex
    BY <2>2 DEF ReadIndex, BuildTypeOK
  <2>. QED BY <2>1, <2>2
<1>. QED BY <1>1, <1>2, <1>3, <1>4 DEF BuildTypeOK

LEMMA BuildTypes == ASSUME BuildInv, ResolveInv', [BuildNext]_buildVars PROVE BuildTypeOK'
<1>. USE DEF found
<1>1. CASE ReadIndex \/ Resolves
  BY <1>1, ReadTypes, ResolveTypes DEF BuildInv
<1>2. CASE Download
  BY <1>2 DEF Download, BuildInv, BuildTypeOK
<1>3. CASE ClearTree
  BY <1>3 DEF ClearTree, NoTree, BuildInv, BuildTypeOK
<1>4. CASE Unpack
  BY <1>4 DEF Unpack, BuildInv, BuildTypeOK, TreeInv
<1>5. CASE Configure
  BY <1>5 DEF Configure, BuildInv, BuildTypeOK, TreeInv
<1>6. CASE RemoveImage
  BY <1>6 DEF RemoveImage, NoImage, BuildInv, BuildTypeOK
<1>7. CASE MakeImage
  BY <1>7 DEF MakeImage, BuildInv, BuildTypeOK
<1>8. CASE Interrupted
  BY <1>8 DEF Interrupted, BuildInv, BuildTypeOK, TreeInv
<1>9. CASE UNCHANGED buildVars
  BY <1>9 DEF buildVars, BuildInv, BuildTypeOK
<1>. QED BY <1>1, <1>2, <1>3, <1>4, <1>5, <1>6, <1>7, <1>8, <1>9 DEF BuildNext

LEMMA BuildStep == BuildInv /\ [BuildNext]_buildVars => BuildInv'
<1>1. BuildInv /\ [BuildNext]_buildVars => ResolveInv' /\ TreeInv'
  BY ResolveStep, TreeStep DEF BuildInv
<1>. QED BY <1>1, BuildTypes DEF BuildInv
===============================================================================
