----------------------------- MODULE RootfsBuild -----------------------------
(***************************************************************************)
(* build_debian_rootfs.py: the package index is downloaded once and kept,  *)
(* the wanted packages are closed under their dependencies, and each is    *)
(* downloaded and unpacked into a fresh root; accounts, links and the      *)
(* status file of dpkg are written, and the tree becomes an image.  A      *)
(* build may be interrupted at any step and run again, with another list   *)
(* of packages; the cache, the tree and the image outlive it.              *)
(***************************************************************************)
EXTENDS Naturals, FiniteSets, Sequences, SequencesExt

CONSTANTS
  Names,       \* names of packages, real and virtual
  Indexes,     \* package indexes of the mirror
  Requests,    \* lists of wanted packages: essential ones and EXTRA_PACKAGES
  MaxBuilds    \* bound on builds

(* What parse_packages leaves: the packages, the providers of each virtual name in the order
   of the index, and the dependency groups of each package, a group being a list of
   alternatives. *)
Index == [packages : SUBSET Names, provides : [Names -> Seq(Names)], deps : [Names -> Seq(Seq(Names))]]

ASSUME RootfsAssumption ==
  /\ Indexes \subseteq Index /\ Requests \subseteq Seq(Names) /\ MaxBuilds \in Nat
  /\ \A i \in Indexes, v \in Names : \A k \in DOMAIN i.provides[v] : i.provides[v][k] \in i.packages

VARIABLES
  index,      \* the parsed index; NoIndex before it is downloaded
  step,       \* what the build is at
  wanted,     \* resolve: queue
  groups,     \* resolve: dependency groups of the package in hand still to look at
  selected,   \* resolve: selected
  missing,    \* resolve: groups without a choice, and names nobody provides
  cache,      \* packages whose file is in the download cache
  tree,       \* the root: packages unpacked, the status file, whether it has been configured
  image,      \* the image: packages in it and whether mke2fs has finished
  builds      \* builds begun

buildVars == <<index, step, wanted, groups, selected, missing, cache, tree, image, builds>>

NoIndex == [packages |-> {}, provides |-> [n \in Names |-> <<>>], deps |-> [n \in Names |-> <<>>]]
NoTree == [unpacked |-> {}, status |-> {}]
NoImage == [packages |-> {}, status |-> {}, whole |-> FALSE]
found == <<selected, missing, wanted, groups>>

BuildInit ==
  /\ index = NoIndex /\ step = "idle"
  /\ wanted = <<>> /\ groups = <<>> /\ selected = {} /\ missing = {}
  /\ cache = {} /\ tree = NoTree /\ image = NoImage /\ builds = 0
-------------------------------------------------------------------------------
(* download and parse_packages: the index of an earlier build is used again. *)
ReadIndex ==
  /\ step = "idle" /\ builds < MaxBuilds
  /\ index' \in IF index = NoIndex THEN Indexes ELSE {index}
  /\ \E request \in Requests : wanted' = request
  /\ selected' = {} /\ missing' = {} /\ groups' = <<>>
  /\ step' = "resolve" /\ builds' = builds + 1
  /\ UNCHANGED <<cache, tree, image>>

(* The first element of a list that is in S; the list has one. *)
FirstIn(list, S) ==
  list[CHOOSE k \in DOMAIN list : list[k] \in S /\ \A j \in 1..(k - 1) : list[j] \notin S]

Real(n) == n \in index.packages
Virtual == {n \in Names : index.provides[n] # <<>>}
(* The name itself, or the first of its providers. *)
PackageFor(n) == IF Real(n) THEN n ELSE index.provides[n][1]

(* The first alternative that is a package, else the first provider of the first that has
   one. *)
Choice(group) ==
  PackageFor(FirstIn(group, IF ToSet(group) \cap index.packages # {} THEN index.packages ELSE Virtual))
Choosable(group) == ToSet(group) \cap (index.packages \cup Virtual) # {}

Groups(p) == ToSet(index.deps[p])
Next1 == Head(wanted)
Selecting == step = "resolve" /\ groups = <<>> /\ wanted # <<>>
others == <<index, step, cache, tree, image, builds>>

NameMissing ==
  /\ Selecting /\ ~Real(Next1) /\ Next1 \notin Virtual
  /\ wanted' = Tail(wanted) /\ missing' = missing \cup {<<Next1>>}
  /\ UNCHANGED <<others, selected, groups>>

(* A name is taken once; its package's groups are looked at next. *)
SelectPackage ==
  /\ Selecting /\ (Real(Next1) \/ Next1 \in Virtual)
  /\ wanted' = Tail(wanted)
  /\ selected' = selected \cup {PackageFor(Next1)}
  /\ groups' = IF PackageFor(Next1) \in selected THEN <<>> ELSE index.deps[PackageFor(Next1)]
  /\ UNCHANGED <<others, missing>>

(* Mutant of LookAtGroup: the other groups of the package are forgotten. *)
LookAtOneGroup ==
  /\ step = "resolve" /\ groups # <<>> /\ groups' = <<>>
  /\ IF Choosable(Head(groups))
     THEN /\ wanted' = IF Choice(Head(groups)) \in selected THEN wanted
                       ELSE Append(wanted, Choice(Head(groups)))
          /\ UNCHANGED missing
     ELSE missing' = missing \cup {Head(groups)} /\ UNCHANGED wanted
  /\ UNCHANGED <<others, selected>>

LookAtGroup ==
  /\ step = "resolve" /\ groups # <<>> /\ groups' = Tail(groups)
  /\ IF Choosable(Head(groups))
     THEN /\ wanted' = IF Choice(Head(groups)) \in selected THEN wanted
                       ELSE Append(wanted, Choice(Head(groups)))
          /\ UNCHANGED missing
     ELSE missing' = missing \cup {Head(groups)} /\ UNCHANGED wanted
  /\ UNCHANGED <<others, selected>>

(* Names nobody provides are printed, and the build goes on. *)
Resolved ==
  /\ step = "resolve" /\ groups = <<>> /\ wanted = <<>> /\ step' = "download"
  /\ UNCHANGED <<index, found, cache, tree, image, builds>>
-------------------------------------------------------------------------------
(* A file arrives under another name and is moved; one that is there is not asked for. *)
Download ==
  /\ step = "download"
  /\ IF selected \subseteq cache THEN step' = "clear" /\ UNCHANGED cache
     ELSE (\E p \in selected \ cache : cache' = cache \cup {p}) /\ UNCHANGED step
  /\ UNCHANGED <<index, found, tree, image, builds>>

(* Mutant of ClearTree: the tree of the last build stays. *)
KeepTree ==
  /\ step = "clear" /\ step' = "unpack"
  /\ UNCHANGED <<index, found, cache, tree, image, builds>>

ClearTree ==
  /\ step = "clear" /\ step' = "unpack" /\ tree' = NoTree
  /\ UNCHANGED <<index, found, cache, image, builds>>

(* extract_deb, in the order of the names. *)
Unpack ==
  /\ step = "unpack"
  /\ IF selected \subseteq tree.unpacked THEN step' = "configure" /\ UNCHANGED tree
     ELSE /\ \E p \in selected \ tree.unpacked : tree' = [tree EXCEPT !.unpacked = @ \cup {p}]
          /\ UNCHANGED step
  /\ UNCHANGED <<index, found, cache, image, builds>>

(* The files of the appliance, accounts, certificates, modes, links, the status file of dpkg,
   and what is not essential goes. *)
Configure ==
  /\ step = "configure" /\ step' = "image"
  /\ tree' = [tree EXCEPT !.status = selected]
  /\ UNCHANGED <<index, found, cache, image, builds>>

(* make_ext4 removes the image that is there and writes another one in place. *)
RemoveImage ==
  /\ step = "image" /\ step' = "mke2fs" /\ image' = NoImage
  /\ UNCHANGED <<index, found, cache, tree, builds>>

MakeImage ==
  /\ step = "mke2fs" /\ step' = "idle"
  /\ image' = [packages |-> tree.unpacked, status |-> tree.status, whole |-> TRUE]
  /\ UNCHANGED <<index, found, cache, tree, builds>>

(* The build fails or is interrupted: a download that does not come, an unpacking that fails,
   a key.  mke2fs may leave part of an image under its name. *)
Interrupted ==
  /\ step # "idle" /\ step' = "idle"
  /\ image' = IF step = "mke2fs" THEN [image EXCEPT !.packages = tree.unpacked] ELSE image
  /\ UNCHANGED <<index, found, cache, tree, builds>>

Resolves == NameMissing \/ SelectPackage \/ LookAtGroup \/ Resolved

BuildNext ==
  \/ ReadIndex \/ Resolves \/ Download \/ ClearTree \/ Unpack \/ Configure \/ RemoveImage
  \/ MakeImage \/ Interrupted

BuildSpec == BuildInit /\ [][BuildNext]_buildVars
-------------------------------------------------------------------------------
BuildTypeOK ==
  /\ index \in Index
  /\ step \in {"idle", "resolve", "download", "clear", "unpack", "configure", "image", "mke2fs"}
  /\ wanted \in Seq(Names) /\ groups \in Seq(Seq(Names)) /\ selected \subseteq index.packages /\ missing \subseteq Seq(Names)
  /\ cache \subseteq index.packages /\ builds \in 0..MaxBuilds
  /\ tree.unpacked \subseteq index.packages /\ tree.status \subseteq index.packages
  /\ image.packages \subseteq index.packages /\ image.whole \in BOOLEAN

(* The selection is closed: the choice made for every dependency group of a selected package
   is selected or in the queue, or the group is reported as missing, but for the groups still
   to look at; cycles, virtual names and packages that two others need change nothing of it. *)
SelectionClosed ==
  \A p \in selected : \A g \in Groups(p) \ ToSet(groups) :
    IF Choosable(g) THEN Choice(g) \in selected \cup ToSet(wanted) ELSE g \in missing

(* After any number of interrupted builds, with other lists of packages, a finished image
   holds the packages its status file of dpkg names, and no others. *)
ImageIsSelection == image.whole => image.packages = image.status
===============================================================================
