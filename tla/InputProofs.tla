---------------------------- MODULE InputProofs ----------------------------
(***************************************************************************)
(* Theorems about what is read: about CheckPath, for every tree, every run *)
(* over it, and any number of files written by others while it reads;      *)
(* about Registries, for all that a registry may serve; and about          *)
(* JsonScan, for every document and every depth.                           *)
(***************************************************************************)
EXTENDS CheckPath, Registries, JsonScan, NatSets, SequenceTheorems, TLAPS

(* What a root's declarations say of a name.                               *)
Given(declared, name) ==
  LET d == CHOOSE d \in declared : d.name = name
  IN  IF (\E e \in declared : e.name = name) /\ (d.constraint # None \/ Sourced(d))
      THEN d.constraint ELSE None

(* Entries that say what the declarations say, where they inherit.         *)
Follows(items, declared) ==
  \A i \in items : i.source = "Inherited" => i.constraint = Given(declared, i.name)

(* Entries that none has to be warned about.                               *)
AllStated(items) == \A i \in items : ~Inheriting(i)

Entries(items) == \A i \in items : IsEntry(i)

Warns(m) == KindOf(m) \in {"CargoToml", "PomXml"}

-----------------------------------------------------------------------------
(***************************************************************************)
(* The parts of the inductive invariant.                                   *)
(***************************************************************************)
(* The files stay files, and a manifest under way is one of them.          *)
Shaped ==
  /\ IsTree(tree)
  /\ doing = [items |-> doing.items, declares |-> doing.declares,
              lock |-> doing.lock, content |-> doing.content, root |-> doing.root]
  /\ todo \subseteq Files
  /\ pc \in {"read", "lock", "root", "inner", "notices"} => todo # {}

(* What was read of it: entries, of which a Cargo member's are bare.       *)
Listed ==
  pc \in {"lock", "root", "inner"} =>
    /\ doing.items = Garbled \/ HoldsEntries(Current.name, doing)
    /\ doing.declares => KindOf(Current) = "CargoToml"

(* Its root, if any, is in the cache; only Cargo manifests have one.       *)
Rooted ==
  pc \in {"inner", "notices"} /\ doing.root # None =>
    doing.root \in DOMAIN wsCache /\ KindOf(Current) = "CargoToml"

(* What inheritance made of it.                                            *)
Resolved ==
  pc = "notices" =>
    IF doing.root # None THEN Follows(doing.items, wsCache[doing.root])
    ELSE Warns(Current) \/ AllStated(doing.items)

(* What was reported agrees with the cache, which keeps what it has.       *)
Reported ==
  \A r \in reports :
    /\ r.root # None =>
         r.root \in DOMAIN wsCache /\ Follows(r.items, wsCache[r.root])
    /\ \A i \in r.items : Inheriting(i) => i.name \in r.warned

IInv == Shaped /\ Listed /\ Rooted /\ Resolved /\ Reported

-----------------------------------------------------------------------------
(* A run under way has a manifest under way.                               *)
LEMMA CurrentIsLeft ==
  ASSUME todo \subseteq Files, todo # {}
  PROVE  Current \in todo /\ Current.dir \in Dirs
<1> DEFINE I == {i \in DOMAIN Paths : Paths[i] \in todo}
<1>1. DOMAIN Paths \subseteq Nat
  BY CheckPathAssumption
<1>2. I \subseteq Nat /\ I # {}
  BY <1>1 DEF Files, Elems
<1>3. \E x \in I : \A y \in I : x <= y
  <2> HIDE DEF I
  <2> QED
    BY <1>2, LeastNat
<1>4. First(I) \in I
  BY <1>3 DEF First
<1>5. Current \in todo
  BY <1>4 DEF Current
<1> QED
  BY <1>5, CheckPathAssumption DEF Files

LEMMA StatingStates ==
  ASSUME NEW i, IsEntry(i), NEW d
  PROVE  /\ IsEntry(Stating(i, d))
         /\ Stating(i, d).name = i.name /\ Stating(i, d).locked = i.locked
         /\ Stating(i, d).constraint = d.constraint
<1>1. PICK n, k, s, o, l :
        i = [name |-> n, kind |-> k, source |-> s, constraint |-> o, locked |-> l]
  BY DEF IsEntry
<1>2. PICK c, x : c = d.constraint /\ x = IF Sourced(d) THEN d.source ELSE s
  OBVIOUS
<1> DEFINE m == [name |-> n, kind |-> k, source |-> s, constraint |-> c, locked |-> l]
<1>3. [i EXCEPT !.constraint = c] = m
  BY <1>1
<1>4. Stating(i, d) = [[i EXCEPT !.constraint = c] EXCEPT !.source = x]
  BY <1>1, <1>2 DEF Stating
<1>5. [m EXCEPT !.source = x] =
        [name |-> n, kind |-> k, source |-> x, constraint |-> c, locked |-> l]
  OBVIOUS
<1>6. Stating(i, d) = [name |-> n, kind |-> k, source |-> x, constraint |-> c, locked |-> l]
  BY <1>3, <1>4, <1>5, Zenon
<1> QED
  BY <1>1, <1>2, <1>6 DEF IsEntry

(* Inheritance reads nothing but the declarations.                         *)
LEMMA InheritedFollows ==
  ASSUME NEW i, NEW declared, IsEntry(i),
         i.source = "Inherited" => i.constraint = None
  PROVE  /\ IsEntry(Inherited(i, declared))
         /\ Inherited(i, declared).source = "Inherited" =>
              Inherited(i, declared).constraint = Given(declared, Inherited(i, declared).name)
<1> DEFINE d == CHOOSE d \in declared : d.name = i.name
           supplied == (\E e \in declared : e.name = i.name)
                         /\ (d.constraint # None \/ Sourced(d))
<1>1. CASE Inheriting(i) /\ supplied
  <2>1. Inherited(i, declared) = Stating(i, d)
    BY <1>1 DEF Inherited
  <2>2. Given(declared, i.name) = d.constraint
    BY <1>1 DEF Given
  <2> HIDE DEF d
  <2> QED
    BY <2>1, <2>2, StatingStates
<1>2. CASE Inheriting(i) /\ ~supplied
  <2>1. Inherited(i, declared) = i
    BY <1>2 DEF Inherited
  <2>2. Given(declared, i.name) = None
    BY <1>2 DEF Given
  <2> QED
    BY <1>2, <2>1, <2>2 DEF Inheriting
<1>3. CASE ~Inheriting(i)
  BY <1>3 DEF Inherited, Inheriting
<1> QED
  BY <1>1, <1>2, <1>3

LEMMA ResolveFollows ==
  ASSUME NEW items, NEW declared,
         \A i \in items : IsEntry(i) /\ (i.source = "Inherited" => i.constraint = None)
  PROVE  /\ Entries(ResolveInheritance(items, declared))
         /\ Follows(ResolveInheritance(items, declared), declared)
BY InheritedFollows DEF ResolveInheritance, Entries, Follows

(* A lockfile touches no constraint, and its pins do not inherit.          *)
LEMMA LockKeeps ==
  ASSUME NEW items, NEW lock, NEW content, Entries(items),
         NEW k \in LockedItems(items, lock, content), k.source = "Inherited"
  PROVE  \E i \in items : /\ i.source = "Inherited" /\ i.name = k.name
                          /\ i.constraint = k.constraint
<1>1. CASE lock = None \/ content = Garbled
  BY <1>1 DEF LockedItems
<1>2. CASE ~(lock = None \/ content = Garbled) /\ IsDependencySource(lock.name)
  <2>1. k \in items \cup PinItems(content.pins)
    BY <1>2 DEF LockedItems
  <2>2. k \notin PinItems(content.pins)
    BY DEF PinItems, PinItem
  <2> QED
    BY <2>1, <2>2
<1>3. CASE ~(lock = None \/ content = Garbled) /\ ~IsDependencySource(lock.name)
  <2>1. k \in ApplyLockfile(items, content.versions)
    BY <1>3 DEF LockedItems
  <2>2. PICK i \in items :
          k = IF i.name \in DOMAIN content.versions
              THEN [i EXCEPT !.locked = PickLocked(content.versions[i.name], i.constraint)]
              ELSE i
    BY <2>1 DEF ApplyLockfile
  <2>3. i = [name |-> i.name, kind |-> i.kind, source |-> i.source,
             constraint |-> i.constraint, locked |-> i.locked]
    BY DEF Entries, IsEntry
  <2>4. \A v : /\ [i EXCEPT !.locked = v].source = i.source
               /\ [i EXCEPT !.locked = v].name = i.name
               /\ [i EXCEPT !.locked = v].constraint = i.constraint
    BY <2>3
  <2> QED
    BY <2>2, <2>4
<1> QED
  BY <1>1, <1>2, <1>3

LEMMA LockFollows ==
  ASSUME NEW items, NEW declared, NEW lock, NEW content, Entries(items),
         Follows(items, declared)
  PROVE  Follows(LockedItems(items, lock, content), declared)
BY LockKeeps DEF Follows

LEMMA LockStates ==
  ASSUME NEW items, NEW lock, NEW content, Entries(items), AllStated(items)
  PROVE  AllStated(LockedItems(items, lock, content))
BY LockKeeps DEF AllStated, Inheriting

(* Only a Cargo manifest has a root.                                       *)
LEMMA RootsAreCargo ==
  ASSUME Listed, pc = "root", GoverningRoot # None
  PROVE  KindOf(Current) = "CargoToml"
<1>1. CASE doing.declares
  BY <1>1 DEF Listed
<1>2. CASE ~doing.declares
  <2> DEFINE up == PathUp[Current.dir]
             root(i) == {n \in WorkspaceRoots(Detect(Current.name)) :
                           [dir |-> up[i], name |-> n] # Current
                           /\ DeclaresWorkspace(tree, up[i], n)}
  <2>1. {i \in Repository(tree, Current.dir) : root(i) # {}} # {}
    BY <1>2 DEF GoverningRoot, NearestWorkspaceRoot
  <2>2. WorkspaceRoots(Detect(Current.name)) # {}
    BY <2>1
  <2> QED
    BY <2>2 DEF WorkspaceRoots, KindOf
<1> QED
  BY <1>1, <1>2

-----------------------------------------------------------------------------
(* The invariant holds at first.                                           *)
LEMMA InitInv == Init => IInv
BY TreesAssumption DEF Init, IInv, Shaped, Listed, Rooted, Resolved, Reported, Nothing

LEMMA CollectStep ==
  ASSUME IInv, CollectManifests
  PROVE  IInv'
<1>1. Selected \subseteq Files
  BY DEF Selected, Files
<1>2. Shaped'
  BY <1>1 DEF IInv, Shaped, CollectManifests
<1>3. pc' \in {"done", "read"}
  BY DEF CollectManifests
<1> QED
  BY <1>2, <1>3 DEF IInv, Listed, Rooted, Resolved, Reported, CollectManifests

LEMMA ReadStep ==
  ASSUME IInv, ReadManifest
  PROVE  IInv'
<1>1. Current' = Current /\ todo # {}
  BY DEF ReadManifest, Current, IInv, Shaped
<1>2. Current.dir \in Dirs
  BY <1>1, CurrentIsLeft DEF IInv, Shaped
<1>3. Shaped'
  BY DEF IInv, Shaped, ReadManifest, Nothing
<1>4. Listed'
  <2> SUFFICES ASSUME pc' = "lock"
               PROVE  /\ doing'.items = Garbled \/ HoldsEntries(Current.name, doing')
                      /\ doing'.declares => KindOf(Current) = "CargoToml"
    BY <1>1 DEF Listed, ReadManifest
  <2>1. /\ Reads(tree, Current.dir, Current.name)
        /\ doing'.items = IF Parses(tree, Current.dir, Current.name)
                          THEN Text(tree, Current).items ELSE Garbled
        /\ doing'.declares = DeclaresWorkspace(tree, Current.dir, Current.name)
    BY DEF ReadManifest, Nothing
  <2>2. HoldsEntries(Current.name, Text(tree, Current))
    BY <1>2, <2>1 DEF IInv, Shaped, IsTree, HoldsText, Reads, IsFile, Text
  <2>3. DeclaresWorkspace(tree, Current.dir, Current.name) => KindOf(Current) = "CargoToml"
    BY DEF DeclaresWorkspace, KindOf
  <2> QED
    BY <2>1, <2>2, <2>3 DEF HoldsEntries
<1> QED
  BY <1>3, <1>4 DEF IInv, Rooted, Resolved, Reported, ReadManifest

LEMMA LockStep ==
  ASSUME IInv, ReadLockfile
  PROVE  IInv'
<1>1. Current' = Current
  BY DEF ReadLockfile, Current
<1>2. /\ doing'.items = doing.items /\ doing'.declares = doing.declares
      /\ doing' = [items |-> doing'.items, declares |-> doing'.declares,
                   lock |-> doing'.lock, content |-> doing'.content, root |-> doing'.root]
  BY DEF ReadLockfile, IInv, Shaped
<1>3. Shaped'
  BY <1>2 DEF IInv, Shaped, ReadLockfile
<1>4. Listed'
  BY <1>1, <1>2 DEF IInv, Listed, HoldsEntries, ReadLockfile
<1> QED
  BY <1>3, <1>4 DEF IInv, Rooted, Resolved, Reported, ReadLockfile

(* What is in the cache stays there.                                       *)
LEMMA RootStep ==
  ASSUME IInv, ReadRoot
  PROVE  IInv'
<1>1. Current' = Current
  BY DEF ReadRoot, Current
<1>2. /\ doing'.items = doing.items /\ doing'.declares = doing.declares
      /\ doing'.root = GoverningRoot
      /\ doing' = [items |-> doing'.items, declares |-> doing'.declares,
                   lock |-> doing'.lock, content |-> doing'.content, root |-> doing'.root]
  BY DEF ReadRoot, IInv, Shaped
<1>3. \A r \in DOMAIN wsCache : r \in DOMAIN wsCache' /\ wsCache'[r] = wsCache[r]
  BY DEF ReadRoot, Remembering
<1>4. GoverningRoot # None => GoverningRoot \in DOMAIN wsCache'
  BY DEF ReadRoot, Remembering
<1>5. Shaped'
  BY <1>2 DEF IInv, Shaped, ReadRoot
<1>6. Listed'
  BY <1>1, <1>2 DEF IInv, Listed, HoldsEntries, ReadRoot
<1>7. Rooted'
  BY <1>1, <1>2, <1>4, RootsAreCargo DEF IInv, Rooted, ReadRoot, KindOf
<1>8. Reported'
  BY <1>3 DEF IInv, Reported, Follows, ReadRoot
<1> QED
  BY <1>5, <1>6, <1>7, <1>8 DEF IInv, Resolved, ReadRoot

LEMMA Moves ==
  ASSUME Shaped, NEW rest \in SUBSET todo, Next1(rest), UNCHANGED <<tree, doing>>
  PROVE  Shaped' /\ pc' \in {"done", "read"}
BY DEF Shaped, Next1

LEMMA InnerStep ==
  ASSUME IInv, CheckInner
  PROVE  IInv'
<1>1. CASE ~Supported(run, KindOf(Current))
  <2>1. Shaped' /\ pc' \in {"done", "read"}
    BY <1>1, Moves DEF IInv, CheckInner
  <2> QED
    BY <2>1 DEF IInv, Listed, Rooted, Resolved, Reported, CheckInner
<1>2. CASE Supported(run, KindOf(Current)) /\ doing.items = Garbled
  BY <1>2 DEF IInv, Shaped, Listed, Rooted, Resolved, Reported, CheckInner
<1>3. CASE Supported(run, KindOf(Current)) /\ doing.items # Garbled
  <2> DEFINE base == IF doing.root = None THEN doing.items
                     ELSE ResolveInheritance(doing.items, wsCache[doing.root])
  <2>1. /\ pc = "inner" /\ pc' = "notices"
        /\ UNCHANGED <<tree, todo, wsCache, reports>>
        /\ doing' = [doing EXCEPT !.items = LockedItems(base, doing.lock, doing.content)]
    BY <1>3 DEF CheckInner
  <2>2. Current' = Current
    BY <2>1 DEF Current
  <2>3. /\ doing'.items = LockedItems(base, doing.lock, doing.content)
        /\ doing'.root = doing.root
        /\ doing' = [items |-> doing'.items, declares |-> doing'.declares,
                     lock |-> doing'.lock, content |-> doing'.content, root |-> doing'.root]
    <3> HIDE DEF base
    <3> QED
      BY <2>1 DEF IInv, Shaped
  <2>4. Shaped'
    BY <2>1, <2>3 DEF IInv, Shaped
  <2>5. HoldsEntries(Current.name, doing)
    BY <1>3, <2>1 DEF IInv, Listed
  <2>6. Resolved'
    <3>1. CASE doing.root # None
      <4>1. KindOf(Current) = "CargoToml"
        BY <2>1, <3>1 DEF IInv, Rooted
      <4>2. \A i \in doing.items :
              IsEntry(i) /\ (i.source = "Inherited" => i.constraint = None)
        BY <2>5, <4>1 DEF HoldsEntries, KindOf
      <4>3. Entries(base) /\ Follows(base, wsCache[doing.root])
        BY <3>1, <4>2, ResolveFollows
      <4>4. Follows(doing'.items, wsCache[doing.root])
        <5> HIDE DEF base
        <5> QED
          BY <2>3, <4>3, LockFollows
      <4> QED
        BY <2>1, <2>3, <3>1, <4>4 DEF Resolved
    <3>2. CASE doing.root = None
      <4>1. base = doing.items
        BY <3>2
      <4>2. Entries(doing.items)
        BY <2>5 DEF HoldsEntries, Entries
      <4>3. Warns(Current) \/ AllStated(doing.items)
        BY <2>5 DEF HoldsEntries, Warns, KindOf, AllStated, Inheriting
      <4>4. Warns(Current) \/ AllStated(doing'.items)
        <5> HIDE DEF base
        <5> QED
          BY <2>3, <4>1, <4>2, <4>3, LockStates
      <4>5. Warns(Current)' <=> Warns(Current)
        BY <2>2 DEF Warns, KindOf
      <4> QED
        BY <2>1, <2>3, <3>2, <4>4, <4>5 DEF Resolved
    <3> QED
      BY <3>1, <3>2
  <2>7. Rooted'
    BY <2>1, <2>2, <2>3 DEF IInv, Rooted, KindOf
  <2> QED
    BY <2>1, <2>4, <2>6, <2>7 DEF IInv, Listed, Reported
<1> QED
  BY <1>1, <1>2, <1>3

LEMMA NoticesStep ==
  ASSUME IInv, ReportNotices
  PROVE  IInv'
<1> DEFINE new == [manifest |-> Current, items |-> doing.items, root |-> doing.root,
             lock |-> doing.lock, readList |-> doing.content \notin {None, Garbled},
             warned |-> InheritanceWarnings(KindOf(Current), doing.root, doing.items),
             unread |-> UnreadNoticed(tree, Current)]
<1>1. Shaped' /\ pc' \in {"done", "read"}
  BY Moves DEF IInv, ReportNotices
<1>2. pc = "notices" /\ reports' = reports \cup {new} /\ UNCHANGED wsCache
  BY DEF ReportNotices
<1>3. new.items = doing.items /\ new.root = doing.root
      /\ new.warned = InheritanceWarnings(KindOf(Current), doing.root, doing.items)
  OBVIOUS
<1>4. doing.root # None =>
        doing.root \in DOMAIN wsCache /\ Follows(doing.items, wsCache[doing.root])
  BY <1>2 DEF IInv, Rooted, Resolved
<1>5. ASSUME NEW i \in doing.items, Inheriting(i)
      PROVE  i.name \in InheritanceWarnings(KindOf(Current), doing.root, doing.items)
  <2>1. doing.root # None \/ Warns(Current)
    BY <1>2, <1>5 DEF IInv, Resolved, AllStated
  <2>2. i.name \in Undeclared(doing.items)
    BY <1>5 DEF Undeclared
  <2> QED
    BY <2>1, <2>2 DEF InheritanceWarnings, Warns
<1>6. Reported'
  <2> HIDE DEF new
  <2> QED
    BY <1>2, <1>3, <1>4, <1>5 DEF IInv, Reported
<1> QED
  BY <1>1, <1>6 DEF IInv, Listed, Rooted, Resolved

(* Another program's write changes one file, which stays one.              *)
LEMMA EditStep ==
  ASSUME IInv, Edit
  PROVE  IInv'
<1>1. PICK e \in Edits :
        /\ e.name \in Present(tree, e.dir)
        /\ tree' = [tree EXCEPT !.at[e.dir][e.name] = e.state,
                                !.text[e.dir][e.name] = e.text]
  BY DEF Edit
<1>2. e.dir \in Dirs /\ HoldsText(e.name, e.text)
  BY TreesAssumption
<1> DEFINE at == [d \in Dirs |-> IF d = e.dir THEN [tree.at[d] EXCEPT ![e.name] = e.state]
                                 ELSE tree.at[d]]
           text == [d \in Dirs |-> IF d = e.dir THEN [tree.text[d] EXCEPT ![e.name] = e.text]
                                   ELSE tree.text[d]]
<1>3. IsTree(tree)
  BY DEF IInv, Shaped
<1>4. tree' = [at |-> at, text |-> text, skipped |-> tree.skipped]
  BY <1>1, <1>2, <1>3 DEF IsTree
<1>5. IsTree(tree')
  <2>1. tree'.at = at /\ tree'.text = text /\ tree'.skipped = tree.skipped
    BY <1>4
  <2>2. ASSUME NEW d \in Dirs
        PROVE  /\ DOMAIN at[d] = DOMAIN tree.at[d] /\ DOMAIN text[d] = DOMAIN tree.at[d]
               /\ at[d] = [n \in DOMAIN tree.at[d] |-> at[d][n]]
               /\ text[d] = [n \in DOMAIN tree.at[d] |-> text[d][n]]
               /\ \A n \in DOMAIN tree.at[d] : HoldsText(n, text[d][n])
    BY <1>2, <1>3 DEF IsTree, Present
  <2>3. at = [d \in Dirs |-> at[d]] /\ text = [d \in Dirs |-> text[d]]
    OBVIOUS
  <2> HIDE DEF at, text
  <2>4. tree' = [at |-> tree'.at, text |-> tree'.text, skipped |-> tree'.skipped]
    BY <1>4, <2>1
  <2>5. tree'.at = [d \in Dirs |-> tree'.at[d]] /\ tree'.text = [d \in Dirs |-> tree'.text[d]]
    BY <2>1, <2>3, Zenon
  <2>6. ASSUME NEW d \in Dirs
        PROVE  /\ tree'.at[d] = [n \in DOMAIN tree'.at[d] |-> tree'.at[d][n]]
               /\ tree'.text[d] = [n \in DOMAIN tree'.at[d] |-> tree'.text[d][n]]
               /\ \A n \in DOMAIN tree'.at[d] : HoldsText(n, tree'.text[d][n])
    <3>1. tree'.at[d] = at[d] /\ tree'.text[d] = text[d]
      BY <2>1
    <3>2. DOMAIN tree'.at[d] = DOMAIN tree.at[d]
      BY <2>2, <3>1, Zenon
    <3> QED
      BY <2>2, <3>1, <3>2, Zenon
  <2> QED
    BY <2>4, <2>5, <2>6, Zenon DEF IsTree, Present
<1>6. Current' = Current
  BY DEF Edit, Current
<1> QED
  BY <1>5, <1>6 DEF IInv, Shaped, Listed, Rooted, Resolved, Reported, Edit, Warns, KindOf

LEMMA InvStep == IInv /\ [Next]_vars => IInv'
<1>1. ASSUME IInv, UNCHANGED vars PROVE IInv'
  <2>1. Current' = Current
    BY <1>1 DEF vars, Current
  <2> QED
    BY <1>1, <2>1 DEF vars, IInv, Shaped, Listed, Rooted, Resolved, Reported, Warns, KindOf
<1> QED
  BY <1>1, CollectStep, ReadStep, LockStep, RootStep, InnerStep, NoticesStep, EditStep
     DEF Next, Finished

LEMMA Invariant == Spec => []IInv
  BY InitInv, InvStep, PTL DEF Spec

-----------------------------------------------------------------------------
(* However the root is edited while a run is under way, the members of a   *)
(* workspace are checked against one set of declarations                   *)
(* (`Checker::workspace_cache`), and who is left without a version is      *)
(* named in a warning.                                                     *)
THEOREM OneRootOneStory == Spec => []MembersAgree
<1>1. IInv => MembersAgree
  <2> SUFFICES ASSUME Reported PROVE MembersAgree
    BY DEF IInv
  <2>1. ASSUME NEW r \in reports, NEW s \in reports, r.root # None, r.root = s.root,
               NEW i \in r.items, NEW j \in s.items,
               {i.source, j.source} = {"Inherited"}, i.name = j.name
        PROVE  i.constraint = j.constraint
    BY <2>1 DEF Reported, Follows
  <2>2. \A r \in reports : \A i \in r.items : Inheriting(i) => i.name \in r.warned
    BY DEF Reported
  <2> QED
    BY <2>1, <2>2 DEF MembersAgree
<1> QED
  BY <1>1, Invariant, PTL

-----------------------------------------------------------------------------
(* What is directly above a directory, and a walk up that starts there.    *)
Walk(f, d) == IF Parent[d] = None THEN <<d>> ELSE <<d>> \o f[Parent[d]]

(* Walking up meets directories only, however deep they are.               *)
LEMMA PathsGoUp ==
  PathUp \in [Dirs -> Seq(Dirs)] /\ \A d \in Dirs : PathUp[d] = Walk(PathUp, d)
<1>1. PICK depth \in [Dirs -> 0 .. Cardinality(Dirs)] :
        \A d \in Dirs : Parent[d] # None => depth[Parent[d]] < depth[d]
  BY DiscoveryAssumption
<1> DEFINE N == Cardinality(Dirs)
<1>2. N \in Nat
  BY DiscoveryAssumption, FS_CardinalityType
<1>3. \A d \in Dirs : depth[d] \in 0 .. N
  BY <1>1
<1> HIDE DEF N
<1>4. ASSUME NEW d \in Dirs, NEW f, Parent[d] = None \/ f[Parent[d]] \in Seq(Dirs)
      PROVE  Walk(f, d) \in Seq(Dirs)
  BY <1>4 DEF Walk
<1>5. \E f \in [Dirs -> Seq(Dirs)] : f = [d \in Dirs |-> Walk(f, d)]
  <2> DEFINE Good(f, n) == \A d \in Dirs : depth[d] <= n => f[d] = Walk(f, d)
             S == {n \in Nat : \E f \in [Dirs -> Seq(Dirs)] : Good(f, n)}
  <2>1. 0 \in S
    <3> DEFINE f == [d \in Dirs |-> <<d>>]
    <3>1. f \in [Dirs -> Seq(Dirs)]
      OBVIOUS
    <3>2. ASSUME NEW d \in Dirs, depth[d] <= 0 PROVE f[d] = Walk(f, d)
      <4>1. Parent[d] = None
        <5>1. Parent[d] # None => Parent[d] \in Dirs
          BY DiscoveryAssumption
        <5> QED
          BY <1>1, <1>2, <1>3, <3>2, <5>1
      <4> QED
        BY <4>1 DEF Walk
    <3> QED
      BY <3>1, <3>2
  <2>2. ASSUME NEW n \in Nat, n \in S PROVE n + 1 \in S
    <3>1. PICK f \in [Dirs -> Seq(Dirs)] : Good(f, n)
      BY <2>2
    <3> DEFINE g == [d \in Dirs |-> Walk(f, d)]
    <3>2. g \in [Dirs -> Seq(Dirs)]
      <4>1. \A d \in Dirs : Walk(f, d) \in Seq(Dirs)
        BY <1>4, <3>1, DiscoveryAssumption
      <4> QED
        BY <4>1
    <3>3. ASSUME NEW d \in Dirs, depth[d] <= n + 1 PROVE g[d] = Walk(g, d)
      <4>1. CASE Parent[d] = None
        BY <4>1 DEF Walk
      <4>2. CASE Parent[d] # None
        <5>1. Parent[d] \in Dirs
          BY <4>2, DiscoveryAssumption
        <5>2. depth[Parent[d]] <= n
          BY <1>1, <1>2, <1>3, <3>3, <4>2, <5>1
        <5>3. f[Parent[d]] = g[Parent[d]]
          BY <3>1, <5>1, <5>2
        <5> QED
          BY <5>3 DEF Walk
      <4> QED
        BY <4>1, <4>2
    <3> HIDE DEF g
    <3>4. Good(g, n + 1)
      BY <3>3
    <3> QED
      BY <3>2, <3>4
  <2> HIDE DEF S
  <2>3. N \in S
    BY <1>2, <2>1, <2>2, SetInduction
  <2>4. PICK f \in [Dirs -> Seq(Dirs)] : Good(f, N)
    BY <2>3 DEF S
  <2>5. \A d \in Dirs : f[d] = Walk(f, d)
    BY <1>2, <1>3, <2>4
  <2> QED
    BY <2>5
<1>6. PathUp = [d \in Dirs |-> Walk(PathUp, d)]
  <2>1. PathUp = CHOOSE f : f = [d \in Dirs |-> Walk(f, d)]
    BY DEF PathUp, Walk
  <2> QED
    BY <1>5, <2>1, Zenon
<1>7. \A d \in Dirs : PathUp[d] = Walk(PathUp, d)
  BY <1>6
<1> DEFINE T == {n \in Nat : \A d \in Dirs : depth[d] <= n => PathUp[d] \in Seq(Dirs)}
<1>8. 0 \in T
  <2>1. ASSUME NEW d \in Dirs, depth[d] <= 0 PROVE PathUp[d] \in Seq(Dirs)
    <3>1. Parent[d] # None => Parent[d] \in Dirs
      BY DiscoveryAssumption
    <3>2. Parent[d] = None
      BY <1>1, <1>2, <1>3, <2>1, <3>1
    <3> QED
      BY <1>4, <1>7, <3>2
  <2> QED
    BY <2>1
<1>9. ASSUME NEW n \in Nat, n \in T PROVE n + 1 \in T
  <2>1. ASSUME NEW d \in Dirs, depth[d] <= n + 1 PROVE PathUp[d] \in Seq(Dirs)
    <3>1. Parent[d] # None => Parent[d] \in Dirs
      BY DiscoveryAssumption
    <3>2. Parent[d] # None => depth[Parent[d]] <= n
      BY <1>1, <1>2, <1>3, <2>1, <3>1
    <3>3. Parent[d] = None \/ PathUp[Parent[d]] \in Seq(Dirs)
      BY <1>9, <3>1, <3>2
    <3> QED
      BY <1>4, <1>7, <3>3
  <2> QED
    BY <2>1
<1> HIDE DEF T
<1>10. N \in T
  BY <1>2, <1>8, <1>9, SetInduction
<1>11. \A d \in Dirs : PathUp[d] \in Seq(Dirs)
  BY <1>2, <1>3, <1>10 DEF T
<1> QED
  BY <1>6, <1>7, <1>11

(* The first of some positions is one of them.                             *)
LEMMA FirstIsOne ==
  ASSUME NEW S, S \subseteq Nat, S # {}
  PROVE  First(S) \in S
<1>1. \E x \in S : \A y \in S : x <= y
  BY LeastNat
<1> QED
  BY <1>1 DEF First

LEMMA Lockable ==
  ASSUME NEW k
  PROVE  /\ Lockfiles(k) \in Seq(Elems(Lockfiles(k)))
         /\ IF k = "PackageSwift" THEN Lockfiles(k) = <<"Package.resolved">>
            ELSE "Package.resolved" \notin Elems(Lockfiles(k))
<1>1. CASE k = "PackageSwift"
  BY <1>1 DEF Lockfiles, Elems
<1>2. CASE k \in {"CargoToml", "ComposerJson", "PubspecYaml", "MixExs"}
  <2>1. \E l : Lockfiles(k) = <<l>> /\ l # "Package.resolved"
    BY <1>2 DEF Lockfiles
  <2> QED
    BY <1>2, <2>1 DEF Elems
<1>3. CASE k = "PackageJson"
  <2>1. Lockfiles(k) = <<"package-lock.json", "bun.lock">>
    BY <1>3 DEF Lockfiles
  <2> QED
    BY <1>3, <2>1 DEF Elems
<1>4. CASE k \notin {"CargoToml", "PackageJson", "ComposerJson", "PubspecYaml", "MixExs",
                    "PackageSwift"}
  <2>1. Lockfiles(k) = <<>>
    BY <1>4 DEF Lockfiles
  <2> QED
    BY <1>4, <2>1 DEF Elems
<1> QED
  BY <1>1, <1>2, <1>3, <1>4

(* The search that accepts what `good` says of a directory and a name.     *)
Search(t, dir, kind, good) ==
  SearchUp(t, dir, kind, LAMBDA d, name : <<d, name>> \in good)

(* What a search finds is a lockfile of the kind, where files are.         *)
LEMMA FoundIsThere ==
  ASSUME NEW t, NEW dir \in Dirs, NEW kind, NEW good,
         Search(t, dir, kind, good) # None
  PROVE  /\ Search(t, dir, kind, good).dir \in Dirs
         /\ Search(t, dir, kind, good).name \in Elems(Lockfiles(kind))
<1> DEFINE up   == PathUp[dir]
           lock == Lockfiles(kind)
           hit(i, c) == AdoptableFrom(lock[c], i) /\ <<up[i], lock[c]>> \in good
           at   == {i \in Repository(t, dir) : \E c \in DOMAIN lock : hit(i, c)}
           i    == First(at)
           cs   == {c \in DOMAIN lock : hit(i, c)}
<1>1. at # {} /\ Search(t, dir, kind, good) = [dir |-> up[i], name |-> lock[First(cs)]]
  BY DEF Search, SearchUp
<1>2. up \in Seq(Dirs) /\ lock \in Seq(Elems(lock))
  BY PathsGoUp, Lockable
<1>3. at \subseteq DOMAIN up /\ DOMAIN up \subseteq Nat /\ DOMAIN lock \subseteq Nat
  BY <1>2 DEF Repository
<1>4. i \in at
  <2> HIDE DEF at
  <2> QED
    BY <1>1, <1>3, FirstIsOne
<1>5. cs \subseteq Nat /\ cs # {}
  BY <1>3, <1>4
<1>6. First(cs) \in cs
  <2> HIDE DEF cs
  <2> QED
    BY <1>5, FirstIsOne
<1>7. i \in DOMAIN up /\ First(cs) \in DOMAIN lock
  BY <1>3, <1>4, <1>6
<1> HIDE DEF i, cs, at, lock, up
<1>8. up[i] \in Dirs /\ lock[First(cs)] \in Elems(lock)
  BY <1>2, <1>7 DEF Elems
<1> QED
  BY <1>1, <1>8 DEF lock

(* A list that is its package's own is found beside it or not at all.      *)
LEMMA OwnListOrNone ==
  ASSUME NEW t, NEW dir \in Dirs, NEW good, Search(t, dir, "PackageSwift", good) # None
  PROVE  /\ Search(t, dir, "PackageSwift", good) = [dir |-> PathUp[dir][1], name |-> "Package.resolved"]
         /\ 1 \in Repository(t, dir) /\ <<PathUp[dir][1], "Package.resolved">> \in good
<1> DEFINE up   == PathUp[dir]
           lock == <<"Package.resolved">>
           hit(i, c) == AdoptableFrom(lock[c], i) /\ <<up[i], lock[c]>> \in good
           at   == {i \in Repository(t, dir) : \E c \in DOMAIN lock : hit(i, c)}
           cs(i) == {c \in DOMAIN lock : hit(i, c)}
<1>1. Lockfiles("PackageSwift") = lock
  BY Lockable
<1>2. /\ at # {}
      /\ Search(t, dir, "PackageSwift", good) =
            [dir |-> up[First(at)], name |-> lock[First(cs(First(at)))]]
  BY <1>1 DEF Search, SearchUp
<1>3. DOMAIN lock = {1} /\ lock[1] = "Package.resolved"
  OBVIOUS
<1>4. \A i : \A c \in DOMAIN lock : hit(i, c) => i = 1 /\ c = 1
  BY <1>3 DEF AdoptableFrom, IsDependencySource
<1>5. at = {1} /\ cs(1) = {1}
  BY <1>2, <1>4
<1>6. First({1}) = 1
  BY DEF First
<1>7. 1 \in Repository(t, dir) /\ <<up[1], lock[1]>> \in good
  BY <1>5
<1> HIDE DEF at, cs, lock
<1>8. Search(t, dir, "PackageSwift", good) = [dir |-> up[1], name |-> lock[1]]
  BY <1>2, <1>5, <1>6, Zenon
<1> QED
  BY <1>3, <1>7, <1>8

LEMMA OwnListFound ==
  ASSUME NEW t, NEW dir \in Dirs, NEW good,
         1 \in Repository(t, dir), <<PathUp[dir][1], "Package.resolved">> \in good
  PROVE  Search(t, dir, "PackageSwift", good) =
           [dir |-> PathUp[dir][1], name |-> "Package.resolved"]
<1> DEFINE up   == PathUp[dir]
           lock == <<"Package.resolved">>
           hit(i, c) == AdoptableFrom(lock[c], i) /\ <<up[i], lock[c]>> \in good
           at   == {i \in Repository(t, dir) : \E c \in DOMAIN lock : hit(i, c)}
           cs(i) == {c \in DOMAIN lock : hit(i, c)}
<1>1. Lockfiles("PackageSwift") = lock
  BY Lockable
<1>2. DOMAIN lock = {1} /\ lock[1] = "Package.resolved"
  OBVIOUS
<1>3. hit(1, 1)
  BY <1>2 DEF AdoptableFrom
<1>4. \A i : \A c \in DOMAIN lock : hit(i, c) => i = 1 /\ c = 1
  BY <1>2 DEF AdoptableFrom, IsDependencySource
<1>5. at = {1} /\ cs(1) = {1}
  BY <1>2, <1>3, <1>4
<1>6. First({1}) = 1
  BY DEF First
<1>7. Search(t, dir, "PackageSwift", good) =
            IF at = {} THEN None
            ELSE [dir |-> up[First(at)], name |-> lock[First(cs(First(at)))]]
  BY <1>1 DEF Search, SearchUp
<1> HIDE DEF at, cs, lock
<1>8. at # {} /\ First(at) = 1 /\ cs(First(at)) = {1}
  BY <1>5, <1>6
<1>9. Search(t, dir, "PackageSwift", good) = [dir |-> up[1], name |-> lock[1]]
  BY <1>6, <1>7, <1>8, Zenon
<1> QED
  BY <1>2, <1>9

(* The files a search for a lockfile accepts.                              *)
There(t, kind) == {f \in Dirs \X Elems(Lockfiles(kind)) : IsFile(t, f[1], f[2])}
Sound(t, kind) == {f \in Dirs \X Elems(Lockfiles(kind)) : Parses(t, f[1], f[2])}

LEMMA LocateIsSearch ==
  ASSUME NEW t, NEW dir \in Dirs, NEW kind
  PROVE  LocateLockfile(t, dir, kind) = Search(t, dir, kind, There(t, kind))
<1> DEFINE up   == PathUp[dir]
           lock == Lockfiles(kind)
           hitA(i, c) == AdoptableFrom(lock[c], i) /\ IsFile(t, up[i], lock[c])
           hitB(i, c) == AdoptableFrom(lock[c], i) /\ <<up[i], lock[c]>> \in There(t, kind)
<1>1. \A i \in Repository(t, dir) : up[i] \in Dirs
  BY PathsGoUp DEF Repository
<1>2. \A c \in DOMAIN lock : lock[c] \in Elems(lock)
  BY DEF Elems
<1>3. \A i \in Repository(t, dir), c \in DOMAIN lock : hitA(i, c) <=> hitB(i, c)
  BY <1>1, <1>2 DEF There
<1> DEFINE atA == {i \in Repository(t, dir) : \E c \in DOMAIN lock : hitA(i, c)}
           atB == {i \in Repository(t, dir) : \E c \in DOMAIN lock : hitB(i, c)}
           csA(i) == {c \in DOMAIN lock : hitA(i, c)}
           csB(i) == {c \in DOMAIN lock : hitB(i, c)}
<1>4. atA = atB
  BY <1>3
<1>5. \A i \in Repository(t, dir) : csA(i) = csB(i)
  BY <1>3
<1>6. atA # {} => First(atA) \in atA
  <2> HIDE DEF atA
  <2>1. atA \subseteq Nat
    BY PathsGoUp DEF atA, Repository
  <2> QED
    BY <2>1, FirstIsOne
<1>7. LocateLockfile(t, dir, kind) =
        IF atA = {} THEN None
        ELSE [dir |-> up[First(atA)], name |-> lock[First(csA(First(atA)))]]
  BY DEF LocateLockfile, SearchUp
<1>8. Search(t, dir, kind, There(t, kind)) =
        IF atB = {} THEN None
        ELSE [dir |-> up[First(atB)], name |-> lock[First(csB(First(atB)))]]
  BY DEF Search, SearchUp
<1>9. atA # {} => csA(First(atA)) = csB(First(atA))
  BY <1>5, <1>6
<1> HIDE DEF atA, atB, csA, csB
<1> QED
  BY <1>4, <1>7, <1>8, <1>9, Zenon

LEMMA FindIsSearch ==
  ASSUME NEW t, NEW dir \in Dirs, NEW kind
  PROVE  FindLockfile(t, dir, kind) = Search(t, dir, kind, Sound(t, kind))
<1> DEFINE up   == PathUp[dir]
           lock == Lockfiles(kind)
           hitA(i, c) == AdoptableFrom(lock[c], i) /\ Parses(t, up[i], lock[c])
           hitB(i, c) == AdoptableFrom(lock[c], i) /\ <<up[i], lock[c]>> \in Sound(t, kind)
<1>1. \A i \in Repository(t, dir) : up[i] \in Dirs
  BY PathsGoUp DEF Repository
<1>2. \A c \in DOMAIN lock : lock[c] \in Elems(lock)
  BY DEF Elems
<1>3. \A i \in Repository(t, dir), c \in DOMAIN lock : hitA(i, c) <=> hitB(i, c)
  BY <1>1, <1>2 DEF Sound, Parses
<1> DEFINE atA == {i \in Repository(t, dir) : \E c \in DOMAIN lock : hitA(i, c)}
           atB == {i \in Repository(t, dir) : \E c \in DOMAIN lock : hitB(i, c)}
           csA(i) == {c \in DOMAIN lock : hitA(i, c)}
           csB(i) == {c \in DOMAIN lock : hitB(i, c)}
<1>4. atA = atB
  BY <1>3
<1>5. \A i \in Repository(t, dir) : csA(i) = csB(i)
  BY <1>3
<1>6. atA # {} => First(atA) \in atA
  <2> HIDE DEF atA
  <2>1. atA \subseteq Nat
    BY PathsGoUp DEF atA, Repository
  <2> QED
    BY <2>1, FirstIsOne
<1>7. FindLockfile(t, dir, kind) =
        IF atA = {} THEN None
        ELSE [dir |-> up[First(atA)], name |-> lock[First(csA(First(atA)))]]
  BY DEF FindLockfile, SearchUp
<1>8. Search(t, dir, kind, Sound(t, kind)) =
        IF atB = {} THEN None
        ELSE [dir |-> up[First(atB)], name |-> lock[First(csB(First(atB)))]]
  BY DEF Search, SearchUp
<1>9. atA # {} => csA(First(atA)) = csB(First(atA))
  BY <1>5, <1>6
<1> HIDE DEF atA, atB, csA, csB
<1> QED
  BY <1>4, <1>7, <1>8, <1>9, Zenon

-----------------------------------------------------------------------------
(* What the check of a manifest makes of the files, when nobody writes     *)
(* them meanwhile.                                                         *)
Base(t, m) ==
  IF WorkspaceRootOf(t, m) = None THEN Text(t, m).items
  ELSE ResolveInheritance(Text(t, m).items, Declarations(t, WorkspaceRootOf(t, m)))

Content(t, lock) == IF lock = None THEN None ELSE ReadOrBroken(t, lock)

Checked(t, r, m) ==
  LockedItems(Base(t, m), LockfileRead(t, r, m), Content(t, LockfileRead(t, r, m)))

Fitting(items) == \A i \in items : i.locked # None => i.locked \in i.constraint

(* What inherits is locked by no manifest.                                 *)
LEMMA InheritedFits ==
  ASSUME NEW i, NEW declared, IsEntry(i),
         i.locked # None => i.source # "Inherited" /\ i.locked \in i.constraint
  PROVE  /\ IsEntry(Inherited(i, declared))
         /\ Inherited(i, declared).locked # None =>
              Inherited(i, declared).locked \in Inherited(i, declared).constraint
<1> DEFINE d == CHOOSE d \in declared : d.name = i.name
<1>1. CASE Inherited(i, declared) = i
  BY <1>1
<1>2. CASE Inherited(i, declared) # i
  <2>1. Inheriting(i) /\ Inherited(i, declared) = Stating(i, d)
    BY <1>2 DEF Inherited
  <2>2. i.locked = None
    BY <2>1 DEF Inheriting
  <2> HIDE DEF d
  <2> QED
    BY <2>1, <2>2, StatingStates
<1> QED
  BY <1>1, <1>2

LEMMA BaseFits ==
  ASSUME NEW t, IsTree(t), NEW m, m.dir \in Dirs, m.name \in Present(t, m.dir)
  PROVE  Entries(Base(t, m)) /\ Fitting(Base(t, m))
<1>1. HoldsEntries(m.name, Text(t, m))
  BY DEF IsTree, HoldsText, Text
<1>2. \A i \in Text(t, m).items :
        IsEntry(i) /\ (i.locked # None => i.source # "Inherited" /\ i.locked \in i.constraint)
  BY <1>1 DEF HoldsEntries
<1>3. \A declared : Entries(ResolveInheritance(Text(t, m).items, declared))
                    /\ Fitting(ResolveInheritance(Text(t, m).items, declared))
  BY <1>2, InheritedFits DEF ResolveInheritance, Entries, Fitting
<1>4. Entries(Text(t, m).items) /\ Fitting(Text(t, m).items)
  BY <1>2 DEF Entries, Fitting
<1> QED
  BY <1>3, <1>4 DEF Base

(* A lockfile that only annotates changes the locked versions only.        *)
LEMMA LockAnnotates ==
  ASSUME NEW items, NEW lock, NEW content, Entries(items),
         lock = None \/ content = Garbled \/ ~IsDependencySource(lock.name)
  PROVE  Unlocked(LockedItems(items, lock, content)) = Unlocked(items)
<1>1. CASE lock = None \/ content = Garbled
  BY <1>1 DEF LockedItems
<1>2. CASE ~(lock = None \/ content = Garbled)
  <2>1. LockedItems(items, lock, content) = ApplyLockfile(items, content.versions)
    BY <1>2 DEF LockedItems
  <2> DEFINE after(i) == IF i.name \in DOMAIN content.versions
                         THEN [i EXCEPT !.locked = PickLocked(content.versions[i.name], i.constraint)]
                         ELSE i
  <2>2. ApplyLockfile(items, content.versions) = {after(i) : i \in items}
    BY DEF ApplyLockfile
  <2>3. ASSUME NEW i \in items PROVE [after(i) EXCEPT !.locked = None] = [i EXCEPT !.locked = None]
    <3>1. PICK n, k, s, o, l :
            i = [name |-> n, kind |-> k, source |-> s, constraint |-> o, locked |-> l]
      BY DEF Entries, IsEntry
    <3>2. \A v : [i EXCEPT !.locked = v] =
                   [name |-> n, kind |-> k, source |-> s, constraint |-> o, locked |-> v]
      BY <3>1
    <3>3. \A v : [[i EXCEPT !.locked = v] EXCEPT !.locked = None] = [i EXCEPT !.locked = None]
      <4> TAKE v
      <4>1. [[name |-> n, kind |-> k, source |-> s, constraint |-> o, locked |-> v]
               EXCEPT !.locked = None] =
              [name |-> n, kind |-> k, source |-> s, constraint |-> o, locked |-> None]
        OBVIOUS
      <4> QED
        BY <3>2, <4>1, Zenon
    <3> QED
      BY <3>3
  <2> HIDE DEF after
  <2>4. {[j EXCEPT !.locked = None] : j \in {after(i) : i \in items}}
          = {[after(i) EXCEPT !.locked = None] : i \in items}
    OBVIOUS
  <2>5. {[after(i) EXCEPT !.locked = None] : i \in items}
          = {[i EXCEPT !.locked = None] : i \in items}
    BY <2>3
  <2> QED
    BY <2>1, <2>2, <2>4, <2>5, Zenon DEF Unlocked
<1> QED
  BY <1>1, <1>2

(* A dependency list that parses is the one both searches find.            *)
LEMMA OwnListAgrees ==
  ASSUME NEW t, NEW dir \in Dirs, NEW kind,
         FindLockfile(t, dir, kind) # None,
         IsDependencySource(FindLockfile(t, dir, kind).name)
  PROVE  LocateLockfile(t, dir, kind) = FindLockfile(t, dir, kind)
<1>1. FindLockfile(t, dir, kind).name \in Elems(Lockfiles(kind))
  BY FindIsSearch, FoundIsThere
<1>2. kind = "PackageSwift"
  BY <1>1, Lockable DEF IsDependencySource
<1>3. /\ FindLockfile(t, dir, kind) = [dir |-> PathUp[dir][1], name |-> "Package.resolved"]
      /\ 1 \in Repository(t, dir) /\ <<PathUp[dir][1], "Package.resolved">> \in Sound(t, kind)
  BY <1>2, FindIsSearch, OwnListOrNone
<1>4. <<PathUp[dir][1], "Package.resolved">> \in There(t, kind)
  BY <1>3 DEF Sound, There, Parses, Reads
<1> QED
  BY <1>2, <1>3, <1>4, LocateIsSearch, OwnListFound

LEMMA ListAgrees ==
  ASSUME NEW t, NEW r, NEW m, m.dir \in Dirs, Entries(Base(t, m))
  PROVE  /\ Unlocked(ListItems(t, r, m)) = Unlocked(Checked(t, r, m))
         /\ LocateLockfile(t, m.dir, KindOf(m)) = FindLockfile(t, m.dir, KindOf(m))
              => ListItems(t, r, m) = Checked(t, r, m)
<1> DEFINE near == LocateLockfile(t, m.dir, KindOf(m))
           good == FindLockfile(t, m.dir, KindOf(m))
           seen == LockfileRead(t, r, m)
           used == IF near # None /\ IsDependencySource(near.name) THEN near
                   ELSE IF r.locks THEN good ELSE None
<1>1. ListItems(t, r, m) = LockedItems(Base(t, m), used, Content(t, used))
  BY DEF ListItems, Base, Content
<1>2. seen = IF near = None THEN None
             ELSE IF ~r.locks /\ ~IsDependencySource(near.name) THEN None
             ELSE IF Reads(t, near.dir, near.name) THEN near ELSE None
  BY DEF LockfileRead
<1>3. good # None /\ IsDependencySource(good.name) => near = good
  BY OwnListAgrees
<1>4. ~Reads(t, near.dir, near.name) => Content(t, near) \in {None, Garbled}
  BY DEF Content, ReadOrBroken, Parses
<1>5. \A x : Content(t, x) = Garbled => LockedItems(Base(t, m), x, Content(t, x)) = Base(t, m)
  BY DEF LockedItems
<1>6. LockedItems(Base(t, m), None, Content(t, None)) = Base(t, m)
  BY DEF LockedItems
<1>7. near # None /\ ~Reads(t, near.dir, near.name) => Content(t, near) = Garbled
  BY DEF Content, ReadOrBroken, Parses
<1>8. near = good => ListItems(t, r, m) = Checked(t, r, m)
  <2> HIDE DEF near, good, seen
  <2> SUFFICES ASSUME near = good
               PROVE  LockedItems(Base(t, m), used, Content(t, used))
                        = LockedItems(Base(t, m), seen, Content(t, seen))
    BY <1>1 DEF Checked, seen
  <2> QED
    BY <1>2, <1>5, <1>6, <1>7
<1>9. Unlocked(ListItems(t, r, m)) = Unlocked(Checked(t, r, m))
  <2>1. CASE near # None /\ IsDependencySource(near.name)
    <3> HIDE DEF near, good, seen
    <3>1. LockedItems(Base(t, m), used, Content(t, used))
            = LockedItems(Base(t, m), seen, Content(t, seen))
      BY <2>1, <1>2, <1>5, <1>6, <1>7
    <3> QED
      BY <1>1, <3>1 DEF Checked, seen
  <2>2. CASE near = None \/ ~IsDependencySource(near.name)
    <3>1. seen = None \/ ~IsDependencySource(seen.name)
      <4> HIDE DEF near, seen
      <4> QED
        BY <1>2, <2>2
    <3>2. used = None \/ ~IsDependencySource(used.name)
      <4> HIDE DEF near, good
      <4> QED
        BY <1>3, <2>2
    <3> HIDE DEF near, good, seen, used
    <3>3. Unlocked(LockedItems(Base(t, m), used, Content(t, used))) = Unlocked(Base(t, m))
      BY <3>2, LockAnnotates
    <3>4. Unlocked(LockedItems(Base(t, m), seen, Content(t, seen))) = Unlocked(Base(t, m))
      BY <3>1, LockAnnotates
    <3> QED
      BY <1>1, <3>3, <3>4 DEF Checked, seen
  <2> QED
    BY <2>1, <2>2
<1> QED
  BY <1>8, <1>9

-----------------------------------------------------------------------------
(* Of finitely many versions that are left one is the newest.              *)
LEMMA NewestIsOne ==
  ASSUME NEW S, S \subseteq Nat, IsFiniteSet(S), S # {}
  PROVE  MaxNat(S) \in S
<1>1. \E v \in S : \A w \in S : w <= v
  BY GreatestNat
<1> QED
  BY <1>1 DEF MaxNat

(* A version that does not fit is locked only when none does.              *)
LEMMA PickedFits ==
  ASSUME NEW versions, versions \subseteq Versions, NEW constraint,
         constraint \notin {None, Garbled},
         PickLocked(versions, constraint) \notin constraint
  PROVE  versions \cap constraint = {}
<1>1. CASE Cardinality(versions) = 1
  <2>1. IsFiniteSet(versions)
    BY CheckPathAssumption, FS_Subset
  <2>2. PICK v : versions = {v}
    BY <1>1, <2>1, FS_Singleton
  <2>3. PickLocked(versions, constraint) = v
    BY <1>1, <2>2 DEF PickLocked
  <2> QED
    BY <2>2, <2>3
<1>2. CASE Cardinality(versions) # 1
  <2> SUFFICES ASSUME versions \cap constraint # {} PROVE FALSE
    OBVIOUS
  <2>1. PickLocked(versions, constraint) = MaxNat(versions \cap constraint)
    BY <1>2 DEF PickLocked
  <2>2. versions \cap constraint \subseteq Nat /\ IsFiniteSet(versions \cap constraint)
    BY CheckPathAssumption, FS_Subset
  <2>3. MaxNat(versions \cap constraint) \in versions \cap constraint
    BY <2>2, NewestIsOne
  <2> QED
    BY <2>1, <2>3
<1> QED
  BY <1>1, <1>2

LEMMA CheckedFits ==
  ASSUME NEW t, IsTree(t), NEW r, NEW m, m.dir \in Dirs, m.name \in Present(t, m.dir),
         NEW i \in Checked(t, r, m), i.locked # None,
         i.constraint \notin {None, Garbled}, i.locked \notin i.constraint
  PROVE  Text(t, LockfileRead(t, r, m)).versions[i.name] \cap i.constraint = {}
<1> DEFINE lock == LockfileRead(t, r, m)
           content == Content(t, lock)
<1>1. Entries(Base(t, m)) /\ Fitting(Base(t, m))
  BY BaseFits
<1>2. i \notin Base(t, m)
  BY <1>1 DEF Fitting
<1>3. ~(lock = None \/ content = Garbled)
  BY <1>2 DEF Checked, LockedItems
<1>4. ~IsDependencySource(lock.name)
  <2> SUFFICES ASSUME IsDependencySource(lock.name) PROVE FALSE
    OBVIOUS
  <2>1. i \in PinItems(content.pins)
    BY <1>2, <1>3 DEF Checked, LockedItems
  <2>2. PICK pin : i = PinItem(pin)
    BY <2>1 DEF PinItems
  <2>3. /\ i.locked = IF pin.from = "remote" THEN pin.version ELSE None
        /\ i.constraint = IF pin.version = None THEN None ELSE {pin.version}
    BY <2>2 DEF PinItem
  <2> QED
    BY <2>3
<1>5. content = Text(t, lock) /\ Parses(t, lock.dir, lock.name)
  BY <1>3 DEF Content, ReadOrBroken
<1>6. i \in ApplyLockfile(Base(t, m), Text(t, lock).versions)
  BY <1>3, <1>4, <1>5 DEF Checked, LockedItems
<1>7. lock.dir \in Dirs
  <2>1. lock = LocateLockfile(t, m.dir, KindOf(m))
    BY <1>3 DEF LockfileRead
  <2> QED
    BY <1>3, <2>1, LocateIsSearch, FoundIsThere
<1>8. HoldsVersions(Text(t, lock))
  BY <1>5, <1>7 DEF IsTree, HoldsText, Text, Parses, Reads, IsFile
<1> DEFINE versions == Text(t, lock).versions
<1>9. PICK j \in Base(t, m) :
        i = IF j.name \in DOMAIN versions
            THEN [j EXCEPT !.locked = PickLocked(versions[j.name], j.constraint)] ELSE j
  BY <1>6 DEF ApplyLockfile
<1>10. j.name \in DOMAIN versions /\ i = [j EXCEPT !.locked = PickLocked(versions[j.name], j.constraint)]
  BY <1>2, <1>9
<1>11. IsEntry(j)
  BY <1>1 DEF Entries
<1>12. \A v : /\ [j EXCEPT !.locked = v].locked = v
              /\ [j EXCEPT !.locked = v].name = j.name
              /\ [j EXCEPT !.locked = v].constraint = j.constraint
  <2>1. PICK n, k, s, o, l :
          j = [name |-> n, kind |-> k, source |-> s, constraint |-> o, locked |-> l]
    BY <1>11 DEF IsEntry
  <2> QED
    BY <2>1
<1> HIDE DEF lock, content, versions
<1>13. /\ i.locked = PickLocked(versions[i.name], i.constraint)
       /\ i.name \in DOMAIN versions
  BY <1>10, <1>12
<1>14. versions[i.name] \subseteq Versions
  BY <1>8, <1>13 DEF HoldsVersions, versions
<1>15. versions[i.name] \cap i.constraint = {}
  BY <1>13, <1>14, PickedFits
<1> QED
  BY <1>15 DEF versions, lock

-----------------------------------------------------------------------------
(***************************************************************************)
(* As long as nobody writes a file, what a check has read so far is what   *)
(* the files hold.                                                         *)
(***************************************************************************)
ItemsOf(t, m) == IF Parses(t, m.dir, m.name) THEN Text(t, m).items ELSE Garbled

IsThere(m) == m.dir \in Dirs /\ m.name \in Present(tree, m.dir)

ManifestAsIs ==
  pc \in {"lock", "root", "inner"} =>
    /\ IsThere(Current) /\ doing.items = ItemsOf(tree, Current)
    /\ doing.declares = DeclaresWorkspace(tree, Current.dir, Current.name)

LockAsIs ==
  pc \in {"root", "inner", "notices"} =>
    /\ doing.lock = LockfileRead(tree, run, Current)
    /\ doing.content = Content(tree, doing.lock)

RootAsIs == pc = "inner" => doing.root = WorkspaceRootOf(tree, Current)

CacheAsIs == \A r \in DOMAIN wsCache : wsCache[r] = Declarations(tree, r)

CheckedAsIs ==
  pc = "notices" => IsThere(Current) /\ doing.items = Checked(tree, run, Current)

ReportsAsIs ==
  \A r \in reports :
    /\ IsThere(r.manifest) /\ r.items = Checked(tree, run, r.manifest)
    /\ r.lock = LockfileRead(tree, run, r.manifest)
    /\ r.unread = UnreadNoticed(tree, r.manifest)
    /\ r.readList = (Content(tree, r.lock) \notin {None, Garbled})

AsIs == ManifestAsIs /\ LockAsIs /\ RootAsIs /\ CacheAsIs /\ CheckedAsIs /\ ReportsAsIs

Calm == edits \in Nat /\ (edits = 0 => AsIs)

Quiet == UNCHANGED <<tree, run, edits>>

(* Only a file named Cargo.toml declares a workspace, so that the root of  *)
(* a manifest as it was read is the root `list` looks up.                  *)
LEMMA OnlyCargoDeclares ==
  ASSUME NEW n, Detect(n) = "CargoToml"
  PROVE  n = "Cargo.toml"
BY DiscoveryAssumption DEF Detect, ManifestKinds

LEMMA RootIsTheSame ==
  ASSUME doing.declares = DeclaresWorkspace(tree, Current.dir, Current.name)
  PROVE  GoverningRoot = WorkspaceRootOf(tree, Current)
<1>1. DeclaresWorkspace(tree, Current.dir, Current.name) =>
        Current.name \in WorkspaceRoots(Detect(Current.name))
  BY OnlyCargoDeclares DEF DeclaresWorkspace, WorkspaceRoots
<1>2. CASE DeclaresWorkspace(tree, Current.dir, Current.name)
  BY <1>1, <1>2 DEF GoverningRoot, WorkspaceRootOf
<1>3. CASE ~DeclaresWorkspace(tree, Current.dir, Current.name)
  BY <1>3 DEF GoverningRoot, WorkspaceRootOf
<1> QED
  BY <1>2, <1>3

(* And what the manifest declares as it was read is what it declares.      *)
LEMMA DeclarationsAreTheSame ==
  ASSUME IsTree(tree), IsThere(Current), doing.items = ItemsOf(tree, Current), NEW root
  PROVE  RootDeclarations(root) = Declarations(tree, root)
<1>1. Text(tree, Current).items # Garbled
  BY DEF IsThere, IsTree, HoldsText, Text
<1>2. CASE root # Current
  BY <1>2 DEF RootDeclarations
<1>3. CASE root = Current /\ Parses(tree, Current.dir, Current.name)
  <2>1. doing.items = Text(tree, Current).items
    BY <1>3 DEF ItemsOf
  <2> QED
    BY <1>1, <1>3, <2>1 DEF RootDeclarations, Declarations
<1>4. CASE root = Current /\ ~Parses(tree, Current.dir, Current.name)
  <2>1. doing.items = Garbled
    BY <1>4 DEF ItemsOf
  <2> QED
    BY <1>4, <2>1 DEF RootDeclarations, Declarations
<1> QED
  BY <1>2, <1>3, <1>4

LEMMA CollectCalm ==
  ASSUME AsIs, CollectManifests
  PROVE  AsIs'
<1>1. Quiet /\ pc' \in {"done", "read"} /\ UNCHANGED <<wsCache, reports>>
  BY DEF CollectManifests, Quiet
<1> QED
  BY <1>1 DEF AsIs, Quiet, ManifestAsIs, LockAsIs, RootAsIs, CacheAsIs, CheckedAsIs,
              ReportsAsIs, IsThere

LEMMA ReadCalm ==
  ASSUME IInv, AsIs, ReadManifest
  PROVE  AsIs'
<1>1. Quiet /\ pc' \in {"done", "lock"} /\ UNCHANGED <<todo, wsCache, reports>>
  BY DEF ReadManifest, Quiet
<1>2. Current' = Current /\ Current.dir \in Dirs
  BY <1>1, CurrentIsLeft DEF Current, IInv, Shaped, ReadManifest
<1>3. ASSUME pc' = "lock"
      PROVE  /\ Current.name \in Present(tree, Current.dir)
             /\ doing'.items = ItemsOf(tree, Current)
             /\ doing'.declares = DeclaresWorkspace(tree, Current.dir, Current.name)
  BY <1>3 DEF ReadManifest, Nothing, ItemsOf, Reads, IsFile
<1>4. ManifestAsIs'
  BY <1>1, <1>2, <1>3 DEF ManifestAsIs, IsThere, Quiet
<1> QED
  BY <1>1, <1>4 DEF AsIs, Quiet, LockAsIs, RootAsIs, CacheAsIs, CheckedAsIs, ReportsAsIs,
                    IsThere

LEMMA LockCalm ==
  ASSUME IInv, AsIs, ReadLockfile
  PROVE  AsIs'
<1>1. Quiet /\ pc = "lock" /\ pc' = "root" /\ UNCHANGED <<todo, wsCache, reports>>
  BY DEF ReadLockfile, Quiet
<1>2. Current' = Current
  BY <1>1 DEF Current
<1>3. /\ doing'.items = doing.items /\ doing'.declares = doing.declares
      /\ doing'.lock = LockfileRead(tree, run, Current)
      /\ doing'.content = Content(tree, doing'.lock)
  BY DEF ReadLockfile, IInv, Shaped, Content
<1>4. ManifestAsIs'
  BY <1>1, <1>2, <1>3 DEF AsIs, ManifestAsIs, IsThere, Quiet
<1>5. LockAsIs'
  BY <1>1, <1>2, <1>3 DEF LockAsIs, Quiet
<1> QED
  BY <1>1, <1>4, <1>5 DEF AsIs, Quiet, RootAsIs, CacheAsIs, CheckedAsIs, ReportsAsIs, IsThere

LEMMA RootCalm ==
  ASSUME IInv, AsIs, ReadRoot
  PROVE  AsIs'
<1>1. Quiet /\ pc = "root" /\ pc' = "inner" /\ UNCHANGED <<todo, reports>>
  BY DEF ReadRoot, Quiet
<1>2. Current' = Current
  BY <1>1 DEF Current
<1>3. /\ doing'.items = doing.items /\ doing'.declares = doing.declares
      /\ doing'.lock = doing.lock /\ doing'.content = doing.content
      /\ doing'.root = GoverningRoot
  BY DEF ReadRoot, IInv, Shaped
<1>4. ManifestAsIs'
  BY <1>1, <1>2, <1>3 DEF AsIs, ManifestAsIs, IsThere, Quiet
<1>5. LockAsIs'
  BY <1>1, <1>2, <1>3 DEF AsIs, LockAsIs, Quiet
<1>6. RootAsIs'
  BY <1>1, <1>2, <1>3, RootIsTheSame DEF AsIs, ManifestAsIs, RootAsIs, Quiet
<1>7. CacheAsIs'
  <2>1. \A root : RootDeclarations(root) = Declarations(tree, root)
    BY <1>1, DeclarationsAreTheSame DEF AsIs, ManifestAsIs, IInv, Shaped
  <2>2. wsCache' = wsCache \/ wsCache' = Remembering(GoverningRoot)
    BY DEF ReadRoot
  <2>3. \A r \in DOMAIN wsCache' : wsCache'[r] = Declarations(tree, r)
    BY <2>1, <2>2 DEF Remembering, AsIs, CacheAsIs
  <2> QED
    BY <1>1, <2>3 DEF CacheAsIs, Quiet
<1> QED
  BY <1>1, <1>4, <1>5, <1>6, <1>7 DEF AsIs, Quiet, CheckedAsIs, ReportsAsIs, IsThere

LEMMA InnerCalm ==
  ASSUME IInv, AsIs, CheckInner
  PROVE  AsIs'
<1>1. Quiet /\ pc = "inner" /\ UNCHANGED <<wsCache, reports>>
  BY DEF CheckInner, Quiet
<1>2. CacheAsIs' /\ ReportsAsIs'
  BY <1>1 DEF AsIs, Quiet, CacheAsIs, ReportsAsIs, IsThere
<1>3. CASE pc' \in {"done", "read"}
  BY <1>2, <1>3 DEF AsIs, ManifestAsIs, LockAsIs, RootAsIs, CheckedAsIs
<1>4. CASE pc' \notin {"done", "read"}
  <2> DEFINE base == IF doing.root = None THEN doing.items
                     ELSE ResolveInheritance(doing.items, wsCache[doing.root])
  <2>1. /\ doing.items # Garbled /\ pc' = "notices" /\ UNCHANGED todo
        /\ doing' = [doing EXCEPT !.items = LockedItems(base, doing.lock, doing.content)]
    BY <1>4 DEF CheckInner, Next1
  <2>2. Current' = Current
    BY <2>1 DEF Current
  <2>3. /\ doing'.items = LockedItems(base, doing.lock, doing.content)
        /\ doing'.lock = doing.lock /\ doing'.content = doing.content
    <3> HIDE DEF base
    <3> QED
      BY <2>1 DEF IInv, Shaped
  <2>4. doing.items = Text(tree, Current).items /\ IsThere(Current)
    BY <1>1, <2>1 DEF AsIs, ManifestAsIs, ItemsOf
  <2>5. doing.root = WorkspaceRootOf(tree, Current)
    BY <1>1 DEF AsIs, RootAsIs
  <2>6. doing.root # None => wsCache[doing.root] = Declarations(tree, doing.root)
    BY <1>1 DEF AsIs, CacheAsIs, IInv, Rooted
  <2>7. base = Base(tree, Current)
    BY <2>4, <2>5, <2>6 DEF Base
  <2>8. doing.lock = LockfileRead(tree, run, Current) /\ doing.content = Content(tree, doing.lock)
    BY <1>1 DEF AsIs, LockAsIs
  <2>9. doing'.items = Checked(tree, run, Current)
    <3> HIDE DEF base
    <3> QED
      BY <2>3, <2>7, <2>8 DEF Checked
  <2>10. CheckedAsIs'
    BY <1>1, <2>2, <2>4, <2>9 DEF CheckedAsIs, Quiet, IsThere
  <2>11. LockAsIs'
    BY <1>1, <2>2, <2>3, <2>8 DEF LockAsIs, Quiet
  <2> QED
    BY <1>2, <2>1, <2>10, <2>11 DEF AsIs, ManifestAsIs, RootAsIs
<1> QED
  BY <1>3, <1>4

LEMMA NoticesCalm ==
  ASSUME IInv, AsIs, ReportNotices
  PROVE  AsIs'
<1> DEFINE new == [manifest |-> Current, items |-> doing.items, root |-> doing.root,
             lock |-> doing.lock, readList |-> doing.content \notin {None, Garbled},
             warned |-> InheritanceWarnings(KindOf(Current), doing.root, doing.items),
             unread |-> UnreadNoticed(tree, Current)]
<1>1. Quiet /\ pc = "notices" /\ pc' \in {"done", "read"} /\ UNCHANGED wsCache
  BY DEF ReportNotices, Quiet, Next1
<1>2. reports' = reports \cup {new}
  BY DEF ReportNotices
<1>3. /\ new.manifest = Current /\ new.items = doing.items /\ new.lock = doing.lock
      /\ new.unread = UnreadNoticed(tree, Current)
      /\ new.readList = (doing.content \notin {None, Garbled})
  OBVIOUS
<1>4. /\ IsThere(Current) /\ doing.items = Checked(tree, run, Current)
      /\ doing.lock = LockfileRead(tree, run, Current)
      /\ doing.content = Content(tree, doing.lock)
  BY <1>1 DEF AsIs, CheckedAsIs, LockAsIs
<1>5. ReportsAsIs'
  <2> HIDE DEF new
  <2> QED
    BY <1>1, <1>2, <1>3, <1>4 DEF AsIs, ReportsAsIs, Quiet, IsThere
<1>6. CacheAsIs'
  BY <1>1 DEF AsIs, CacheAsIs, Quiet
<1> QED
  BY <1>1, <1>5, <1>6 DEF AsIs, ManifestAsIs, LockAsIs, RootAsIs, CheckedAsIs

LEMMA StillCalm == AsIs /\ UNCHANGED vars => AsIs'
<1> SUFFICES ASSUME AsIs, UNCHANGED vars PROVE AsIs'
  OBVIOUS
<1>1. Current' = Current
  BY DEF vars, Current
<1>2. Quiet /\ UNCHANGED <<pc, todo, doing, wsCache, reports>>
  BY DEF vars, Quiet
<1> QED
  BY <1>1, <1>2 DEF Quiet, AsIs, ManifestAsIs, LockAsIs, RootAsIs, CacheAsIs, CheckedAsIs,
                    ReportsAsIs, IsThere

LEMMA CalmInit == Init => Calm
BY DEF Init, Calm, AsIs, ManifestAsIs, LockAsIs, RootAsIs, CacheAsIs, CheckedAsIs, ReportsAsIs

LEMMA CalmStep == IInv /\ Calm /\ [Next]_vars => Calm'
<1> SUFFICES ASSUME IInv, Calm, [Next]_vars PROVE Calm'
  OBVIOUS
<1>1. CASE Edit
  <2>1. edits' = edits + 1
    BY <1>1 DEF Edit
  <2>2. edits' \in Nat /\ edits' # 0
    BY <2>1 DEF Calm
  <2> QED
    BY <2>2 DEF Calm
<1>2. CASE ~Edit
  <2>1. UNCHANGED edits
    BY <1>2 DEF Next, vars, Finished, CollectManifests, ReadManifest, ReadLockfile, ReadRoot,
                CheckInner, ReportNotices
  <2>2. AsIs => AsIs'
    BY <1>2, StillCalm, CollectCalm, ReadCalm, LockCalm, RootCalm, InnerCalm, NoticesCalm
       DEF Next, Finished
  <2> QED
    BY <2>1, <2>2 DEF Calm
<1> QED
  BY <1>1, <1>2

LEMMA CalmInvariant == Spec => [](IInv /\ Calm)
<1>1. Init => IInv /\ Calm
  BY InitInv, CalmInit
<1>2. IInv /\ Calm /\ [Next]_vars => (IInv /\ Calm)'
  BY InvStep, CalmStep
<1> QED
  BY <1>1, <1>2, PTL DEF Spec

(* Where nobody writes a file meanwhile, `list` and `check` report the     *)
(* same dependencies of a manifest (run_list), at the same locked versions *)
(* where they use the same lockfile, and each at a version its constraint  *)
(* admits when the lockfile has one (`pick_locked`).                       *)
THEOREM ListTellsWhatCheckTells == Spec => []ReadersAgree
<1>1. IInv /\ Calm => ReadersAgree
  <2> SUFFICES ASSUME IsTree(tree), ReportsAsIs PROVE ListAndCheckAgree /\ LockedFits
    BY DEF ReadersAgree, ListAndCheckAgree, LockedFits, IInv, Shaped, Calm, AsIs
  <2>1. ASSUME NEW r \in reports
        PROVE  /\ r.manifest.dir \in Dirs /\ r.manifest.name \in Present(tree, r.manifest.dir)
               /\ r.items = Checked(tree, run, r.manifest)
               /\ r.lock = LockfileRead(tree, run, r.manifest)
    BY DEF ReportsAsIs, IsThere
  <2>2. ListAndCheckAgree
    BY <2>1, BaseFits, ListAgrees DEF ListAndCheckAgree
  <2>3. LockedFits
    BY <2>1, CheckedFits DEF LockedFits
  <2> QED
    BY <2>2, <2>3
<1> QED
  BY <1>1, CalmInvariant, PTL

-----------------------------------------------------------------------------
(* What is above a directory on the way up is above it on every way up.    *)
LEMMA PathsNest ==
  ASSUME NEW d \in Dirs
  PROVE  /\ 1 \in DOMAIN PathUp[d] /\ PathUp[d][1] = d
         /\ \A i, j \in DOMAIN PathUp[d] :
               i <= j => PathUp[d][j] \in Elems(PathUp[PathUp[d][i]])
<1>1. PICK depth \in [Dirs -> 0 .. Cardinality(Dirs)] :
        \A e \in Dirs : Parent[e] # None => depth[Parent[e]] < depth[e]
  BY DiscoveryAssumption
<1>2. \A e \in Dirs : depth[e] \in Nat
  BY <1>1, DiscoveryAssumption, FS_CardinalityType
<1>3. ASSUME NEW e \in Dirs
      PROVE  /\ PathUp[e] \in Seq(Dirs) /\ 1 \in DOMAIN PathUp[e] /\ PathUp[e][1] = e
             /\ Parent[e] # None =>
                  /\ Parent[e] \in Dirs
                  /\ \A i \in DOMAIN PathUp[e] : i # 1 =>
                        /\ i - 1 \in DOMAIN PathUp[Parent[e]]
                        /\ PathUp[e][i] = PathUp[Parent[e]][i - 1]
             /\ Parent[e] = None => \A i \in DOMAIN PathUp[e] : i = 1
  <2>1. PathUp[e] \in Seq(Dirs) /\ PathUp[e] = Walk(PathUp, e)
    BY PathsGoUp
  <2>2. CASE Parent[e] = None
    BY <2>1, <2>2 DEF Walk
  <2>3. CASE Parent[e] # None
    <3>1. Parent[e] \in Dirs
      BY <2>3, DiscoveryAssumption
    <3>2. PathUp[Parent[e]] \in Seq(Dirs)
      BY <3>1, PathsGoUp
    <3>3. PathUp[e] = <<e>> \o PathUp[Parent[e]]
      BY <2>1, <2>3 DEF Walk
    <3> QED
      BY <2>1, <2>3, <3>1, <3>2, <3>3
  <2> QED
    BY <2>2, <2>3
<1> DEFINE Nested(e) == \A i, j \in DOMAIN PathUp[e] :
                          i <= j => PathUp[e][j] \in Elems(PathUp[PathUp[e][i]])
           S == {n \in Nat : \A e \in Dirs : depth[e] <= n => Nested(e)}
<1>4. ASSUME NEW e \in Dirs, Parent[e] # None => Nested(Parent[e])
      PROVE  Nested(e)
  <2> SUFFICES ASSUME NEW i \in DOMAIN PathUp[e], NEW j \in DOMAIN PathUp[e], i <= j
               PROVE  PathUp[e][j] \in Elems(PathUp[PathUp[e][i]])
    OBVIOUS
  <2>1. CASE i = 1
    BY <1>3, <2>1 DEF Elems
  <2>2. CASE i # 1
    <3>1. Parent[e] # None
      BY <1>3, <2>2
    <3>2. i \in Nat /\ j \in Nat /\ 1 <= i
      BY <1>3
    <3>3. j # 1 /\ i - 1 <= j - 1
      BY <2>2, <3>2
    <3>4. /\ i - 1 \in DOMAIN PathUp[Parent[e]] /\ PathUp[e][i] = PathUp[Parent[e]][i - 1]
          /\ j - 1 \in DOMAIN PathUp[Parent[e]] /\ PathUp[e][j] = PathUp[Parent[e]][j - 1]
      BY <1>3, <2>2, <3>1, <3>3
    <3> QED
      BY <1>4, <3>1, <3>3, <3>4
  <2> QED
    BY <2>1, <2>2
<1> HIDE DEF Nested
<1>5. 0 \in S
  <2>1. ASSUME NEW e \in Dirs, depth[e] <= 0 PROVE Parent[e] = None
    BY <1>1, <1>2, <1>3, <2>1
  <2> QED
    BY <1>4, <2>1
<1>6. ASSUME NEW n \in Nat, n \in S PROVE n + 1 \in S
  <2>1. ASSUME NEW e \in Dirs, depth[e] <= n + 1, Parent[e] # None PROVE Nested(Parent[e])
    <3>1. Parent[e] \in Dirs /\ depth[Parent[e]] <= n
      BY <1>1, <1>2, <1>3, <2>1
    <3> QED
      BY <1>6, <3>1
  <2> QED
    BY <1>4, <2>1
<1> HIDE DEF S
<1>7. depth[d] \in S
  BY <1>2, <1>5, <1>6, SetInduction
<1>8. Nested(d)
  BY <1>2, <1>7 DEF S
<1> QED
  BY <1>3, <1>8 DEF Nested

(* What a search finds is the first it accepts on the way up, in the       *)
(* repository, and adoptable from there.                                   *)
FoundAt(t, dir, kind, good, f, i, c) ==
  /\ i \in Repository(t, dir) /\ c \in DOMAIN Lockfiles(kind)
  /\ f = [dir |-> PathUp[dir][i], name |-> Lockfiles(kind)[c]]
  /\ AdoptableFrom(Lockfiles(kind)[c], i)
  /\ <<PathUp[dir][i], Lockfiles(kind)[c]>> \in good
  /\ \A j \in Repository(t, dir), e \in DOMAIN Lockfiles(kind) :
        AdoptableFrom(Lockfiles(kind)[e], j) /\ <<PathUp[dir][j], Lockfiles(kind)[e]>> \in good
        => i < j \/ (i = j /\ c <= e)

LEMMA SearchFindsFirst ==
  ASSUME NEW t, NEW dir \in Dirs, NEW kind, NEW good
  PROVE  \/ /\ Search(t, dir, kind, good) = None
            /\ \A j \in Repository(t, dir), e \in DOMAIN Lockfiles(kind) :
                  ~(/\ AdoptableFrom(Lockfiles(kind)[e], j)
                    /\ <<PathUp[dir][j], Lockfiles(kind)[e]>> \in good)
         \/ \E i, c : FoundAt(t, dir, kind, good, Search(t, dir, kind, good), i, c)
<1> DEFINE up   == PathUp[dir]
           lock == Lockfiles(kind)
           hit(i, c) == AdoptableFrom(lock[c], i) /\ <<up[i], lock[c]>> \in good
           at   == {i \in Repository(t, dir) : \E c \in DOMAIN lock : hit(i, c)}
           i    == First(at)
           cs   == {c \in DOMAIN lock : hit(i, c)}
<1>1. Search(t, dir, kind, good) =
        IF at = {} THEN None ELSE [dir |-> up[i], name |-> lock[First(cs)]]
  BY DEF Search, SearchUp
<1>2. up \in Seq(Dirs) /\ lock \in Seq(Elems(lock))
  BY PathsGoUp, Lockable
<1>3. at \subseteq DOMAIN up /\ DOMAIN up \subseteq Nat /\ DOMAIN lock \subseteq Nat
  BY <1>2 DEF Repository
<1>4. CASE at = {}
  <2>1. Search(t, dir, kind, good) = None
    BY <1>1, <1>4
  <2>2. \A j \in Repository(t, dir), e \in DOMAIN lock : ~hit(j, e)
    BY <1>4
  <2> QED
    BY <2>1, <2>2
<1>5. CASE at # {}
  <2>1. i \in at /\ \A j \in at : i <= j
    <3> HIDE DEF at
    <3>1. at \subseteq Nat
      BY <1>3
    <3> QED
      BY <1>5, <3>1, LeastNat DEF First
  <2>2. cs \subseteq Nat /\ cs # {}
    BY <1>3, <2>1
  <2>3. First(cs) \in cs /\ \A c \in cs : First(cs) <= c
    <3> HIDE DEF cs
    <3> QED
      BY <2>2, LeastNat DEF First
  <2>4. ASSUME NEW j \in Repository(t, dir), NEW e \in DOMAIN lock, hit(j, e)
        PROVE  i < j \/ (i = j /\ First(cs) <= e)
    <3>1. j \in at
      BY <2>4
    <3>2. i <= j
      BY <2>1, <3>1
    <3>3. i = j => e \in cs
      BY <2>4
    <3>4. i = j => First(cs) <= e
      BY <2>3, <3>3
    <3>5. i \in Nat /\ j \in Nat
      BY <1>3, <2>1, <3>1
    <3> HIDE DEF i, cs, at
    <3> QED
      BY <3>2, <3>4, <3>5
  <2>5. i \in Repository(t, dir) /\ First(cs) \in DOMAIN lock /\ hit(i, First(cs))
    BY <2>1, <2>3
  <2> HIDE DEF i, cs, at
  <2>6. FoundAt(t, dir, kind, good, Search(t, dir, kind, good), i, First(cs))
    BY <1>1, <1>5, <2>4, <2>5 DEF FoundAt
  <2> QED
    BY <2>6
<1> QED
  BY <1>4, <1>5

(* A lockfile found stands at or above the manifest and in its repository; *)
(* one that is a package's own stands beside it.                           *)
LEMMA FoundIsInside ==
  ASSUME NEW t, NEW dir \in Dirs, NEW kind, NEW good, NEW f, NEW i, NEW c,
         FoundAt(t, dir, kind, good, f, i, c)
  PROVE  /\ AtOrAbove(f.dir, dir)
         /\ IsDependencySource(f.name) => f.dir = dir
         /\ \A a \in Dirs : AtOrAbove(a, dir) /\ HasGit(t, a) => AtOrAbove(a, f.dir)
<1>1. /\ i \in DOMAIN PathUp[dir] /\ f.dir = PathUp[dir][i] /\ f.name = Lockfiles(kind)[c]
      /\ \A j \in 1 .. i - 1 : ~HasGit(t, PathUp[dir][j])
  BY DEF FoundAt, Repository
<1>2. AtOrAbove(f.dir, dir)
  BY <1>1 DEF AtOrAbove, Elems
<1>3. IsDependencySource(f.name) => f.dir = dir
  BY <1>1, PathsNest DEF FoundAt, AdoptableFrom
<1>4. ASSUME NEW a \in Dirs, AtOrAbove(a, dir), HasGit(t, a) PROVE AtOrAbove(a, f.dir)
  <2>1. PICK j \in DOMAIN PathUp[dir] : a = PathUp[dir][j]
    BY <1>4 DEF AtOrAbove, Elems
  <2>2. PathUp[dir] \in Seq(Dirs)
    BY PathsGoUp
  <2>3. i <= j
    BY <1>1, <1>4, <2>1, <2>2
  <2> QED
    BY <1>1, <2>1, <2>3, PathsNest DEF AtOrAbove
<1> QED
  BY <1>2, <1>3, <1>4

(* The two searches part only at a lockfile that does not parse.           *)
LEMMA SearchesAgree ==
  ASSUME NEW t, NEW dir \in Dirs, NEW kind \in ManifestKinds,
         NEW near, near = LocateLockfile(t, dir, kind),
         NEW good, good = FindLockfile(t, dir, kind)
  PROVE  /\ near = None => good = None
         /\ near # good => \E i, c : FoundAt(t, dir, kind, There(t, kind), near, i, c)
         /\ near # good => ~Parses(t, near.dir, near.name)
<1> DEFINE up   == PathUp[dir]
           lock == Lockfiles(kind)
<1>1. near = Search(t, dir, kind, There(t, kind)) /\ good = Search(t, dir, kind, Sound(t, kind))
  BY LocateIsSearch, FindIsSearch
<1>2. up \in Seq(Dirs) /\ lock \in Seq(Elems(lock))
  BY PathsGoUp, Lockable
<1>3. \A i \in DOMAIN up, c \in DOMAIN lock :
        /\ i \in Nat /\ c \in Nat
        /\ <<up[i], lock[c]>> \in Sound(t, kind) <=> Parses(t, up[i], lock[c])
        /\ <<up[i], lock[c]>> \in Sound(t, kind) => <<up[i], lock[c]>> \in There(t, kind)
  BY <1>2 DEF Sound, There, Parses, Reads, Elems
<1>4. Repository(t, dir) \subseteq DOMAIN up
  BY DEF Repository
<1>5. near = None => good = None
  <2> SUFFICES ASSUME near = None, good # None PROVE FALSE
    OBVIOUS
  <2>1. PICK i, c : FoundAt(t, dir, kind, Sound(t, kind), good, i, c)
    BY <1>1, SearchFindsFirst
  <2>2. /\ i \in Repository(t, dir) /\ c \in DOMAIN lock /\ AdoptableFrom(lock[c], i)
        /\ <<up[i], lock[c]>> \in There(t, kind)
    BY <1>3, <1>4, <2>1 DEF FoundAt
  <2>3. CASE \E j, e : FoundAt(t, dir, kind, There(t, kind), near, j, e)
    <3>1. PICK j, e : FoundAt(t, dir, kind, There(t, kind), near, j, e)
      BY <2>3
    <3>2. near = [dir |-> up[j], name |-> lock[e]] /\ up[j] \in Dirs /\ lock[e] \in Elems(lock)
      BY <1>2, <1>4, <3>1 DEF FoundAt, Elems
    <3> QED
      BY <3>2, LockfileAssumption
  <2>4. CASE ~\E j, e : FoundAt(t, dir, kind, There(t, kind), near, j, e)
    <3> HIDE DEF up, lock
    <3> QED
      BY <1>1, <2>2, <2>4, SearchFindsFirst DEF up, lock
  <2> QED
    BY <2>3, <2>4
<1>6. ASSUME near # good
      PROVE  \E i, c : FoundAt(t, dir, kind, There(t, kind), near, i, c)
  <2>1. near # None
    BY <1>5, <1>6
  <2> QED
    BY <1>1, <2>1, SearchFindsFirst
<1>7. ASSUME near # good, Parses(t, near.dir, near.name) PROVE FALSE
  <2>1. PICK i, c : FoundAt(t, dir, kind, There(t, kind), near, i, c)
    BY <1>6, <1>7
  <2>2. /\ i \in Repository(t, dir) /\ c \in DOMAIN lock /\ AdoptableFrom(lock[c], i)
        /\ <<up[i], lock[c]>> \in Sound(t, kind) /\ i \in Nat /\ c \in Nat
    BY <1>3, <1>4, <1>7, <2>1 DEF FoundAt
  <2>3. PICK j, e : FoundAt(t, dir, kind, Sound(t, kind), good, j, e)
    BY <1>1, <2>2, SearchFindsFirst
  <2>4. /\ j \in Repository(t, dir) /\ e \in DOMAIN lock /\ AdoptableFrom(lock[e], j)
        /\ <<up[j], lock[e]>> \in There(t, kind) /\ j \in Nat /\ e \in Nat
    BY <1>3, <1>4, <2>3 DEF FoundAt
  <2>5. j < i \/ (j = i /\ e <= c)
    BY <2>2, <2>3 DEF FoundAt
  <2>6. i < j \/ (i = j /\ c <= e)
    BY <2>1, <2>4 DEF FoundAt
  <2>7. i = j /\ c = e
    BY <2>2, <2>4, <2>5, <2>6
  <2>8. near = good
    BY <2>1, <2>3, <2>7 DEF FoundAt
  <2> QED
    BY <1>7, <2>8
<1> QED
  BY <1>5, <1>6, <1>7

(* And of one beside the manifest that does not parse the user is told.    *)
LEMMA UnparsedIsTold ==
  ASSUME NEW t, NEW dir, NEW kind, NEW l \in Elems(Lockfiles(kind)),
         IsFile(t, dir, l), ~Parses(t, dir, l)
  PROVE  \E n \in LockfileNotices(t, dir, kind) : n.name = l
<1> DEFINE n == [dir |-> dir, name |-> l, unread |-> IsDependencySource(l) /\ ~Parses(t, dir, l)]
<1>1. t.at[dir][l] # "Full"
  BY DEF Parses, Reads
<1>2. n \in LockfileNotices(t, dir, kind)
  BY <1>1 DEF LockfileNotices
<1>3. n.name = l
  OBVIOUS
<1> QED
  BY <1>2, <1>3

LEMMA LockfilesAgreed == LockfilesAgree
<1> SUFFICES ASSUME NEW d \in Dirs, NEW k \in ManifestKinds,
                    NEW near, near = LocateLockfile(tree, d, k),
                    NEW good, good = FindLockfile(tree, d, k)
             PROVE  /\ good # None => near # None
                    /\ near # good =>
                         /\ ~Parses(tree, near.dir, near.name)
                         /\ near.dir = d =>
                              \E n \in LockfileNotices(tree, d, k) : n.name = near.name
                    /\ \A f \in {near, good} \ {None} :
                         /\ AtOrAbove(f.dir, d)
                         /\ IsDependencySource(f.name) => f.dir = d
                         /\ \A a \in Dirs :
                              AtOrAbove(a, d) /\ HasGit(tree, a) => AtOrAbove(a, f.dir)
  BY DEF LockfilesAgree
<1>1. good # None => near # None
  BY SearchesAgree
<1>2. ASSUME near # good
      PROVE  /\ ~Parses(tree, near.dir, near.name)
             /\ near.dir = d => \E n \in LockfileNotices(tree, d, k) : n.name = near.name
  <2>1. ~Parses(tree, near.dir, near.name)
    BY <1>2, SearchesAgree
  <2>2. PICK i, c : FoundAt(tree, d, k, There(tree, k), near, i, c)
    BY <1>2, SearchesAgree
  <2>3. IsFile(tree, near.dir, near.name) /\ near.name \in Elems(Lockfiles(k))
    BY <2>2 DEF FoundAt, There
  <2> QED
    BY <2>1, <2>3, UnparsedIsTold
<1>3. ASSUME NEW f \in {near, good} \ {None}
      PROVE  /\ AtOrAbove(f.dir, d)
             /\ IsDependencySource(f.name) => f.dir = d
             /\ \A a \in Dirs :
                  AtOrAbove(a, d) /\ HasGit(tree, a) => AtOrAbove(a, f.dir)
  <2>1. \E files, i, c : FoundAt(tree, d, k, files, f, i, c)
    BY <1>3, LocateIsSearch, FindIsSearch, SearchFindsFirst
  <2> QED
    BY <2>1, FoundIsInside
<1> QED
  BY <1>1, <1>2, <1>3

-----------------------------------------------------------------------------
(* The walk of `is_superseded`, unrolled: the build whose catalog ends it. *)
LEMMA Superseded ==
  ASSUME NEW t, NEW d \in Dirs, NEW r \in Dirs
  PROVE  IsSuperseded(t, d, r) <=>
           \E k \in DOMAIN PathUp[d] :
              /\ (k = 1 \/ DeclaresSubprojects(t, PathUp[d][k])) /\ HoldsCatalog(t, PathUp[d][k])
              /\ \A j \in 1 .. k - 1 :
                   /\ ~IsBuildRoot(t, PathUp[d][j]) /\ ~HasGit(t, PathUp[d][j])
                   /\ \/ r \notin {PathUp[d][h] : h \in 1 .. j}
                      \/ DeclaresSubprojects(t, PathUp[d][j + 1])
<1> DEFINE up == PathUp[d]
           ends(i)  == (i = 1 \/ DeclaresSubprojects(t, up[i])) /\ HoldsCatalog(t, up[i])
           moves(i) == /\ ~IsBuildRoot(t, up[i]) /\ ~HasGit(t, up[i])
                       /\ \/ r \notin {up[j] : j \in 1 .. i}
                          \/ DeclaresSubprojects(t, up[i + 1])
           Step(g, i) == ends(i) \/ (/\ ~IsBuildRoot(t, up[i]) /\ ~HasGit(t, up[i])
                                     /\ i < Len(up)
                                     /\ \/ r \notin {up[j] : j \in 1 .. i}
                                        \/ DeclaresSubprojects(t, up[i + 1])
                                     /\ g[i + 1])
           Is(g) == g = [i \in DOMAIN up |-> Step(g, i)]
           Holds(i) == \E k \in DOMAIN up : i <= k /\ ends(k) /\ \A j \in i .. k - 1 : moves(j)
           go == CHOOSE g : Is(g)
<1>1. r # None
  BY DiscoveryAssumption
<1>2. IsSuperseded(t, d, r) <=> go[1]
  BY <1>1 DEF IsSuperseded
<1>3. up \in Seq(Dirs) /\ 1 \in DOMAIN up
  BY PathsGoUp, PathsNest
<1>4. \A i \in DOMAIN up : i \in Nat /\ i <= Len(up) /\ (i < Len(up) => i + 1 \in DOMAIN up)
  BY <1>3
<1>5. \A g, i : Step(g, i) <=> ends(i) \/ (i < Len(up) /\ moves(i) /\ g[i + 1])
  OBVIOUS
<1> HIDE DEF ends, moves, Step
<1>6. ASSUME NEW i \in DOMAIN up
      PROVE  Holds(i) <=> ends(i) \/ (i < Len(up) /\ moves(i) /\ Holds(i + 1))
  <2>1. ASSUME Holds(i), ~ends(i) PROVE i < Len(up) /\ moves(i) /\ Holds(i + 1)
    <3>1. PICK k \in DOMAIN up : i <= k /\ ends(k) /\ \A j \in i .. k - 1 : moves(j)
      BY <2>1
    <3>2. i + 1 <= k /\ i < Len(up) /\ i \in i .. k - 1
      BY <1>4, <2>1, <3>1
    <3>3. \A j \in i + 1 .. k - 1 : j \in i .. k - 1
      BY <1>4
    <3> QED
      BY <3>1, <3>2, <3>3
  <2>2. ASSUME ends(i) PROVE Holds(i)
    BY <1>4, <2>2
  <2>3. ASSUME moves(i), Holds(i + 1) PROVE Holds(i)
    <3>1. PICK k \in DOMAIN up : i + 1 <= k /\ ends(k) /\ \A j \in i + 1 .. k - 1 : moves(j)
      BY <2>3
    <3>2. i <= k /\ \A j \in i .. k - 1 : j = i \/ j \in i + 1 .. k - 1
      BY <1>4, <3>1
    <3> QED
      BY <2>3, <3>1, <3>2
  <2> QED
    BY <2>1, <2>2, <2>3
<1> HIDE DEF Holds
<1>7. \E g : Is(g)
  <2> DEFINE g == [i \in DOMAIN up |-> Holds(i)]
  <2>1. \A i \in DOMAIN up : i < Len(up) => (g[i + 1] <=> Holds(i + 1))
    BY <1>4
  <2>2. \A i \in DOMAIN up : Holds(i) <=> Step(g, i)
    <3> HIDE DEF g
    <3> QED
      BY <1>5, <1>6, <2>1
  <2>3. [i \in DOMAIN up |-> Step(g, i)] = [i \in DOMAIN up |-> Holds(i)]
    <3>1. \A i \in DOMAIN up : Step(g, i) = Holds(i)
      <4> HIDE DEF g
      <4>1. \A i : Step(g, i) \in BOOLEAN
        BY DEF Step
      <4>2. \A i : Holds(i) \in BOOLEAN
        BY DEF Holds
      <4> QED
        BY <2>2, <4>1, <4>2
    <3> HIDE DEF g
    <3> QED
      BY <3>1
  <2>4. Is(g)
    BY <2>3
  <2> HIDE DEF g
  <2> QED
    BY <2>4
<1>8. Is(go)
  BY <1>7
<1>9. \A i \in DOMAIN up : go[i] <=> Step(go, i)
  <2> HIDE DEF go
  <2> QED
    BY <1>8
<1> HIDE DEF go
<1> DEFINE S == {n \in Nat : \A i \in DOMAIN up : Len(up) - i <= n => (go[i] <=> Holds(i))}
<1>10. 0 \in S
  <2>1. \A i \in DOMAIN up : Len(up) - i <= 0 => ~(i < Len(up))
    BY <1>3, <1>4
  <2> QED
    BY <1>5, <1>6, <1>9, <2>1
<1>11. ASSUME NEW n \in Nat, n \in S PROVE n + 1 \in S
  <2>1. ASSUME NEW i \in DOMAIN up, Len(up) - i <= n + 1, i < Len(up)
        PROVE  go[i + 1] <=> Holds(i + 1)
    <3>1. PICK e : e = i + 1
      OBVIOUS
    <3>2. e \in DOMAIN up /\ Len(up) - e <= n
      BY <1>3, <1>4, <2>1, <3>1, SMTT(30)
    <3>3. go[e] <=> Holds(e)
      BY <1>11, <3>2
    <3> QED
      BY <3>1, <3>3, Zenon
  <2>2. \A i \in DOMAIN up : Len(up) - i <= n + 1 =>
           (Step(go, i) <=> ends(i) \/ (i < Len(up) /\ moves(i) /\ Holds(i + 1)))
    <3> SUFFICES ASSUME NEW i \in DOMAIN up, Len(up) - i <= n + 1
                 PROVE  Step(go, i) <=> ends(i) \/ (i < Len(up) /\ moves(i) /\ Holds(i + 1))
      OBVIOUS
    <3>1. i < Len(up) => (go[i + 1] <=> Holds(i + 1))
      BY <2>1
    <3> QED
      BY <1>5, <3>1, Zenon
  <2>3. \A i \in DOMAIN up : Len(up) - i <= n + 1 => (go[i] <=> Holds(i))
    BY <1>6, <1>9, <2>2, Zenon
  <2> QED
    BY <2>3
<1> HIDE DEF S
<1>12. Len(up) \in S
  BY <1>3, <1>10, <1>11, SetInduction
<1>13. go[1] <=> Holds(1)
  <2>1. Len(up) - 1 <= Len(up) /\ Len(up) \in Nat
    BY <1>3
  <2> QED
    BY <1>3, <1>12, <2>1 DEF S
<1>14. Holds(1) <=> \E k \in DOMAIN up : ends(k) /\ \A j \in 1 .. k - 1 : moves(j)
  BY <1>4 DEF Holds
<1> QED
  BY <1>2, <1>13, <1>14 DEF ends, moves

(* The walk meets the catalogs that declare a script's dependencies, as    *)
(* far up as one directory above where the scan starts.                    *)
LEMMA SupersededIsDeclared ==
  ASSUME NEW d \in Dirs, NEW r \in Dirs, \E n \in DOMAIN PathUp[d] : PathUp[d][n] = r
  PROVE  IsSuperseded(tree, d, r) <=>
           \E i \in DeclaredAt(d) : i - 1 <= First({j \in DOMAIN PathUp[d] : PathUp[d][j] = r})
<1> DEFINE up == PathUp[d]
           J  == {j \in DOMAIN up : up[j] = r}
           start == First(J)
           ends(k) == (k = 1 \/ DeclaresSubprojects(tree, up[k])) /\ HoldsCatalog(tree, up[k])
           clear(j) == ~IsBuildRoot(tree, up[j]) /\ ~HasGit(tree, up[j])
<1>1. up \in Seq(Dirs) /\ DOMAIN up \subseteq Nat /\ \A i \in DOMAIN up : \A j \in 1 .. i - 1 : j \in DOMAIN up
  BY PathsGoUp
<1>2. start \in J /\ \A j \in J : start <= j
  <2>1. J # {} /\ J \subseteq Nat
    BY <1>1
  <2> HIDE DEF J
  <2> QED
    BY <2>1, LeastNat DEF First
<1>3. start \in DOMAIN up /\ up[start] = r /\ start \in Nat /\ 1 <= start
  BY <1>1, <1>2
<1>4. ASSUME NEW j \in DOMAIN up
      PROVE  r \notin {up[h] : h \in 1 .. j} <=> j < start
  <2>1. ASSUME j < start PROVE r \notin {up[h] : h \in 1 .. j}
    <3> SUFFICES ASSUME NEW h \in 1 .. j, r = up[h] PROVE FALSE
      OBVIOUS
    <3>1. h \in J
      BY <1>1
    <3> HIDE DEF J, start
    <3> QED
      BY <1>1, <1>2, <1>3, <2>1, <3>1
  <2>2. ASSUME ~(j < start) PROVE r \in {up[h] : h \in 1 .. j}
    <3> HIDE DEF start
    <3> QED
      BY <1>1, <1>3, <2>2
  <2> QED
    BY <2>1, <2>2
<1> HIDE DEF start, J
<1>5. IsSuperseded(tree, d, r) <=>
        \E k \in DOMAIN up :
           /\ ends(k)
           /\ \A j \in 1 .. k - 1 : clear(j) /\ (j < start \/ DeclaresSubprojects(tree, up[j + 1]))
  <2>1. IsSuperseded(tree, d, r) <=>
          \E k \in DOMAIN up :
             /\ ends(k)
             /\ \A j \in 1 .. k - 1 :
                  clear(j) /\ \/ r \notin {up[h] : h \in 1 .. j}
                              \/ DeclaresSubprojects(tree, up[j + 1])
    BY Superseded
  <2> HIDE DEF ends, clear
  <2> QED
    BY <1>1, <1>4, <2>1
<1>6. \A k : k \in DeclaredAt(d) <=> k \in DOMAIN up /\ ends(k) /\ \A j \in 1 .. k - 1 : clear(j)
  BY DEF DeclaredAt
<1>7. \A j : DeclaresSubprojects(tree, up[j]) => ~clear(j)
  BY DEF IsBuildRoot
<1>8. \A k : ends(k) => k = 1 \/ DeclaresSubprojects(tree, up[k])
  OBVIOUS
<1> HIDE DEF ends, clear
<1>9. ASSUME NEW k \in DeclaredAt(d)
      PROVE  k - 1 <= start <=>
               \A j \in 1 .. k - 1 : j < start \/ DeclaresSubprojects(tree, up[j + 1])
  <2>1. k \in Nat /\ k \in DOMAIN up /\ ends(k) /\ \A j \in 1 .. k - 1 : clear(j)
    BY <1>1, <1>6
  <2>2. ASSUME k - 1 <= start, NEW j \in 1 .. k - 1, ~(j < start)
        PROVE  DeclaresSubprojects(tree, up[j + 1])
    <3>1. j + 1 = k /\ k # 1
      BY <1>3, <2>1, <2>2
    <3> QED
      BY <1>8, <2>1, <3>1
  <2>3. ASSUME ~(k - 1 <= start), \A j \in 1 .. k - 1 : j < start \/ DeclaresSubprojects(tree, up[j + 1])
        PROVE  FALSE
    <3>1. start \in 1 .. k - 1 /\ ~(start < start) /\ start + 1 \in 1 .. k - 1
      BY <1>3, <2>1, <2>3
    <3>2. DeclaresSubprojects(tree, up[start + 1]) /\ clear(start + 1)
      BY <2>1, <2>3, <3>1
    <3> QED
      BY <1>7, <3>2
  <2> QED
    BY <2>2, <2>3
<1>10. IsSuperseded(tree, d, r) <=> \E i \in DeclaredAt(d) : i - 1 <= start
  BY <1>5, <1>6, <1>9
<1> QED
  BY <1>10 DEF start, J

LEMMA ScriptsAgreed == ScriptsReported
<1> SUFFICES ASSUME NEW r \in Dirs, NEW d \in Dirs, d \in Entered(tree, r, Cardinality(Dirs)),
                    NEW s \in BuildScripts, IsFile(tree, d, s)
             PROVE  ([dir |-> d, name |-> s]
                        \in ManifestNotices(tree, r, Cardinality(Dirs), {"Jvm"}))
                    = ~\E i \in DeclaredAt(d) :
                          i - 1 <= First({j \in DOMAIN PathUp[d] : PathUp[d][j] = r})
  BY DEF ScriptsReported
<1> DEFINE m == [dir |-> d, name |-> s]
<1>1. \E n \in DOMAIN PathUp[d] : PathUp[d][n] = r
  BY DEF Entered
<1>2. m \in [dir : Entered(tree, r, Cardinality(Dirs)), name : BuildScripts]
      /\ m.dir = d /\ m.name = s
  OBVIOUS
<1>3. m \in ManifestNotices(tree, r, Cardinality(Dirs), {"Jvm"}) <=> ~IsSuperseded(tree, d, r)
  <2> HIDE DEF m
  <2> QED
    BY <1>2 DEF ManifestNotices
<1>4. IsSuperseded(tree, d, r) <=>
        \E i \in DeclaredAt(d) : i - 1 <= First({j \in DOMAIN PathUp[d] : PathUp[d][j] = r})
  BY <1>1, SupersededIsDeclared
<1> HIDE DEF m
<1>5. m \in ManifestNotices(tree, r, Cardinality(Dirs), {"Jvm"}) <=>
        ~\E i \in DeclaredAt(d) : i - 1 <= First({j \in DOMAIN PathUp[d] : PathUp[d][j] = r})
  BY <1>3, <1>4, Zenon
<1> QED
  BY <1>5 DEF m

-----------------------------------------------------------------------------
(* A package's list is read, or said to be unread, beside its manifest.    *)
LEMMA OwnListReadOrSaid ==
  ASSUME NEW t, IsTree(t), NEW r, NEW m, m.dir \in Dirs, KindOf(m) = "PackageSwift"
  PROVE  UnreadNoticed(t, m) <=> Content(t, LockfileRead(t, r, m)) \in {None, Garbled}
<1> DEFINE dir == m.dir
           list == [dir |-> dir, name |-> "Package.resolved"]
<1>1. Lockfiles("PackageSwift") = <<"Package.resolved">> /\ Elems(<<"Package.resolved">>) = {"Package.resolved"}
  <2>1. Lockfiles("PackageSwift") = <<"Package.resolved">>
    BY Lockable
  <2>2. Elems(<<"Package.resolved">>) = {"Package.resolved"}
    BY DEF Elems
  <2> QED
    BY <2>1, <2>2
<1>2. PathUp[dir][1] = dir /\ 1 \in Repository(t, dir)
  <2>1. 1 \in DOMAIN PathUp[dir] /\ PathUp[dir][1] = dir
    BY PathsNest
  <2> QED
    BY <2>1 DEF Repository
<1>3. UnreadNoticed(t, m) <=> ~Parses(t, dir, "Package.resolved")
  <2> DEFINE n == [dir |-> dir, name |-> "Package.resolved",
                   unread |-> ~Parses(t, dir, "Package.resolved")]
  <2>1. LockfileNotices(t, dir, "PackageSwift") =
          {[dir |-> dir, name |-> l, unread |-> IsDependencySource(l) /\ ~Parses(t, dir, l)] :
             l \in {l \in {"Package.resolved"} :
                      IF IsFile(t, dir, l) THEN t.at[dir][l] # "Full" ELSE IsDependencySource(l)}}
    <3>1. UnreadableLockfiles("PackageSwift") = {}
      BY DEF UnreadableLockfiles
    <3> QED
      BY <1>1, <3>1, Zenon DEF LockfileNotices
  <2>2. \A x \in LockfileNotices(t, dir, "PackageSwift") :
          x.unread <=> ~Parses(t, dir, "Package.resolved")
    <3> SUFFICES ASSUME NEW x \in LockfileNotices(t, dir, "PackageSwift")
                 PROVE  x.unread <=> ~Parses(t, dir, "Package.resolved")
      OBVIOUS
    <3>1. PICK l \in {"Package.resolved"} :
            x = [dir |-> dir, name |-> l, unread |-> IsDependencySource(l) /\ ~Parses(t, dir, l)]
      BY <2>1
    <3>2. x.unread <=> IsDependencySource(l) /\ ~Parses(t, dir, l)
      BY <3>1
    <3> QED
      BY <3>1, <3>2 DEF IsDependencySource
  <2>3. ASSUME ~Parses(t, dir, "Package.resolved")
        PROVE  \E x \in LockfileNotices(t, dir, "PackageSwift") : TRUE
    <3>1. IF IsFile(t, dir, "Package.resolved") THEN t.at[dir]["Package.resolved"] # "Full"
          ELSE IsDependencySource("Package.resolved")
      BY <2>3 DEF Parses, Reads, IsDependencySource
    <3> QED
      BY <2>1, <3>1
  <2> QED
    BY <2>2, <2>3 DEF UnreadNoticed
<1>4. CASE IsFile(t, dir, "Package.resolved")
  <2>1. <<PathUp[dir][1], "Package.resolved">> \in There(t, "PackageSwift")
    BY <1>1, <1>2, <1>4 DEF There
  <2>2. LocateLockfile(t, dir, "PackageSwift") = list
    BY <1>2, <2>1, LocateIsSearch, OwnListFound
  <2>3. list # None
    <3>1. "PackageSwift" \in ManifestKinds
      BY DEF ManifestKinds
    <3> QED
      BY <1>1, <3>1, LockfileAssumption
  <2>4. list.dir = dir /\ list.name = "Package.resolved"
    OBVIOUS
  <2> HIDE DEF list
  <2>5. LockfileRead(t, r, m) = IF Reads(t, dir, "Package.resolved") THEN list ELSE None
    BY <2>2, <2>3, <2>4 DEF LockfileRead, IsDependencySource
  <2>6. CASE Parses(t, dir, "Package.resolved")
    <3>1. LockfileRead(t, r, m) = list
      BY <2>5, <2>6 DEF Parses
    <3>2. Content(t, list) = t.text[dir]["Package.resolved"]
      BY <2>3, <2>4, <2>6 DEF Content, ReadOrBroken, Text
    <3>3. HoldsText("Package.resolved", t.text[dir]["Package.resolved"])
      BY <1>4 DEF IsTree, IsFile
    <3> QED
      BY <1>3, <2>6, <3>1, <3>2, <3>3 DEF HoldsText
  <2>7. CASE ~Parses(t, dir, "Package.resolved")
    <3>1. Content(t, list) = Garbled /\ Content(t, None) = None
      BY <2>3, <2>4, <2>7 DEF Content, ReadOrBroken
    <3> QED
      BY <1>3, <2>5, <2>7, <3>1
  <2> QED
    BY <2>6, <2>7
<1>5. CASE ~IsFile(t, dir, "Package.resolved")
  <2>1. LocateLockfile(t, dir, "PackageSwift") = None
    <3>1. <<PathUp[dir][1], "Package.resolved">> \notin There(t, "PackageSwift")
      BY <1>2, <1>5 DEF There
    <3>2. LocateLockfile(t, dir, "PackageSwift") = Search(t, dir, "PackageSwift", There(t, "PackageSwift"))
      BY LocateIsSearch
    <3> QED
      BY <3>1, <3>2, OwnListOrNone
  <2>2. Content(t, LockfileRead(t, r, m)) = None
    BY <2>1 DEF LockfileRead, Content
  <2> QED
    <3>1. ~Parses(t, dir, "Package.resolved")
      BY <1>5 DEF Parses, Reads
    <3> QED
      BY <1>3, <2>2, <3>1
<1> QED
  BY <1>4, <1>5
(* What is said of a package's list is what was read of it.                *)
LEMMA UnreadSaid ==
  ASSUME IsTree(tree), ReportsAsIs
  PROVE  UnreadIsSaid
<1> SUFFICES ASSUME NEW r \in reports, KindOf(r.manifest) = "PackageSwift"
             PROVE  r.unread = ~r.readList
  BY DEF UnreadIsSaid
<1>1. /\ r.manifest.dir \in Dirs
      /\ r.unread = UnreadNoticed(tree, r.manifest)
      /\ r.readList = (Content(tree, LockfileRead(tree, run, r.manifest)) \notin {None, Garbled})
  BY DEF ReportsAsIs, IsThere
<1>2. UnreadNoticed(tree, r.manifest) <=>
        Content(tree, LockfileRead(tree, run, r.manifest)) \in {None, Garbled}
  BY <1>1, OwnListReadOrSaid
<1>3. UnreadNoticed(tree, r.manifest) \in BOOLEAN
  BY DEF UnreadNoticed
<1> QED
  BY <1>1, <1>2, <1>3

(* No tree and no write makes what decides the files of a run disagree     *)
(* with what the rest says of them: a build script without a reader is     *)
(* named unless the catalog it uses is read (`is_superseded`), the two     *)
(* searches for a lockfile part only at one that does not parse            *)
(* (`locate_lockfile`, `find_lockfile`), and where nobody writes a file    *)
(* meanwhile a package's list is read or said not to be.                   *)
THEOREM DiscoveryHidesNothing == Spec => []DiscoveryAgrees
<1>1. IInv /\ Calm => DiscoveryAgrees
  <2> SUFFICES ASSUME IsTree(tree), edits = 0 => ReportsAsIs PROVE DiscoveryAgrees
    BY DEF IInv, Shaped, Calm, AsIs
  <2>1. UnreadIsSaid
    BY UnreadSaid DEF UnreadIsSaid
  <2> QED
    BY <2>1, ScriptsAgreed, LockfilesAgreed DEF DiscoveryAgrees
<1> QED
  BY <1>1, CalmInvariant, PTL

-----------------------------------------------------------------------------
(***************************************************************************)
(* The clients of the registries.  An answer is faithful when what the     *)
(* invariant asks of it holds of what was served; each client's answer is, *)
(* and what is gathered over several requests stays part of one.           *)
(***************************************************************************)
(* Numbers of a finite set, each with a different number of greater ones:  *)
(* so the list that puts at `i` the one with i - 1 greater has each once,  *)
(* and the greater before the smaller.                                     *)
Greater(S, n) == {m \in S : m > n}
Rank(S)       == [n \in S |-> Cardinality(Greater(S, n)) + 1]

LEMMA GreaterAreFewer ==
  ASSUME NEW S, S \subseteq Int, IsFiniteSet(S), NEW n \in S
  PROVE  /\ IsFiniteSet(Greater(S, n)) /\ Cardinality(Greater(S, n)) \in Nat
         /\ Rank(S)[n] \in 1 .. Cardinality(S)
         /\ \A m \in S : m > n => Rank(S)[m] < Rank(S)[n]
<1>1. Greater(S, n) \subseteq S /\ n \notin Greater(S, n)
  BY DEF Greater
<1>2. /\ IsFiniteSet(Greater(S, n)) /\ Cardinality(Greater(S, n)) \in Nat
      /\ Cardinality(S) \in Nat /\ Cardinality(Greater(S, n)) <= Cardinality(S)
      /\ Cardinality(Greater(S, n)) # Cardinality(S)
  BY <1>1, FS_Subset, FS_CardinalityType
<1>3. Rank(S)[n] = Cardinality(Greater(S, n)) + 1
  BY DEF Rank
<1>4. ASSUME NEW m \in S, m > n PROVE Rank(S)[m] < Rank(S)[n]
  <2>1. Greater(S, m) \subseteq Greater(S, n) /\ m \in Greater(S, n) /\ m \notin Greater(S, m)
    <3>1. \A k \in S : k > m => k > n
      BY <1>4
    <3>2. m \in Int /\ ~(m > m)
      OBVIOUS
    <3> QED
      BY <1>4, <3>1, <3>2 DEF Greater
  <2>2. /\ Cardinality(Greater(S, m)) <= Cardinality(Greater(S, n))
        /\ Cardinality(Greater(S, m)) # Cardinality(Greater(S, n))
        /\ IsFiniteSet(Greater(S, m))
    BY <1>2, <2>1, FS_Subset
  <2>3. Cardinality(Greater(S, m)) \in Nat
    BY <2>2, FS_CardinalityType
  <2>4. Rank(S)[m] = Cardinality(Greater(S, m)) + 1
    BY DEF Rank
  <2> QED
    BY <1>2, <1>3, <2>2, <2>3, <2>4
<1> QED
  BY <1>2, <1>3, <1>4

(* Each rank from one to the number of numbers is that of exactly one.     *)
LEMMA RankIsOnto ==
  ASSUME NEW S, S \subseteq Int, IsFiniteSet(S)
  PROVE  /\ Cardinality(S) \in Nat
         /\ \A m, n \in S : Rank(S)[m] = Rank(S)[n] => m = n
         /\ \A i \in 1 .. Cardinality(S) : \E n \in S : Rank(S)[n] = i
<1> DEFINE c == Cardinality(S)
           r == Rank(S)
<1>1. c \in Nat
  BY FS_CardinalityType
<1>2. \A n \in S : r[n] \in 1 .. c
  BY GreaterAreFewer
<1>3. ASSUME NEW m \in S, NEW n \in S, r[m] = r[n] PROVE m = n
  <2>1. m \in Int /\ n \in Int /\ r[m] \in Int
    BY <1>1, <1>2
  <2>2. (m > n => r[m] < r[n]) /\ (n > m => r[n] < r[m])
    BY GreaterAreFewer
  <2>3. ~(m > n) /\ ~(n > m)
    <3> HIDE DEF r
    <3> QED
      BY <1>3, <2>1, <2>2
  <2> QED
    BY <2>1, <2>3
<1>4. r \in [S -> 1 .. c]
  BY <1>2 DEF Rank
<1>5. r \in Injection(S, 1 .. c)
  <2> HIDE DEF r
  <2> QED
    BY <1>3, <1>4 DEF Injection, IsInjective
<1>6. IsFiniteSet(1 .. c) /\ Cardinality(1 .. c) = c
  BY <1>1, FS_Interval
<1>7. r \in Surjection(S, 1 .. c)
  <2> HIDE DEF r
  <2> QED
    BY <1>5, <1>6, FS_Injection
<1>8. \A i \in 1 .. c : \E n \in S : r[n] = i
  <2> HIDE DEF r
  <2> QED
    BY <1>7 DEF Surjection
<1> QED
  BY <1>1, <1>3, <1>8

(* So NewestFirst lists the set, in strictly descending order.             *)
LEMMA ListedNewestFirst ==
  ASSUME NEW S, S \subseteq Int, IsFiniteSet(S)
  PROVE  /\ ToSet(NewestFirst(S)) = S
         /\ \A i, j \in DOMAIN NewestFirst(S) : i < j => NewestFirst(S)[i] > NewestFirst(S)[j]
<1> DEFINE v == NewestFirst(S)
           c == Cardinality(S)
           r == Rank(S)
<1>1. DOMAIN v = 1 .. c
  BY DEF NewestFirst
<1>2. ASSUME NEW i \in 1 .. c PROVE v[i] \in S /\ r[v[i]] = i
  <2>1. v[i] = CHOOSE n \in S : Cardinality({m \in S : m > n}) = i - 1
    BY DEF NewestFirst
  <2>2. \E n \in S : r[n] = i
    BY RankIsOnto
  <2>3. \A n \in S : r[n] = Cardinality({m \in S : m > n}) + 1
    BY DEF Rank, Greater
  <2>4. \A n \in S : Cardinality({m \in S : m > n}) \in Nat
    BY GreaterAreFewer DEF Greater
  <2>5. \E n \in S : Cardinality({m \in S : m > n}) = i - 1
    BY <2>2, <2>3, <2>4
  <2>6. v[i] \in S /\ Cardinality({m \in S : m > v[i]}) = i - 1
    BY <2>1, <2>5
  <2> QED
    <3>1. r[v[i]] = (i - 1) + 1
      <4> HIDE DEF v, r
      <4> QED
        BY <2>3, <2>6
    <3> QED
      BY <2>6, <3>1
<1>3. ASSUME NEW n \in S PROVE \E i \in 1 .. c : v[i] = n
  <2>1. r[n] \in 1 .. c
    BY GreaterAreFewer
  <2>2. v[r[n]] \in S /\ r[v[r[n]]] = r[n]
    BY <1>2, <2>1
  <2>3. v[r[n]] = n
    BY <2>2, RankIsOnto
  <2> QED
    BY <2>1, <2>3
<1>4. ToSet(v) = S
  BY <1>1, <1>2, <1>3 DEF ToSet
<1>5. ASSUME NEW i \in 1 .. c, NEW j \in 1 .. c, i < j PROVE v[i] > v[j]
  <2>1. v[i] \in S /\ v[j] \in S /\ r[v[i]] = i /\ r[v[j]] = j
    BY <1>2
  <2>2. ~(v[j] > v[i])
    <3>1. v[j] > v[i] => r[v[j]] < r[v[i]]
      BY <2>1, GreaterAreFewer
    <3> QED
      BY <1>5, <2>1, <3>1
  <2>3. v[i] # v[j]
    BY <1>5, <2>1
  <2>4. v[i] \in Int /\ v[j] \in Int
    BY <2>1
  <2> HIDE DEF v
  <2> QED
    BY <2>2, <2>3, <2>4
<1> QED
  BY <1>1, <1>4, <1>5

(* The earliest of some dates is one of them.                              *)
LEMMA EarliestIsOne ==
  ASSUME NEW S, S \subseteq Int, IsFiniteSet(S), S # {}
  PROVE  Min(S) \in S
<1>1. Cardinality(S) \in Nat /\ Cardinality(S) # 0
  BY FS_CardinalityType, FS_EmptySet
<1>2. PICK n \in S : Rank(S)[n] = Cardinality(S)
  <2>1. Cardinality(S) \in 1 .. Cardinality(S)
    BY <1>1
  <2> QED
    BY <2>1, RankIsOnto
<1>3. ASSUME NEW m \in S PROVE n <= m
  <2>1. n \in Int /\ m \in Int
    OBVIOUS
  <2>2. Rank(S)[m] \in 1 .. Cardinality(S)
    BY GreaterAreFewer
  <2>3. n > m => Rank(S)[n] < Rank(S)[m]
    BY GreaterAreFewer
  <2>4. ~(n > m)
    BY <1>1, <1>2, <2>2, <2>3
  <2> QED
    BY <2>1, <2>4
<1> QED
  BY <1>3 DEF Min

(* PickedIsListed, of a list each element of which is taken once.                 *)
LEMMA OnceEachIsListed ==
  ASSUME NEW S, NEW s \in Seq(S), NEW T, T \subseteq DOMAIN s
  PROVE  /\ Len(OnceEach(s, T)) <= Len(s)
         /\ \A k \in DOMAIN OnceEach(s, T) : \E i \in T : OnceEach(s, T)[k] = s[i]
<1> DEFINE F == {i \in T : \A j \in T : j < i => s[j] # s[i]}
<1>1. F \subseteq T /\ F \subseteq DOMAIN s /\ OnceEach(s, T) = Picked(s, F)
  BY DEF OnceEach
<1> HIDE DEF F
<1>2. Len(Picked(s, F)) <= Len(s) /\ \A k \in DOMAIN Picked(s, F) : \E i \in F : Picked(s, F)[k] = s[i]
  BY <1>1, PickedIsListed
<1> QED
  BY <1>1, <1>2

(* What LookupIsFaithful asks of an answer `a` of the registry `w`.        *)
WholeListOf(w, a) ==
  LET only == w.registry = "go" /\ Usable(w) = {}
      all  == IF only THEN {w.latest.release} ELSE Usable(w)
  IN  /\ ToSet(a.versions) = Numbers(all)
      /\ \A i, j \in DOMAIN a.versions : i < j => a.versions[i] > a.versions[j]
      /\ \A r \in all : r.legible
Said(w) ==
  LET last == IF w.registry = "go" THEN w.latest.status ELSE w.status
  IN  \/ last \in CratesAbsent
      \/ w.releases # {} /\ \A r \in w.releases : r.legible /\ Withdrawn(r)
      \/ w.registry = "maven" /\ ~w.addressed
Described(w) ==
  /\ w.registry = "crates.io" /\ HasMetadataApi(w) /\ w.status \in Success
  /\ \A r \in w.releases : r.legible
OwnMetadata(w, a) ==
  /\ \A n \in DOMAIN a.published :
       \E r \in DatedIn(w) : r.version = n /\ a.published[n] \in r.dates
  /\ Len(a.owners) <= Len(w.people)
  /\ \A i \in DOMAIN a.owners : a.owners[i] \in ToSet(w.people) /\ ~IsAnonymous(a.owners[i])
FaithfulTo(w, a) ==
  /\ w.want = "versions" /\ a.ok => WholeListOf(w, a)
  /\ ~a.ok /\ IsPermanentAbsence(a) => Said(w)
  /\ w.want = "metadata" => /\ Described(w) => a.ok
                            /\ a.ok /\ a # NoMetadata => OwnMetadata(w, a)

(* The invariant is about answers only.                                    *)
LEMMA FaithfulAnswers ==
  LookupIsFaithful <=> (stage = "answered" => FaithfulTo(served, answer))
BY DEF LookupIsFaithful, ListIsWhole, AbsenceWasSaid, MetadataIsOwn, FaithfulTo, WholeListOf,
       Said, Described, OwnMetadata

(* How one request may end: no answer, the package is absent, another      *)
(* status, a document that does not decode, or what is read from it.       *)
Failure(status, absent, releases, a) ==
  \/ a = Failed("Http", 0) /\ status \notin Success
  \/ a = Failed("NotFound", status) /\ status \in absent
  \/ a = Failed("Status", status) /\ status \notin Success
  \/ a = Failed("Decode", 0) /\ \E r \in releases : ~r.legible
Outcome(status, absent, releases, a, read) ==
  \/ Failure(status, absent, releases, a)
  \/ a = read /\ status \in Success /\ \A r \in releases : r.legible

(* A failure is permanent where the status says so, and then only.         *)
LEMMA FailuresSay ==
  ASSUME NEW status, NEW absent, NEW releases, NEW a, Failure(status, absent, releases, a)
  PROVE  ~a.ok /\ (IsPermanentAbsence(a) => status \in absent)
BY DEF Failure, Failed, IsPermanentAbsence

LEMMA FailureIsFaithful ==
  ASSUME NEW w, NEW a, NEW absent, absent \subseteq CratesAbsent, NEW R, R \subseteq Everything(w),
         w.registry # "go", Failure(w.status, absent, R, a), w.want = "metadata" => R = w.releases
  PROVE  FaithfulTo(w, a)
<1>1. ~a.ok /\ (IsPermanentAbsence(a) => Said(w))
  BY FailuresSay DEF Said
<1>2. w.want = "metadata" => ~Described(w)
  <2>1. \A x \in CratesAbsent : x \notin Success
    BY DEF CratesAbsent, Success
  <2> QED
    BY <2>1 DEF Failure, Described
<1> QED
  BY <1>1, <1>2 DEF FaithfulTo

(* A request that ends so is answered faithfully when its document is.     *)
LEMMA OutcomeIsFaithful ==
  ASSUME NEW w, NEW a, NEW read, NEW absent, absent \subseteq CratesAbsent,
         w.registry # "go", Outcome(w.status, absent, w.releases, a, read),
         w.status \in Success /\ (\A r \in w.releases : r.legible) => FaithfulTo(w, read)
  PROVE  FaithfulTo(w, a)
<1>1. w.releases \subseteq Everything(w)
  BY DEF Everything
<1> QED
  BY <1>1, FailureIsFaithful DEF Outcome

(* The list made from some of what a registry has, with its tag or without.*)
LEMMA FetchedIsListed ==
  ASSUME NEW w, ServedOK(w), NEW R, R \subseteq Everything(w) \cup {w.latest.release}, NEW tag
  PROVE  /\ Fetched(Numbers(R)).ok
         /\ ToSet(Fetched(Numbers(R)).versions) = Numbers(R)
         /\ \A i, j \in DOMAIN Fetched(Numbers(R)).versions :
              i < j => Fetched(Numbers(R)).versions[i] > Fetched(Numbers(R)).versions[j]
         /\ WithTag(Fetched(Numbers(R)), tag).ok
         /\ WithTag(Fetched(Numbers(R)), tag).versions = Fetched(Numbers(R)).versions
<1>1. IsFiniteSet(Everything(w) \cup {w.latest.release})
  BY FS_AddElement DEF ServedOK
<1>2. IsFiniteSet(R)
  BY <1>1, FS_Subset
<1>3. IsFiniteSet(Numbers(R))
  <2> DEFINE f == [r \in R |-> r.version]
  <2>1. f \in Surjection(R, Numbers(R))
    BY DEF Surjection, Numbers
  <2> QED
    BY <1>2, <2>1, FS_Surjection
<1>4. Numbers(R) \subseteq Int
  BY DEF Numbers, ServedOK
<1>5. /\ ToSet(NewestFirst(Numbers(R))) = Numbers(R)
      /\ \A i, j \in DOMAIN NewestFirst(Numbers(R)) :
           i < j => NewestFirst(Numbers(R))[i] > NewestFirst(Numbers(R))[j]
  BY <1>3, <1>4, ListedNewestFirst
<1> DEFINE f == Fetched(Numbers(R))
<1>6. f.ok /\ f.versions = NewestFirst(Numbers(R))
  BY DEF Fetched
<1>7. WithTag(f, tag).ok /\ WithTag(f, tag).versions = f.versions
  BY DEF WithTag, Fetched
<1> HIDE DEF f
<1> QED
  BY <1>5, <1>6, <1>7 DEF f

(* The list of what is usable, or of a module's only known release, is     *)
(* whole.                                                                  *)
LEMMA ListIsFaithful ==
  ASSUME NEW w, ServedOK(w), w.want = "versions", NEW a, NEW tag, NEW R,
         \/ R = Usable(w) /\ (w.registry = "go" => R # {})
         \/ w.registry = "go" /\ Usable(w) = {} /\ R = {w.latest.release},
         \A r \in R : r.legible,
         a \in {Fetched(Numbers(R)), WithTag(Fetched(Numbers(R)), tag)}
  PROVE  FaithfulTo(w, a)
<1>1. R \subseteq Everything(w) \cup {w.latest.release}
  BY DEF Usable
<1>2. /\ a.ok /\ ToSet(a.versions) = Numbers(R)
      /\ \A i, j \in DOMAIN a.versions : i < j => a.versions[i] > a.versions[j]
  BY <1>1, FetchedIsListed
<1>3. R = IF w.registry = "go" /\ Usable(w) = {} THEN {w.latest.release} ELSE Usable(w)
  OBVIOUS
<1>4. WholeListOf(w, a)
  BY <1>2, <1>3 DEF WholeListOf
<1> QED
  BY <1>2, <1>4 DEF FaithfulTo

(* A registry of one document has the releases in it.                      *)
LEMMA OneDocumentIsAll ==
  ASSUME NEW w, ServedOK(w), w.registry # "nuget"
  PROVE  Everything(w) = w.releases
BY DEF ServedOK, Everything

(* A plain reply is one of a failure's, or what was read.                  *)
LEMMA PlainReply ==
  ASSUME NEW status, NEW absent, NoReply \notin absent, NEW rs
  PROVE  Outcome(status, absent, rs, Reply(status, absent, rs, Plainly), Plainly(rs))
<1> DEFINE reply == Reply(status, absent, rs, Plainly)
           read == Plainly(rs)
<1>1. NoReply \notin Success
  BY DEF NoReply, Success
<1>2. CASE status = NoReply
  <2>1. reply = Failed("Http", 0)
    BY <1>2 DEF Reply
  <2> QED
    BY <1>1, <1>2, <2>1 DEF Outcome, Failure
<1>3. CASE status # NoReply /\ status \in absent
  <2>1. reply = Failed("NotFound", status)
    BY <1>3 DEF Reply
  <2> QED
    BY <1>3, <2>1 DEF Outcome, Failure
<1>4. CASE status # NoReply /\ status \notin absent /\ status \notin Success
  <2>1. reply = Failed("Status", status)
    BY <1>4 DEF Reply
  <2> QED
    BY <1>4, <2>1 DEF Outcome, Failure
<1>5. CASE status # NoReply /\ status \notin absent /\ status \in Success
  <2>1. reply = IF \E r \in rs : ~r.legible THEN Failed("Decode", 0) ELSE read
    BY <1>5 DEF Reply
  <2> HIDE DEF reply, read
  <2>2. CASE \E r \in rs : ~r.legible
    BY <2>1, <2>2 DEF Outcome, Failure, reply
  <2>3. CASE \A r \in rs : r.legible
    BY <1>5, <2>1, <2>3 DEF Outcome, read, reply
  <2> QED
    BY <2>2, <2>3
<1> QED
  BY <1>2, <1>3, <1>4, <1>5

(* The index of a crate, with its withdrawn releases and broken lines.     *)
LEMMA CratesAnswer ==
  ASSUME NEW w, ServedOK(w), w.want = "versions", w.registry = "crates.io"
  PROVE  FaithfulTo(w, CratesIo(w))
<1> DEFINE gate == Reply(w.status, CratesAbsent, {}, Plainly)
           kept == {r \in w.releases : ~Withdrawn(r)}
<1>1. Outcome(w.status, CratesAbsent, {}, gate, Plainly({}))
  <2>1. NoReply \notin CratesAbsent
    BY DEF CratesAbsent, NoReply
  <2> QED
    BY <2>1, PlainReply
<1>2. CASE gate.ok
  <2>1. CratesIo(w) = ParseIndex(w.releases)
    BY <1>2 DEF CratesIo
  <2>2. CASE \E r \in w.releases : ~r.legible
    <3>1. CratesIo(w) = Failed("Decode", 0)
      BY <2>1, <2>2 DEF ParseIndex
    <3> QED
      BY <3>1 DEF FaithfulTo, Failed, IsPermanentAbsence
  <2>3. CASE (\A r \in w.releases : r.legible) /\ w.releases # {} /\ kept = {}
    <3>1. CratesIo(w) = Failed("AllYanked", 0)
      BY <2>1, <2>3 DEF ParseIndex
    <3>2. Said(w)
      BY <2>3 DEF Said
    <3> QED
      BY <3>1, <3>2 DEF FaithfulTo, Failed
  <2>4. CASE (\A r \in w.releases : r.legible) /\ ~(w.releases # {} /\ kept = {})
    <3>1. CratesIo(w) = Fetched(Numbers(kept))
      BY <2>1, <2>4 DEF ParseIndex
    <3>2. kept = Usable(w)
      BY OneDocumentIsAll DEF Usable
    <3> HIDE DEF kept
    <3>3. \A r \in kept : r.legible
      BY <2>4 DEF kept
    <3> QED
      BY <3>1, <3>2, <3>3, ListIsFaithful
  <2> QED
    BY <2>2, <2>3, <2>4
<1>3. CASE ~gate.ok
  <2>1. CratesIo(w) = gate
    BY <1>3 DEF CratesIo
  <2>2. Plainly({}).ok
    BY DEF Plainly, Fetched
  <2> HIDE DEF gate
  <2>3. Failure(w.status, CratesAbsent, {}, gate)
    BY <1>1, <1>3, <2>2 DEF Outcome
  <2>4. ~gate.ok /\ (IsPermanentAbsence(gate) => w.status \in CratesAbsent)
    BY <2>3, FailuresSay
  <2>5. w.registry # "go" /\ w.want # "metadata"
    OBVIOUS
  <2>6. FaithfulTo(w, gate)
    BY <2>4, <2>5 DEF FaithfulTo, Said
  <2> QED
    BY <2>1, <2>6
<1> QED
  BY <1>2, <1>3

(* The six clients that read one document and filter it.                   *)
LEMMA NpmAnswer ==
  ASSUME NEW w, ServedOK(w), w.want = "versions", w.registry = "npm"
  PROVE  FaithfulTo(w, Npm(w))
<1> DEFINE kept == w.releases
           read == WithTag(Fetched(Numbers(kept)), w.tag)
<1>1. Outcome(w.status, Absent, w.releases, Npm(w), read)
  BY DEF Npm, Outcome, Failure, Reply, Success, Absent, NoReply
<1>2. kept = Usable(w)
  BY OneDocumentIsAll DEF Usable
<1>3. ASSUME \A r \in w.releases : r.legible PROVE FaithfulTo(w, read)
  <2>1. \A r \in kept : r.legible
    BY <1>3
  <2> HIDE DEF kept
  <2> QED
    BY <1>2, <2>1, ListIsFaithful
<1>4. Absent \subseteq CratesAbsent
  BY DEF Absent, CratesAbsent
<1> HIDE DEF read
<1> QED
  BY <1>1, <1>3, <1>4, OutcomeIsFaithful

LEMMA JsrAnswer ==
  ASSUME NEW w, ServedOK(w), w.want = "versions", w.registry = "jsr"
  PROVE  FaithfulTo(w, Jsr(w))
<1> DEFINE kept == {r \in w.releases : ~Withdrawn(r)}
           read == WithTag(Fetched(Numbers(kept)), w.tag)
<1>1. Outcome(w.status, Absent, w.releases, Jsr(w), read)
  BY DEF Jsr, Outcome, Failure, Reply, Success, Absent, NoReply
<1>2. kept = Usable(w)
  BY OneDocumentIsAll DEF Usable
<1>3. ASSUME \A r \in w.releases : r.legible PROVE FaithfulTo(w, read)
  <2>1. \A r \in kept : r.legible
    BY <1>3
  <2> HIDE DEF kept
  <2> QED
    BY <1>2, <2>1, ListIsFaithful
<1>4. Absent \subseteq CratesAbsent
  BY DEF Absent, CratesAbsent
<1> HIDE DEF read
<1> QED
  BY <1>1, <1>3, <1>4, OutcomeIsFaithful

LEMMA PyPiAnswer ==
  ASSUME NEW w, ServedOK(w), w.want = "versions", w.registry = "pypi"
  PROVE  FaithfulTo(w, PyPi(w))
<1> DEFINE kept == {r \in w.releases : ~Withdrawn(r)}
           read == Fetched(Numbers(kept))
<1>1. Outcome(w.status, Absent, w.releases, PyPi(w), read)
  BY DEF PyPi, Outcome, Failure, Reply, Success, Absent, NoReply
<1>2. kept = Usable(w)
  BY OneDocumentIsAll DEF Usable
<1>3. ASSUME \A r \in w.releases : r.legible PROVE FaithfulTo(w, read)
  <2>1. \A r \in kept : r.legible
    BY <1>3
  <2> HIDE DEF kept
  <2> QED
    BY <1>2, <2>1, ListIsFaithful
<1>4. Absent \subseteq CratesAbsent
  BY DEF Absent, CratesAbsent
<1> HIDE DEF read
<1> QED
  BY <1>1, <1>3, <1>4, OutcomeIsFaithful

LEMMA PackagistAnswer ==
  ASSUME NEW w, ServedOK(w), w.want = "versions", w.registry = "packagist"
  PROVE  FaithfulTo(w, Packagist(w))
<1> DEFINE kept == IF w.named THEN {r \in w.releases : r.readable} ELSE {}
           read == Fetched(Numbers(kept))
<1>1. Outcome(w.status, Absent, w.releases, Packagist(w), read)
  <2>1. read = Fetched(IF w.named THEN Numbers(Parsable(w.releases)) ELSE {})
    BY DEF Parsable, Numbers
  <2> HIDE DEF read
  <2> QED
    BY <2>1 DEF Packagist, Outcome, Failure, Reply, Success, Absent, NoReply
<1>2. kept = Usable(w)
  BY OneDocumentIsAll DEF Usable
<1>3. ASSUME \A r \in w.releases : r.legible PROVE FaithfulTo(w, read)
  <2>1. \A r \in kept : r.legible
    BY <1>3
  <2> HIDE DEF kept
  <2> QED
    BY <1>2, <2>1, ListIsFaithful
<1>4. Absent \subseteq CratesAbsent
  BY DEF Absent, CratesAbsent
<1> HIDE DEF read
<1> QED
  BY <1>1, <1>3, <1>4, OutcomeIsFaithful

LEMMA HexAnswer ==
  ASSUME NEW w, ServedOK(w), w.want = "versions", w.registry = "hex"
  PROVE  FaithfulTo(w, Hex(w))
<1> DEFINE kept == {r \in w.releases : r.readable}
           read == Fetched(Numbers(kept))
<1>1. Outcome(w.status, Absent, w.releases, Hex(w), read)
  BY DEF Hex, Outcome, Failure, Reply, Success, Absent, NoReply, Parsable
<1>2. kept = Usable(w)
  BY OneDocumentIsAll DEF Usable
<1>3. ASSUME \A r \in w.releases : r.legible PROVE FaithfulTo(w, read)
  <2>1. \A r \in kept : r.legible
    BY <1>3
  <2> HIDE DEF kept
  <2> QED
    BY <1>2, <2>1, ListIsFaithful
<1>4. Absent \subseteq CratesAbsent
  BY DEF Absent, CratesAbsent
<1> HIDE DEF read
<1> QED
  BY <1>1, <1>3, <1>4, OutcomeIsFaithful

LEMMA PubDevAnswer ==
  ASSUME NEW w, ServedOK(w), w.want = "versions", w.registry = "pub.dev"
  PROVE  FaithfulTo(w, PubDev(w))
<1> DEFINE kept == {r \in w.releases : r.readable}
           read == WithTag(Fetched(Numbers(kept)), w.tag)
<1>1. Outcome(w.status, Absent, w.releases, PubDev(w), read)
  BY DEF PubDev, Outcome, Failure, Reply, Success, Absent, NoReply, Parsable
<1>2. kept = Usable(w)
  BY OneDocumentIsAll DEF Usable
<1>3. ASSUME \A r \in w.releases : r.legible PROVE FaithfulTo(w, read)
  <2>1. \A r \in kept : r.legible
    BY <1>3
  <2> HIDE DEF kept
  <2> QED
    BY <1>2, <2>1, ListIsFaithful
<1>4. Absent \subseteq CratesAbsent
  BY DEF Absent, CratesAbsent
<1> HIDE DEF read
<1> QED
  BY <1>1, <1>3, <1>4, OutcomeIsFaithful

(* ...and so is Maven's, whose empty document is no list, and which a      *)
(* coordinate without a path never asks.                                   *)
LEMMA MavenAnswer ==
  ASSUME NEW w, ServedOK(w), w.want = "versions", w.registry = "maven"
  PROVE  FaithfulTo(w, MavenCentral(w))
<1> DEFINE read == ParseMetadata(w.releases, w.tag)
<1>0. CASE ~w.addressed
  <2>1. MavenCentral(w) = Failed("NotFound", 0)
    BY <1>0 DEF MavenCentral
  <2> QED
    BY <1>0, <2>1 DEF FaithfulTo, Said, Failed
<1>1. ASSUME w.addressed PROVE Outcome(w.status, Absent, w.releases, MavenCentral(w), read)
  BY <1>1 DEF MavenCentral, Outcome, Failure, Reply, Success, Absent, NoReply
<1>2. w.releases = Usable(w)
  BY OneDocumentIsAll DEF Usable
<1>3. ASSUME \A r \in w.releases : r.legible PROVE FaithfulTo(w, read)
  <2>1. CASE w.releases = {}
    <3>1. read = Failed("EmptyVersionList", 0)
      BY <2>1 DEF ParseMetadata
    <3> HIDE DEF read
    <3> QED
      BY <3>1 DEF FaithfulTo, Failed, IsPermanentAbsence
  <2>2. CASE w.releases # {}
    <3>1. read = WithTag(Fetched(Numbers(w.releases)), w.tag)
      BY <2>2 DEF ParseMetadata
    <3> HIDE DEF read
    <3> QED
      BY <1>2, <1>3, <3>1, ListIsFaithful
  <2> QED
    BY <2>1, <2>2
<1>4. Absent \subseteq CratesAbsent
  BY DEF Absent, CratesAbsent
<1> HIDE DEF read
<1> QED
  BY <1>0, <1>1, <1>3, <1>4, OutcomeIsFaithful

(* So the client of every registry that needs one request answers          *)
(* faithfully.                                                             *)
LEMMA ClientIsFaithful ==
  ASSUME NEW w, ServedOK(w), w.want = "versions", w.registry \notin {"nuget", "go"}
  PROVE  FaithfulTo(w, Client(w))
<1>1. w.registry \in RegistryNames \ {"nuget", "go"}
  BY DEF ServedOK
<1>2. CASE w.registry = "crates.io"
  BY <1>2, CratesAnswer DEF Client
<1>3. CASE w.registry = "npm"
  BY <1>3, NpmAnswer DEF Client
<1>4. CASE w.registry = "jsr"
  BY <1>4, JsrAnswer DEF Client
<1>5. CASE w.registry = "pypi"
  BY <1>5, PyPiAnswer DEF Client
<1>6. CASE w.registry = "packagist"
  BY <1>6, PackagistAnswer DEF Client
<1>7. CASE w.registry = "hex"
  BY <1>7, HexAnswer DEF Client
<1>8. CASE w.registry = "pub.dev"
  BY <1>8, PubDevAnswer DEF Client
<1>9. CASE w.registry = "maven"
  BY <1>9, MavenAnswer DEF Client
<1> QED
  BY <1>1, <1>2, <1>3, <1>4, <1>5, <1>6, <1>7, <1>8, <1>9 DEF RegistryNames

-----------------------------------------------------------------------------
(* A date that is offered is a date of the release it is offered for.      *)
LEMMA DatesAreOwn ==
  ASSUME NEW w, ServedOK(w), NEW n \in DOMAIN Dated(w)
  PROVE  /\ Dated(w)[n] = DateOf(w, n)
         /\ \E r \in DatedIn(w) : r.version = n /\ DateOf(w, n) \in r.dates
<1>1. PICK r \in DatedIn(w) : r.dates # {} /\ r.version = n
  BY DEF Dated
<1>2. ReleaseOf(w, n) = r
  <2>1. \A q \in DatedIn(w) : q.version = n => q = r
    BY <1>1 DEF ServedOK, DatedIn
  <2> QED
    BY <1>1, <2>1 DEF ReleaseOf
<1>3. n \in Numbers(DatedIn(w))
  BY <1>1 DEF Numbers
<1>4. DateOf(w, n) = Min(r.dates)
  BY <1>1, <1>2, <1>3 DEF DateOf, Date
<1>5. r.dates \subseteq Int /\ IsFiniteSet(r.dates)
  BY DEF ServedOK, Everything, DatedIn
<1>6. Min(r.dates) \in r.dates
  BY <1>1, <1>5, EarliestIsOne
<1>7. Dated(w)[n] = DateOf(w, n)
  BY DEF Dated
<1> QED
  BY <1>1, <1>4, <1>6, <1>7

(* Owners that are offered are people it names, each with some name.       *)
OwnersOK(w, owners) ==
  /\ Len(owners) <= Len(w.people)
  /\ \A i \in DOMAIN owners : owners[i] \in ToSet(w.people) /\ ~IsAnonymous(owners[i])

(* Neither way to collect owners offers a nobody or a stranger.            *)
LEMMA OwnersAreNamed ==
  ASSUME NEW w, ServedOK(w)
  PROVE  OwnersOK(w, Known(w.people)) /\ OwnersOK(w, PyPiOwners(w)) /\ OwnersOK(w, <<>>)
<1> DEFINE T == {i \in DOMAIN w.people : ~IsAnonymous(w.people[i])}
<1>1. w.people \in Seq(ToSet(w.people))
  BY DEF ServedOK
<1>2. T \subseteq DOMAIN w.people /\ \A i \in T : w.people[i] \in ToSet(w.people) /\ ~IsAnonymous(w.people[i])
  BY DEF ToSet
<1>3. Known(w.people) = Picked(w.people, T) /\ PyPiOwners(w) = OnceEach(w.people, T)
  BY DEF Known, PyPiOwners
<1> HIDE DEF T
<1>4. OwnersOK(w, Known(w.people))
  <2>1. /\ Len(Known(w.people)) <= Len(w.people)
        /\ \A k \in DOMAIN Known(w.people) : \E i \in T : Known(w.people)[k] = w.people[i]
    BY <1>1, <1>2, <1>3, PickedIsListed
  <2> QED
    BY <1>2, <2>1 DEF OwnersOK
<1>5. OwnersOK(w, PyPiOwners(w))
  <2>1. /\ Len(PyPiOwners(w)) <= Len(w.people)
        /\ \A k \in DOMAIN PyPiOwners(w) : \E i \in T : PyPiOwners(w)[k] = w.people[i]
    BY <1>1, <1>2, <1>3, OnceEachIsListed
  <2> QED
    BY <1>2, <2>1 DEF OwnersOK
<1>6. OwnersOK(w, <<>>)
  <2>1. Len(w.people) \in Nat /\ Len(<<>>) = 0 /\ DOMAIN <<>> = {}
    BY <1>1
  <2> QED
    BY <2>1 DEF OwnersOK
<1> QED
  BY <1>4, <1>5, <1>6

(* Metadata whose dates and owners are the package's is faithful.          *)
LEMMA DatesAndOwners ==
  ASSUME NEW w, ServedOK(w), w.want = "metadata", NEW a, a.ok,
         DOMAIN a.published \subseteq DOMAIN Dated(w),
         \A n \in DOMAIN a.published : a.published[n] = DateOf(w, n),
         OwnersOK(w, a.owners)
  PROVE  FaithfulTo(w, a)
<1>1. \A n \in DOMAIN a.published : \E r \in DatedIn(w) : r.version = n /\ a.published[n] \in r.dates
  BY DatesAreOwn
<1>2. OwnMetadata(w, a)
  BY <1>1 DEF OwnMetadata, OwnersOK
<1> QED
  BY <1>2 DEF FaithfulTo

(* In particular a description made of such dates and owners.              *)
LEMMA MetadataIsFaithful ==
  ASSUME NEW w, ServedOK(w), w.want = "metadata", NEW published, NEW latest, NEW licenses, NEW owners,
         DOMAIN published \subseteq DOMAIN Dated(w),
         \A n \in DOMAIN published : published[n] = DateOf(w, n),
         OwnersOK(w, owners)
  PROVE  FaithfulTo(w, Metadata(published, latest, licenses, owners))
<1> DEFINE a == Metadata(published, latest, licenses, owners)
<1>1. a.ok /\ a.published = published /\ a.owners = owners
  BY DEF Metadata
<1> HIDE DEF a
<1>2. FaithfulTo(w, a)
  BY <1>1, DatesAndOwners
<1> QED
  BY <1>2 DEF a

(* A registry that publishes no metadata is quoted for none.               *)
LEMMA NothingIsFaithful ==
  ASSUME NEW w, w.want = "metadata"
  PROVE  FaithfulTo(w, NoMetadata)
BY DEF FaithfulTo, NoMetadata

(* One that offers all the dates there are.                                *)
LEMMA DatedIsFaithful ==
  ASSUME NEW w, ServedOK(w), w.want = "metadata", NEW latest, NEW licenses, NEW owners, OwnersOK(w, owners)
  PROVE  FaithfulTo(w, Metadata(Dated(w), latest, licenses, owners))
<1>1. \A n \in DOMAIN Dated(w) : Dated(w)[n] = DateOf(w, n)
  BY DatesAreOwn
<1> QED
  BY <1>1, MetadataIsFaithful

(* What npm's `time` says of anything but the document is the date of a    *)
(* release, listed or gone.                                                *)
LEMMA NpmTimesAreDates ==
  ASSUME NEW w, NEW k \in DOMAIN TimeOf(w) \ {Created, Modified}
  PROVE  k \in DOMAIN Dated(w) /\ TimeOf(w)[k] = Dated(w)[k]
BY DEF TimeOf

(* Whatever the five registries describe, and however their one request    *)
(* ends.                                                                   *)
LEMMA DescriptionIsFaithful ==
  ASSUME NEW w, ServedOK(w), w.want = "metadata", w.registry \in PublishesMetadata
  PROVE  FaithfulTo(w, Describe(w))
<1> DEFINE absent == IF w.registry = "crates.io" THEN CratesAbsent ELSE Absent
           read == MetadataOf(w)
<1>1. Outcome(w.status, absent, w.releases, Describe(w), read)
  <2>1. CASE w.registry = "crates.io"
    <3>1. Outcome(w.status, CratesAbsent, w.releases, Describe(w), read)
      BY <2>1 DEF Describe, Outcome, Failure, Reply, Success, CratesAbsent, NoReply
    <3> QED
      BY <2>1, <3>1
  <2>2. CASE w.registry # "crates.io"
    <3>1. Outcome(w.status, Absent, w.releases, Describe(w), read)
      BY <2>2 DEF Describe, Outcome, Failure, Reply, Success, Absent, NoReply
    <3> QED
      BY <2>2, <3>1
  <2> QED
    BY <2>1, <2>2
<1>2. absent \subseteq CratesAbsent /\ w.registry # "go"
  BY DEF Absent, CratesAbsent, PublishesMetadata
<1>3. FaithfulTo(w, read)
  <2>1. CASE w.registry = "crates.io"
    <3>1. FaithfulTo(w, CratesIoMetadata(w))
      BY OwnersAreNamed, DatedIsFaithful DEF CratesIoMetadata
    <3> QED
      BY <2>1, <3>1 DEF MetadataOf
  <2>2. CASE w.registry = "npm"
    <3> DEFINE dates == [k \in DOMAIN TimeOf(w) \ {Created, Modified} |-> TimeOf(w)[k]]
    <3>1. ASSUME NEW n \in DOMAIN dates PROVE n \in DOMAIN Dated(w) /\ dates[n] = DateOf(w, n)
      BY NpmTimesAreDates, DatesAreOwn
    <3> HIDE DEF dates
    <3>2. \A latest : FaithfulTo(w, Metadata(dates, latest, w.licenses, Known(w.people)))
      BY <3>1, OwnersAreNamed, MetadataIsFaithful
    <3>3. FaithfulTo(w, NpmMetadata(w))
      BY <3>2 DEF NpmMetadata, dates
    <3> QED
      BY <2>2, <3>3 DEF MetadataOf
  <2>3. CASE w.registry = "pypi"
    <3>1. ASSUME NEW n \in DOMAIN PyPiPublished(w)
          PROVE  n \in DOMAIN Dated(w) /\ PyPiPublished(w)[n] = DateOf(w, n)
      BY DatesAreOwn DEF PyPiPublished
    <3>2. FaithfulTo(w, PyPiMetadata(w))
      BY <3>1, OwnersAreNamed, MetadataIsFaithful DEF PyPiMetadata
    <3> QED
      BY <2>3, <3>2 DEF MetadataOf
  <2>4. CASE w.registry = "packagist"
    <3>1. FaithfulTo(w, PackagistMetadata(w))
      BY OwnersAreNamed, DatedIsFaithful, NothingIsFaithful DEF PackagistMetadata
    <3> QED
      BY <2>4, <3>1 DEF MetadataOf
  <2>5. CASE w.registry = "hex"
    <3>1. FaithfulTo(w, HexMetadata(w))
      BY OwnersAreNamed, DatedIsFaithful DEF HexMetadata
    <3> QED
      BY <2>5, <3>1 DEF MetadataOf
  <2> HIDE DEF read
  <2> QED
    BY <2>1, <2>2, <2>3, <2>4, <2>5 DEF PublishesMetadata
<1> HIDE DEF read, absent
<1> QED
  BY <1>1, <1>2, <1>3, OutcomeIsFaithful

-----------------------------------------------------------------------------
(* While pages are awaited, what was read is the index and the pages that  *)
(* came; @latest is asked for where nothing was listed; owners are asked   *)
(* for with the rest of the metadata in hand.                              *)
Gathering(w, due, read) ==
  /\ w.want = "versions" /\ w.registry = "nuget"
  /\ due \subseteq DOMAIN w.pages
  /\ read = w.releases \cup UNION {w.pages[i].releases : i \in DOMAIN w.pages \ due}
  /\ \A r \in read : r.legible
Unlisted(w) == w.want = "versions" /\ w.registry = "go" /\ Parsable(w.releases) = {}
Describing(w, a) == w.want = "metadata" /\ w.registry = "crates.io" /\ a = CratesIoMetadata(w)

LookupInv ==
  /\ served \in Served
  /\ stage \in {"ask", "pages", "latest", "owners", "answered"}
  /\ stage = "pages" => Gathering(served, waiting, heard)
  /\ stage = "latest" => Unlisted(served)
  /\ stage = "owners" => Describing(served, answer)
  /\ stage = "answered" => FaithfulTo(served, answer)

(* A faithful answer, whatever the stage it is given at, keeps the         *)
(* invariant.                                                              *)
LEMMA AnsweredKeeps ==
  ASSUME LookupInv, NEW a, Answered(a), FaithfulTo(served, a)
  PROVE  LookupInv'
BY DEF LookupInv, Answered

(* One document.                                                           *)
LEMMA AskKeeps == LookupInv /\ Ask => LookupInv'
<1> SUFFICES ASSUME LookupInv, Ask PROVE LookupInv'
  OBVIOUS
<1>1. Answered(Client(served)) /\ served.want = "versions" /\ served.registry \notin {"nuget", "go"}
  BY DEF Ask
<1>2. ServedOK(served)
  BY ServedAssumption DEF LookupInv
<1> QED
  BY <1>1, <1>2, ClientIsFaithful, AnsweredKeeps

(* NuGet: the index starts the gathering, or fails.                        *)
LEMMA NuGetIndexKeeps == LookupInv /\ NuGetIndex => LookupInv'
<1> SUFFICES ASSUME LookupInv, NuGetIndex PROVE LookupInv'
  OBVIOUS
<1> DEFINE gate == Reply(served.status, Absent, served.releases, Plainly)
<1>1. served.want = "versions" /\ served.registry = "nuget"
  BY DEF NuGetIndex
<1>2. Outcome(served.status, Absent, served.releases, gate, Plainly(served.releases))
  <2>1. NoReply \notin Absent
    BY DEF Absent, NoReply
  <2> QED
    BY <2>1, PlainReply
<1>3. Plainly(served.releases).ok
  BY DEF Plainly, Fetched
<1>4. CASE ~gate.ok
  <2>1. Answered(gate)
    BY <1>4 DEF NuGetIndex
  <2> HIDE DEF gate
  <2>2. Failure(served.status, Absent, served.releases, gate)
    BY <1>2, <1>3, <1>4 DEF Outcome
  <2>3. Absent \subseteq CratesAbsent /\ served.releases \subseteq Everything(served)
    BY DEF Absent, CratesAbsent, Everything
  <2>4. FaithfulTo(served, gate)
    BY <1>1, <2>2, <2>3, FailureIsFaithful
  <2> QED
    BY <2>1, <2>4, AnsweredKeeps
<1>5. CASE gate.ok
  <2>1. /\ heard' = served.releases /\ waiting' = DOMAIN served.pages
        /\ stage' = "pages" /\ served' = served /\ answer' = answer
    BY <1>5 DEF NuGetIndex
  <2> HIDE DEF gate
  <2>2. \A r \in served.releases : r.legible
    BY <1>2, <1>5, FailuresSay DEF Outcome
  <2>3. UNION {served.pages[i].releases : i \in DOMAIN served.pages \ DOMAIN served.pages} = {}
    OBVIOUS
  <2>4. Gathering(served, DOMAIN served.pages, served.releases)
    BY <1>1, <2>2, <2>3 DEF Gathering
  <2> QED
    BY <2>1, <2>4 DEF LookupInv
<1> QED
  BY <1>4, <1>5

(* A page that comes, in any order, joins what was read or fails the       *)
(* lookup.                                                                 *)
LEMMA PageKeeps == ASSUME LookupInv, NEW i \in waiting, PageIn(i) PROVE LookupInv'
<1> DEFINE page == served.pages[i]
           reply == Reply(page.status, {}, page.releases, Plainly)
<1>1. /\ stage = "pages" /\ waiting' = waiting \ {i} /\ JoinPage(page, reply)
  BY DEF PageIn
<1>2. Gathering(served, waiting, heard)
  BY <1>1 DEF LookupInv
<1>3. Outcome(page.status, {}, page.releases, reply, Plainly(page.releases))
  BY PlainReply
<1>4. Plainly(page.releases).ok
  BY DEF Plainly, Fetched
<1>5. CASE reply.ok
  <2>1. heard' = heard \cup page.releases /\ served' = served /\ stage' = stage /\ answer' = answer
    BY <1>1, <1>5 DEF JoinPage
  <2> HIDE DEF reply
  <2>2. \A r \in page.releases : r.legible
    BY <1>3, <1>5, FailuresSay DEF Outcome
  <2>3. (DOMAIN served.pages \ waiting) \cup {i} = DOMAIN served.pages \ (waiting \ {i})
    BY <1>2 DEF Gathering
  <2>4. UNION {served.pages[k].releases : k \in DOMAIN served.pages \ (waiting \ {i})}
          = (UNION {served.pages[k].releases : k \in DOMAIN served.pages \ waiting}) \cup page.releases
    BY <2>3
  <2>5. Gathering(served, waiting \ {i}, heard \cup page.releases)
    <3> HIDE DEF page
    <3> QED
      BY <1>2, <2>2, <2>4 DEF Gathering
  <2> QED
    BY <1>1, <2>1, <2>5 DEF LookupInv
<1>6. CASE ~reply.ok
  <2>1. stage' = "answered" /\ answer' = reply /\ served' = served
    BY <1>1, <1>6 DEF JoinPage
  <2> HIDE DEF reply
  <2>2. Failure(page.status, {}, page.releases, reply)
    BY <1>3, <1>4, <1>6 DEF Outcome
  <2>3. ~IsPermanentAbsence(reply)
    BY <2>2, FailuresSay
  <2>4. FaithfulTo(served, reply)
    BY <1>2, <1>6, <2>3 DEF FaithfulTo, Gathering
  <2> QED
    BY <2>1, <2>4 DEF LookupInv
<1> QED
  BY <1>5, <1>6

(* When no page is due, what was read is everything.                       *)
LEMMA AllJoinedKeeps == LookupInv /\ AllJoined => LookupInv'
<1> SUFFICES ASSUME LookupInv, AllJoined PROVE LookupInv'
  OBVIOUS
<1>1. stage = "pages" /\ waiting = {} /\ Answered(Fetched(Numbers(heard)))
  BY DEF AllJoined
<1>2. Gathering(served, waiting, heard) /\ ServedOK(served)
  BY <1>1, ServedAssumption DEF LookupInv
<1>3. heard = Everything(served)
  BY <1>1, <1>2 DEF Gathering, Everything
<1>4. Everything(served) = Usable(served)
  BY <1>2 DEF Gathering, Usable
<1>5. FaithfulTo(served, Fetched(Numbers(heard)))
  BY <1>2, <1>3, <1>4, ListIsFaithful DEF Gathering
<1> QED
  BY <1>1, <1>5, AnsweredKeeps

(* What is listed, of what a Go proxy has.                                 *)
LEMMA GoListed ==
  ASSUME NEW w, ServedOK(w), w.registry = "go"
  PROVE  Usable(w) = Parsable(w.releases) /\ \A r \in Parsable(w.releases) : r.legible
BY OneDocumentIsAll DEF Usable, Parsable, ServedOK

(* Go: the list, or a reason to ask for @latest.                           *)
LEMMA GoListKeeps == LookupInv /\ GoList => LookupInv'
<1> SUFFICES ASSUME LookupInv, GoList PROVE LookupInv'
  OBVIOUS
<1> DEFINE gate == Reply(served.status, {}, {}, Plainly)
           listed == Parsable(served.releases)
<1>1. served.want = "versions" /\ served.registry = "go" /\ ServedOK(served)
  BY ServedAssumption DEF GoList, LookupInv
<1>2. Outcome(served.status, {}, {}, gate, Plainly({})) /\ Plainly({}).ok
  BY PlainReply DEF Plainly, Fetched
<1>3. CASE gate.ok /\ listed # {}
  <2>1. Answered(Fetched(Numbers(listed)))
    BY <1>3 DEF GoList
  <2>2. FaithfulTo(served, Fetched(Numbers(listed)))
    BY <1>1, <1>3, GoListed, ListIsFaithful
  <2> QED
    BY <2>1, <2>2, AnsweredKeeps
<1>4. CASE ~gate.ok /\ served.status \notin GoAbsent
  <2>1. Answered(gate)
    BY <1>4 DEF GoList
  <2> HIDE DEF gate
  <2>2. Failure(served.status, {}, {}, gate)
    BY <1>2, <1>4 DEF Outcome
  <2>3. FaithfulTo(served, gate)
    BY <1>1, <1>4, <2>2, FailuresSay DEF FaithfulTo
  <2> QED
    BY <2>1, <2>3, AnsweredKeeps
<1>5. CASE ~(gate.ok /\ listed # {}) /\ ~(~gate.ok /\ served.status \notin GoAbsent)
  <2>1. stage' = "latest" /\ UNCHANGED <<served, waiting, heard, answer>>
    BY <1>5 DEF GoList
  <2>2. listed = {}
    <3> HIDE DEF gate
    <3>1. CASE gate.ok
      BY <1>5, <3>1
    <3>2. CASE ~gate.ok
      <4>1. served.status \notin Success
        <5>1. \A x \in GoAbsent : x \notin Success
          BY DEF GoAbsent, Success
        <5> QED
          BY <1>5, <3>2, <5>1
      <4> QED
        BY <1>1, <4>1 DEF ServedOK, Parsable
    <3> QED
      BY <3>1, <3>2
  <2> QED
    BY <1>1, <2>1, <2>2 DEF LookupInv, Unlisted
<1> QED
  BY <1>3, <1>4, <1>5

(* @latest is all there is, or the module is absent, or nothing is known.  *)
LEMMA GoLatestKeeps == LookupInv /\ GoLatest => LookupInv'
<1> SUFFICES ASSUME LookupInv, GoLatest PROVE LookupInv'
  OBVIOUS
<1> DEFINE R == {served.latest.release}
           reply == Reply(served.latest.status, GoAbsent, R, Plainly)
<1>1. stage = "latest" /\ Answered(reply)
  BY DEF GoLatest
<1>2. Unlisted(served) /\ ServedOK(served)
  BY <1>1, ServedAssumption DEF LookupInv
<1>3. Outcome(served.latest.status, GoAbsent, R, reply, Plainly(R))
  <2>1. NoReply \notin GoAbsent
    BY DEF GoAbsent, NoReply
  <2> QED
    BY <2>1, PlainReply
<1>4. Usable(served) = {}
  BY <1>2, GoListed DEF Unlisted
<1> HIDE DEF reply
<1>5. CASE reply = Plainly(R) /\ \A r \in R : r.legible
  <2>1. FaithfulTo(served, Fetched(Numbers(R)))
    BY <1>2, <1>4, <1>5, ListIsFaithful DEF Unlisted
  <2> QED
    BY <1>1, <1>5, <2>1, AnsweredKeeps DEF Plainly
<1>6. CASE Failure(served.latest.status, GoAbsent, R, reply)
  <2>1. ~reply.ok /\ (IsPermanentAbsence(reply) => served.latest.status \in CratesAbsent)
    BY <1>6, FailuresSay DEF GoAbsent, CratesAbsent
  <2>2. FaithfulTo(served, reply)
    BY <1>2, <2>1 DEF Unlisted, FaithfulTo, Said
  <2> QED
    BY <1>1, <2>2, AnsweredKeeps
<1> QED
  BY <1>3, <1>5, <1>6 DEF Outcome

(* The metadata, of which crates.io's waits for the owners.                *)
LEMMA AskMetadataKeeps == LookupInv /\ AskMetadata => LookupInv'
<1> SUFFICES ASSUME LookupInv, AskMetadata PROVE LookupInv'
  OBVIOUS
<1> DEFINE mute == \/ served.registry \notin PublishesMetadata
                   \/ served.registry = "crates.io" /\ ~HasMetadataApi(served)
           more == served.registry = "crates.io" /\ HasMetadataApi(served) /\ Describe(served).ok
<1>1. served.want = "metadata" /\ ServedOK(served)
  BY ServedAssumption DEF AskMetadata, LookupInv
<1>2. CASE mute
  <2>1. Answered(NoMetadata)
    BY <1>2 DEF AskMetadata, PublishesMetadata
  <2> QED
    BY <1>1, <2>1, NothingIsFaithful, AnsweredKeeps
<1>3. CASE ~mute /\ more
  <2>1. stage' = "owners" /\ answer' = Describe(served) /\ UNCHANGED <<served, waiting, heard>>
    BY <1>3 DEF AskMetadata
  <2>2. Describe(served) = CratesIoMetadata(served)
    <3>1. Outcome(served.status, CratesAbsent, served.releases, Describe(served), MetadataOf(served))
      BY <1>3 DEF Describe, Outcome, Failure, Reply, Success, CratesAbsent, NoReply
    <3>2. Describe(served) = MetadataOf(served)
      BY <1>3, <3>1, FailuresSay DEF Outcome
    <3> QED
      BY <1>3, <3>2 DEF MetadataOf
  <2> QED
    BY <1>1, <1>3, <2>1, <2>2 DEF LookupInv, Describing
<1>4. CASE ~mute /\ ~more
  <2>1. Answered(Describe(served))
    BY <1>4 DEF AskMetadata
  <2> QED
    BY <1>1, <1>4, <2>1, DescriptionIsFaithful, AnsweredKeeps
<1> QED
  BY <1>2, <1>3, <1>4

(* The owners, or none: the rest stands.                                   *)
LEMMA AskOwnersKeeps == LookupInv /\ AskOwners => LookupInv'
<1> SUFFICES ASSUME LookupInv, AskOwners PROVE LookupInv'
  OBVIOUS
<1> DEFINE owners == IF served.owners \in Success THEN Known(served.people) ELSE <<>>
           a == [answer EXCEPT !.owners = owners]
<1>1. stage = "owners" /\ Answered(a)
  BY DEF AskOwners
<1>2. Describing(served, answer) /\ ServedOK(served)
  BY <1>1, ServedAssumption DEF LookupInv
<1>3. OwnersOK(served, owners)
  BY <1>2, OwnersAreNamed
<1> HIDE DEF owners
<1>4. a.ok /\ a.published = Dated(served) /\ a.owners = owners
  <2>1. /\ answer.ok /\ answer.published = Dated(served)
        /\ DOMAIN answer = {"ok", "published", "latest", "licenses", "owners"}
    BY <1>2 DEF Describing, CratesIoMetadata, Metadata
  <2> QED
    BY <2>1
<1> HIDE DEF a
<1>5. \A n \in DOMAIN Dated(served) : Dated(served)[n] = DateOf(served, n)
  BY <1>2, DatesAreOwn
<1>6. FaithfulTo(served, a)
  BY <1>2, <1>3, <1>4, <1>5, DatesAndOwners DEF Describing
<1> QED
  BY <1>1, <1>6, AnsweredKeeps

(* The steps together.                                                     *)
LEMMA LookupInvariant == LookupSpec => []LookupInv
<1>1. LookupInit => LookupInv
  BY DEF LookupInit, LookupInv
<1>2. LookupInv /\ [LookupStep]_lookupVars => LookupInv'
  <2> SUFFICES ASSUME LookupInv, [LookupStep]_lookupVars PROVE LookupInv'
    OBVIOUS
  <2>1. CASE UNCHANGED lookupVars
    BY <2>1 DEF LookupInv, lookupVars
  <2>2. CASE LookupStep
    BY <2>2, AskKeeps, NuGetIndexKeeps, PageKeeps, AllJoinedKeeps, GoListKeeps, GoLatestKeeps,
       AskMetadataKeeps, AskOwnersKeeps DEF LookupStep
  <2> QED
    BY <2>1, <2>2
<1> QED
  BY <1>1, <1>2, PTL DEF LookupSpec

(* Whatever a registry serves, over one document, pages in any order, a    *)
(* fallback or a second request, and whatever fails among them: a list     *)
(* that is given out has every usable release, newest first, and came of   *)
(* documents that decoded; a package that was asked for is called absent   *)
(* only where the registry said so, and without asking only a Maven        *)
(* coordinate that spells no path; and metadata dates a number with a date *)
(* the document gives it, names only owners the document names, and is not *)
(* lost with them (`fetch_versions`, `fetch_metadata`).                    *)
THEOREM RegistriesAreHeard == LookupSpec => []LookupIsFaithful
<1>1. LookupInv => LookupIsFaithful
  BY FaithfulAnswers DEF LookupInv
<1> QED
  BY <1>1, LookupInvariant, PTL

-----------------------------------------------------------------------------
(***************************************************************************)
(* JsonScan: what a scanner and a reading of the grammar are made of.      *)
(***************************************************************************)
Keys == Strings \cup {""}
ScanFrames == [opening : {"{", "["}, key : Keys, index : Nat]
FoundStrings == {[path |-> PathOf(f), value |-> v] : f \in Seq(ScanFrames), v \in Strings}

Scanners ==
  [rest : Seq(Tokens), frames : Seq(ScanFrames), expects : BOOLEAN,
   values : Seq(FoundStrings), wellFormed : BOOLEAN, steps : Nat]

Turns == {"value", "first", "firstKey", "key", "colon", "next", "end", "wrong"}
Readings ==
  [frames : Seq(ScanFrames), turn : Turns, values : Seq(FoundStrings), deepest : Nat]

(* An array counts the element just read.                                  *)
Counted(frames) ==
  IF frames # <<>> /\ Last(frames).opening = "["
  THEN [frames EXCEPT ![Len(frames)].index = @ + 1] ELSE frames

Keyed(frames, key) == [frames EXCEPT ![Len(frames)].key = key]

Found(frames, value) == [path |-> PathOf(frames), value |-> value]

LEMMA CountedOK ==
  ASSUME NEW fr \in Seq(ScanFrames)
  PROVE  Counted(fr) \in Seq(ScanFrames) /\ Len(Counted(fr)) = Len(fr)
<1>1. CASE fr # <<>> /\ Last(fr).opening = "["
  <2>1. Len(fr) \in 1 .. Len(fr) /\ fr[Len(fr)] \in ScanFrames
    BY <1>1
  <2>2. [fr[Len(fr)] EXCEPT !.index = @ + 1] \in ScanFrames
    <3>1. ASSUME NEW f \in ScanFrames PROVE [f EXCEPT !.index = @ + 1] \in ScanFrames
      <4>0. f.index \in Nat
        BY DEF ScanFrames
      <4>1. f.index + 1 \in Nat
        BY <4>0
      <4>2. \A k \in Nat : [f EXCEPT !.index = k] \in ScanFrames
        BY DEF ScanFrames
      <4> QED
        BY <4>1, <4>2
    <3> QED
      BY <2>1, <3>1
  <2>3. Counted(fr) = [fr EXCEPT ![Len(fr)] = [fr[Len(fr)] EXCEPT !.index = @ + 1]]
    BY <1>1, <2>1 DEF Counted
  <2> QED
    BY <2>1, <2>2, <2>3
<1>2. CASE ~(fr # <<>> /\ Last(fr).opening = "[")
  BY <1>2 DEF Counted
<1> QED
  BY <1>1, <1>2

LEMMA KeyedOK ==
  ASSUME NEW fr \in Seq(ScanFrames), fr # <<>>, NEW k \in Strings
  PROVE  Keyed(fr, k) \in Seq(ScanFrames) /\ Len(Keyed(fr, k)) = Len(fr)
<1>1. Len(fr) \in 1 .. Len(fr) /\ fr[Len(fr)] \in ScanFrames
  OBVIOUS
<1>2. [fr[Len(fr)] EXCEPT !.key = k] \in ScanFrames
  BY <1>1 DEF ScanFrames, Keys
<1>3. Keyed(fr, k) = [fr EXCEPT ![Len(fr)] = [fr[Len(fr)] EXCEPT !.key = k]]
  BY <1>1 DEF Keyed
<1> QED
  BY <1>1, <1>2, <1>3

LEMMA FrontOK ==
  ASSUME NEW fr \in Seq(ScanFrames), fr # <<>>
  PROVE  Front(fr) \in Seq(ScanFrames) /\ Len(Front(fr)) = Len(fr) - 1
<1> DEFINE n == Len(fr) - 1
<1>1. n \in Nat /\ \A i \in 1 .. n : fr[i] \in ScanFrames
  OBVIOUS
<1>2. /\ SubSeq(fr, 1, n) \in Seq(ScanFrames)
      /\ Len(SubSeq(fr, 1, n)) = IF 1 <= n THEN n - 1 + 1 ELSE 0
  <2> HIDE DEF n
  <2> QED
    BY <1>1, SubSeqProperties
<1>3. (IF 1 <= n THEN n - 1 + 1 ELSE 0) = n
  <2> HIDE DEF n
  <2> QED
    BY <1>1
<1> QED
  BY <1>2, <1>3 DEF Front

LEMMA LastOK ==
  ASSUME NEW fr \in Seq(ScanFrames), fr # <<>>
  PROVE  Last(fr) \in ScanFrames /\ Last(fr).opening \in {"{", "["}
<1>1. Last(fr) \in ScanFrames
  BY DEF Last
<1> QED
  BY <1>1 DEF ScanFrames

LEMMA FrameOK ==
  ASSUME NEW t \in {"{", "["}
  PROVE  Frame(t) \in ScanFrames
BY DEF Frame, ScanFrames, Keys

LEMMA FoundOK ==
  ASSUME NEW fr \in Seq(ScanFrames), NEW v \in Strings
  PROVE  Found(fr, v) \in FoundStrings
BY DEF Found, FoundStrings

-----------------------------------------------------------------------------
(* What a step makes of the scanner, field by field.                       *)
Becomes(s, t, rest, frames, expects, values, ok) ==
  /\ t \in Scanners
  /\ t.rest = rest /\ t.frames = frames /\ (t.expects <=> expects)
  /\ t.values = values /\ (t.wellFormed <=> ok) /\ t.steps = s.steps

Passed(rest) == IF rest = <<>> THEN rest ELSE Tail(rest)

LEMMA PassedOK ==
  ASSUME NEW rest \in Seq(Tokens)
  PROVE  Passed(rest) \in Seq(Tokens)
BY DEF Passed

(* A scanner moved by each of the helpers that the readers are made of.    *)
LEMMA PastIs ==
  ASSUME NEW s \in Scanners
  PROVE  Becomes(s, Past(s), Passed(s.rest), s.frames, s.expects, s.values, s.wellFormed)
<1>1. s.rest \in Seq(Tokens)
  BY DEF Scanners
<1>2. Passed(s.rest) \in Seq(Tokens) /\ Past(s) = [s EXCEPT !.rest = Passed(s.rest)]
  BY <1>1, PassedOK DEF Past, Passed
<1> QED
  BY <1>2 DEF Becomes, Scanners

LEMMA SpoiltIs ==
  ASSUME NEW s \in Scanners
  PROVE  Becomes(s, Spoilt(s), s.rest, s.frames, s.expects, s.values, FALSE)
BY DEF Becomes, Scanners, Spoilt

LEMMA ClosedIs ==
  ASSUME NEW s \in Scanners
  PROVE  Becomes(s, Closed(s), s.rest, s.frames, FALSE, s.values, s.wellFormed)
BY DEF Becomes, Scanners, Closed

LEMMA StopIs ==
  ASSUME NEW s \in Scanners
  PROVE  Becomes(s, Stop(s), <<>>, s.frames, s.expects, s.values, FALSE)
<1>1. \A r \in Seq(Tokens) :
         Becomes(s, [Spoilt(s) EXCEPT !.rest = r], r, s.frames, s.expects, s.values, FALSE)
  BY DEF Becomes, Scanners, Spoilt
<1>2. <<>> \in Seq(Tokens)
  OBVIOUS
<1> QED
  BY <1>1, <1>2 DEF Stop

LEMMA FramesIs ==
  ASSUME NEW s \in Scanners, NEW fr \in Seq(ScanFrames)
  PROVE  Becomes(s, [s EXCEPT !.frames = fr], s.rest, fr, s.expects, s.values, s.wellFormed)
BY DEF Becomes, Scanners

LEMMA ValuesIs ==
  ASSUME NEW s \in Scanners, NEW v \in FoundStrings
  PROVE  Becomes(s, [s EXCEPT !.values = Append(@, v)], s.rest, s.frames, s.expects,
                 Append(s.values, v), s.wellFormed)
<1>1. Append(s.values, v) \in Seq(FoundStrings)
  BY AppendProperties DEF Scanners
<1>2. \A w \in Seq(FoundStrings) :
         Becomes(s, [s EXCEPT !.values = w], s.rest, s.frames, s.expects, w, s.wellFormed)
  BY DEF Becomes, Scanners
<1> QED
  BY <1>1, <1>2

LEMMA ExpectsIs ==
  ASSUME NEW s \in Scanners
  PROVE  Becomes(s, [s EXCEPT !.expects = TRUE], s.rest, s.frames, TRUE, s.values, s.wellFormed)
BY DEF Becomes, Scanners

LEMMA ElementIs ==
  ASSUME NEW s \in Scanners
  PROVE  Becomes(s, Element(s), s.rest, Counted(s.frames), s.expects, s.values, s.wellFormed)
<1>1. s.frames \in Seq(ScanFrames)
  BY DEF Scanners
<1>2. CASE s.frames # <<>> /\ Last(s.frames).opening = "["
  <2>1. Element(s) = [s EXCEPT !.frames = Counted(s.frames)]
    BY <1>2 DEF Element, Counted
  <2> QED
    BY <1>1, <2>1, CountedOK, FramesIs
<1>3. CASE ~(s.frames # <<>> /\ Last(s.frames).opening = "[")
  BY <1>3 DEF Element, Counted, Becomes
<1> QED
  BY <1>2, <1>3

LEMMA LeaveIs ==
  ASSUME NEW s \in Scanners, s.frames # <<>>
  PROVE  Becomes(s, Leave(s), s.rest, Front(s.frames), s.expects, s.values, s.wellFormed)
<1>1. s.frames \in Seq(ScanFrames)
  BY DEF Scanners
<1>2. Leave(s) = [s EXCEPT !.frames = Front(s.frames)]
  BY DEF Leave
<1> QED
  BY <1>1, <1>2, FrontOK, FramesIs

LEMMA LeaveFrameIs ==
  ASSUME NEW s \in Scanners, s.frames # <<>>
  PROVE  Becomes(s, LeaveFrame(s), s.rest, Counted(Front(s.frames)), s.expects, s.values,
                 s.wellFormed)
<1>1. Becomes(s, Leave(s), s.rest, Front(s.frames), s.expects, s.values, s.wellFormed)
  BY LeaveIs
<1> DEFINE t == Leave(s)
<1>2. t \in Scanners
  BY <1>1 DEF Becomes
<1> HIDE DEF t
<1>3. Becomes(t, Element(t), t.rest, Counted(t.frames), t.expects, t.values, t.wellFormed)
  BY <1>2, ElementIs
<1> QED
  BY <1>1, <1>3 DEF Becomes, LeaveFrame, t

-----------------------------------------------------------------------------
(* What each reader may make of the scanner.                               *)
Brackets == {"{", "["}
Delimiters == {"}", "]", ",", "end"}

ValueRead(s, t) ==
  \/ /\ Under(s) \in Brackets /\ ~(Len(s.frames) < MaxDepth)
     /\ Becomes(s, t, <<>>, Counted(s.frames), FALSE, s.values, FALSE)
  \/ /\ Under(s) \in Brackets /\ Len(s.frames) < MaxDepth
     /\ Becomes(s, t, Passed(s.rest), Append(s.frames, Frame(Under(s))), FALSE, s.values,
                s.wellFormed)
  \/ /\ Under(s) \in Strings
     /\ Becomes(s, t, Passed(s.rest), Counted(s.frames), FALSE,
                Append(s.values, Found(s.frames, Under(s))), s.wellFormed)
  \/ /\ Under(s) = "true"
     /\ Becomes(s, t, Passed(s.rest), Counted(s.frames), FALSE, s.values, s.wellFormed)
  \/ /\ Under(s) \in {"junk", ":"}
     /\ Becomes(s, t, Passed(s.rest), Counted(s.frames), FALSE, s.values, FALSE)
  \/ /\ Under(s) = "open"
     /\ Becomes(s, t, <<>>, Counted(s.frames), FALSE, s.values, FALSE)
  \/ /\ Under(s) \in Delimiters
     /\ Becomes(s, t, s.rest, Counted(s.frames), FALSE, s.values, FALSE)

ObjectRead(s, t) ==
  \/ /\ Under(s) = "}"
     /\ Becomes(s, t, Passed(s.rest), Counted(Front(s.frames)), FALSE, s.values, s.wellFormed)
  \/ /\ Under(s) \in {"]", "end"}
     /\ Becomes(s, t, s.rest, Counted(Front(s.frames)), FALSE, s.values, FALSE)
  \/ /\ Under(s) = ","
     /\ Becomes(s, t, Passed(s.rest), s.frames, FALSE, s.values, s.wellFormed)
  \/ /\ Under(s) \in Strings /\ Under(Past(s)) # ":"
     /\ Becomes(s, t, Passed(s.rest), s.frames, FALSE, s.values, FALSE)
  \/ /\ Under(s) \in Strings /\ Under(Past(s)) = ":"
     /\ Becomes(s, t, Passed(Passed(s.rest)), Keyed(s.frames, Under(s)), TRUE, s.values,
                s.wellFormed)
  \/ /\ Under(s) = "open"
     /\ Becomes(s, t, <<>>, Counted(Front(s.frames)), FALSE, s.values, FALSE)
  \/ /\ Under(s) \in {"{", "[", ":", "true", "junk"}
     /\ Becomes(s, t, Passed(s.rest), s.frames, FALSE, s.values, FALSE)

ArrayRead(s, t) ==
  \/ /\ Under(s) = "]"
     /\ Becomes(s, t, Passed(s.rest), Counted(Front(s.frames)), FALSE, s.values, s.wellFormed)
  \/ /\ Under(s) \in {"}", "end"}
     /\ Becomes(s, t, s.rest, Counted(Front(s.frames)), FALSE, s.values, FALSE)
  \/ /\ Under(s) = ","
     /\ Becomes(s, t, Passed(s.rest), s.frames, FALSE, s.values, s.wellFormed)
  \/ /\ Under(s) \notin Delimiters
     /\ Becomes(s, t, s.rest, s.frames, TRUE, s.values, s.wellFormed)

LEMMA UnderIs ==
  ASSUME NEW s \in Scanners
  PROVE  /\ s.rest \in Seq(Tokens) /\ s.frames \in Seq(ScanFrames)
         /\ s.values \in Seq(FoundStrings) /\ s.steps \in Nat
         /\ s.rest = <<>> => Under(s) = "end"
         /\ s.rest # <<>> => Under(s) = Head(s.rest) /\ Under(s) \in Tokens
<1>1. s.rest \in Seq(Tokens) /\ s.frames \in Seq(ScanFrames)
      /\ s.values \in Seq(FoundStrings) /\ s.steps \in Nat
  BY DEF Scanners
<1>2. s.rest # <<>> => Head(s.rest) \in Tokens
  BY <1>1, HeadTailProperties
<1> QED
  BY <1>1, <1>2 DEF Under

LEMMA UnderIsOneOf ==
  ASSUME NEW s \in Scanners
  PROVE  Under(s) \in Brackets \cup Strings \cup Delimiters \cup {"true", "junk", ":", "open"}
BY UnderIs DEF Brackets, Strings, Delimiters, Tokens

(* Two moves, one after the other.                                         *)
LEMMA ThenBecomes ==
  ASSUME NEW s, NEW t, NEW u, NEW rest, NEW fr, NEW e, NEW v, NEW ok,
         NEW rest2, NEW fr2, NEW e2, NEW v2, NEW ok2,
         Becomes(s, t, rest, fr, e, v, ok), Becomes(t, u, rest2, fr2, e2, v2, ok2)
  PROVE  Becomes(s, u, rest2, fr2, e2, v2, ok2)
BY DEF Becomes

LEMMA ReadValueIs ==
  ASSUME NEW s \in Scanners
  PROVE  ValueRead(s, ReadValue(s))
<1> DEFINE b == Closed(s)
           token == Under(s)
           t == ReadValue(s)
<1>0. /\ s.frames \in Seq(ScanFrames) /\ s.rest \in Seq(Tokens) /\ MaxDepth \in Nat
      /\ Len(s.frames) \in Nat
  BY UnderIs, ScanAssumption
<1>1. Becomes(s, b, s.rest, s.frames, FALSE, s.values, s.wellFormed)
  BY ClosedIs
<1>2. b \in Scanners
  BY <1>1 DEF Becomes
<1>3. t = CASE token \in {"{", "["} ->
              IF Len(s.frames) >= MaxDepth THEN Element(Stop(b))
              ELSE [Past(b) EXCEPT !.frames = Append(@, Frame(token))]
         [] token \in Strings ->
              Element([Past(b) EXCEPT
                  !.values = Append(@, [path |-> PathOf(s.frames), value |-> token])])
         [] token = "true"           -> Element(Past(b))
         [] token \in {"junk", ":"}  -> Element(Spoilt(Past(b)))
         [] token = "open"           -> Element(Stop(b))
         [] OTHER                    -> Element(Spoilt(b))
  BY DEF ReadValue
<1> HIDE DEF b, t
<1>p. Becomes(s, Past(b), Passed(s.rest), s.frames, FALSE, s.values, s.wellFormed)
      /\ Past(b) \in Scanners
  <2>1. Becomes(b, Past(b), Passed(b.rest), b.frames, b.expects, b.values, b.wellFormed)
    BY <1>2, PastIs
  <2> QED
    BY <1>1, <2>1 DEF Becomes
<1>s. Becomes(s, Stop(b), <<>>, s.frames, FALSE, s.values, FALSE) /\ Stop(b) \in Scanners
  <2>1. Becomes(b, Stop(b), <<>>, b.frames, b.expects, b.values, FALSE)
    BY <1>2, StopIs
  <2> QED
    BY <1>1, <2>1 DEF Becomes
<1>e. ASSUME NEW u \in Scanners, NEW rest, NEW v, NEW ok,
             Becomes(s, u, rest, s.frames, FALSE, v, ok)
      PROVE  Becomes(s, Element(u), rest, Counted(s.frames), FALSE, v, ok)
  <2>1. Becomes(u, Element(u), u.rest, Counted(u.frames), u.expects, u.values, u.wellFormed)
    BY ElementIs
  <2> QED
    BY <1>e, <2>1 DEF Becomes
<1>d. /\ Brackets = {"{", "["} /\ Strings = {"word", "name"}
      /\ Delimiters = {"}", "]", ",", "end"}
  BY DEF Brackets, Strings, Delimiters
<1>4. CASE token \in Brackets /\ Len(s.frames) >= MaxDepth
  <2>1. t = Element(Stop(b))
    BY <1>3, <1>4, <1>d
  <2>2. Becomes(s, t, <<>>, Counted(s.frames), FALSE, s.values, FALSE)
    BY <1>s, <1>e, <2>1
  <2>3. ~(Len(s.frames) < MaxDepth)
    BY <1>0, <1>4
  <2> QED
    BY <1>4, <2>2, <2>3 DEF ValueRead, t
<1>5. CASE token \in Brackets /\ ~(Len(s.frames) >= MaxDepth)
  <2>1. t = [Past(b) EXCEPT !.frames = Append(@, Frame(token))]
    BY <1>3, <1>5, <1>d
  <2>2. Frame(token) \in ScanFrames
    BY <1>5, <1>d, FrameOK
  <2>3. Append(s.frames, Frame(token)) \in Seq(ScanFrames)
    BY <1>0, <2>2
  <2> DEFINE q == Past(b)
             fr == Append(s.frames, Frame(token))
  <2>4. q \in Scanners /\ q.frames = s.frames /\ t = [q EXCEPT !.frames = fr]
    BY <1>p, <2>1 DEF Becomes
  <2>5. Becomes(s, q, Passed(s.rest), s.frames, FALSE, s.values, s.wellFormed)
    BY <1>p
  <2> HIDE DEF q, fr
  <2>6. Becomes(q, t, q.rest, fr, q.expects, q.values, q.wellFormed)
    BY <2>3, <2>4, FramesIs DEF fr
  <2>7. Becomes(s, t, Passed(s.rest), fr, FALSE, s.values, s.wellFormed)
    BY <2>5, <2>6 DEF Becomes
  <2>8. Len(s.frames) < MaxDepth
    BY <1>0, <1>5
  <2> QED
    BY <1>5, <2>7, <2>8 DEF ValueRead, fr, t
<1>6. CASE token \in Strings
  <2> DEFINE q == Past(b)
             f == Found(s.frames, token)
             u == [q EXCEPT !.values = Append(@, f)]
  <2>1. t = Element(u)
    BY <1>3, <1>6, <1>d DEF Found
  <2>2. f \in FoundStrings
    BY <1>0, <1>6, FoundOK
  <2>3. q \in Scanners
    BY <1>p
  <2>4. Becomes(q, u, q.rest, q.frames, q.expects, Append(q.values, f), q.wellFormed)
    <3> HIDE DEF q, f
    <3> QED
      BY <2>2, <2>3, ValuesIs
  <2>5. Becomes(s, q, Passed(s.rest), s.frames, FALSE, s.values, s.wellFormed)
    BY <1>p
  <2> HIDE DEF q, f, u
  <2>6. Becomes(s, u, Passed(s.rest), s.frames, FALSE, Append(s.values, f), s.wellFormed)
        /\ u \in Scanners
    BY <2>4, <2>5 DEF Becomes
  <2>7. Becomes(s, t, Passed(s.rest), Counted(s.frames), FALSE, Append(s.values, f), s.wellFormed)
    BY <1>e, <2>1, <2>6
  <2> QED
    BY <1>6, <2>7 DEF ValueRead, f, t
<1>7. CASE token = "true"
  <2>1. t = Element(Past(b))
    BY <1>3, <1>7, <1>d
  <2>2. Becomes(s, t, Passed(s.rest), Counted(s.frames), FALSE, s.values, s.wellFormed)
    BY <1>p, <1>e, <2>1
  <2> QED
    BY <1>7, <2>2 DEF ValueRead, t
<1>8. CASE token \in {"junk", ":"}
  <2> DEFINE q == Past(b)
  <2>1. t = Element(Spoilt(q))
    BY <1>3, <1>8, <1>d
  <2>2. q \in Scanners /\ Becomes(s, q, Passed(s.rest), s.frames, FALSE, s.values, s.wellFormed)
    BY <1>p
  <2> HIDE DEF q
  <2>3. Becomes(q, Spoilt(q), q.rest, q.frames, q.expects, q.values, FALSE)
    BY <2>2, SpoiltIs
  <2>4. Becomes(s, Spoilt(q), Passed(s.rest), s.frames, FALSE, s.values, FALSE)
        /\ Spoilt(q) \in Scanners
    BY <2>2, <2>3 DEF Becomes
  <2>5. Becomes(s, t, Passed(s.rest), Counted(s.frames), FALSE, s.values, FALSE)
    BY <1>e, <2>1, <2>4
  <2> QED
    BY <1>8, <2>5 DEF ValueRead, t
<1>9. CASE token = "open"
  <2>1. t = Element(Stop(b))
    BY <1>3, <1>9, <1>d
  <2>2. Becomes(s, t, <<>>, Counted(s.frames), FALSE, s.values, FALSE)
    BY <1>s, <1>e, <2>1
  <2> QED
    BY <1>9, <2>2 DEF ValueRead, t
<1>10. CASE token \in Delimiters
  <2>1. t = Element(Spoilt(b))
    BY <1>3, <1>10, <1>d
  <2>2. Becomes(b, Spoilt(b), b.rest, b.frames, b.expects, b.values, FALSE)
    BY <1>2, SpoiltIs
  <2>3. Becomes(s, Spoilt(b), s.rest, s.frames, FALSE, s.values, FALSE)
        /\ Spoilt(b) \in Scanners
    BY <1>1, <2>2 DEF Becomes
  <2>4. Becomes(s, t, s.rest, Counted(s.frames), FALSE, s.values, FALSE)
    BY <1>e, <2>1, <2>3
  <2> QED
    BY <1>10, <2>4 DEF ValueRead, t
<1> QED
  BY <1>4, <1>5, <1>6, <1>7, <1>8, <1>9, <1>10, UnderIsOneOf

LEMMA ReadObjectIs ==
  ASSUME NEW s \in Scanners, s.frames # <<>>, ~s.expects
  PROVE  ObjectRead(s, ReadObject(s))
<1> DEFINE token == Under(s)
           p == Past(s)
           t == ReadObject(s)
<1>0. s.frames \in Seq(ScanFrames) /\ s.rest \in Seq(Tokens) /\ (s.expects <=> FALSE)
  BY UnderIs
<1>1. t = CASE token = "}"       -> LeaveFrame(p)
           [] token = "end"     -> LeaveFrame(Spoilt(s))
           [] token = ","       -> p
           [] token = "]"       -> LeaveFrame(Spoilt(s))
           [] token \in Strings ->
                IF Under(p) # ":" THEN Spoilt(p)
                ELSE [Past(p) EXCEPT !.frames[Len(s.frames)].key = token, !.expects = TRUE]
           [] token = "open"    -> LeaveFrame(Stop(s))
           [] OTHER             -> Spoilt(p)
  BY DEF ReadObject
<1>2. Becomes(s, p, Passed(s.rest), s.frames, FALSE, s.values, s.wellFormed) /\ p \in Scanners
  BY <1>0, PastIs DEF Becomes
<1> HIDE DEF p, t
<1>3. Becomes(s, Spoilt(s), s.rest, s.frames, FALSE, s.values, FALSE) /\ Spoilt(s) \in Scanners
  BY <1>0, SpoiltIs DEF Becomes
<1>4. Becomes(s, Spoilt(p), Passed(s.rest), s.frames, FALSE, s.values, FALSE)
  <2>1. Becomes(p, Spoilt(p), p.rest, p.frames, p.expects, p.values, FALSE)
    BY <1>2, SpoiltIs
  <2> QED
    BY <1>2, <2>1 DEF Becomes
<1>5. Becomes(s, Stop(s), <<>>, s.frames, FALSE, s.values, FALSE) /\ Stop(s) \in Scanners
  BY <1>0, StopIs DEF Becomes
<1>6. ASSUME NEW u \in Scanners, NEW rest, NEW v, NEW ok,
             Becomes(s, u, rest, s.frames, FALSE, v, ok)
      PROVE  Becomes(s, LeaveFrame(u), rest, Counted(Front(s.frames)), FALSE, v, ok)
  <2>1. u.frames = s.frames
    BY <1>6 DEF Becomes
  <2>2. Becomes(u, LeaveFrame(u), u.rest, Counted(Front(u.frames)), u.expects, u.values,
                u.wellFormed)
    BY <2>1, LeaveFrameIs
  <2> QED
    BY <1>6, <2>2 DEF Becomes
<1>d. Strings = {"word", "name"}
  BY DEF Strings
<1>7. CASE token = "}"
  <2>1. t = LeaveFrame(p)
    BY <1>1, <1>7, <1>d
  <2> QED
    BY <1>2, <1>6, <1>7, <2>1 DEF ObjectRead, t
<1>8. CASE token \in {"]", "end"}
  <2>1. t = LeaveFrame(Spoilt(s))
    BY <1>1, <1>8, <1>d
  <2> QED
    BY <1>3, <1>6, <1>8, <2>1 DEF ObjectRead, t
<1>9. CASE token = ","
  <2>1. t = p
    BY <1>1, <1>9, <1>d
  <2> QED
    BY <1>2, <1>9, <2>1 DEF ObjectRead, t
<1>10. CASE token \in Strings /\ Under(p) # ":"
  <2>1. t = Spoilt(p)
    BY <1>1, <1>10, <1>d
  <2> QED
    BY <1>4, <1>10, <2>1 DEF ObjectRead, t, p
<1>11. CASE token \in Strings /\ Under(p) = ":"
  <2> DEFINE q == Past(p)
             fr == Keyed(s.frames, token)
             u == [q EXCEPT !.frames = fr]
  <2>1. t = [q EXCEPT !.frames[Len(s.frames)].key = token, !.expects = TRUE]
    BY <1>1, <1>11, <1>d
  <2>2. Becomes(s, q, Passed(Passed(s.rest)), s.frames, FALSE, s.values, s.wellFormed)
        /\ q \in Scanners
    <3>1. Becomes(p, q, Passed(p.rest), p.frames, p.expects, p.values, p.wellFormed)
      BY <1>2, PastIs
    <3> HIDE DEF q
    <3> QED
      BY <1>2, <3>1 DEF Becomes
  <2>3. fr \in Seq(ScanFrames)
    BY <1>0, <1>11, KeyedOK
  <2>4. q.frames = s.frames
    BY <2>2 DEF Becomes
  <2> HIDE DEF q
  <2>5. t = [u EXCEPT !.expects = TRUE]
    BY <2>1, <2>4 DEF Keyed
  <2> HIDE DEF fr
  <2>6. Becomes(q, u, q.rest, fr, q.expects, q.values, q.wellFormed)
    BY <2>2, <2>3, FramesIs
  <2> HIDE DEF u
  <2>7. u \in Scanners
    BY <2>6 DEF Becomes
  <2>8. Becomes(u, t, u.rest, u.frames, TRUE, u.values, u.wellFormed)
    BY <2>5, <2>7, ExpectsIs
  <2>9. Becomes(s, t, Passed(Passed(s.rest)), fr, TRUE, s.values, s.wellFormed)
    BY <2>2, <2>6, <2>8 DEF Becomes
  <2> QED
    BY <1>11, <2>9 DEF ObjectRead, fr, t, p
<1>12. CASE token = "open"
  <2>1. t = LeaveFrame(Stop(s))
    BY <1>1, <1>12, <1>d
  <2> QED
    BY <1>5, <1>6, <1>12, <2>1 DEF ObjectRead, t
<1>13. CASE token \in {"{", "[", ":", "true", "junk"}
  <2>1. t = Spoilt(p)
    BY <1>1, <1>13, <1>d
  <2> QED
    BY <1>4, <1>13, <2>1 DEF ObjectRead, t
<1>14. token \in {"}"} \cup {"]", "end"} \cup {","} \cup Strings \cup {"open"}
                 \cup {"{", "[", ":", "true", "junk"}
  BY UnderIsOneOf DEF Brackets, Delimiters
<1> QED
  BY <1>7, <1>8, <1>9, <1>10, <1>11, <1>12, <1>13, <1>14

LEMMA ReadArrayIs ==
  ASSUME NEW s \in Scanners, s.frames # <<>>, ~s.expects
  PROVE  ArrayRead(s, ReadArray(s))
<1> DEFINE token == Under(s)
           p == Past(s)
           t == ReadArray(s)
<1>0. s.frames \in Seq(ScanFrames) /\ s.rest \in Seq(Tokens) /\ (s.expects <=> FALSE)
  BY UnderIs
<1>1. t = CASE token = "]"   -> LeaveFrame(p)
           [] token = "end" -> LeaveFrame(Spoilt(s))
           [] token = ","   -> p
           [] token = "}"   -> LeaveFrame(Spoilt(s))
           [] OTHER         -> [s EXCEPT !.expects = TRUE]
  BY DEF ReadArray
<1>2. Becomes(s, p, Passed(s.rest), s.frames, FALSE, s.values, s.wellFormed) /\ p \in Scanners
  BY <1>0, PastIs DEF Becomes
<1> HIDE DEF p, t
<1>3. Becomes(s, Spoilt(s), s.rest, s.frames, FALSE, s.values, FALSE) /\ Spoilt(s) \in Scanners
  BY <1>0, SpoiltIs DEF Becomes
<1>6. ASSUME NEW u \in Scanners, NEW rest, NEW v, NEW ok,
             Becomes(s, u, rest, s.frames, FALSE, v, ok)
      PROVE  Becomes(s, LeaveFrame(u), rest, Counted(Front(s.frames)), FALSE, v, ok)
  <2>1. u.frames = s.frames
    BY <1>6 DEF Becomes
  <2>2. Becomes(u, LeaveFrame(u), u.rest, Counted(Front(u.frames)), u.expects, u.values,
                u.wellFormed)
    BY <2>1, LeaveFrameIs
  <2> QED
    BY <1>6, <2>2 DEF Becomes
<1>d. Delimiters = {"}", "]", ",", "end"}
  BY DEF Delimiters
<1>7. CASE token = "]"
  <2>1. t = LeaveFrame(p)
    BY <1>1, <1>7
  <2> QED
    BY <1>2, <1>6, <1>7, <2>1 DEF ArrayRead, t
<1>8. CASE token \in {"}", "end"}
  <2>1. t = LeaveFrame(Spoilt(s))
    BY <1>1, <1>8
  <2> QED
    BY <1>3, <1>6, <1>8, <2>1 DEF ArrayRead, t
<1>9. CASE token = ","
  <2>1. t = p
    BY <1>1, <1>9
  <2> QED
    BY <1>2, <1>9, <2>1 DEF ArrayRead, t
<1>10. CASE token \notin Delimiters
  <2>1. t = [s EXCEPT !.expects = TRUE]
    BY <1>1, <1>10, <1>d
  <2>2. Becomes(s, t, s.rest, s.frames, TRUE, s.values, s.wellFormed)
    BY <2>1, ExpectsIs
  <2> QED
    BY <1>10, <2>2 DEF ArrayRead, t
<1> QED
  BY <1>7, <1>8, <1>9, <1>10, <1>d

-----------------------------------------------------------------------------
(* A step is made by one of the readers, and makes a scanner of a scanner. *)
LEMMA ScanTokenIs ==
  ASSUME NEW s \in Scanners, ~Ended(s)
  PROVE  LET t == ScanToken(s) IN
         /\ t \in Scanners /\ t.steps = s.steps
         /\ \/ s.expects /\ ValueRead(s, t)
            \/ ~s.expects /\ s.frames # <<>> /\ Last(s.frames).opening = "{" /\ ObjectRead(s, t)
            \/ ~s.expects /\ s.frames # <<>> /\ Last(s.frames).opening = "[" /\ ArrayRead(s, t)
<1> DEFINE t == ScanToken(s)
<1>1. CASE s.expects
  <2>1. t = ReadValue(s)
    BY <1>1 DEF ScanToken
  <2>2. ValueRead(s, t)
    BY <2>1, ReadValueIs
  <2> HIDE DEF t
  <2>3. t \in Scanners /\ t.steps = s.steps
    BY <2>2 DEF ValueRead, Becomes
  <2> QED
    BY <1>1, <2>2, <2>3 DEF t
<1>2. CASE ~s.expects /\ s.frames # <<>> /\ Last(s.frames).opening = "{"
  <2>1. t = ReadObject(s)
    BY <1>2 DEF ScanToken
  <2>2. ObjectRead(s, t)
    BY <1>2, <2>1, ReadObjectIs
  <2> HIDE DEF t
  <2>3. t \in Scanners /\ t.steps = s.steps
    BY <2>2 DEF ObjectRead, Becomes
  <2> QED
    BY <1>2, <2>2, <2>3 DEF t
<1>3. CASE ~s.expects /\ s.frames # <<>> /\ Last(s.frames).opening = "["
  <2>1. t = ReadArray(s)
    BY <1>3 DEF ScanToken
  <2>2. ArrayRead(s, t)
    BY <1>3, <2>1, ReadArrayIs
  <2> HIDE DEF t
  <2>3. t \in Scanners /\ t.steps = s.steps
    BY <2>2 DEF ArrayRead, Becomes
  <2> QED
    BY <1>3, <2>2, <2>3 DEF t
<1>4. s.expects \/ (s.frames # <<>> /\ Last(s.frames).opening \in {"{", "["})
  <2>1. s.frames \in Seq(ScanFrames)
    BY UnderIs
  <2> QED
    BY <2>1, LastOK DEF Ended
<1> QED
  BY <1>1, <1>2, <1>3, <1>4

(* What the steps to come may cost.                                        *)
Waiting(s) == IF ~s.expects THEN 1 ELSE IF Under(s) \in Delimiters THEN 2 ELSE 0
Cost(s) == 3 * Len(s.rest) + Len(s.frames) + Waiting(s)

LEMMA CostOK ==
  ASSUME NEW s \in Scanners
  PROVE  Cost(s) \in Nat /\ Cost(s) >= 1 /\ Waiting(s) \in 0 .. 2
         /\ Len(s.rest) \in Nat /\ Len(s.frames) \in Nat
<1>1. s.rest \in Seq(Tokens) /\ s.frames \in Seq(ScanFrames)
      /\ (s.rest = <<>> => Under(s) = "end")
  BY UnderIs
<1> DEFINE w == Waiting(s)
           l == Len(s.rest)
           f == Len(s.frames)
<1>2. w \in {0, 1, 2}
  BY DEF Waiting
<1>3. w # 0 \/ s.rest # <<>>
  <2>1. "end" \in Delimiters
    BY DEF Delimiters
  <2>2. s.rest = <<>> => Under(s) \in Delimiters
    BY <1>1, <2>1
  <2>3. Under(s) \in Delimiters => w # 0
    BY DEF Waiting
  <2> QED
    BY <2>2, <2>3
<1>4. l \in Nat /\ f \in Nat /\ (s.rest # <<>> => l # 0)
  BY <1>1
<1>5. w # 0 \/ l # 0
  BY <1>3, <1>4
<1>6. Cost(s) = 3 * l + f + w
  BY DEF Cost
<1> HIDE DEF w, l, f
<1>7. 3 * l + f + w \in Nat /\ 3 * l + f + w >= 1 /\ w \in 0 .. 2
  BY <1>2, <1>4, <1>5
<1> QED
  BY <1>4, <1>6, <1>7 DEF w, l, f

LEMMA PassedLen ==
  ASSUME NEW r \in Seq(Tokens)
  PROVE  /\ Passed(r) \in Seq(Tokens)
         /\ r # <<>> => Len(Passed(r)) = Len(r) - 1
         /\ r = <<>> => Len(Passed(r)) = 0 /\ Len(r) = 0
BY PassedOK, HeadTailProperties DEF Passed

LEMMA AppendFrame ==
  ASSUME NEW fr \in Seq(ScanFrames), NEW f \in ScanFrames
  PROVE  Append(fr, f) \in Seq(ScanFrames) /\ Len(Append(fr, f)) = Len(fr) + 1
BY AppendProperties

(* Numbers of the tokens ahead and the frames entered, before and after.   *)
LEMMA StepCosts ==
  ASSUME NEW s \in Scanners, ~Ended(s)
  PROVE  Cost(ScanToken(s)) <= Cost(s) - 1
<1> DEFINE t == ScanToken(s)
           L == Len(s.rest)
           F == Len(s.frames)
           K == Len(t.rest)
           G == Len(t.frames)
           w == Waiting(s)
           x == Waiting(t)
<1>0. /\ s.rest \in Seq(Tokens) /\ s.frames \in Seq(ScanFrames)
      /\ (Under(s) # "end" => s.rest # <<>>)
  BY UnderIs
<1>1. /\ t \in Scanners
      /\ \/ s.expects /\ ValueRead(s, t)
         \/ ~s.expects /\ s.frames # <<>> /\ Last(s.frames).opening = "{" /\ ObjectRead(s, t)
         \/ ~s.expects /\ s.frames # <<>> /\ Last(s.frames).opening = "[" /\ ArrayRead(s, t)
  BY ScanTokenIs
<1> HIDE DEF t
<1>2. /\ L \in Nat /\ F \in Nat /\ w \in 0 .. 2 /\ Cost(s) = 3 * L + F + w
      /\ K \in Nat /\ G \in Nat /\ x \in 0 .. 2 /\ Cost(t) = 3 * K + G + x
  BY <1>1, CostOK DEF Cost
<1>3. /\ Len(Passed(s.rest)) = (IF s.rest = <<>> THEN 0 ELSE L - 1)
      /\ Len(Counted(s.frames)) = F
      /\ (s.frames # <<>> => Len(Counted(Front(s.frames))) = F - 1)
      /\ (Under(s) # "end" => L # 0)
  <2>1. Len(Passed(s.rest)) = (IF s.rest = <<>> THEN 0 ELSE L - 1)
    BY <1>0, PassedLen
  <2>2. Len(Counted(s.frames)) = F
    BY <1>0, CountedOK
  <2>3. s.frames # <<>> => Len(Counted(Front(s.frames))) = F - 1
    BY <1>0, CountedOK, FrontOK
  <2>4. s.rest # <<>> => L # 0
    BY <1>0
  <2> QED
    BY <1>0, <2>1, <2>2, <2>3, <2>4
<1>4. t.expects = FALSE => x = 1
  BY DEF Waiting
<1>5. CASE s.expects /\ ValueRead(s, t)
  <2>1. x = 1
    <3>1. ~t.expects
      BY <1>5 DEF ValueRead, Becomes
    <3> QED
      BY <3>1 DEF Waiting
  <2>2. CASE Under(s) \in Delimiters
    <3>1. w = 2
      BY <1>5, <2>2 DEF Waiting
    <3>2. t.rest = s.rest /\ t.frames = Counted(s.frames)
      BY <1>5, <2>2 DEF ValueRead, Becomes, Delimiters, Brackets, Strings
    <3>3. K = L /\ G = F
      BY <1>3, <3>2
    <3> HIDE DEF K, L, F, G, w, x
    <3>4. 3 * K + G + x <= 3 * L + F + w - 1
      BY <1>2, <2>1, <3>1, <3>3
    <3> QED
      BY <1>2, <3>4 DEF t
  <2>3. CASE Under(s) \notin Delimiters
    <3>1. L # 0
      BY <1>3, <2>3 DEF Delimiters
    <3>2. \/ t.rest = <<>> /\ t.frames = Counted(s.frames)
          \/ t.rest = Passed(s.rest) /\ t.frames = Counted(s.frames)
          \/ /\ t.rest = Passed(s.rest) /\ t.frames = Append(s.frames, Frame(Under(s)))
             /\ Under(s) \in Brackets
      BY <1>5, <2>3 DEF ValueRead, Becomes
    <3>3. Len(Passed(s.rest)) = L - 1
      BY <1>3, <3>1
    <3>4. Under(s) \in Brackets => Len(Append(s.frames, Frame(Under(s)))) = F + 1
      BY <1>0, FrameOK, AppendFrame DEF Brackets
    <3>5. K <= L - 1 /\ G <= F + 1 
      <4>1. CASE t.rest = <<>> /\ t.frames = Counted(s.frames)
        <5>1. K = 0 /\ G = F
          BY <4>1, <1>3
        <5> QED
          BY <1>2, <3>1, <5>1
      <4>2. CASE t.rest = Passed(s.rest) /\ t.frames = Counted(s.frames)
        <5>1. K = L - 1 /\ G = F
          BY <4>2, <1>3, <3>3
        <5> QED
          BY <1>2, <5>1
      <4>3. CASE t.rest = Passed(s.rest) /\ t.frames = Append(s.frames, Frame(Under(s)))
                 /\ Under(s) \in Brackets
        <5>1. K = L - 1 /\ G = F + 1
          BY <4>3, <3>3, <3>4
        <5> QED
          BY <1>2, <5>1
      <4> QED
        BY <3>2, <4>1, <4>2, <4>3
    <3> HIDE DEF K, L, F, G, w, x
    <3>6. 3 * K + G + x <= 3 * L + F + w - 1
      BY <1>2, <2>1, <3>5
    <3> QED
      BY <1>2, <3>6 DEF t
  <2> QED
    BY <2>2, <2>3
<1>6. CASE ~s.expects /\ s.frames # <<>> /\ ObjectRead(s, t)
  <2>1. w = 1
    BY <1>6 DEF Waiting
  <2>2. \/ ~t.expects /\ t.rest = Passed(s.rest) /\ t.frames = s.frames /\ Under(s) # "end"
        \/ /\ ~t.expects /\ t.frames = Counted(Front(s.frames))
           /\ t.rest \in {Passed(s.rest), s.rest, <<>>}
        \/ /\ t.rest = Passed(Passed(s.rest)) /\ t.frames = Keyed(s.frames, Under(s))
           /\ Under(s) \in Strings /\ Under(Past(s)) = ":"
    BY <1>6 DEF ObjectRead, Becomes, Strings
  <2>3. CASE ~t.expects /\ t.rest = Passed(s.rest) /\ t.frames = s.frames /\ Under(s) # "end"
    <3>1. x = 1 /\ G = F /\ L # 0
      BY <1>3, <2>3 DEF Waiting
    <3>2. K = L - 1
      BY <1>3, <2>3, <3>1
    <3> HIDE DEF K, L, F, G, w, x
    <3>3. 3 * K + G + x <= 3 * L + F + w - 1
      BY <1>2, <2>1, <3>1, <3>2
    <3> QED
      BY <1>2, <3>3 DEF t
  <2>4. CASE ~t.expects /\ t.frames = Counted(Front(s.frames))
             /\ t.rest \in {Passed(s.rest), s.rest, <<>>}
    <3>1. x = 1 /\ G = F - 1
      BY <1>3, <1>6, <2>4 DEF Waiting
    <3>2. K = L \/ K = 0 \/ K = L - 1
      BY <1>3, <2>4
    <3> HIDE DEF K, L, F, G, w, x
    <3>3. 3 * K + G + x <= 3 * L + F + w - 1
      BY <1>2, <2>1, <3>1, <3>2
    <3> QED
      BY <1>2, <3>3 DEF t
  <2>5. CASE t.rest = Passed(Passed(s.rest)) /\ t.frames = Keyed(s.frames, Under(s))
             /\ Under(s) \in Strings /\ Under(Past(s)) = ":"
    <3>1. G = F
      BY <1>0, <1>6, <2>5, KeyedOK
    <3>2. s.rest # <<>> /\ Passed(s.rest) # <<>>
      <4>1. Under(s) # "end"
        BY <2>5 DEF Strings
      <4>2. Past(s) \in Scanners /\ Past(s).rest = Passed(s.rest)
        BY PastIs DEF Becomes
      <4>3. Past(s).rest = <<>> => Under(Past(s)) = "end"
        BY <4>2, UnderIs
      <4> QED
        BY <1>0, <2>5, <4>1, <4>2, <4>3
    <3>3. Len(Passed(s.rest)) = L - 1 /\ Len(Passed(Passed(s.rest))) = Len(Passed(s.rest)) - 1
      BY <1>0, <3>2, PassedLen
    <3>4. K = L - 1 - 1
      BY <2>5, <3>3
    <3> HIDE DEF K, L, F, G, w, x
    <3>5. 3 * K + G + x <= 3 * L + F + w - 1
      BY <1>2, <2>1, <3>1, <3>4
    <3> QED
      BY <1>2, <3>5 DEF t
  <2> QED
    BY <2>2, <2>3, <2>4, <2>5
<1>7. CASE ~s.expects /\ s.frames # <<>> /\ ArrayRead(s, t)
  <2>1. w = 1
    BY <1>7 DEF Waiting
  <2>2. \/ ~t.expects /\ t.rest = Passed(s.rest) /\ t.frames = s.frames /\ Under(s) # "end"
        \/ /\ ~t.expects /\ t.frames = Counted(Front(s.frames))
           /\ t.rest \in {Passed(s.rest), s.rest, <<>>}
        \/ t.expects /\ t.rest = s.rest /\ t.frames = s.frames /\ Under(s) \notin Delimiters
    BY <1>7 DEF ArrayRead, Becomes
  <2>3. CASE ~t.expects /\ t.rest = Passed(s.rest) /\ t.frames = s.frames /\ Under(s) # "end"
    <3>1. x = 1 /\ G = F /\ L # 0
      BY <1>3, <2>3 DEF Waiting
    <3>2. K = L - 1
      BY <1>3, <2>3, <3>1
    <3> HIDE DEF K, L, F, G, w, x
    <3>3. 3 * K + G + x <= 3 * L + F + w - 1
      BY <1>2, <2>1, <3>1, <3>2
    <3> QED
      BY <1>2, <3>3 DEF t
  <2>4. CASE ~t.expects /\ t.frames = Counted(Front(s.frames))
             /\ t.rest \in {Passed(s.rest), s.rest, <<>>}
    <3>1. x = 1 /\ G = F - 1
      BY <1>3, <1>7, <2>4 DEF Waiting
    <3>2. K = L \/ K = 0 \/ K = L - 1
      BY <1>3, <2>4
    <3> HIDE DEF K, L, F, G, w, x
    <3>3. 3 * K + G + x <= 3 * L + F + w - 1
      BY <1>2, <2>1, <3>1, <3>2
    <3> QED
      BY <1>2, <3>3 DEF t
  <2>5. CASE t.expects /\ t.rest = s.rest /\ t.frames = s.frames /\ Under(s) \notin Delimiters
    <3>1. Under(t) = Under(s)
      BY <2>5 DEF Under
    <3>2. x = 0
      BY <2>5, <3>1 DEF Waiting
    <3>3. G = F /\ K = L
      BY <2>5
    <3> HIDE DEF K, L, F, G, w, x
    <3>4. 3 * K + G + x <= 3 * L + F + w - 1
      BY <1>2, <2>1, <3>2, <3>3
    <3> QED
      BY <1>2, <3>4 DEF t
  <2> QED
    BY <2>2, <2>3, <2>4, <2>5
<1> QED
  BY <1>1, <1>5, <1>6, <1>7

-----------------------------------------------------------------------------
(* The reading of a document, position by position.                        *)
LEMMA CountedElement ==
  ASSUME NEW r, NEW fr, r.frames = fr
  PROVE  Element(r) = IF fr # <<>> /\ Last(fr).opening = "["
                      THEN [r EXCEPT !.frames = Counted(fr)] ELSE r
BY DEF Element, Counted

(* A reading with the fields that a token changes.                         *)
ReadAs(f, frames, turn, values, deepest) ==
  /\ f \in Readings
  /\ f.frames = frames /\ f.turn = turn /\ f.values = values /\ f.deepest = deepest

TurnAfter(frames) == IF frames = <<>> THEN "end" ELSE "next"

Larger(a, b) == IF a < b THEN b ELSE a

LEMMA ReadingIs ==
  ASSUME NEW r \in Readings
  PROVE  /\ r.frames \in Seq(ScanFrames) /\ r.turn \in Turns
         /\ r.values \in Seq(FoundStrings) /\ r.deepest \in Nat
BY DEF Readings

(* Back in the container, after a value or a container within it.          *)
LEMMA AfterValueIs ==
  ASSUME NEW r \in Readings
  PROVE  ReadAs(AfterValue(r), Counted(r.frames), TurnAfter(r.frames), r.values, r.deepest)
<1>0. /\ r.frames \in Seq(ScanFrames) /\ Counted(r.frames) \in Seq(ScanFrames)
      /\ TurnAfter(r.frames) \in Turns
  BY ReadingIs, CountedOK DEF TurnAfter, Turns
<1> DEFINE fr == Counted(r.frames)
           turn == TurnAfter(r.frames)
<1>1. AfterValue(r) = [Element(r) EXCEPT !.turn = turn]
  BY DEF AfterValue, TurnAfter
<1>2. Element(r) = [r EXCEPT !.frames = fr]
  <2>1. CASE r.frames # <<>> /\ Last(r.frames).opening = "["
    BY <2>1 DEF Element, Counted
  <2>2. CASE ~(r.frames # <<>> /\ Last(r.frames).opening = "[")
    <3>1. Element(r) = r /\ fr = r.frames
      BY <2>2 DEF Element, Counted
    <3>2. r = [r EXCEPT !.frames = r.frames]
      BY DEF Readings
    <3> QED
      BY <3>1, <3>2
  <2> QED
    BY <2>1, <2>2
<1> HIDE DEF fr, turn
<1>3. fr \in Seq(ScanFrames) /\ turn \in Turns
  BY <1>0 DEF fr, turn
<1>4. ReadAs([[r EXCEPT !.frames = fr] EXCEPT !.turn = turn], fr, turn, r.values, r.deepest)
  BY <1>3 DEF ReadAs, Readings
<1> QED
  BY <1>1, <1>2, <1>4 DEF fr, turn

(* What a token may make of a reading.                                     *)
Followed(r, token, f) ==
  \/ /\ r.turn \in {"value", "first"} /\ token \in Brackets
     /\ ReadAs(f, Append(r.frames, Frame(token)), IF token = "{" THEN "firstKey" ELSE "first",
              r.values, Larger(r.deepest, Len(r.frames) + 1))
  \/ /\ r.turn \in {"value", "first"} /\ token \in Strings
     /\ ReadAs(f, Counted(r.frames), TurnAfter(r.frames),
              Append(r.values, Found(r.frames, token)), r.deepest)
  \/ /\ r.turn \in {"value", "first"} /\ token = "true"
     /\ ReadAs(f, Counted(r.frames), TurnAfter(r.frames), r.values, r.deepest)
  \/ /\ r.turn \in {"first", "next"} /\ token = "]" /\ Inside(r, "[")
     /\ ReadAs(f, Counted(Front(r.frames)), TurnAfter(Front(r.frames)), r.values, r.deepest)
  \/ /\ r.turn \in {"firstKey", "next"} /\ token = "}" /\ Inside(r, "{")
     /\ ReadAs(f, Counted(Front(r.frames)), TurnAfter(Front(r.frames)), r.values, r.deepest)
  \/ /\ r.turn \in {"firstKey", "key"} /\ token \in Strings
     /\ ReadAs(f, Keyed(r.frames, token), "colon", r.values, r.deepest)
  \/ /\ r.turn = "colon" /\ token = ":"
     /\ ReadAs(f, r.frames, "value", r.values, r.deepest)
  \/ /\ r.turn = "next" /\ token = ","
     /\ ReadAs(f, r.frames, IF Inside(r, "{") THEN "key" ELSE "value", r.values, r.deepest)
  \/ f.turn = "wrong" /\ ReadAs(f, r.frames, "wrong", r.values, r.deepest)

(* Keys are read within a container.                                       *)
Within(r) == r.turn \in {"firstKey", "key"} => r.frames # <<>>

LEMMA FollowIs ==
  ASSUME NEW r \in Readings, Within(r), NEW token \in Tokens
  PROVE  Followed(r, token, Follow(r, token))
<1> DEFINE f == Follow(r, token)
           depth == Len(r.frames) + 1
<1>0. /\ r.frames \in Seq(ScanFrames) /\ r.turn \in Turns
      /\ r.values \in Seq(FoundStrings) /\ r.deepest \in Nat
  BY ReadingIs
<1>d. /\ Brackets = {"{", "["} /\ Strings = {"word", "name"}
      /\ Turns = {"value", "first", "firstKey", "key", "colon", "next", "end", "wrong"}
  BY DEF Brackets, Strings, Turns
<1>m. \A fr \in Seq(ScanFrames), turn \in Turns, d \in Nat :
         /\ ReadAs([r EXCEPT !.frames = fr, !.turn = turn, !.deepest = d], fr, turn, r.values, d)
         /\ ReadAs([r EXCEPT !.frames = fr, !.turn = turn], fr, turn, r.values, r.deepest)
         /\ ReadAs([r EXCEPT !.turn = turn], r.frames, turn, r.values, r.deepest)
         /\ ReadAs([r EXCEPT !.frames = fr], fr, r.turn, r.values, r.deepest)
  BY ZenonT(40) DEF ReadAs, Readings
<1>1. CASE r.turn \in {"value", "first"} /\ token \in Brackets
  <2> DEFINE turn == IF token = "{" THEN "firstKey" ELSE "first"
             d == IF r.deepest < depth THEN depth ELSE r.deepest
             fr == Append(r.frames, Frame(token))
  <2>1. f = [r EXCEPT !.frames = fr, !.turn = turn, !.deepest = d]
    BY <1>1, <1>d DEF Follow
  <2>2. turn \in Turns
    BY <1>d
  <2>3. fr \in Seq(ScanFrames)
    BY <1>0, <1>1, <1>d, FrameOK, AppendFrame
  <2>4. d \in Nat /\ d = Larger(r.deepest, depth)
    BY <1>0 DEF Larger
  <2> HIDE DEF fr, turn, d, f
  <2>5. ReadAs(f, fr, turn, r.values, d)
    BY <1>m, <2>1, <2>2, <2>3, <2>4
  <2> QED
    BY <1>1, <2>4, <2>5 DEF Followed, fr, turn, f
<1>2. CASE r.turn \in {"value", "first"} /\ token \in Strings
  <2> DEFINE g == Found(r.frames, token)
             w == Append(r.values, g)
             q == [r EXCEPT !.values = w]
  <2>1. f = AfterValue(q)
    BY <1>2, <1>d DEF Follow, Found
  <2>2. w \in Seq(FoundStrings)
    BY <1>0, <1>2, FoundOK, AppendProperties
  <2> HIDE DEF w, f
  <2>3. ReadAs(q, r.frames, r.turn, w, r.deepest)
    BY <2>2 DEF ReadAs, Readings
  <2> HIDE DEF q
  <2>4. q \in Readings
    BY <2>3 DEF ReadAs
  <2>5. ReadAs(f, Counted(q.frames), TurnAfter(q.frames), q.values, q.deepest)
    BY <2>1, <2>4, AfterValueIs
  <2>6. ReadAs(f, Counted(r.frames), TurnAfter(r.frames), w, r.deepest)
    BY <2>3, <2>5 DEF ReadAs
  <2> QED
    BY <1>2, <2>6 DEF Followed, w, f
<1>3. CASE r.turn \in {"value", "first"} /\ token = "true"
  <2>1. f = AfterValue(r)
    BY <1>3, <1>d DEF Follow
  <2>2. ReadAs(f, Counted(r.frames), TurnAfter(r.frames), r.values, r.deepest)
    BY <2>1, AfterValueIs
  <2> QED
    BY <1>3, <2>2 DEF Followed
<1>l. ASSUME r.frames # <<>>, f = AfterValue(Leave(r))
      PROVE  ReadAs(f, Counted(Front(r.frames)), TurnAfter(Front(r.frames)), r.values, r.deepest)
  <2> DEFINE fr == Front(r.frames)
             q == Leave(r)
  <2>1. q = [r EXCEPT !.frames = fr]
    BY DEF Leave
  <2>2. fr \in Seq(ScanFrames)
    BY <1>0, <1>l, FrontOK
  <2> HIDE DEF fr, f
  <2>3. ReadAs(q, fr, r.turn, r.values, r.deepest)
    BY <1>m, <1>0, <2>1, <2>2
  <2> HIDE DEF q
  <2>4. q \in Readings
    BY <2>3 DEF ReadAs
  <2>5. ReadAs(f, Counted(q.frames), TurnAfter(q.frames), q.values, q.deepest)
    BY <1>l, <2>4, AfterValueIs DEF q
  <2> QED
    BY <2>3, <2>5 DEF ReadAs, fr
<1>4. CASE r.turn \in {"first", "next"} /\ token = "]" /\ Inside(r, "[")
  <2>1. f = AfterValue(Leave(r))
    BY <1>4, <1>d DEF Follow
  <2>2. r.frames # <<>>
    BY <1>4 DEF Inside
  <2> QED
    BY <1>4, <1>l, <2>1, <2>2 DEF Followed
<1>5. CASE r.turn \in {"firstKey", "next"} /\ token = "}" /\ Inside(r, "{")
  <2>1. f = AfterValue(Leave(r))
    BY <1>5, <1>d DEF Follow
  <2>2. r.frames # <<>>
    BY <1>5 DEF Inside
  <2> QED
    BY <1>5, <1>l, <2>1, <2>2 DEF Followed
<1>6. CASE r.turn \in {"firstKey", "key"} /\ token \in Strings
  <2> DEFINE fr == Keyed(r.frames, token)
  <2>1. f = [r EXCEPT !.frames = fr, !.turn = "colon"]
    BY <1>6, <1>d DEF Follow, Keyed
  <2>2. fr \in Seq(ScanFrames)
    BY <1>0, <1>6, KeyedOK DEF Within
  <2>3. "colon" \in Turns
    BY <1>d
  <2> HIDE DEF fr, f
  <2>4. ReadAs(f, fr, "colon", r.values, r.deepest)
    BY <1>m, <1>0, <2>1, <2>2, <2>3
  <2> QED
    BY <1>6, <2>4 DEF Followed, fr, f
<1>7. CASE r.turn = "colon" /\ token = ":"
  <2>1. f = [r EXCEPT !.turn = "value"]
    BY <1>7, <1>d DEF Follow
  <2>2. "value" \in Turns
    BY <1>d
  <2>3. ReadAs(f, r.frames, "value", r.values, r.deepest)
    BY <1>m, <1>0, <2>1, <2>2
  <2> QED
    BY <1>7, <2>3 DEF Followed
<1>8. CASE r.turn = "next" /\ token = ","
  <2> DEFINE turn == IF Inside(r, "{") THEN "key" ELSE "value"
  <2>1. f = [r EXCEPT !.turn = turn]
    BY <1>8, <1>d DEF Follow
  <2>2. turn \in Turns
    BY <1>d
  <2> HIDE DEF turn, f
  <2>3. ReadAs(f, r.frames, turn, r.values, r.deepest)
    BY <1>m, <1>0, <2>1, <2>2
  <2> QED
    BY <1>8, <2>3 DEF Followed, turn, f
<1>9. CASE /\ ~(r.turn \in {"value", "first"} /\ token \in Brackets)
           /\ ~(r.turn \in {"value", "first"} /\ token \in Strings)
           /\ ~(r.turn \in {"value", "first"} /\ token = "true")
           /\ ~(r.turn \in {"first", "next"} /\ token = "]" /\ Inside(r, "["))
           /\ ~(r.turn \in {"firstKey", "next"} /\ token = "}" /\ Inside(r, "{"))
           /\ ~(r.turn \in {"firstKey", "key"} /\ token \in Strings)
           /\ ~(r.turn = "colon" /\ token = ":")
           /\ ~(r.turn = "next" /\ token = ",")
  <2>1. f = [r EXCEPT !.turn = "wrong"]
    BY <1>9, <1>d DEF Follow
  <2>2. "wrong" \in Turns
    BY <1>d
  <2> HIDE DEF f
  <2>3. ReadAs(f, r.frames, "wrong", r.values, r.deepest)
    BY <1>m, <1>0, <2>1, <2>2
  <2>4. f.turn = "wrong"
    BY <2>3 DEF ReadAs
  <2> QED
    BY <2>3, <2>4 DEF Followed, f
<1> QED
  BY <1>1, <1>2, <1>3, <1>4, <1>5, <1>6, <1>7, <1>8, <1>9

-----------------------------------------------------------------------------
(* The first n readings of a text, each from the one before it.            *)
ReadsOn(text, read) ==
  /\ read \in [0 .. Len(text) -> Readings] /\ read[0] = Unread
  /\ \A i \in 1 .. Len(text) : Followed(read[i - 1], text[i], read[i])

LEMMA ReadingReadsOn ==
  ASSUME NEW text \in Seq(Tokens)
  PROVE  ReadsOn(text, Reading(text)) /\ DOMAIN Reading(text) = 0 .. Len(text)
<1> DEFINE n == Len(text)
           X == {r \in Readings : Within(r)}
           Step(f, i) == IF i = 0 THEN Unread ELSE Follow(f[i - 1], text[i])
           Is(f) == f = [i \in 0 .. n |-> Step(f, i)]
           step == [z \in Nat \X X |-> IF z[1] \in 1 .. n THEN Follow(z[2], text[z[1]]) ELSE z[2]]
<1>0. n \in Nat /\ \A i \in 1 .. n : text[i] \in Tokens
  OBVIOUS
<1> HIDE DEF n
<1>a. ASSUME NEW r \in X, NEW token \in Tokens
      PROVE  Follow(r, token) \in X /\ Followed(r, token, Follow(r, token))
  <2> DEFINE f == Follow(r, token)
  <2>0. r \in Readings /\ Within(r) /\ r.frames \in Seq(ScanFrames)
    BY ReadingIs
  <2>1. Followed(r, token, f)
    BY <2>0, FollowIs
  <2> HIDE DEF f
  <2>2. f \in Readings
    BY <2>1 DEF Followed, ReadAs
  <2>3. token \in Brackets => Append(r.frames, Frame(token)) # <<>>
    <3>1. ASSUME token \in Brackets PROVE Len(Append(r.frames, Frame(token))) = Len(r.frames) + 1
      BY <2>0, <3>1, FrameOK, AppendFrame DEF Brackets
    <3> QED
      BY <2>0, <3>1
  <2>4. f.turn = "firstKey" => f.frames # <<>>
    BY <2>1, <2>3 DEF Followed, ReadAs, TurnAfter
  <2>5. f.turn = "key" => f.frames # <<>>
    BY <2>1 DEF Followed, ReadAs, TurnAfter, Inside
  <2> QED
    BY <2>1, <2>2, <2>4, <2>5 DEF Within, f
<1>b. Unread \in X
  <2>1. <<>> \in Seq(ScanFrames) /\ <<>> \in Seq(FoundStrings) /\ 0 \in Nat
    OBVIOUS
  <2> QED
    BY <2>1 DEF Unread, Readings, Turns, Within
<1>1. step \in [Nat \X X -> X]
  <2>1. ASSUME NEW z \in Nat \X X PROVE step[z] \in X
    <3>1. z[1] \in Nat /\ z[2] \in X
      OBVIOUS
    <3> HIDE DEF X
    <3> QED
      BY <1>0, <1>a, <3>1
  <2> HIDE DEF X
  <2> QED
    BY <2>1
<1>2. \A i \in 1 .. n, r \in X : step[<<i, r>>] = Follow(r, text[i])
  <2> HIDE DEF X
  <2>1. \A i \in 1 .. n : i \in Nat
    OBVIOUS
  <2> QED
    BY <2>1
<1> HIDE DEF step
<1>3. PICK g : Unrolls(g, X, Unread, step, n)
  <2> HIDE DEF X
  <2> QED
    BY <1>0, <1>1, <1>b, Unrolled
<1>3a. g \in [0 .. n -> X] /\ g[0] = Unread /\ \A i \in 1 .. n : g[i] = step[<<i, g[i - 1]>>]
  BY <1>3 DEF Unrolls
<1>4. Is(g)
  <2>2. ASSUME NEW i \in 0 .. n PROVE g[i] = Step(g, i)
    <3> HIDE DEF X
    <3>1. CASE i = 0
      BY <1>3a, <3>1
    <3>2. CASE i # 0
      <4>1. i \in 1 .. n /\ i - 1 \in 0 .. n /\ i \in Nat
        BY <1>0, <3>2
      <4>2. g[i - 1] \in X
        BY <1>3a, <4>1
      <4>3. g[i] = step[<<i, g[i - 1]>>]
        BY <1>3a, <4>1
      <4> QED
        BY <1>2, <3>2, <4>1, <4>2, <4>3
    <3> QED
      BY <3>1, <3>2
  <2> HIDE DEF Step, X
  <2> QED
    BY <1>3a, <2>2
<1> DEFINE f == CHOOSE f : Is(f)
<1>5. Is(f)
  BY <1>4
<1>6. Reading(text) = f
  BY DEF Reading, n
<1> HIDE DEF f
<1>7. DOMAIN f = 0 .. n /\ \A i \in 0 .. n : f[i] = Step(f, i)
  <2> HIDE DEF Step
  <2> QED
    BY <1>5
<1>8. f[0] = Unread /\ \A i \in 1 .. n : f[i] = Follow(f[i - 1], text[i])
  BY <1>0, <1>7
<1> DEFINE Good == {k \in Nat : k <= n => f[k] \in X}
<1>9. 0 \in Good
  <2> HIDE DEF X
  <2> QED
    BY <1>8, <1>b
<1>10. ASSUME NEW k \in Nat, k \in Good PROVE k + 1 \in Good
  <2> HIDE DEF X
  <2> SUFFICES ASSUME k + 1 <= n PROVE f[k + 1] \in X
    OBVIOUS
  <2>1. k + 1 \in 1 .. n /\ (k + 1) - 1 = k /\ k <= n
    BY <1>0
  <2>2. f[k] \in X
    BY <1>10, <2>1
  <2>3. f[k + 1] = Follow(f[k], text[k + 1])
    BY <1>8, <2>1
  <2> QED
    BY <1>0, <1>a, <2>1, <2>2, <2>3
<1>11. \A k \in 0 .. n : f[k] \in X
  <2> HIDE DEF Good
  <2>1. Nat \subseteq Good
    BY <1>9, <1>10, SetInduction
  <2> QED
    BY <1>0, <2>1 DEF Good
<1>12. f \in [0 .. n -> Readings]
  <2>1. f = [i \in 0 .. n |-> f[i]]
    <3> HIDE DEF Step
    <3>1. f = [i \in 0 .. n |-> Step(f, i)]
      BY <1>5
    <3> QED
      BY <1>7, <3>1
  <2>2. \A k \in 0 .. n : f[k] \in Readings
    BY <1>11
  <2> QED
    BY <2>1, <2>2
<1>13. ASSUME NEW i \in 1 .. n PROVE Followed(f[i - 1], text[i], f[i])
  <2> HIDE DEF X
  <2>1. i - 1 \in 0 .. n
    BY <1>0
  <2> QED
    BY <1>0, <1>8, <1>11, <1>a, <2>1
<1> QED
  BY <1>6, <1>7, <1>8, <1>12, <1>13 DEF ReadsOn, n

(* The values of one reading are the first of another's.                   *)
Begins(v, w) == Len(v) <= Len(w) /\ \A i \in 1 .. Len(v) : v[i] = w[i]

LEMMA FollowedGrows ==
  ASSUME NEW r \in Readings, NEW f \in Readings, NEW token \in Tokens, Followed(r, token, f)
  PROVE  Begins(r.values, f.values) /\ r.deepest <= f.deepest
<1>0. /\ r.frames \in Seq(ScanFrames) /\ r.values \in Seq(FoundStrings) /\ r.deepest \in Nat
      /\ Len(r.frames) + 1 \in Nat
  BY ReadingIs
<1>1. \/ f.values = r.values
      \/ f.values = Append(r.values, Found(r.frames, token)) /\ token \in Strings
  BY DEF Followed, ReadAs
<1>2. f.deepest = r.deepest \/ f.deepest = Larger(r.deepest, Len(r.frames) + 1)
  BY DEF Followed, ReadAs
<1>3. Begins(r.values, f.values)
  <2>1. CASE f.values = r.values
    BY <1>0, <2>1 DEF Begins
  <2>2. CASE f.values = Append(r.values, Found(r.frames, token)) /\ token \in Strings
    <3>1. Found(r.frames, token) \in FoundStrings
      BY <1>0, <2>2, FoundOK
    <3> DEFINE g == Found(r.frames, token)
               w == r.values
    <3>2. w \in Seq(FoundStrings) /\ g \in FoundStrings /\ f.values = Append(w, g)
      BY <1>0, <2>2, <3>1
    <3> HIDE DEF g, w
    <3>3. Len(Append(w, g)) = Len(w) + 1 /\ \A i \in 1 .. Len(w) : Append(w, g)[i] = w[i]
      BY <3>2
    <3> QED
      BY <3>2, <3>3 DEF Begins, w
  <2> QED
    BY <1>1, <2>1, <2>2
<1>4. r.deepest <= f.deepest
  <2> DEFINE a == r.deepest
             b == Len(r.frames) + 1
             c == f.deepest
  <2>1. c = a \/ c = (IF a < b THEN b ELSE a)
    BY <1>2 DEF Larger
  <2>2. a \in Nat /\ b \in Nat
    BY <1>0
  <2> HIDE DEF a, b, c
  <2>3. a <= c
    BY <2>1, <2>2
  <2> QED
    BY <2>3 DEF a, c
<1> QED
  BY <1>3, <1>4

LEMMA ReadsOnGrows ==
  ASSUME NEW text \in Seq(Tokens), NEW read, ReadsOn(text, read), NEW p \in 0 .. Len(text)
  PROVE  /\ Begins(read[p].values, read[Len(text)].values)
         /\ read[p].deepest <= read[Len(text)].deepest
<1> DEFINE n == Len(text)
           V(i) == read[i].values
           D(i) == read[i].deepest
           Good == {k \in Nat : p + k <= n => Begins(V(p), V(p + k)) /\ D(p) <= D(p + k)}
<1>0. n \in Nat /\ p \in Nat /\ p <= n
  OBVIOUS
<1>1. \A i \in 0 .. n : read[i] \in Readings /\ V(i) \in Seq(FoundStrings) /\ D(i) \in Nat
  BY ReadingIs DEF ReadsOn
<1>2. ASSUME NEW i \in 0 .. n, i + 1 <= n
      PROVE  Begins(V(i), V(i + 1)) /\ D(i) <= D(i + 1)
  <2>1. i + 1 \in 1 .. n /\ i + 1 \in 0 .. n /\ (i + 1) - 1 = i
    BY <1>0, <1>2
  <2>2. Followed(read[i], text[i + 1], read[i + 1])
    BY <2>1 DEF ReadsOn
  <2>3. text[i + 1] \in Tokens
    BY <2>1
  <2> QED
    BY <1>1, <2>1, <2>2, <2>3, FollowedGrows
<1> HIDE DEF V, D, n
<1>3. 0 \in Good
  <2>1. p + 0 = p /\ p \in 0 .. n
    BY <1>0
  <2>2. V(p) \in Seq(FoundStrings) /\ D(p) \in Nat
    BY <1>1, <2>1
  <2> QED
    BY <2>1, <2>2 DEF Begins
<1>4. ASSUME NEW k \in Nat, k \in Good PROVE k + 1 \in Good
  <2> SUFFICES ASSUME p + (k + 1) <= n
               PROVE  Begins(V(p), V(p + (k + 1))) /\ D(p) <= D(p + (k + 1))
    OBVIOUS
  <2> DEFINE i == p + k
  <2>1. i \in 0 .. n /\ i + 1 <= n /\ p + (k + 1) = i + 1 /\ i + 1 \in 0 .. n /\ p \in 0 .. n
    BY <1>0
  <2>2. Begins(V(p), V(i)) /\ D(p) <= D(i)
    BY <1>4, <2>1
  <2> HIDE DEF i
  <2>3. Begins(V(i), V(i + 1)) /\ D(i) <= D(i + 1)
    BY <1>2, <2>1
  <2>4. /\ V(p) \in Seq(FoundStrings) /\ V(i) \in Seq(FoundStrings)
        /\ V(i + 1) \in Seq(FoundStrings) /\ D(p) \in Nat /\ D(i) \in Nat /\ D(i + 1) \in Nat
    BY <1>1, <2>1
  <2>5. Begins(V(p), V(i + 1)) /\ D(p) <= D(i + 1)
    BY <2>2, <2>3, <2>4 DEF Begins
  <2> QED
    BY <2>1, <2>5
<1>5. n - p \in Good
  <2> HIDE DEF Good
  <2>1. Nat \subseteq Good
    BY <1>3, <1>4, SetInduction
  <2> QED
    BY <1>0, <2>1
<1>6. n - p \in Nat /\ p + (n - p) = n
  BY <1>0
<1> QED
  BY <1>5, <1>6 DEF n, V, D

-----------------------------------------------------------------------------
(* The part of a text that lies ahead, when p of its tokens are behind.    *)
Ahead(rest, text, p) ==
  /\ rest \in Seq(Tokens) /\ p \in 0 .. Len(text) /\ Len(rest) = Len(text) - p
  /\ \A i \in 1 .. Len(rest) : rest[i] = text[p + i]

LEMMA AheadIs ==
  ASSUME NEW text \in Seq(Tokens), NEW rest, NEW p, Ahead(rest, text, p)
  PROVE  /\ p = Len(text) => rest = <<>>
         /\ p # Len(text) => /\ rest # <<>> /\ Head(rest) = text[p + 1]
                             /\ p + 1 \in 1 .. Len(text) /\ p + 1 \in 0 .. Len(text)
                             /\ text[p + 1] \in Tokens
                             /\ Ahead(Passed(rest), text, p + 1)
<1> DEFINE n == Len(text)
<1>0. /\ rest \in Seq(Tokens) /\ p \in 0 .. n /\ Len(rest) = n - p /\ n \in Nat
      /\ \A i \in 1 .. Len(rest) : rest[i] = text[p + i]
  BY DEF Ahead
<1>1. CASE p = n
  <2>1. Len(rest) = 0
    BY <1>0, <1>1
  <2> QED
    BY <1>0, <1>1, <2>1
<1>2. CASE p # n
  <2>1. /\ Len(rest) # 0 /\ 1 \in 1 .. Len(rest) /\ p + 1 \in 1 .. n /\ p + 1 \in 0 .. n
    <3> HIDE DEF n
    <3> QED
      BY <1>0, <1>2
  <2>2. rest # <<>> /\ Head(rest) = rest[1]
    BY <1>0, <2>1
  <2>3. rest[1] = text[p + 1] /\ text[p + 1] \in Tokens
    BY <1>0, <2>1
  <2> DEFINE q == Tail(rest)
  <2>4. /\ q \in Seq(Tokens) /\ Len(q) = Len(rest) - 1 /\ Passed(rest) = q
        /\ \A i \in 1 .. Len(q) : q[i] = rest[i + 1]
    BY <1>0, <2>2, HeadTailProperties DEF Passed
  <2> HIDE DEF q, n
  <2>5. Len(q) = n - (p + 1)
    BY <1>0, <2>4
  <2>6. ASSUME NEW i \in 1 .. Len(q) PROVE q[i] = text[(p + 1) + i]
    <3>1. i + 1 \in 1 .. Len(rest) /\ p + (i + 1) = (p + 1) + i
      BY <1>0, <2>4, <2>5
    <3> QED
      BY <1>0, <2>4, <3>1
  <2>7. Ahead(q, text, p + 1)
    BY <2>1, <2>4, <2>5, <2>6 DEF Ahead, n
  <2> QED
    BY <1>2, <2>1, <2>2, <2>3, <2>4, <2>7 DEF n
<1> QED
  BY <1>1, <1>2

LEMMA AheadAtEnd ==
  ASSUME NEW text \in Seq(Tokens), NEW rest, Ahead(rest, text, Len(text))
  PROVE  rest = <<>>
BY DEF Ahead

(* A document of JSON, what is left of it, and its reading.                *)
Doc(m, read) ==
  /\ m.text \in Seq(Tokens) /\ m.whole.text \in Seq(Tokens)
  /\ Len(m.text) <= Len(m.whole.text)
  /\ \A i \in 1 .. Len(m.text) : m.text[i] = m.whole.text[i]
  /\ ReadsOn(m.whole.text, read)
  /\ \A i \in 0 .. Len(m.whole.text) : read[i].turn # "wrong"
  /\ read[Len(m.whole.text)].turn = "end"
  /\ read[Len(m.whole.text)].values = m.whole.holds
  /\ read[Len(m.whole.text)].deepest = m.whole.depth

LEMMA DocReads ==
  ASSUME NEW m, NEW read, Doc(m, read), NEW p \in 0 .. Len(m.text)
  PROVE  /\ read[p] \in Readings /\ read[p].turn # "wrong"
         /\ Begins(read[p].values, m.whole.holds) /\ read[p].deepest <= m.whole.depth
         /\ p + 1 <= Len(m.text) =>
              Followed(read[p], m.text[p + 1], read[p + 1])
<1> DEFINE N == Len(m.whole.text)
           n == Len(m.text)
<1>0. n \in Nat /\ N \in Nat /\ n <= N /\ m.whole.text \in Seq(Tokens)
  BY DEF Doc
<1>1. p \in 0 .. N
  BY <1>0
<1>2. read[p] \in Readings /\ read[p].turn # "wrong"
  BY <1>1 DEF Doc, ReadsOn
<1>3. Begins(read[p].values, read[N].values) /\ read[p].deepest <= read[N].deepest
  BY <1>0, <1>1, ReadsOnGrows DEF Doc
<1>4. ASSUME p + 1 <= n PROVE Followed(read[p], m.text[p + 1], read[p + 1])
  <2>1. p + 1 \in 1 .. n /\ p + 1 \in 1 .. N /\ (p + 1) - 1 = p
    BY <1>0, <1>4
  <2>2. m.text[p + 1] = m.whole.text[p + 1]
    BY <2>1 DEF Doc
  <2>3. Followed(read[(p + 1) - 1], m.whole.text[p + 1], read[p + 1])
    BY <2>1 DEF Doc, ReadsOn
  <2> QED
    BY <2>1, <2>2, <2>3
<1> QED
  BY <1>2, <1>3, <1>4 DEF Doc

(* The scanner is where the reading is: what it expects agrees with what   *)
(* may come.                                                               *)
Agreed(s, turn) ==
  /\ s.expects => turn = "value" \/ (turn = "first" /\ Under(s) # "]")
  /\ ~s.expects /\ s.frames = <<>> => turn = "end"
  /\ ~s.expects /\ s.frames # <<>> /\ Last(s.frames).opening = "[" =>
       turn \in {"first", "next", "value"}
  /\ ~s.expects /\ s.frames # <<>> /\ Last(s.frames).opening = "{" =>
       turn \in {"firstKey", "next", "key"}

InStep(s, m, read, p) ==
  /\ Ahead(s.rest, m.text, p) /\ s.wellFormed
  /\ s.frames = read[p].frames /\ s.values = read[p].values
  /\ read[p].deepest <= MaxDepth /\ Agreed(s, read[p].turn)

(* Or it has given up, on one that is cut off or too deep.                 *)
GivenUp(s, m) ==
  /\ ~s.wellFormed /\ s.rest = <<>> /\ Begins(s.values, m.whole.holds)
  /\ m.text # m.whole.text \/ ~(m.whole.depth <= MaxDepth)

LEMMA GivesUp ==
  ASSUME NEW m, NEW read, Doc(m, read), NEW p \in 0 .. Len(m.text), NEW t,
         ~t.wellFormed, t.rest = <<>>, t.values = read[p].values,
         (p = Len(m.text) /\ read[p].turn # "end") \/ ~(m.whole.depth <= MaxDepth)
  PROVE  GivenUp(t, m)
<1>1. Begins(t.values, m.whole.holds)
  BY DocReads
<1>2. p = Len(m.text) /\ read[p].turn # "end" => m.text # m.whole.text
  BY DEF Doc
<1> QED
  BY <1>1, <1>2 DEF GivenUp

(* One token further on.                                                   *)
LEMMA MovesOn ==
  ASSUME NEW m, NEW read, Doc(m, read), NEW p \in 0 .. Len(m.text), p # Len(m.text),
         NEW s \in Scanners, InStep(s, m, read, p),
         NEW t, NEW fr, NEW e, NEW v, NEW turn, NEW d,
         Becomes(s, t, Passed(s.rest), fr, e, v, s.wellFormed),
         ReadAs(read[p + 1], fr, turn, v, d), d <= MaxDepth, Agreed(t, turn)
  PROVE  InStep(t, m, read, p + 1) /\ p + 1 \in 0 .. Len(m.text)
<1>1. m.text \in Seq(Tokens) /\ Ahead(s.rest, m.text, p)
  BY DEF Doc, InStep
<1>2. Ahead(Passed(s.rest), m.text, p + 1) /\ p + 1 \in 0 .. Len(m.text)
  BY <1>1, AheadIs
<1> QED
  BY <1>2 DEF InStep, Becomes, ReadAs

(* The token under a scanner that is in step.                              *)
ReadsUnder(s, m, read, p) ==
  /\ Under(s) = m.text[p + 1] /\ Under(s) \in Tokens
  /\ Followed(read[p], Under(s), read[p + 1])
  /\ read[p + 1].turn # "wrong" /\ p + 1 \in 0 .. Len(m.text)

LEMMA UnderInStep ==
  ASSUME NEW m, NEW read, Doc(m, read), NEW p \in 0 .. Len(m.text),
         NEW s \in Scanners, Ahead(s.rest, m.text, p)
  PROVE  /\ p = Len(m.text) => s.rest = <<>> /\ Under(s) = "end"
         /\ p # Len(m.text) => ReadsUnder(s, m, read, p)
<1>1. m.text \in Seq(Tokens)
  BY DEF Doc
<1>2. CASE p = Len(m.text)
  <2>1. s.rest = <<>>
    <3>1. Ahead(s.rest, m.text, Len(m.text))
      BY <1>2
    <3> QED
      BY <1>1, <3>1, AheadAtEnd
  <2> QED
    BY <1>2, <2>1, UnderIs
<1>3. CASE p # Len(m.text)
  <2>1. /\ s.rest # <<>> /\ Head(s.rest) = m.text[p + 1] /\ p + 1 \in 1 .. Len(m.text)
        /\ p + 1 \in 0 .. Len(m.text) /\ m.text[p + 1] \in Tokens
    BY <1>1, <1>3, AheadIs
  <2>2. p + 1 <= Len(m.text)
    BY <1>1, <2>1
  <2>3. Followed(read[p], m.text[p + 1], read[p + 1])
    BY <2>2, DocReads
  <2>4. read[p + 1].turn # "wrong"
    BY <2>1, DocReads
  <2> QED
    BY <1>3, <2>1, <2>3, <2>4 DEF Under, ReadsUnder
<1> QED
  BY <1>2, <1>3

(* What a scan of a document of JSON may become.                           *)
Honest(s, m, read) ==
  GivenUp(s, m) \/ \E p \in 0 .. Len(m.text) : InStep(s, m, read, p)

LEMMA ReadsNotWrong ==
  ASSUME NEW f, NEW fr, NEW v, NEW d, ReadAs(f, fr, "wrong", v, d)
  PROVE  f.turn = "wrong"
BY DEF ReadAs

LEMMA CountedNotEmpty ==
  ASSUME NEW fr \in Seq(ScanFrames), fr # <<>>
  PROVE  Counted(fr) # <<>>
BY CountedOK

LEMMA ValueHonest ==
  ASSUME NEW m, NEW read, Doc(m, read), NEW p \in 0 .. Len(m.text),
         NEW s \in Scanners, InStep(s, m, read, p), s.expects,
         NEW t, ValueRead(s, t)
  PROVE  Honest(t, m, read)
<1> DEFINE r == read[p]
           f == read[p + 1]
           token == Under(s)
<1>0. /\ Ahead(s.rest, m.text, p) /\ s.wellFormed /\ s.frames = r.frames
      /\ s.values = r.values /\ r.deepest <= MaxDepth /\ Agreed(s, r.turn)
  BY DEF InStep
<1>1. r.turn = "value" \/ (r.turn = "first" /\ token # "]")
  BY <1>0 DEF Agreed
<1>2. r \in Readings /\ s.frames \in Seq(ScanFrames) /\ MaxDepth \in Nat
  BY DocReads, UnderIs, ScanAssumption
<1>3. CASE p = Len(m.text)
  <2>1. s.rest = <<>> /\ token = "end"
    BY <1>0, <1>3, UnderInStep
  <2>2. Becomes(s, t, s.rest, Counted(s.frames), FALSE, s.values, FALSE)
    BY <2>1 DEF ValueRead, Brackets, Strings
  <2>3. ~t.wellFormed /\ t.rest = <<>> /\ t.values = r.values
    BY <1>0, <2>1, <2>2 DEF Becomes
  <2> QED
    BY <1>1, <1>3, <2>3, GivesUp DEF Honest
<1>4. CASE p # Len(m.text)
  <2>0. /\ token = m.text[p + 1] /\ token \in Tokens /\ Followed(r, token, f)
        /\ f.turn # "wrong" /\ p + 1 \in 0 .. Len(m.text)
    <3>1. ReadsUnder(s, m, read, p)
      BY <1>0, <1>4, UnderInStep
    <3> QED
      BY <3>1 DEF ReadsUnder
  <2>a. f \in Readings /\ f.deepest <= m.whole.depth
    BY <2>0, DocReads
  <2>k. ASSUME NEW fr, NEW e, NEW v, NEW turn, NEW d,
               Becomes(s, t, Passed(s.rest), fr, e, v, s.wellFormed),
               ReadAs(f, fr, turn, v, d), d <= MaxDepth, Agreed(t, turn)
        PROVE  Honest(t, m, read)
    BY <1>4, <2>k, MovesOn DEF Honest
  <2>b. /\ Brackets = {"{", "["} /\ Strings = {"word", "name"}
        /\ Delimiters = {"}", "]", ",", "end"}
    BY DEF Brackets, Strings, Delimiters
  <2>t. ASSUME ~t.expects, t.frames = Counted(s.frames) PROVE Agreed(t, TurnAfter(s.frames))
    <3>1. s.frames # <<>> => Counted(s.frames) # <<>>
      BY <1>2, CountedOK
    <3> QED
      BY <2>t, <3>1 DEF Agreed, TurnAfter, Counted
  <2>1. \/ token \in Brackets \/ token \in Strings \/ token = "true"
    BY <1>1, <2>0 DEF Followed
  <2>2. CASE token \in Brackets
    <3> DEFINE fr == Append(s.frames, Frame(token))
               turn == IF token = "{" THEN "firstKey" ELSE "first"
               d == Larger(r.deepest, Len(s.frames) + 1)
    <3>1. ReadAs(f, fr, turn, s.values, d)
      BY <1>0, <1>1, <2>0, <2>2, <2>b DEF Followed
    <3>2. /\ fr \in Seq(ScanFrames) /\ Len(fr) = Len(s.frames) + 1
          /\ Last(fr) = Frame(token) /\ fr # <<>>
      <4>1. Frame(token) \in ScanFrames
        BY <2>2, <2>b, FrameOK
      <4>2. fr \in Seq(ScanFrames) /\ Len(fr) = Len(s.frames) + 1 /\ fr[Len(fr)] = Frame(token)
        BY <1>2, <4>1, AppendProperties
      <4>3. Len(fr) # 0
        BY <1>2, <4>2
      <4> QED
        BY <4>2, <4>3 DEF Last
    <3>3. Last(fr).opening = token
      <4>1. Frame(token).opening = token
        BY DEF Frame
      <4> QED
        BY <3>2, <4>1
    <3>4. CASE Len(s.frames) < MaxDepth
      <4>1. Becomes(s, t, Passed(s.rest), fr, FALSE, s.values, s.wellFormed)
        BY <2>2, <2>b, <3>4 DEF ValueRead
      <4>2. d <= MaxDepth
        <5> DEFINE a == r.deepest
                   b == Len(s.frames) + 1
        <5>1. a \in Nat /\ b \in Nat /\ a <= MaxDepth /\ b <= MaxDepth
          BY <1>0, <1>2, <3>4, ReadingIs
        <5> HIDE DEF a, b
        <5>2. Larger(a, b) <= MaxDepth
          BY <5>1 DEF Larger
        <5> QED
          BY <5>2 DEF a, b
      <4>3. ~t.expects /\ t.frames = fr
        BY <4>1 DEF Becomes
      <4>4. Agreed(t, turn)
        BY <2>2, <2>b, <3>2, <3>3, <4>3 DEF Agreed
      <4> HIDE DEF fr, turn, d
      <4> QED
        BY <2>k, <3>1, <4>1, <4>2, <4>4
    <3>5. CASE ~(Len(s.frames) < MaxDepth)
      <4>1. Becomes(s, t, <<>>, Counted(s.frames), FALSE, s.values, FALSE)
        BY <2>2, <2>b, <3>5 DEF ValueRead
      <4>2. ~t.wellFormed /\ t.rest = <<>> /\ t.values = r.values
        BY <1>0, <4>1 DEF Becomes
      <4>3. f.deepest = d
        BY <3>1 DEF ReadAs
      <4>4. ~(m.whole.depth <= MaxDepth)
        <5> DEFINE a == r.deepest
                   b == Len(s.frames) + 1
                   c == f.deepest
                   w == m.whole.depth
        <5>1. a \in Nat /\ c \in Nat
          BY <1>2, <2>a, ReadingIs
        <5>2. b \in Nat /\ ~(b <= MaxDepth)
          BY <1>2, <3>5
        <5>3. c = (IF a < b THEN b ELSE a)
          BY <4>3 DEF Larger
        <5>4. c <= w
          BY <2>a
        <5>5. w \in Nat
          <6>1. m.whole.text \in Seq(Tokens) /\ Len(m.whole.text) \in 0 .. Len(m.whole.text)
            BY DEF Doc
          <6>2. read[Len(m.whole.text)] \in Readings
            BY <6>1 DEF Doc, ReadsOn
          <6> QED
            BY <6>2, ReadingIs DEF Doc
        <5> HIDE DEF a, b, c, w
        <5>6. ~(w <= MaxDepth)
          BY <1>2, <5>1, <5>2, <5>3, <5>4, <5>5
        <5> QED
          BY <5>6 DEF w
      <4> QED
        BY <4>2, <4>4, GivesUp DEF Honest
    <3> QED
      BY <3>4, <3>5
  <2>3. CASE token \in Strings
    <3> DEFINE v == Append(s.values, Found(s.frames, token))
    <3>1. Becomes(s, t, Passed(s.rest), Counted(s.frames), FALSE, v, s.wellFormed)
      BY <2>3, <2>b DEF ValueRead
    <3>2. ReadAs(f, Counted(s.frames), TurnAfter(s.frames), v, r.deepest)
      BY <1>0, <1>1, <2>0, <2>3, <2>b DEF Followed
    <3> HIDE DEF v
    <3>3. ~t.expects /\ t.frames = Counted(s.frames)
      BY <3>1 DEF Becomes
    <3> QED
      BY <1>0, <2>k, <2>t, <3>1, <3>2, <3>3
  <2>4. CASE token = "true"
    <3>1. Becomes(s, t, Passed(s.rest), Counted(s.frames), FALSE, s.values, s.wellFormed)
      BY <2>4, <2>b DEF ValueRead
    <3>2. ReadAs(f, Counted(s.frames), TurnAfter(s.frames), s.values, r.deepest)
      BY <1>0, <1>1, <2>0, <2>4, <2>b DEF Followed
    <3>3. ~t.expects /\ t.frames = Counted(s.frames)
      BY <3>1 DEF Becomes
    <3> QED
      BY <1>0, <2>k, <2>t, <3>1, <3>2, <3>3
  <2> QED
    BY <2>1, <2>2, <2>3, <2>4
<1> QED
  BY <1>3, <1>4

LEMMA ArrayHonest ==
  ASSUME NEW m, NEW read, Doc(m, read), NEW p \in 0 .. Len(m.text),
         NEW s \in Scanners, InStep(s, m, read, p), ~s.expects, s.frames # <<>>,
         Last(s.frames).opening = "[", NEW t, ArrayRead(s, t)
  PROVE  Honest(t, m, read)
<1> DEFINE r == read[p]
           f == read[p + 1]
           token == Under(s)
<1>0. /\ Ahead(s.rest, m.text, p) /\ s.wellFormed /\ s.frames = r.frames
      /\ s.values = r.values /\ r.deepest <= MaxDepth /\ Agreed(s, r.turn)
  BY DEF InStep
<1>1. r.turn \in {"first", "next", "value"}
  BY <1>0 DEF Agreed
<1>2. r \in Readings /\ s.frames \in Seq(ScanFrames) /\ Inside(r, "[") /\ ~Inside(r, "{")
  BY <1>0, DocReads, UnderIs DEF Inside
<1>3. CASE p = Len(m.text)
  <2>1. s.rest = <<>> /\ token = "end"
    BY <1>0, <1>3, UnderInStep
  <2>2. Becomes(s, t, s.rest, Counted(Front(s.frames)), FALSE, s.values, FALSE)
    BY <2>1 DEF ArrayRead, Delimiters
  <2>3. ~t.wellFormed /\ t.rest = <<>> /\ t.values = r.values
    BY <1>0, <2>1, <2>2 DEF Becomes
  <2> QED
    BY <1>1, <1>3, <2>3, GivesUp DEF Honest
<1>4. CASE p # Len(m.text)
  <2>0. /\ token = m.text[p + 1] /\ token \in Tokens /\ Followed(r, token, f)
        /\ f.turn # "wrong" /\ p + 1 \in 0 .. Len(m.text)
    <3>1. ReadsUnder(s, m, read, p)
      BY <1>0, <1>4, UnderInStep
    <3> QED
      BY <3>1 DEF ReadsUnder
  <2>k. ASSUME NEW fr, NEW e, NEW v, NEW turn, NEW d,
               Becomes(s, t, Passed(s.rest), fr, e, v, s.wellFormed),
               ReadAs(f, fr, turn, v, d), d <= MaxDepth, Agreed(t, turn)
        PROVE  Honest(t, m, read)
    BY <1>4, <2>k, MovesOn DEF Honest
  <2>b. /\ Brackets = {"{", "["} /\ Strings = {"word", "name"}
        /\ Delimiters = {"}", "]", ",", "end"}
    BY DEF Brackets, Strings, Delimiters
  <2>1. CASE token = "]"
    <3> DEFINE fr == Front(s.frames)
    <3>1. Becomes(s, t, Passed(s.rest), Counted(fr), FALSE, s.values, s.wellFormed)
      BY <2>1, <2>b DEF ArrayRead
    <3>2. ReadAs(f, Counted(fr), TurnAfter(fr), s.values, r.deepest)
      BY <1>0, <1>1, <2>0, <2>1, <2>b DEF Followed
    <3>3. ~t.expects /\ t.frames = Counted(fr)
      BY <3>1 DEF Becomes
    <3>4. fr \in Seq(ScanFrames)
      BY <1>2, FrontOK
    <3> HIDE DEF fr
    <3>5. fr # <<>> => Counted(fr) # <<>>
      BY <3>4, CountedNotEmpty
    <3>6. Agreed(t, TurnAfter(fr))
      BY <3>3, <3>5 DEF Agreed, TurnAfter, Counted
    <3> QED
      BY <1>0, <2>k, <3>1, <3>2, <3>6
  <2>2. CASE token \in {"}", "end"}
    <3>1. FALSE
      BY <1>1, <1>2, <2>0, <2>2, <2>b DEF Followed
    <3> QED
      BY <3>1
  <2>3. CASE token = ","
    <3>1. Becomes(s, t, Passed(s.rest), s.frames, FALSE, s.values, s.wellFormed)
      BY <2>3, <2>b DEF ArrayRead
    <3>2. ReadAs(f, s.frames, "value", s.values, r.deepest)
      BY <1>0, <1>1, <1>2, <2>0, <2>3, <2>b DEF Followed
    <3>3. ~t.expects /\ t.frames = s.frames
      BY <3>1 DEF Becomes
    <3>4. Agreed(t, "value")
      BY <3>3 DEF Agreed
    <3> QED
      BY <1>0, <2>k, <3>1, <3>2, <3>4
  <2>4. CASE token \notin Delimiters
    <3>1. Becomes(s, t, s.rest, s.frames, TRUE, s.values, s.wellFormed)
      BY <2>4, <2>b DEF ArrayRead
    <3>2. r.turn \in {"first", "value"}
      BY <1>1, <2>0, <2>4, <2>b DEF Followed
    <3>3. /\ t.expects /\ Under(t) = Under(s) /\ t.wellFormed /\ t.rest = s.rest
          /\ t.frames = s.frames /\ t.values = s.values
      BY <1>0, <3>1 DEF Becomes, Under
    <3>4. Agreed(t, r.turn)
      BY <2>4, <2>b, <3>2, <3>3 DEF Agreed
    <3>5. InStep(t, m, read, p)
      BY <1>0, <3>3, <3>4 DEF InStep
    <3> QED
      BY <3>5 DEF Honest
  <2> QED
    BY <2>1, <2>2, <2>3, <2>4, <2>b
<1> QED
  BY <1>3, <1>4

LEMMA ObjectHonest ==
  ASSUME NEW m, NEW read, Doc(m, read), NEW p \in 0 .. Len(m.text),
         NEW s \in Scanners, InStep(s, m, read, p), ~s.expects, s.frames # <<>>,
         Last(s.frames).opening = "{", NEW t, ObjectRead(s, t)
  PROVE  Honest(t, m, read)
<1> DEFINE r == read[p]
           f == read[p + 1]
           token == Under(s)
<1>0. /\ Ahead(s.rest, m.text, p) /\ s.wellFormed /\ s.frames = r.frames
      /\ s.values = r.values /\ r.deepest <= MaxDepth /\ Agreed(s, r.turn)
  BY DEF InStep
<1>1. r.turn \in {"firstKey", "next", "key"}
  BY <1>0 DEF Agreed
<1>2. r \in Readings /\ s.frames \in Seq(ScanFrames) /\ Inside(r, "{") /\ ~Inside(r, "[")
  BY <1>0, DocReads, UnderIs DEF Inside
<1>3. CASE p = Len(m.text)
  <2>1. s.rest = <<>> /\ token = "end"
    BY <1>0, <1>3, UnderInStep
  <2>2. Becomes(s, t, s.rest, Counted(Front(s.frames)), FALSE, s.values, FALSE)
    BY <2>1 DEF ObjectRead, Strings
  <2>3. ~t.wellFormed /\ t.rest = <<>> /\ t.values = r.values
    BY <1>0, <2>1, <2>2 DEF Becomes
  <2> QED
    BY <1>1, <1>3, <2>3, GivesUp DEF Honest
<1>4. CASE p # Len(m.text)
  <2>0. /\ token = m.text[p + 1] /\ token \in Tokens /\ Followed(r, token, f)
        /\ f.turn # "wrong" /\ p + 1 \in 0 .. Len(m.text)
    <3>1. ReadsUnder(s, m, read, p)
      BY <1>0, <1>4, UnderInStep
    <3> QED
      BY <3>1 DEF ReadsUnder
  <2>k. ASSUME NEW fr, NEW e, NEW v, NEW turn, NEW d,
               Becomes(s, t, Passed(s.rest), fr, e, v, s.wellFormed),
               ReadAs(f, fr, turn, v, d), d <= MaxDepth, Agreed(t, turn)
        PROVE  Honest(t, m, read)
    BY <1>4, <2>k, MovesOn DEF Honest
  <2>b. /\ Brackets = {"{", "["} /\ Strings = {"word", "name"}
    BY DEF Brackets, Strings
  <2>1. CASE token = "}"
    <3> DEFINE fr == Front(s.frames)
    <3>1. Becomes(s, t, Passed(s.rest), Counted(fr), FALSE, s.values, s.wellFormed)
      BY <2>1, <2>b DEF ObjectRead
    <3>2. ReadAs(f, Counted(fr), TurnAfter(fr), s.values, r.deepest)
      BY <1>0, <1>1, <2>0, <2>1, <2>b DEF Followed
    <3>3. ~t.expects /\ t.frames = Counted(fr)
      BY <3>1 DEF Becomes
    <3>4. fr \in Seq(ScanFrames)
      BY <1>2, FrontOK
    <3> HIDE DEF fr
    <3>5. fr # <<>> => Counted(fr) # <<>>
      BY <3>4, CountedNotEmpty
    <3>6. Agreed(t, TurnAfter(fr))
      BY <3>3, <3>5 DEF Agreed, TurnAfter, Counted
    <3> QED
      BY <1>0, <2>k, <3>1, <3>2, <3>6
  <2>2. CASE token = ","
    <3>1. Becomes(s, t, Passed(s.rest), s.frames, FALSE, s.values, s.wellFormed)
      BY <2>2, <2>b DEF ObjectRead
    <3>2. ReadAs(f, s.frames, "key", s.values, r.deepest)
      BY <1>0, <1>1, <1>2, <2>0, <2>2, <2>b DEF Followed
    <3>3. ~t.expects /\ t.frames = s.frames
      BY <3>1 DEF Becomes
    <3>4. Agreed(t, "key")
      BY <3>3 DEF Agreed
    <3> QED
      BY <1>0, <2>k, <3>1, <3>2, <3>4
  <2>3. CASE token \in Strings
    <3> DEFINE q == Past(s)
    <3>1. ReadAs(f, Keyed(s.frames, token), "colon", s.values, r.deepest)
      BY <1>0, <1>1, <2>0, <2>3, <2>b DEF Followed
    <3>2. f.turn = "colon" /\ f.values = s.values
      BY <3>1 DEF ReadAs
    <3>3. q \in Scanners /\ q.rest = Passed(s.rest)
      BY PastIs DEF Becomes
    <3>4. Ahead(Passed(s.rest), m.text, p + 1)
      <4>1. m.text \in Seq(Tokens)
        BY DEF Doc
      <4> QED
        BY <1>0, <1>4, <4>1, AheadIs
    <3> HIDE DEF q
    <3>5. CASE p + 1 = Len(m.text)
      <4>1. Passed(s.rest) = <<>> /\ Under(q) = "end"
        BY <2>0, <3>3, <3>4, <3>5, UnderInStep
      <4>2. Becomes(s, t, Passed(s.rest), s.frames, FALSE, s.values, FALSE)
        BY <2>3, <2>b, <4>1 DEF ObjectRead, q
      <4>3. ~t.wellFormed /\ t.rest = <<>> /\ t.values = f.values
        BY <3>2, <4>1, <4>2 DEF Becomes
      <4> HIDE DEF f
      <4>4. f = read[p + 1]
        BY DEF f
      <4> QED
        BY <2>0, <3>2, <3>5, <4>3, <4>4, GivesUp DEF Honest
    <3>6. CASE p + 1 # Len(m.text)
      <4> DEFINE g == read[(p + 1) + 1]
      <4>1. /\ Under(q) = m.text[(p + 1) + 1] /\ Followed(f, Under(q), g)
            /\ g.turn # "wrong" /\ (p + 1) + 1 \in 0 .. Len(m.text)
        <5>1. ReadsUnder(q, m, read, p + 1)
          BY <2>0, <3>3, <3>4, <3>6, UnderInStep
        <5> QED
          BY <5>1 DEF ReadsUnder
      <4>2. Under(q) = ":" /\ ReadAs(g, f.frames, "value", f.values, f.deepest)
        BY <3>2, <4>1 DEF Followed
      <4>3. Becomes(s, t, Passed(Passed(s.rest)), Keyed(s.frames, token), TRUE, s.values,
                    s.wellFormed)
        BY <2>3, <2>b, <4>2 DEF ObjectRead, q
      <4>4. Ahead(Passed(Passed(s.rest)), m.text, (p + 1) + 1)
        <5>1. m.text \in Seq(Tokens)
          BY DEF Doc
        <5> QED
          BY <3>4, <3>6, <5>1, AheadIs
      <4>5. /\ t.rest = Passed(Passed(s.rest)) /\ t.frames = Keyed(s.frames, token)
            /\ t.expects /\ t.values = s.values /\ t.wellFormed
        BY <1>0, <4>3 DEF Becomes
      <4>6. /\ g.frames = Keyed(s.frames, token) /\ g.turn = "value" /\ g.values = s.values
            /\ g.deepest = r.deepest
        BY <3>1, <4>2 DEF ReadAs
      <4>7. Agreed(t, "value")
        BY <4>5 DEF Agreed
      <4>8. InStep(t, m, read, (p + 1) + 1)
        BY <1>0, <4>4, <4>5, <4>6, <4>7 DEF InStep
      <4> QED
        BY <4>1, <4>8 DEF Honest
    <3> QED
      BY <3>5, <3>6
  <2>4. token \in {"}", ","} \cup Strings
    BY <1>1, <1>2, <2>0, <2>b DEF Followed
  <2> QED
    BY <2>1, <2>2, <2>3, <2>4
<1> QED
  BY <1>3, <1>4

-----------------------------------------------------------------------------
(* The invariant: a scanner within its cost, honest with the document.     *)
ScanInv ==
  /\ manuscript \in Manuscripts /\ scanner \in Scanners
  /\ scanner.steps + Cost(scanner) <= 3 * Len(manuscript.text) + 2
  /\ manuscript.json => Honest(scanner, manuscript, Reading(manuscript.whole.text))

LEMMA ManuscriptTexts ==
  ASSUME NEW m \in Manuscripts
  PROVE  /\ m.text \in Seq(Tokens)
         /\ m.json => Doc(m, Reading(m.whole.text))
<1>1. ManuscriptOK(m)
  BY ScanAssumption
<1>2. m.text \in Seq(Tokens)
  BY <1>1 DEF ManuscriptOK
<1>3. ASSUME m.json PROVE Doc(m, Reading(m.whole.text))
  <2> DEFINE W == m.whole.text
             read == Reading(W)
  <2>1. W \in Seq(Tokens) /\ IsJson(m.whole)
    BY <1>1, <1>3 DEF ManuscriptOK
  <2>2. PICK n \in 0 .. Len(W) : m = Cut(m.whole, n)
    BY <1>1, <1>3 DEF ManuscriptOK
  <2>3. m.text = SubSeq(W, 1, n)
    BY <2>2 DEF Cut
  <2>4. ReadsOn(W, read) /\ DOMAIN read = 0 .. Len(W)
    BY <2>1, ReadingReadsOn
  <2>5. /\ \A i \in DOMAIN read : read[i].turn # "wrong"
        /\ read[Len(W)].turn = "end" /\ read[Len(W)].values = m.whole.holds
        /\ read[Len(W)].deepest = m.whole.depth
    BY <2>1 DEF IsJson
  <2>6. Len(m.text) = n /\ \A i \in 1 .. n : m.text[i] = W[i]
    <3> HIDE DEF W
    <3>1. n \in Nat /\ n <= Len(W) /\ Len(W) \in Nat
      BY <2>1
    <3>2. \A i \in 1 .. n : W[i] \in Tokens
      BY <2>1, <3>1
    <3>3. /\ Len(SubSeq(W, 1, n)) = IF 1 <= n THEN n - 1 + 1 ELSE 0
          /\ \A i \in 1 .. n - 1 + 1 : SubSeq(W, 1, n)[i] = W[1 + i - 1]
      BY <3>1, <3>2, SubSeqProperties
    <3>4. (IF 1 <= n THEN n - 1 + 1 ELSE 0) = n /\ n - 1 + 1 = n
      BY <3>1
    <3>5. \A i \in 1 .. n : 1 + i - 1 = i
      BY <3>1
    <3> QED
      BY <2>3, <3>3, <3>4, <3>5
  <2>7. Len(m.text) <= Len(W)
    BY <2>1, <2>6
  <2> HIDE DEF read
  <2> QED
    BY <1>2, <2>1, <2>4, <2>5, <2>6, <2>7 DEF Doc, read
<1> QED
  BY <1>2, <1>3

LEMMA ScanInvInit == JsonInit => ScanInv
<1> SUFFICES ASSUME JsonInit PROVE ScanInv
  OBVIOUS
<1> DEFINE m == manuscript
           s == scanner
           read == Reading(m.whole.text)
<1>1. m \in Manuscripts /\ s = Scanner(m.text) /\ m.text \in Seq(Tokens)
  BY ManuscriptTexts DEF JsonInit
<1>2. /\ s \in Scanners /\ s.rest = m.text /\ s.frames = <<>> /\ s.expects /\ s.values = <<>>
      /\ s.wellFormed /\ s.steps = 0
  <2>1. <<>> \in Seq(ScanFrames) /\ <<>> \in Seq(FoundStrings) /\ 0 \in Nat
    OBVIOUS
  <2> QED
    BY <1>1, <2>1 DEF Scanner, Scanners
<1>3. s.steps + Cost(s) <= 3 * Len(m.text) + 2
  <2> DEFINE w == Waiting(s)
             l == Len(m.text)
             c == Cost(s)
  <2>1. w \in 0 .. 2 /\ l \in Nat /\ Len(s.frames) = 0 /\ c = 3 * l + Len(s.frames) + w
    BY <1>1, <1>2, CostOK DEF Cost
  <2> HIDE DEF w, l, c
  <2>2. 0 + c <= 3 * l + 2
    BY <2>1
  <2> QED
    BY <1>2, <2>2 DEF l, c
<1>4. ASSUME m.json PROVE Honest(s, m, read)
  <2>1. Doc(m, read)
    BY <1>1, <1>4, ManuscriptTexts
  <2>2. read[0] = Unread
    BY <2>1 DEF Doc, ReadsOn
  <2> HIDE DEF read
  <2>3. Ahead(m.text, m.text, 0)
    BY <1>1 DEF Ahead
  <2>4. 0 <= MaxDepth
    BY ScanAssumption
  <2>5. InStep(s, m, read, 0)
    BY <1>2, <2>2, <2>3, <2>4 DEF InStep, Agreed, Unread
  <2>6. 0 \in 0 .. Len(m.text)
    BY <1>1
  <2> QED
    BY <2>5, <2>6 DEF Honest
<1> QED
  BY <1>1, <1>2, <1>3, <1>4 DEF ScanInv

LEMMA ScanTokenHonest ==
  ASSUME NEW m, NEW read, Doc(m, read), NEW s \in Scanners, ~Ended(s), Honest(s, m, read)
  PROVE  Honest(ScanToken(s), m, read)
<1> DEFINE t == ScanToken(s)
<1>1. /\ t \in Scanners
      /\ \/ s.expects /\ ValueRead(s, t)
         \/ ~s.expects /\ s.frames # <<>> /\ Last(s.frames).opening = "{" /\ ObjectRead(s, t)
         \/ ~s.expects /\ s.frames # <<>> /\ Last(s.frames).opening = "[" /\ ArrayRead(s, t)
  BY ScanTokenIs
<1> HIDE DEF t
<1>2. CASE GivenUp(s, m)
  <2>1. ~s.wellFormed /\ s.rest = <<>> /\ Under(s) = "end" /\ Passed(s.rest) = <<>>
    BY <1>2, UnderIs DEF GivenUp, Passed
  <2>2. ~t.wellFormed /\ t.rest = <<>> /\ t.values = s.values
    BY <1>1, <2>1 DEF ValueRead, ObjectRead, ArrayRead, Becomes, Brackets, Strings, Delimiters
  <2>3. GivenUp(t, m)
    BY <1>2, <2>2 DEF GivenUp
  <2> QED
    BY <2>3 DEF Honest, t
<1>3. ASSUME NEW p \in 0 .. Len(m.text), InStep(s, m, read, p) PROVE Honest(t, m, read)
  BY <1>1, <1>3, ValueHonest, ObjectHonest, ArrayHonest
<1> QED
  BY <1>2, <1>3 DEF Honest, t

LEMMA ScanInvNext == ScanInv /\ [JsonStep]_scanVars => ScanInv'
<1> SUFFICES ASSUME ScanInv, [JsonStep]_scanVars PROVE ScanInv'
  OBVIOUS
<1> DEFINE m == manuscript
           read == Reading(m.whole.text)
           t == ScanToken(scanner)
<1>0. /\ m \in Manuscripts /\ scanner \in Scanners
      /\ scanner.steps + Cost(scanner) <= 3 * Len(m.text) + 2
      /\ m.json => Honest(scanner, m, read)
  BY DEF ScanInv
<1>1. CASE UNCHANGED scanVars
  BY <1>1 DEF ScanInv, scanVars
<1>2. CASE JsonStep
  <2>1. ~Ended(scanner) /\ scanner' = [t EXCEPT !.steps = @ + 1] /\ m' = m
    BY <1>2 DEF JsonStep
  <2>2. t \in Scanners /\ t.steps = scanner.steps
    BY <1>0, <2>1, ScanTokenIs
  <2>3. Cost(t) <= Cost(scanner) - 1
    BY <1>0, <2>1, StepCosts
  <2>4. m.json => Honest(t, m, read)
    BY <1>0, <2>1, ManuscriptTexts, ScanTokenHonest
  <2> HIDE DEF t, read
  <2>5. /\ scanner' \in Scanners /\ scanner'.steps = t.steps + 1 /\ scanner'.rest = t.rest
        /\ scanner'.frames = t.frames /\ scanner'.values = t.values
        /\ (scanner'.expects <=> t.expects) /\ (scanner'.wellFormed <=> t.wellFormed)
    <3>1. t.steps \in Nat
      BY <2>2 DEF Scanners
    <3>2. t.steps + 1 \in Nat
      BY <3>1
    <3>3. \A k \in Nat : LET u == [t EXCEPT !.steps = k] IN
            /\ u \in Scanners /\ u.steps = k /\ u.rest = t.rest
            /\ u.frames = t.frames /\ u.values = t.values
            /\ (u.expects <=> t.expects) /\ (u.wellFormed <=> t.wellFormed)
      BY <2>2 DEF Scanners
    <3> QED
      BY <2>1, <3>2, <3>3
  <2>6. Under(scanner') = Under(t)
    BY <2>5 DEF Under
  <2>7. Cost(scanner') = Cost(t)
    BY <2>5, <2>6 DEF Cost, Waiting
  <2>8. scanner'.steps + Cost(scanner') <= 3 * Len(m.text) + 2
    <3> DEFINE a == scanner.steps
               b == Cost(scanner)
               c == Cost(t)
               d == 3 * Len(m.text) + 2
    <3>1. m.text \in Seq(Tokens)
      BY <1>0, ManuscriptTexts
    <3>2. a \in Nat /\ b \in Nat /\ c \in Nat /\ a + b <= d /\ c <= b - 1
      BY <1>0, <2>2, <2>3, CostOK, UnderIs
    <3>3. d \in Nat
      BY <3>1
    <3> HIDE DEF a, b, c, d
    <3>4. (a + 1) + c <= d
      BY <3>2, <3>3
    <3> QED
      BY <2>2, <2>5, <2>7, <3>4 DEF a, c, d
  <2>9. ASSUME m.json PROVE Honest(scanner', m, read)
    <3>1. Honest(t, m, read)
      BY <2>4, <2>9
    <3>2. \A turn : Agreed(t, turn) => Agreed(scanner', turn)
      BY <2>5, <2>6 DEF Agreed
    <3>3. \A p : InStep(t, m, read, p) => InStep(scanner', m, read, p)
      BY <2>5, <3>2 DEF InStep
    <3>4. GivenUp(t, m) => GivenUp(scanner', m)
      BY <2>5 DEF GivenUp
    <3> QED
      BY <3>1, <3>3, <3>4 DEF Honest
  <2> QED
    BY <1>0, <2>1, <2>5, <2>8, <2>9 DEF ScanInv, read
<1> QED
  BY <1>1, <1>2

(* Ended, in step: the whole document is read.                             *)
LEMMA EndedInStep ==
  ASSUME NEW m, NEW read, Doc(m, read), NEW p \in 0 .. Len(m.text),
         NEW s \in Scanners, InStep(s, m, read, p), Ended(s)
  PROVE  /\ m.text = m.whole.text /\ m.whole.depth <= MaxDepth
         /\ s.wellFormed /\ s.rest = <<>> /\ s.values = m.whole.holds
<1> DEFINE N == Len(m.whole.text)
<1>0. /\ Ahead(s.rest, m.text, p) /\ s.wellFormed /\ s.values = read[p].values
      /\ read[p].deepest <= MaxDepth /\ read[p].turn = "end"
  BY DEF InStep, Agreed, Ended
<1>1. /\ m.text \in Seq(Tokens) /\ m.whole.text \in Seq(Tokens) /\ Len(m.text) <= N
      /\ \A i \in 1 .. Len(m.text) : m.text[i] = m.whole.text[i]
      /\ ReadsOn(m.whole.text, read)
  BY DEF Doc
<1>2. p \in 0 .. N /\ N \in Nat /\ Len(m.text) \in Nat
  BY <1>1
<1>3. p = N
  <2> SUFFICES ASSUME p # N PROVE FALSE
    OBVIOUS
  <2>1. p + 1 \in 1 .. N /\ p + 1 \in 0 .. N /\ (p + 1) - 1 = p
    BY <1>2
  <2> DEFINE f == read[p + 1]
             token == m.whole.text[p + 1]
             r == read[p]
  <2>2. Followed(r, token, f)
    BY <1>1, <2>1 DEF ReadsOn
  <2>3. f.turn # "wrong"
    BY <2>1 DEF Doc
  <2> HIDE DEF f, token
  <2> QED
    BY <1>0, <2>2, <2>3 DEF Followed
<1>4. Len(m.text) = N
  BY <1>1, <1>2, <1>3
<1>5. m.text = m.whole.text
  BY <1>1, <1>4, SeqEqual
<1>6. s.rest = <<>>
  <2>1. Ahead(s.rest, m.text, Len(m.text))
    BY <1>0, <1>3, <1>4
  <2> QED
    BY <1>1, <2>1, AheadAtEnd
<1> QED
  BY <1>0, <1>3, <1>5, <1>6 DEF Doc

LEMMA BeginsIsPrefix ==
  ASSUME NEW v \in Seq(FoundStrings), NEW w \in Seq(FoundStrings), Begins(v, w)
  PROVE  IsPrefix(v, w)
<1> DEFINE n == Len(v)
           a == SubSeq(v, 1, n)
           b == SubSeq(w, 1, n)
<1>1. /\ n \in Nat /\ n <= Len(w) /\ \A i \in 1 .. n : v[i] = w[i]
      /\ \A i \in 1 .. n : v[i] \in FoundStrings
  BY DEF Begins
<1>2. \A i \in 1 .. n : w[i] \in FoundStrings
  BY <1>1
<1>3. /\ a \in Seq(FoundStrings) /\ b \in Seq(FoundStrings) /\ Len(a) = Len(b)
      /\ \A i \in 1 .. n - 1 + 1 : a[i] = v[1 + i - 1]
      /\ \A i \in 1 .. n - 1 + 1 : b[i] = w[1 + i - 1]
      /\ Len(a) = IF 1 <= n THEN n - 1 + 1 ELSE 0
  <2> HIDE DEF n
  <2>1. n \in Int /\ 1 \in Int
    BY <1>1
  <2> QED
    BY <1>1, <1>2, <2>1, SubSeqProperties
<1> HIDE DEF a, b
<1>4. Len(a) = n /\ \A i \in 1 .. n : a[i] = v[i] /\ b[i] = w[i]
  <2> HIDE DEF n
  <2>1. n - 1 + 1 = n /\ (IF 1 <= n THEN n - 1 + 1 ELSE 0) = n /\ \A i \in 1 .. n : 1 + i - 1 = i
    BY <1>1
  <2> QED
    BY <1>3, <2>1
<1>5. \A i \in 1 .. Len(a) : a[i] = b[i]
  BY <1>1, <1>4
<1>6. a = b
  BY <1>3, <1>5, SeqEqual
<1> QED
  BY <1>1, <1>6 DEF IsPrefix, a, b

LEMMA ScanInvHonest == ScanInv => JsonScanIsHonest
<1> SUFFICES ASSUME ScanInv PROVE JsonScanIsHonest
  OBVIOUS
<1> DEFINE m == manuscript
           s == scanner
           read == Reading(m.whole.text)
<1>0. /\ m \in Manuscripts /\ s \in Scanners
      /\ s.steps + Cost(s) <= 3 * Len(m.text) + 2
      /\ m.json => Honest(s, m, read)
  BY DEF ScanInv
<1>1. s.steps <= 3 * Len(m.text) + 1
  <2> DEFINE a == s.steps
             b == Cost(s)
             d == 3 * Len(m.text)
  <2>1. m.text \in Seq(Tokens)
    BY <1>0, ManuscriptTexts
  <2>2. a \in Nat /\ b \in Nat /\ b >= 1 /\ a + b <= d + 2
    BY <1>0, CostOK, UnderIs
  <2>3. d \in Nat
    BY <2>1
  <2> HIDE DEF a, b, d
  <2>4. a <= d + 1
    BY <2>2, <2>3
  <2> QED
    BY <2>4 DEF a, d
<1>2. ASSUME m.json, Ended(s)
      PROVE  IF m.text = m.whole.text /\ m.whole.depth <= MaxDepth
             THEN WellFormed(s) /\ s.values = m.whole.holds
             ELSE ~WellFormed(s) /\ IsPrefix(s.values, m.whole.holds)
  <2>1. Doc(m, read)
    BY <1>0, <1>2, ManuscriptTexts
  <2>2. Honest(s, m, read)
    BY <1>0, <1>2
  <2> HIDE DEF read
  <2>3. CASE GivenUp(s, m)
    <3>1. /\ ~s.wellFormed /\ Begins(s.values, m.whole.holds)
          /\ m.text # m.whole.text \/ ~(m.whole.depth <= MaxDepth)
      BY <2>3 DEF GivenUp
    <3>2. s.values \in Seq(FoundStrings)
      BY <1>0, UnderIs
    <3>3. m.whole.holds \in Seq(FoundStrings)
      <4>1. m.whole.text \in Seq(Tokens) /\ Len(m.whole.text) \in 0 .. Len(m.whole.text)
        BY <2>1 DEF Doc
      <4>2. read[Len(m.whole.text)] \in Readings
        BY <2>1, <4>1 DEF Doc, ReadsOn
      <4> QED
        BY <2>1, <4>2, ReadingIs DEF Doc
    <3>4. IsPrefix(s.values, m.whole.holds)
      BY <3>1, <3>2, <3>3, BeginsIsPrefix
    <3> QED
      BY <3>1, <3>4 DEF WellFormed
  <2>4. ASSUME NEW p \in 0 .. Len(m.text), InStep(s, m, read, p)
        PROVE  /\ m.text = m.whole.text /\ m.whole.depth <= MaxDepth
               /\ WellFormed(s) /\ s.values = m.whole.holds
    BY <1>0, <1>2, <2>1, <2>4, EndedInStep DEF WellFormed
  <2> QED
    BY <2>2, <2>3, <2>4 DEF Honest
<1> QED
  BY <1>1, <1>2 DEF JsonScanIsHonest

(* The scan of a document ends within three steps a token; of a document   *)
(* of JSON within the depth it tells every string, under its path, and of  *)
(* one that is cut off or too deep a prefix of them, and that it is not    *)
(* whole (json_scan.rs:10-16, 60-62).                                      *)
THEOREM ScansAreHonest == JsonSpec => []JsonScanIsHonest
<1>1. JsonInit => ScanInv
  BY ScanInvInit
<1>2. ScanInv /\ [JsonStep]_scanVars => ScanInv'
  BY ScanInvNext
<1>3. ScanInv => JsonScanIsHonest
  BY ScanInvHonest
<1> QED
  BY <1>1, <1>2, <1>3, PTL DEF JsonSpec
=============================================================================
