----------------------------- MODULE MCChecker -----------------------------
(* Small instances of Checker.                                             *)
EXTENDS Checker, TLC

CONSTANTS p1, p2, left, pad, public, mirror, jsr, internal, bucket

(* Both names hash to one file, so the name guard is what tells them apart *)
OneSlot == [n \in Name |-> bucket]

It(name, source, alias) ==
  [name |-> name, source |-> source, alias |-> alias, stated |-> TRUE]
Unstated(name) ==
  [name |-> name, source |-> "Inherited", alias |-> None, stated |-> FALSE]

Reads(root, alt, useDisk) ==
  [jsr |-> jsr, alt |-> alt, root |-> root, disk |-> useDisk]
PublicRoot == [n \in Name |-> public]
MirrorRoot == [n \in Name |-> mirror]
NoAlias == [a \in {} |-> public]

(* One process, no disk: three questions, a duplicate, an item with no     *)
(* version, a local one; a second manifest asking one of them again.       *)
PoolConfig == [p \in Proc |-> Reads(PublicRoot, internal :> mirror, FALSE)]
PoolManifests == [p \in Proc |->
  << << It(left, "Registry", None), It(left, "Registry", internal),
        It(left, "Registry", None), Unstated(pad), It(pad, "Local", None),
        It(pad, "Jsr", None) >>,
     << It(left, "Inherited", None), It(pad, "Registry", None) >> >>]

(* Two processes on one cache directory: one asks about a package twice,   *)
(* the other about one whose file has the same name.                       *)
AgeConfig == [p \in Proc |-> Reads(PublicRoot, NoAlias, TRUE)]
AgeManifests == [p \in Proc |->
  LET one == << It(left, "Registry", None) >>
      other == << It(pad, "Registry", None) >>
  IN  IF p = p1 THEN << other >> ELSE << one, one >>]

(* Two runs of one user, who pointed the alias somewhere else in between.  *)
AliasConfig == [p \in Proc |->
  Reads(PublicRoot, internal :> (IF p = p1 THEN mirror ELSE public), TRUE)]
AliasManifests == [p \in Proc |-> << << It(left, "Registry", internal) >> >>]
=============================================================================
