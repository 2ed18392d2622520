----------------------------- MODULE Constraint -----------------------------
(***************************************************************************)
(* Version constraints: what one admits, how a dependency is classified by *)
(* the versions a registry lists (dependable-core/src/semver), and how     *)
(* `fix` rewrites one (dependable/src/fix.rs).                             *)
(*                                                                         *)
(* Versions are final releases; the pre-release filter has run already.    *)
(* Three ecosystems stand for the three readings of a bare version: Rust   *)
(* (a caret range), Npm (one release) and CSharp (a minimum).              *)
(***************************************************************************)
EXTENDS Integers, Sequences

CONSTANTS
  MaxPart,   \* bound: the largest version component
  None       \* no version, no reason

ASSUME ConstraintAssumption == MaxPart \in Nat

Part == 0 .. MaxPart
Version == Part \X Part \X Part
Ecosystem == {"Rust", "Npm", "CSharp"}

BareVersion(e) ==
  [Rust |-> "caret", Npm |-> "exact", CSharp |-> "minimum"][e]

(* A constraint of one comparator: an operator, one to three components,   *)
(* and possibly a wildcard after them (`1.*`; `*` has no component).       *)
Op == {"", "^", "~", "=", ">=", ">", "<=", "<"}
Parts == UNION {[1 .. n -> Part] : n \in 0 .. 3}
Comparator ==
  {c \in [form : {"single"}, op : Op, parts : Parts, wild : BOOLEAN] :
     /\ c.wild => Len(c.parts) < 3
     /\ Len(c.parts) = 0 => c.wild /\ c.op = ""}

(* The forms a rewrite never touches: Cargo's `>=1.0, <2.0` and NuGet's    *)
(* `[1.0,2.0)`, npm's `>=1.0 <2.0`, NuGet's `[1.0]`, the dist-tag `latest`. *)
Span == [form : {"comma", "clauses"}, low : Version, high : Version]
Interval == [form : {"interval"}, at : Version]
Tag == [form |-> "tag"]
Constraint == Comparator \cup Span \cup Interval \cup {Tag}

(* What an author of each ecosystem writes.                                *)
WrittenIn(e, c) ==
  CASE e = "Rust"   -> c.form \in {"single", "comma"}
    [] e = "Npm"    -> c.form \in {"single", "clauses", "tag"}
    [] e = "CSharp" -> \/ c.form \in {"comma", "interval"}
                        \/ (c.form = "single" /\ c.op = "")

Older(v, w) ==
  \/ v[1] < w[1]
  \/ v[1] = w[1] /\ v[2] < w[2]
  \/ v[1] = w[1] /\ v[2] = w[2] /\ v[3] < w[3]
AtMost(v, w) == v = w \/ Older(v, w)

Newest(S) == CHOOSE v \in S : \A w \in S : AtMost(w, v)

(***************************************************************************)
(* What a constraint admits.                                               *)
(***************************************************************************)
Floor(parts) == [i \in 1 .. 3 |-> IF i <= Len(parts) THEN parts[i] ELSE 0]
AgreeUpTo(k, parts, v) == \A i \in 1 .. Len(parts) : i <= k => v[i] = parts[i]
AllZero(parts) == \A i \in DOMAIN parts : parts[i] = 0

(* The component a caret keys its bound off: the leftmost non-zero one, or *)
(* the last one written.                                                   *)
CaretKey(parts) ==
  IF AllZero(parts) THEN Len(parts)
  ELSE CHOOSE i \in DOMAIN parts :
         parts[i] # 0 /\ \A j \in 1 .. i - 1 : parts[j] = 0

(* semver::VersionReq::matches, one comparator.                            *)
Matches(op, parts, v) ==
  LET line == AgreeUpTo(3, parts, v)
      above == AtMost(Floor(parts), v)
  IN CASE op = "="  -> line
       [] op = "^"  -> above /\ AgreeUpTo(CaretKey(parts), parts, v)
       [] op = "~"  -> above /\ AgreeUpTo(2, parts, v)
       [] op = ">=" -> above
       [] op = ">"  -> above /\ ~line
       [] op = "<=" -> line \/ ~above
       [] op = "<"  -> ~above

(* to_semver_constraint: the comparator a bare version stands for.  A full *)
(* bare version is exact to npm and a partial one is not; NuGet pads it.   *)
ReadOp(e, c) ==
  CASE c.op # "" -> c.op
    [] c.op = "" /\ c.wild -> "="
    [] c.op = "" /\ ~c.wild ->
         IF e = "CSharp" \/ (e = "Npm" /\ Len(c.parts) = 3) THEN "=" ELSE "^"

ReadParts(e, c) ==
  IF e = "CSharp" /\ ~c.wild THEN Floor(c.parts) ELSE c.parts

Admits(e, c, v) ==
  CASE c.form = "single"   -> Matches(ReadOp(e, c), ReadParts(e, c), v)
    [] c.form = "tag"      -> TRUE
    [] c.form = "interval" -> v = c.at
    [] c.form \in {"comma", "clauses"} -> AtMost(c.low, v) /\ Older(v, c.high)

(***************************************************************************)
(* evaluate: how a dependency stands against the versions listed.          *)
(***************************************************************************)
Compatible(e, c, listed) ==
  LET admitted == {v \in listed : Admits(e, c, v)} IN
  IF admitted = {} THEN None ELSE Newest(admitted)

(* Below 0.1.0 every bump is breaking, and none of them is a patch.        *)
IsPatch(from, to) ==
  /\ Older(from, to)
  /\ from[1] = to[1] /\ from[2] = to[2]
  /\ ~(from[1] = 0 /\ from[2] = 0)

Status(e, c, listed, locked) ==
  LET compatible == Compatible(e, c, listed)
      current == IF locked # None THEN locked ELSE compatible
  IN CASE locked # None /\ ~Admits(e, c, locked) -> "Outdated"
       [] ~(locked # None /\ ~Admits(e, c, locked)) ->
            IF current = None THEN "UpdateAvailable"
            ELSE IF AtMost(Newest(listed), current) THEN "UpToDate"
            ELSE IF compatible # None /\ IsPatch(current, compatible)
                   THEN "PatchAvailable"
            ELSE "UpdateAvailable"

HasUpdate(status) ==
  status \in {"PatchAvailable", "UpdateAvailable", "Outdated", "Vulnerable"}

(***************************************************************************)
(* rewrite_constraint and plan_fixes.                                      *)
(***************************************************************************)
IsWildcard(c) == c.form = "single" /\ c.wild
IsPartialVersion(c) == c.form = "single" /\ ~c.wild /\ Len(c.parts) < 3

(* caret_bound_survives_substitution; the mutant takes every bound along.  *)
EveryBoundSurvives(parts) == TRUE
CaretBoundSurvives(parts) == ~AllZero(parts)

(* Why a constraint refuses a rewrite.                                     *)
ShapeReason ==
  {"CommaRange", "MultiClause", "DistTag", "Interval", "WildcardOperator",
   "WildcardPins", "WildcardUnbounds", "WildcardShape", "CaretBoundNarrows",
   "PartialVersion", "EqualsPartial", "TildeArity"}

ASSUME NoneAssumption == None \notin Version \cup ShapeReason

(* The guards in the code's order.                                         *)
Guards(e, c) ==
  LET wild == IsWildcard(c)
      partial == IsPartialVersion(c)
      bare == BareVersion(e)
  IN << [when |-> c.form = "comma",    reason |-> "CommaRange"],
        [when |-> c.form = "clauses",  reason |-> "MultiClause"],
        [when |-> c.form = "tag",      reason |-> "DistTag"],
        [when |-> c.form = "interval", reason |-> "Interval"],
        [when |-> wild /\ c.op # "",        reason |-> "WildcardOperator"],
        [when |-> wild /\ bare = "exact",   reason |-> "WildcardPins"],
        [when |-> wild /\ bare = "minimum", reason |-> "WildcardUnbounds"],
        [when |-> wild /\ Len(c.parts) # 1, reason |-> "WildcardShape"],
        [when |-> wild /\ ~CaretBoundSurvives(c.parts),
         reason |-> "CaretBoundNarrows"],
        [when |-> partial /\ c.op = "" /\ bare = "exact",
         reason |-> "PartialVersion"],
        [when |-> partial /\ (c.op = "^" \/ (c.op = "" /\ bare = "caret"))
                    /\ ~CaretBoundSurvives(c.parts),
         reason |-> "CaretBoundNarrows"],
        [when |-> partial /\ c.op = "=", reason |-> "EqualsPartial"],
        [when |-> partial /\ c.op = "~", reason |-> "TildeArity"] >>

Refusal(e, c) ==
  LET guards == Guards(e, c)
      hit == {i \in DOMAIN guards : guards[i].when}
  IN IF hit = {} THEN None
     ELSE guards[CHOOSE i \in hit : \A j \in hit : i <= j].reason

Rewritten(c, target) ==
  [form |-> "single", op |-> c.op, parts |-> target, wild |-> FALSE]

(* Item::is_pinned: an `=`, or a full bare version where bare is exact.    *)
IsPinned(e, c) ==
  /\ c.form = "single"
  /\ \/ c.op = "="
     \/ c.op = "" /\ ~c.wild /\ Len(c.parts) = 3 /\ BareVersion(e) = "exact"

(* plan_fixes for one rewritable row.  A row is the constraint, the status *)
(* the check gave it, its two targets, and whether it is an override.      *)
Quiet == [kind |-> "quiet"]
Edit(c) == [kind |-> "edit", to |-> c]
Declined(reason, target) ==
  [kind |-> "declined", reason |-> reason, target |-> target]

TargetSwapped(row, all) == IF all THEN row.compatible ELSE row.latest
Target(row, all) == IF all THEN row.latest ELSE row.compatible

(* A pin whose shape refuses the rewrite anyway reports the shape.         *)
PinReasonAlways(refusal) == "Pinned"
PinReason(refusal) == IF refusal # None THEN refusal ELSE "Pinned"

NeverSays(c, target) == FALSE
AlreadySays(c, target) == Rewritten(c, target) = c

PlanRow(e, row, all, overrides) ==
  LET c == row.constraint
      target == Target(row, all)
      refusal == Refusal(e, c)
      beyond == ~all /\ row.latest # target /\ ~AlreadySays(c, row.latest)
  IN IF ~HasUpdate(row.status) THEN Quiet
     ELSE IF IsPinned(e, c) /\ ~all THEN Declined(PinReason(refusal), row.latest)
     ELSE IF target = None THEN Declined("NoTarget", None)
     ELSE IF refusal # None THEN Declined(refusal, target)
     ELSE IF AlreadySays(c, target)
       THEN IF beyond THEN Declined("NeedsAll", row.latest)
                      ELSE Declined("AlreadyAtTarget", target)
     ELSE IF row.override /\ ~overrides THEN Declined("ForcedVersion", target)
     ELSE Edit(Rewritten(c, target))
=============================================================================
