------------------------------ MODULE Upgrade ------------------------------
(***************************************************************************)
(* One dependency over the life of its manifest: the registry publishes    *)
(* and yanks releases, a build locks one, and `dependable fix` rewrites    *)
(* the constraint (plan_fixes of dependable/src/fix.rs), run after run.    *)
(***************************************************************************)
EXTENDS Constraint, FiniteSets

CONSTANTS
  Releases,      \* bound: the versions the registry may list
  MaxListed,     \* bound: how many at once
  Ops,           \* bound: the operators an author may have written
  FirstParts     \* bound: the components an author may have written

ASSUME UpgradeAssumption ==
  /\ Releases \subseteq Version
  /\ MaxListed \in Nat
  /\ Ops \subseteq Op
  /\ FirstParts \subseteq Parts

VARIABLES
  ecosystem,    \* whose dialect the manifest is written in
  override,     \* is the entry an `overrides` / `resolutions` value
  constraint,   \* what the manifest says
  listed,       \* what the registry publishes
  locked,       \* what the lockfile holds, or None
  last,         \* the last fix since anything else happened, or None
  written,      \* history: what the manifest said before any --all
  raised        \* history: the last version a default fix wrote since

vars == <<ecosystem, override, constraint, listed, locked, last, written,
          raised>>

Authored ==
  {c \in Comparator : c.op \in Ops /\ c.parts \in FirstParts}
    \cup {c \in Span \cup Interval :
            IF c.form = "interval" THEN c.at \in Releases
            ELSE c.low \in Releases \ {c.high} /\ c.high = Newest(Releases)}
    \cup {Tag}

Run == [all : BOOLEAN, overrides : BOOLEAN, edited : BOOLEAN]

TypeOK ==
  /\ ecosystem \in Ecosystem
  /\ override \in BOOLEAN
  /\ constraint \in Constraint /\ WrittenIn(ecosystem, constraint)
  /\ listed \subseteq Releases
  /\ locked \in Releases \cup {None}
  /\ last \in Run \cup {None}
  /\ written \in Constraint /\ WrittenIn(ecosystem, written)
  /\ raised \in Releases \cup {None}

Init ==
  /\ ecosystem \in Ecosystem
  /\ override \in BOOLEAN
  /\ constraint \in Authored /\ WrittenIn(ecosystem, constraint)
  /\ \E v \in Releases : listed = {v}
  /\ locked = None
  /\ last = None
  /\ written = constraint
  /\ raised = None

(* The row check_inner hands to fix.  The OSV scan asks about the version  *)
(* in use, so only a row that has one can be Vulnerable.                   *)
InUse == IF locked # None THEN locked
         ELSE Compatible(ecosystem, constraint, listed)

Row(vulnerable) ==
  [constraint |-> constraint,
   status     |-> IF vulnerable THEN "Vulnerable"
                  ELSE Status(ecosystem, constraint, listed, locked),
   compatible |-> Compatible(ecosystem, constraint, listed),
   latest     |-> Newest(listed),
   override   |-> override]

Plan(all, overrides, vulnerable) ==
  PlanRow(ecosystem, Row(vulnerable), all, overrides)

Publish(v) ==
  /\ v \notin listed
  /\ Cardinality(listed) < MaxListed
  /\ listed' = listed \cup {v}
  /\ last' = None
  /\ UNCHANGED <<ecosystem, override, constraint, locked, written, raised>>

Yank(v) ==
  /\ v \in listed /\ listed # {v}
  /\ listed' = listed \ {v}
  /\ last' = None
  /\ UNCHANGED <<ecosystem, override, constraint, locked, written, raised>>

(* A package manager resolves to the newest release the constraint admits. *)
Lock ==
  LET best == Compatible(ecosystem, constraint, listed) IN
  /\ best # None
  /\ locked' = best
  /\ last' = None
  /\ UNCHANGED <<ecosystem, override, constraint, listed, written, raised>>

(* One run of `dependable fix [--all] [--overrides]`.                      *)
Fix(all, overrides, vulnerable) ==
  LET plan == Plan(all, overrides, vulnerable)
      edited == plan.kind = "edit"
  IN /\ vulnerable => InUse # None
     /\ constraint' = IF edited THEN plan.to ELSE constraint
     /\ last' = [all |-> all, overrides |-> overrides, edited |-> edited]
     /\ written' = IF edited /\ all THEN plan.to ELSE written
     /\ raised' = IF ~edited THEN raised
                  ELSE IF all THEN None ELSE plan.to.parts
     /\ UNCHANGED <<ecosystem, override, listed, locked>>

Next ==
  \/ \E v \in Releases : Publish(v) \/ Yank(v)
  \/ Lock
  \/ \E all, overrides, vulnerable \in BOOLEAN : Fix(all, overrides, vulnerable)

Spec == Init /\ [][Next]_vars

(***************************************************************************)
(* Properties.                                                             *)
(***************************************************************************)
(* "Returns Err for the forms that can't be rewritten without changing     *)
(* their meaning" (rewrite_constraint): however many default runs rewrote  *)
(* it, the constraint admits what the author's did, from the release last  *)
(* written on: no bound is lost, narrowed or moved.                        *)
RangeIntact ==
  \A v \in Version :
    Admits(ecosystem, constraint, v) <=>
      /\ Admits(ecosystem, written, v)
      /\ raised # None => AtMost(raised, v)

(* A fix is done in one run: run again with the same flags before anything *)
(* is published, it has nothing to write (a drifting rewrite never stops). *)
FixSettles ==
  last # None /\ last.edited =>
    \A vulnerable \in BOOLEAN :
      Plan(last.all, last.overrides, vulnerable).kind # "edit"

(* The reason a decline prints is the one that stands in the way: a flag   *)
(* it names moves the entry to the version it names, and a shape refusal   *)
(* stands whatever flags are passed.  What --all wrote admits the newest.  *)
FlagReasons == {"Pinned", "NoTarget", "NeedsAll", "AlreadyAtTarget", "ForcedVersion"}
DeclineSaysWhy ==
  /\ last # None /\ last.all /\ last.edited =>
       Admits(ecosystem, constraint, Newest(listed))
  /\ \A all, overrides, vulnerable \in BOOLEAN :
       LET plan == Plan(all, overrides, vulnerable) IN
       plan.kind = "declined" =>
         /\ plan.reason \notin FlagReasons =>
              \A a, o \in BOOLEAN :
                LET other == Plan(a, o, vulnerable) IN
                other.kind = "declined" /\ other.reason \in {plan.reason, "NoTarget"}
         /\ plan.reason = "Pinned" =>
              Plan(TRUE, TRUE, vulnerable).kind = "edit" \/ AlreadySays(constraint, plan.target)
         /\ plan.reason = "NeedsAll" =>
              Plan(TRUE, TRUE, vulnerable) = Edit(Rewritten(constraint, plan.target))
         /\ plan.reason = "ForcedVersion" =>
              Plan(all, TRUE, vulnerable) = Edit(Rewritten(constraint, plan.target))
=============================================================================
