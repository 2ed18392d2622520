----------------------------- MODULE FixProofs -----------------------------
(***************************************************************************)
(* Theorems about Fix, for every tree of manifests, every text an author   *)
(* may write, any number of saves and a kill at any moment; and then about *)
(* Upgrade, for every bound on versions and releases: what a rewrite keeps *)
(* of a constraint, and what any number of them keeps; and about Dialects, *)
(* for every list a registry can publish: what is reported of it.          *)
(***************************************************************************)
EXTENDS Fix, Upgrade, Dialects, NatSets, SequenceTheorems, TLAPS

(* No two dependencies are written alike: an edit is guarded by the text   *)
(* it replaces and by nothing else (apply_edits).                          *)
Distinct == \A d, e \in Dep : TextsOf[d] \cap TextsOf[e] # {} => d = e

(* No editor makes a file shorter: an edit past the end is dropped, and    *)
(* reported all the same (apply_edits).                                    *)
NeverCut == "cut" \notin SaveKinds

(***************************************************************************)
(* The parts of the inductive invariant.                                   *)
(***************************************************************************)
Typed ==
  /\ FixTypeOK
  /\ IsFiniteSet(rows)
  /\ \A m \in Manifest : plans[m] # Nothing => IsFiniteSet(plans[m].records)

(* The rows come of one reading, one for each line of it.                  *)
Read ==
  /\ \A r \in rows : r.line # 0
  /\ Distinct => \A r \in rows : r.expected \in TextsOf[r.dep]
  /\ \A r, s \in rows : r.line = s.line => r = s
  /\ pc = "plan" /\ NeverCut => \A r \in rows : r.line <= Len(file[at])

(* What is on the disk, and what is planned to be.                         *)
Spans ==
  /\ Distinct => \A m \in Manifest : OwnTexts(file[m])
  /\ \A m \in Manifest : plans[m] # Nothing =>
       /\ Distinct => OwnTexts(plans[m].updated)
       /\ NeverCut => \A r \in plans[m].records :
            /\ r.line \in Declaring(plans[m].updated)
            /\ plans[m].updated[r.line].says = FixedText[r.dep]

(* The phases of the run: nothing is written before all is planned, and a  *)
(* rename follows a comparison that held.                                  *)
Order ==
  /\ pc \in {"check", "plan"} =>
       /\ printed = {} /\ renamed = {} /\ tally.total = 0
       /\ \A m \in Manifest : m >= at => plans[m] = Nothing
  /\ pc = "plan" => at \in Manifest
  /\ pc \in {"write", "print"} => at \in Manifest /\ HasRecords(at) /\ ~dryRun
  /\ pc = "write" => file[at] = plans[at].original \/ late
  /\ pc \in {"check", "commit", "write", "print", "done"} => rows = {}
  /\ pc # "done" => said = Nothing

(* What the report says of what was found and of what was done.            *)
Told ==
  /\ pc # "killed" =>
       renamed = IF dryRun THEN {} ELSE IF pc = "print" THEN printed \cup {at} ELSE printed
  /\ \A m \in printed : HasRecords(m)
  /\ tally.total > 0 => printed # {}
  /\ pc \in {"commit", "write", "print"} =>
       \A m \in Manifest : m < at /\ HasRecords(m) => tally.total > 0
  /\ \/ behind = 0 \/ tally.unchecked > 0 \/ tally.unread > 0 \/ tally.left > 0
     \/ \E r \in rows : r.verdict \in {"update", "declined"}
     \/ \E m \in Manifest : HasRecords(m)
  /\ said = "updated" => printed # {} /\ ~dryRun
  /\ said = "up to date" => behind = 0

IInv == Typed /\ Read /\ Spans /\ Order /\ Told

-----------------------------------------------------------------------------
(***************************************************************************)
(* Lines.                                                                  *)
(***************************************************************************)
LEMMA SplicedType ==
  ASSUME NEW content \in Seq(Line), NEW edits \in SUBSET CheckRow
  PROVE  /\ Spliced(content, edits) \in Seq(Line)
         /\ Len(Spliced(content, edits)) = Len(content)
<1> DEFINE new == Spliced(content, edits)
<1>1. ASSUME NEW i \in 1 .. Len(content)
      PROVE  new[i] \in Line
  <2>1. content[i] \in Line
    OBVIOUS
  <2>2. CASE content[i] # Nothing /\ \E r \in edits : r.line = i
    <3>1. (CHOOSE r \in edits : r.line = i) \in edits
      BY <2>2
    <3>2. FixedText[(CHOOSE r \in edits : r.line = i).dep] \in Text
      BY <3>1, FixAssumption DEF CheckRow
    <3>3. content[i] \in [dep : Dep, says : Text]
      BY <2>1, <2>2 DEF Line
    <3>4. new[i] = [content[i] EXCEPT !.says =
                      FixedText[(CHOOSE r \in edits : r.line = i).dep]]
      BY <2>2 DEF Spliced
    <3> QED
      BY <3>2, <3>3, <3>4 DEF Line
  <2>3. CASE ~(content[i] # Nothing /\ \E r \in edits : r.line = i)
    BY <2>1, <2>3 DEF Spliced
  <2> QED
    BY <2>2, <2>3
<1>2. new \in [1 .. Len(content) -> Line]
  <2>1. DOMAIN content = 1 .. Len(content)
    OBVIOUS
  <2>2. new = [i \in 1 .. Len(content) |-> new[i]]
    BY <2>1 DEF Spliced
  <2> HIDE DEF new
  <2> QED
    BY <1>1, <2>2
<1>3. Len(content) \in Nat
  OBVIOUS
<1> HIDE DEF new
<1>4. new \in Seq(Line) /\ Len(new) = Len(content)
  BY <1>2, <1>3
<1> QED
  BY <1>4 DEF new

(* Every edit whose line is there is applied, to the text it was made for. *)
LEMMA SplicedSays ==
  ASSUME NEW content \in Seq(Line), NEW edits \in SUBSET CheckRow,
         \A r, s \in edits : r.line = s.line => r = s,
         SpansHold(content, edits),
         NEW r \in edits, r.line # 0, r.line <= Len(content)
  PROVE  /\ r.line \in Declaring(Spliced(content, edits))
         /\ Spliced(content, edits)[r.line].says = FixedText[r.dep]
         /\ content[r.line].says = r.expected
<1>1. r.line \in DOMAIN content
  BY DEF CheckRow
<1>2. content[r.line] # Nothing /\ content[r.line].says = r.expected
  BY DEF SpansHold
<1>3. content[r.line] \in [dep : Dep, says : Text]
  BY <1>1, <1>2 DEF Line
<1>4. (CHOOSE s \in edits : s.line = r.line) = r
  OBVIOUS
<1>5. Spliced(content, edits)[r.line] = [content[r.line] EXCEPT !.says = FixedText[r.dep]]
  BY <1>1, <1>2, <1>4 DEF Spliced
<1>6. FixedText[r.dep] \in Text
  BY FixAssumption DEF CheckRow
<1>7. /\ Spliced(content, edits)[r.line] \in [dep : Dep, says : Text]
      /\ Spliced(content, edits)[r.line].says = FixedText[r.dep]
  BY <1>3, <1>5, <1>6
<1>8. r.line \in DOMAIN Spliced(content, edits)
  BY <1>1 DEF Spliced
<1> QED
  BY <1>2, <1>7, <1>8, FixAssumption DEF Declaring

LEMMA SplicedOwn ==
  ASSUME Distinct,
         NEW content \in Seq(Line), NEW edits \in SUBSET CheckRow,
         \A r, s \in edits : r.line = s.line => r = s,
         \A r \in edits : r.line # 0 /\ r.expected \in TextsOf[r.dep],
         SpansHold(content, edits), OwnTexts(content)
  PROVE  OwnTexts(Spliced(content, edits))
<1> DEFINE new == Spliced(content, edits)
<1> SUFFICES ASSUME NEW i \in Declaring(new)
             PROVE  new[i].says \in TextsOf[new[i].dep]
  BY DEF OwnTexts
<1>1. i \in DOMAIN content /\ new[i] # Nothing
  BY DEF Declaring, Spliced
<1>2. CASE content[i] # Nothing /\ \E r \in edits : r.line = i
  <2>1. PICK r \in edits : r.line = i
    BY <1>2
  <2>2. new[i].says = FixedText[r.dep] /\ content[i].says = r.expected
    BY <1>1, <2>1, SplicedSays
  <2>3. content[i] \in [dep : Dep, says : Text]
    BY <1>1, <1>2 DEF Line
  <2>4. new[i].dep = content[i].dep
    BY <1>1, <1>2, <2>3 DEF Spliced
  <2>5. content[i].says \in TextsOf[content[i].dep]
    BY <1>1, <1>2 DEF OwnTexts, Declaring
  <2>6. r.dep = content[i].dep
    <3>1. r.dep \in Dep /\ content[i].dep \in Dep
      BY <2>3 DEF CheckRow
    <3>2. r.expected \in TextsOf[r.dep] \cap TextsOf[content[i].dep]
      BY <2>1, <2>2, <2>5
    <3> QED
      BY <3>1, <3>2 DEF Distinct
  <2> QED
    BY <2>2, <2>3, <2>4, <2>6, FixAssumption
<1>3. CASE ~(content[i] # Nothing /\ \E r \in edits : r.line = i)
  <2>1. new[i] = content[i]
    BY <1>1, <1>3 DEF Spliced
  <2> QED
    BY <1>1, <2>1 DEF OwnTexts, Declaring
<1> QED
  BY <1>2, <1>3

(* What an editor leaves behind.                                           *)
LEMMA SavedFacts ==
  ASSUME NEW content \in Seq(Line), NEW new \in Saved(content)
  PROVE  /\ new \in Seq(Line)
         /\ OwnTexts(content) => OwnTexts(new)
         /\ NeverCut => Len(new) >= Len(content)
<1>1. CASE \E i \in Declaring(content) : \E t \in TextsOf[content[i].dep] :
             new = [content EXCEPT ![i] = [dep |-> content[i].dep, says |-> t]]
  <2>1. PICK i \in Declaring(content), t \in UNION {TextsOf[d] : d \in Dep} :
           /\ t \in TextsOf[content[i].dep]
           /\ new = [content EXCEPT ![i] = [dep |-> content[i].dep, says |-> t]]
    <3>1. PICK i \in Declaring(content) : \E t \in TextsOf[content[i].dep] :
             new = [content EXCEPT ![i] = [dep |-> content[i].dep, says |-> t]]
      BY <1>1
    <3>2. content[i].dep \in Dep
      BY <3>1 DEF Declaring, Line
    <3> QED
      BY <3>1, <3>2
  <2>2. i \in DOMAIN content /\ content[i] \in [dep : Dep, says : Text]
    BY <2>1 DEF Declaring, Line
  <2>3. [dep |-> content[i].dep, says |-> t] \in Line
    BY <2>1, <2>2, FixAssumption DEF Line
  <2>4. new \in Seq(Line) /\ Len(new) = Len(content)
    <3>1. new = [content EXCEPT ![i] = new[i]] /\ new[i] \in Line
      BY <2>1, <2>2, <2>3
    <3> QED
      BY <2>2, <3>1
  <2>5. ASSUME OwnTexts(content), NEW j \in Declaring(new)
        PROVE  new[j].says \in TextsOf[new[j].dep]
    BY <2>1, <2>2, <2>4, <2>5 DEF OwnTexts, Declaring
  <2> QED
    BY <2>4, <2>5 DEF OwnTexts
<1>2. CASE new = <<Nothing>> \o content
  <2>1. new \in Seq(Line) /\ Len(new) = Len(content) + 1
    BY <1>2 DEF Line
  <2>2. ASSUME NEW j \in Declaring(new)
        PROVE  j - 1 \in Declaring(content) /\ new[j] = content[j - 1]
    BY <1>2, <2>1, <2>2 DEF Declaring
  <2> QED
    BY <2>1, <2>2 DEF OwnTexts
<1>3. CASE "cut" \in SaveKinds /\ content # <<>> /\ new = SubSeq(content, 1, Len(content) - 1)
  <2>1. Len(content) \in Nat \ {0}
    BY <1>3
  <2>2. /\ new \in Seq(Line) /\ Len(new) = Len(content) - 1
        /\ \A j \in 1 .. Len(content) - 1 : new[j] = content[j]
    <3>1. PICK n \in Int : n = Len(content) - 1 /\ n \in Nat
      BY <2>1
    <3>2. \A j \in 1 .. n : content[j] \in Line
      BY <2>1, <3>1
    <3>3. /\ SubSeq(content, 1, n) \in Seq(Line)
          /\ Len(SubSeq(content, 1, n)) = IF 1 <= n THEN n - 1 + 1 ELSE 0
          /\ \A j \in 1 .. n - 1 + 1 : SubSeq(content, 1, n)[j] = content[1 + j - 1]
      BY <3>1, <3>2, SubSeqProperties
    <3> QED
      BY <1>3, <2>1, <3>1, <3>3
  <2>3. ASSUME NEW j \in Declaring(new)
        PROVE  j \in Declaring(content) /\ new[j] = content[j]
    BY <2>1, <2>2, <2>3 DEF Declaring
  <2> QED
    BY <1>3, <2>2, <2>3 DEF OwnTexts, NeverCut
<1> QED
  BY <1>1, <1>2, <1>3 DEF Saved

LEMMA RowsOfFacts ==
  ASSUME NEW content \in Seq(Line), NEW verdict \in [Declaring(content) -> Verdict]
  PROVE  /\ RowsOf(content, verdict) \subseteq CheckRow
         /\ IsFiniteSet(RowsOf(content, verdict))
         /\ \A r \in RowsOf(content, verdict) : r.line # 0 /\ r.line <= Len(content)
         /\ \A r, s \in RowsOf(content, verdict) : r.line = s.line => r = s
         /\ OwnTexts(content) =>
                \A r \in RowsOf(content, verdict) : r.expected \in TextsOf[r.dep]
<1> DEFINE R == RowsOf(content, verdict)
<1>1. ASSUME NEW r \in R
      PROVE  /\ r.line \in Declaring(content)
             /\ r = [dep |-> content[r.line].dep, line |-> r.line,
                     expected |-> content[r.line].says, verdict |-> verdict[r.line]]
  BY <1>1 DEF RowsOf
<1>2. ASSUME NEW r \in R
      PROVE  r \in CheckRow /\ r.line # 0 /\ r.line <= Len(content)
  <2>1. r.line \in 1 .. Len(content) /\ content[r.line] \in [dep : Dep, says : Text]
    BY <1>1, <1>2 DEF Declaring, Line
  <2>2. verdict[r.line] \in Verdict
    BY <1>1, <1>2
  <2> QED
    BY <1>1, <1>2, <2>1, <2>2 DEF CheckRow
<1>3. \A r, s \in R : r.line = s.line => r = s
  BY <1>1
<1>4. IsFiniteSet(R)
  <2> DEFINE f == [r \in R |-> r.line]
  <2>1. f \in Injection(R, 1 .. Len(content))
    BY <1>2, <1>3 DEF Injection, IsInjective, CheckRow
  <2>2. IsFiniteSet(1 .. Len(content))
    BY FS_Interval
  <2> HIDE DEF f, R
  <2> QED
    BY <2>1, <2>2, FS_Injection
<1>5. OwnTexts(content) => \A r \in R : r.expected \in TextsOf[r.dep]
  BY <1>1 DEF OwnTexts
<1> QED
  BY <1>2, <1>3, <1>4, <1>5

LEMMA LayoutFacts ==
  /\ Len(Layout) \in Nat /\ Layout \in [Manifest -> Seq(Line)]
  /\ \A m \in Manifest : OwnTexts(Layout[m])
<1>1. Layout \in Seq(Seq(Line))
  BY FixAssumption
<1>2. \A S : \A s \in Seq(S) : Len(s) \in Nat /\ s \in [1 .. Len(s) -> S]
  OBVIOUS
<1>3. Len(Layout) \in Nat /\ Layout \in [1 .. Len(Layout) -> Seq(Line)]
  BY <1>1, <1>2
<1> QED
  BY <1>3, FixAssumption DEF Manifest

LEMMA InitInv == FixInit => IInv
<1> SUFFICES ASSUME FixInit PROVE IInv
  OBVIOUS
<1>1. Nothing \notin {"up to date", "nothing to rewrite", "updated"} /\ MaxSaves \in Nat
  BY FixAssumption
<1>2. Typed
  <2>1. file \in [Manifest -> Seq(Line)]
    BY LayoutFacts DEF FixInit
  <2>4. saves \in 0 .. MaxSaves
    <3>1. saves = 0
      BY DEF FixInit
    <3>2. MaxSaves \in Nat
      BY <1>1
    <3> QED
      BY <3>1, <3>2
  <2>5. dryRun \in BOOLEAN
    BY DEF FixInit
  <2>2. /\ pc = "check" /\ at \in 1 .. Len(Layout) + 1
        /\ rows \subseteq CheckRow /\ IsFiniteSet(rows)
        /\ plans \in [Manifest -> FixPlan \cup {Nothing}]
        /\ \A m \in Manifest : plans[m] = Nothing
    BY LayoutFacts, FS_EmptySet DEF FixInit
  <2>3. tally \in [left : Nat, unchecked : Nat, unread : Nat, total : Nat]
    BY DEF FixInit
  <2> QED
    BY <2>1, <2>2, <2>3, <2>4, <2>5 DEF FixInit, Typed, FixTypeOK
<1>3. Read
  BY DEF FixInit, Read
<1>4. Spans
  BY LayoutFacts DEF FixInit, Spans
<1>5. Order
  BY DEF FixInit, Order
<1>6. Told
  <2>1. /\ pc = "check" /\ renamed = {} /\ printed = {} /\ behind = 0
        /\ tally.total = 0 /\ said \notin {"updated", "up to date"}
    BY <1>1 DEF FixInit
  <2>2. renamed = IF dryRun THEN {} ELSE IF pc = "print" THEN printed \cup {at} ELSE printed
    BY <2>1
  <2>3. tally.total > 0 => printed # {}
    <3>1. tally.total = 0
      BY <2>1
    <3> QED
      BY <3>1
  <2>4. said = "updated" => printed # {} /\ ~dryRun
    BY <2>1
  <2>5. \A m \in printed : HasRecords(m)
    BY <2>1
  <2>6. /\ pc \notin {"commit", "write", "print"}
        /\ said = "up to date" => behind = 0
    BY <2>1
  <2>7. pc \in {"commit", "write", "print"} =>
          \A m \in Manifest : m < at /\ HasRecords(m) => tally.total > 0
    BY <2>6
  <2>8. \/ behind = 0 \/ tally.unchecked > 0 \/ tally.unread > 0 \/ tally.left > 0
        \/ \E r \in rows : r.verdict \in {"update", "declined"}
        \/ \E m \in Manifest : HasRecords(m)
    BY <2>1
  <2> QED
    BY <2>2, <2>3, <2>4, <2>5, <2>6, <2>7, <2>8 DEF Told
<1> QED
  BY <1>2, <1>3, <1>4, <1>5, <1>6 DEF IInv

(* What the steps that touch neither rows, plans nor files leave as it is. *)
LEMMA Moved ==
  ASSUME IInv, UNCHANGED <<file, plans, tally, dryRun, behind>>, rows' = rows,
         saves' = saves, late' \in BOOLEAN,
         pc' \in {"check", "plan", "commit", "write", "print"} \cup Ended,
         pc' = "plan" => pc = "plan" /\ at' = at,
         at' \in 1 .. Len(Layout) + 1,
         printed' \subseteq Manifest, renamed' \subseteq Manifest,
         said' \in {"up to date", "nothing to rewrite", "updated", Nothing}
  PROVE  Typed' /\ Read' /\ Spans'
<1>1. Typed'
  BY DEF IInv, Typed, FixTypeOK
<1>2. Read'
  BY DEF IInv, Read
<1>3. Spans'
  BY DEF IInv, Spans
<1> QED
  BY <1>1, <1>2, <1>3

LEMMA Numbers ==
  ASSUME Typed
  PROVE  /\ Len(Layout) \in Nat /\ at \in Nat /\ 1 <= at /\ at <= Len(Layout) + 1
         /\ \A m \in Manifest : m \in Nat /\ 1 <= m /\ m <= Len(Layout)
         /\ at <= Len(Layout) => at \in Manifest
         /\ tally.total \in Nat /\ tally.left \in Nat
         /\ tally.unchecked \in Nat /\ tally.unread \in Nat
         /\ behind \in Nat
<1>1. at \in 1 .. Len(Layout) + 1
  BY DEF Typed, FixTypeOK
<1>2. tally \in [left : Nat, unchecked : Nat, unread : Nat, total : Nat] /\ behind \in Nat
  BY DEF Typed, FixTypeOK
<1>3. Len(Layout) \in Nat
  BY LayoutFacts
<1> QED
  BY <1>1, <1>2, <1>3 DEF Manifest

(* Whatever ends the run half-way.                                         *)
LEMMA Stops ==
  ASSUME IInv, FailCheck \/ FailPlan \/ RefuseCommit \/ FailWrite \/ Kill
  PROVE  IInv'
<1>1. /\ UNCHANGED <<file, saves, dryRun, at, rows, plans, tally, printed, renamed,
                     behind, late, said>>
      /\ pc' \in {"failed", "killed"} /\ pc \notin Ended
      /\ pc = "print" => pc' = "killed"
  BY DEF FailCheck, FailPlan, RefuseCommit, FailWrite, Kill, Fail, Ended
<1>2. Typed' /\ Read' /\ Spans'
  <2>1. late' \in BOOLEAN /\ at' \in 1 .. Len(Layout) + 1
        /\ printed' \subseteq Manifest /\ renamed' \subseteq Manifest
        /\ said' \in {"up to date", "nothing to rewrite", "updated", Nothing}
    BY <1>1 DEF IInv, Typed, FixTypeOK
  <2> QED
    BY <1>1, <2>1, Moved DEF Ended
<1>3. UNCHANGED <<tally.total, tally.left, tally.unchecked, tally.unread>>
  BY <1>1
<1>4. \A m \in Manifest : UNCHANGED HasRecords(m)
  BY <1>1 DEF HasRecords
<1>5. Order'
  BY <1>1 DEF IInv, Order, Ended
<1>6. Told'
  BY <1>1 DEF IInv, Order, Told, Ended, HasRecords
<1> QED
  BY <1>2, <1>5, <1>6 DEF IInv

(* The steps from manifest to manifest, and the comparison before a write. *)
LEMMA Walks ==
  ASSUME IInv, SkipManifest \/ AllPlanned \/ PassOver \/ Reread
  PROVE  IInv'
<1>1. /\ UNCHANGED <<file, saves, dryRun, rows, plans, tally, printed, renamed,
                     behind, said>>
      /\ pc \in {"check", "commit"} /\ pc' \in {"check", "commit", "write"}
  BY DEF SkipManifest, AllPlanned, PassOver, Reread
<1>2. at' \in 1 .. Len(Layout) + 1
  <2>1. at' = at \/ at' = 1 \/ (at' = at + 1 /\ at <= Len(Layout))
    BY DEF SkipManifest, AllPlanned, PassOver, Reread
  <2> QED
    BY <2>1, Numbers DEF IInv
<1>3. Typed' /\ Read' /\ Spans'
  <2>1. late' \in BOOLEAN
        /\ printed' \subseteq Manifest /\ renamed' \subseteq Manifest
        /\ said' \in {"up to date", "nothing to rewrite", "updated", Nothing}
    BY <1>1 DEF IInv, Typed, FixTypeOK, SkipManifest, AllPlanned, PassOver, Reread
  <2> QED
    BY <1>1, <1>2, <2>1, Moved DEF Ended
<1>4. \A m \in Manifest : UNCHANGED HasRecords(m)
  BY <1>1 DEF HasRecords
<1>5. at \in Nat /\ Len(Layout) \in Nat /\ \A m \in Manifest : m \in Nat
  BY Numbers DEF IInv
<1>6. CASE SkipManifest
  <2>1. at' = at + 1 /\ pc = "check" /\ pc' = "check"
    BY <1>6 DEF SkipManifest
  <2>2. \A m \in Manifest : m >= at + 1 => m >= at
    BY <1>5
  <2>3. Order'
    BY <1>1, <2>1, <2>2 DEF IInv, Order
  <2>4. Told'
    BY <1>1, <2>1 DEF IInv, Told, HasRecords
  <2> QED
    BY <1>3, <2>3, <2>4 DEF IInv
<1>7. CASE AllPlanned
  <2>1. at' = 1 /\ pc = "check" /\ pc' = "commit"
    BY <1>7 DEF AllPlanned
  <2>2. \A m \in Manifest : ~(m < 1)
    BY DEF Manifest
  <2>3. Order'
    BY <1>1, <2>1 DEF IInv, Order
  <2>4. Told'
    BY <1>1, <2>1, <2>2 DEF IInv, Told, HasRecords
  <2> QED
    BY <1>3, <2>3, <2>4 DEF IInv
<1>8. CASE PassOver
  <2>1. at' = at + 1 /\ pc = "commit" /\ pc' = "commit" /\ ~HasRecords(at)
    BY <1>8 DEF PassOver
  <2>2. \A m \in Manifest : m < at + 1 => m < at \/ m = at
    BY <1>5
  <2>3. Order'
    BY <1>1, <2>1 DEF IInv, Order
  <2>4. Told'
    BY <1>1, <2>1, <2>2 DEF IInv, Told, HasRecords
  <2> QED
    BY <1>3, <2>3, <2>4 DEF IInv
<1>9. CASE Reread
  <2>1. /\ at' = at /\ pc = "commit" /\ pc' = "write" /\ HasRecords(at) /\ ~dryRun
        /\ file[at] = plans[at].original
    BY <1>9 DEF Reread, StillPlanned
  <2>2. at \in Manifest
    <3>1. at <= Len(Layout)
      BY <1>9 DEF Reread
    <3> QED
      BY <3>1, Numbers DEF IInv
  <2>3. Order'
    BY <1>1, <2>1, <2>2 DEF IInv, Order, HasRecords
  <2>4. Told'
    BY <1>1, <2>1 DEF IInv, Told, HasRecords
  <2> QED
    BY <1>3, <2>3, <2>4 DEF IInv
<1> QED
  BY <1>6, <1>7, <1>8, <1>9

(* An editor saves.                                                        *)
LEMMA SaveStep ==
  ASSUME IInv, NEW n \in Manifest, Save(n)
  PROVE  IInv'
<1>1. PICK content \in Saved(file[n]) : file' = [file EXCEPT ![n] = content]
  BY DEF Save
<1>2. /\ UNCHANGED <<dryRun, pc, at, rows, plans, tally, printed, renamed, behind, said>>
      /\ saves' = saves + 1 /\ saves < MaxSaves
      /\ late' = (late \/ (pc = "write" /\ n = at))
  BY DEF Save
<1>3. file \in [Manifest -> Seq(Line)]
  BY DEF IInv, Typed, FixTypeOK
<1>4. /\ content \in Seq(Line)
      /\ OwnTexts(file[n]) => OwnTexts(content)
      /\ NeverCut => Len(content) >= Len(file[n])
  BY <1>1, <1>3, SavedFacts
<1>5. /\ file' \in [Manifest -> Seq(Line)] /\ file'[n] = content
      /\ \A m \in Manifest \ {n} : file'[m] = file[m]
  BY <1>1, <1>3, <1>4
<1>6. Typed'
  <2>1. saves' \in 0 .. MaxSaves
    <3>1. saves \in 0 .. MaxSaves /\ MaxSaves \in Nat
      BY FixAssumption DEF IInv, Typed, FixTypeOK
    <3> QED
      BY <1>2, <3>1
  <2>2. late' \in BOOLEAN
    BY <1>2 DEF IInv, Typed, FixTypeOK
  <2> QED
    BY <1>2, <1>5, <2>1, <2>2 DEF IInv, Typed, FixTypeOK
<1>7. Read'
  <2>1. ASSUME pc = "plan", NeverCut, NEW r \in rows
        PROVE  r.line <= Len(file'[at])
    <3>1. at \in Manifest /\ r.line <= Len(file[at]) /\ r \in CheckRow
      BY <2>1 DEF IInv, Order, Read, Typed, FixTypeOK
    <3>2. r.line \in Nat /\ Len(file'[at]) \in Nat /\ Len(file[at]) \in Nat
      BY <1>3, <1>5, <3>1 DEF CheckRow
    <3>3. Len(file'[at]) >= Len(file[at])
      <4>1. CASE at = n
        BY <1>4, <1>5, <2>1, <4>1
      <4>2. CASE at # n
        <5>1. file'[at] = file[at]
          BY <1>5, <3>1, <4>2
        <5> QED
          BY <3>2, <5>1
      <4> QED
        BY <4>1, <4>2
    <3> QED
      BY <3>1, <3>3, <3>2
  <2> QED
    BY <1>2, <2>1 DEF IInv, Read
<1>8. Spans'
  BY <1>2, <1>4, <1>5 DEF IInv, Spans
<1>9. Order'
  BY <1>2, <1>5 DEF IInv, Order, HasRecords
<1>10. Told'
  BY <1>2 DEF IInv, Told, HasRecords
<1> QED
  BY <1>6, <1>7, <1>8, <1>9, <1>10 DEF IInv

LEMMA CheckStep ==
  ASSUME IInv, CheckManifest
  PROVE  IInv'
<1>1. /\ pc = "check" /\ pc' = "plan" /\ at <= Len(Layout)
      /\ UNCHANGED <<file, saves, dryRun, at, plans, printed, renamed, late, said>>
  BY DEF CheckManifest
<1>2. PICK verdict \in [Declaring(file[at]) -> Verdict] : rows' = RowsOf(file[at], verdict)
  BY DEF CheckManifest
<1>3. PICK u \in SUBSET rows', b \in SUBSET rows' :
         /\ u = {r \in rows' : r.verdict = "undetermined"}
         /\ b = {r \in rows' : r.verdict \in {"update", "declined", "undetermined"}}
         /\ tally' = [tally EXCEPT !.unchecked = @ + Cardinality(u)]
         /\ behind' = behind + Cardinality(b)
  BY DEF CheckManifest
<1>4. at \in Manifest
  BY <1>1, Numbers DEF IInv
<1>5. file[at] \in Seq(Line)
  BY <1>4 DEF IInv, Typed, FixTypeOK
<1>6. /\ rows' \subseteq CheckRow /\ IsFiniteSet(rows')
      /\ \A r \in rows' : r.line # 0 /\ r.line <= Len(file[at])
      /\ \A r, s \in rows' : r.line = s.line => r = s
      /\ OwnTexts(file[at]) => \A r \in rows' : r.expected \in TextsOf[r.dep]
  BY <1>2, <1>5, RowsOfFacts
<1>7. /\ IsFiniteSet(u) /\ IsFiniteSet(b)
      /\ Cardinality(u) \in Nat /\ Cardinality(b) \in Nat
  BY <1>6, FS_Subset, FS_CardinalityType
<1>8. /\ tally' \in [left : Nat, unchecked : Nat, unread : Nat, total : Nat]
      /\ tally'.total = tally.total /\ tally'.left = tally.left
      /\ tally'.unread = tally.unread
      /\ tally'.unchecked = tally.unchecked + Cardinality(u)
      /\ behind' \in Nat
  <2>1. tally \in [left : Nat, unchecked : Nat, unread : Nat, total : Nat] /\ behind \in Nat
    BY DEF IInv, Typed, FixTypeOK
  <2> QED
    BY <1>3, <1>7, <2>1
<1>9. Typed'
  BY <1>1, <1>6, <1>8 DEF IInv, Typed, FixTypeOK
<1>10. Read'
  BY <1>1, <1>4, <1>6 DEF IInv, Read, Spans
<1>11. Spans'
  BY <1>1 DEF IInv, Spans
<1>12. Order'
  BY <1>1, <1>4, <1>8 DEF IInv, Order
<1>13. Told'
  <2>1. \/ behind' = 0 \/ tally'.unchecked > 0 \/ tally'.unread > 0 \/ tally'.left > 0
        \/ \E r \in rows' : r.verdict \in {"update", "declined"}
        \/ \E m \in Manifest : HasRecords(m)'
    <3>1. CASE \E r \in rows' : r.verdict \in {"update", "declined"}
      BY <3>1
    <3>2. CASE \A r \in rows' : r.verdict \notin {"update", "declined"}
      <4>1. b = u
        BY <1>3, <3>2
      <4>2. \A m \in Manifest : UNCHANGED HasRecords(m)
        BY <1>1 DEF HasRecords
      <4>3. rows = {}
        BY <1>1 DEF IInv, Order
      <4>4. \/ behind = 0 \/ tally.unchecked > 0 \/ tally.unread > 0 \/ tally.left > 0
            \/ \E m \in Manifest : HasRecords(m)
        BY <4>3 DEF IInv, Told
      <4>5. /\ tally.unchecked \in Nat /\ behind \in Nat
            /\ behind' = behind + Cardinality(b)
            /\ tally'.unchecked = tally.unchecked + Cardinality(u)
        BY <1>3, <1>8, Numbers DEF IInv
      <4>6. CASE Cardinality(u) = 0
        <5>1. behind' = behind /\ tally'.unchecked = tally.unchecked
          BY <4>1, <4>5, <4>6
        <5> QED
          BY <1>8, <4>2, <4>4, <5>1
      <4>7. CASE Cardinality(u) # 0
        BY <1>7, <4>5, <4>7
      <4> QED
        BY <4>6, <4>7
    <3> QED
      BY <3>1, <3>2
  <2>2. tally'.total = tally.total /\ pc' = "plan" /\ pc = "check"
    BY <1>1, <1>8
  <2>3. said' # "updated" /\ said' # "up to date"
    BY <1>1, FixAssumption DEF IInv, Order
  <2> QED
    BY <1>1, <2>1, <2>2, <2>3 DEF IInv, Told, HasRecords
<1> QED
  BY <1>9, <1>10, <1>11, <1>12, <1>13 DEF IInv

LEMMA UnreadStep ==
  ASSUME IInv, CheckUnread
  PROVE  IInv'
<1>1. /\ pc = "check" /\ pc' = "plan" /\ at <= Len(Layout) /\ rows' = {}
      /\ UNCHANGED <<file, saves, dryRun, at, plans, printed, renamed, late, said>>
      /\ tally' = [tally EXCEPT !.unread = @ + 1] /\ behind' = behind + 1
  BY DEF CheckUnread
<1>2. at \in Manifest
  BY <1>1, Numbers DEF IInv
<1>3. /\ tally' \in [left : Nat, unchecked : Nat, unread : Nat, total : Nat]
      /\ tally'.total = tally.total /\ tally'.unread > 0
      /\ behind' \in Nat
  <2>1. tally \in [left : Nat, unchecked : Nat, unread : Nat, total : Nat] /\ behind \in Nat
    BY DEF IInv, Typed, FixTypeOK
  <2> QED
    BY <1>1, <2>1
<1>4. Typed'
  BY <1>1, <1>3, FS_EmptySet DEF IInv, Typed, FixTypeOK
<1>5. Read'
  BY <1>1 DEF Read
<1>6. Spans'
  BY <1>1 DEF IInv, Spans
<1>7. Order'
  BY <1>1, <1>2, <1>3 DEF IInv, Order
<1>8. Told'
  <2>1. tally'.total = tally.total /\ tally'.unread > 0 /\ pc' = "plan" /\ pc = "check"
    BY <1>1, <1>3
  <2>2. said' # "updated" /\ said' # "up to date"
    BY <1>1, FixAssumption DEF IInv, Order
  <2> QED
    BY <1>1, <2>1, <2>2 DEF IInv, Told, HasRecords
<1> QED
  BY <1>4, <1>5, <1>6, <1>7, <1>8 DEF IInv

LEMMA PlanStep ==
  ASSUME IInv, PlanManifest
  PROVE  IInv'
<1> DEFINE content == file[at]
           plan == [original |-> content, updated |-> Spliced(content, Edits),
                    records |-> Edits]
           declined == {r \in rows : r.verdict = "declined"}
<1>1. /\ pc = "plan" /\ pc' = "check" /\ rows' = {} /\ at' = at + 1
      /\ SpansHold(content, Edits)
      /\ plans' = [plans EXCEPT ![at] = plan]
      /\ tally' = [tally EXCEPT !.left = @ + Cardinality(declined)]
      /\ UNCHANGED <<file, saves, dryRun, printed, renamed, behind, late, said>>
  BY DEF PlanManifest
<1>2. /\ at \in Manifest /\ content \in Seq(Line)
      /\ rows \subseteq CheckRow /\ IsFiniteSet(rows)
      /\ plans \in [Manifest -> FixPlan \cup {Nothing}]
  BY <1>1 DEF IInv, Order, Typed, FixTypeOK
<1>3. /\ Edits \in SUBSET CheckRow /\ Edits \in SUBSET rows /\ IsFiniteSet(Edits)
      /\ \A r, s \in Edits : r.line = s.line => r = s
      /\ \A r \in Edits : r.line # 0
      /\ Distinct => \A r \in Edits : r.expected \in TextsOf[r.dep]
      /\ NeverCut => \A r \in Edits : r.line <= Len(content)
  BY <1>1, <1>2, FS_Subset DEF Edits, IInv, Read
<1>4. IsFiniteSet(declined) /\ Cardinality(declined) \in Nat
  BY <1>2, FS_Subset, FS_CardinalityType
<1>5. plan \in FixPlan /\ plan # Nothing
  <2>1. plan \in FixPlan
    BY <1>2, <1>3, SplicedType DEF FixPlan
  <2> QED
    BY <2>1, FixAssumption
<1>6. /\ plans' \in [Manifest -> FixPlan \cup {Nothing}] /\ plans'[at] = plan
      /\ \A m \in Manifest \ {at} : plans'[m] = plans[m]
  BY <1>1, <1>2, <1>5
<1>7. /\ tally' \in [left : Nat, unchecked : Nat, unread : Nat, total : Nat]
      /\ tally'.total = tally.total /\ tally'.unchecked = tally.unchecked
      /\ tally'.unread = tally.unread
      /\ tally'.left = tally.left + Cardinality(declined)
  <2>1. tally \in [left : Nat, unchecked : Nat, unread : Nat, total : Nat]
    BY DEF IInv, Typed, FixTypeOK
  <2> QED
    BY <1>1, <1>4, <2>1
<1>8. /\ at' \in 1 .. Len(Layout) + 1
      /\ \A m \in Manifest : m >= at' => m >= at /\ m # at
  BY <1>1, <1>2, Numbers DEF IInv
<1>9. Typed'
  BY <1>1, <1>3, <1>5, <1>6, <1>7, <1>8, FS_EmptySet DEF IInv, Typed, FixTypeOK
<1>10. Read'
  BY <1>1 DEF Read
<1>11. Spans'
  <2>1. ASSUME Distinct PROVE OwnTexts(plan.updated)
    BY <1>1, <1>2, <1>3, <2>1, SplicedOwn DEF IInv, Spans
  <2>2. ASSUME NeverCut, NEW r \in plan.records
        PROVE  /\ r.line \in Declaring(plan.updated)
               /\ plan.updated[r.line].says = FixedText[r.dep]
    BY <1>1, <1>2, <1>3, <2>2, SplicedSays
  <2> HIDE DEF plan
  <2> QED
    BY <1>1, <1>6, <2>1, <2>2 DEF IInv, Spans
<1>12. Order'
  BY <1>1, <1>6, <1>7, <1>8 DEF IInv, Order
<1>13. HasRecords(at) = FALSE /\ \A m \in Manifest \ {at} : UNCHANGED HasRecords(m)
  <2>1. plans[at] = Nothing
    BY <1>1, <1>2, Numbers DEF IInv, Order
  <2> QED
    BY <1>6, <2>1 DEF HasRecords
<1>14. \/ behind' = 0 \/ tally'.unchecked > 0 \/ tally'.unread > 0 \/ tally'.left > 0
       \/ \E m \in Manifest : plans'[m] # Nothing /\ plans'[m].records # {}
  <2>1. CASE \E r \in rows : r.verdict = "update"
    BY <1>2, <1>5, <1>6, <2>1 DEF Edits
  <2>2. CASE declined # {}
    <3>1. Cardinality(declined) # 0
      BY <1>4, <2>2, FS_EmptySet
    <3> QED
      BY <1>4, <1>7, <3>1, Numbers DEF IInv
  <2>3. CASE ~(\E r \in rows : r.verdict = "update") /\ declined = {}
    <3>1. ~(\E r \in rows : r.verdict \in {"update", "declined"})
      BY <2>3
    <3>2. \/ behind = 0 \/ tally.unchecked > 0 \/ tally.unread > 0 \/ tally.left > 0
          \/ \E m \in Manifest : HasRecords(m)
      BY <3>1 DEF IInv, Told
    <3>3. (\E m \in Manifest : HasRecords(m)) =>
              \E m \in Manifest : plans'[m] # Nothing /\ plans'[m].records # {}
      BY <1>6, <1>13 DEF HasRecords
    <3>4. tally'.left = tally.left
      <4>1. Cardinality(declined) = 0 /\ tally.left \in Nat
        BY <2>3, FS_EmptySet, Numbers DEF IInv
      <4> QED
        BY <1>7, <4>1
    <3>5. /\ behind' = behind /\ tally'.unchecked = tally.unchecked
          /\ tally'.unread = tally.unread
      BY <1>1, <1>7
    <3> QED
      BY <3>2, <3>3, <3>4, <3>5
  <2> QED
    BY <2>1, <2>2, <2>3
<1>15. Told'
  <2>1. tally'.total = tally.total /\ pc' = "check" /\ pc = "plan" /\ printed' = {}
    BY <1>1, <1>7 DEF IInv, Order
  <2>2. said' # "updated" /\ said' # "up to date"
    BY <1>1, FixAssumption DEF IInv, Order
  <2> QED
    BY <1>1, <1>14, <2>1, <2>2 DEF IInv, Told, HasRecords
<1> QED
  BY <1>9, <1>10, <1>11, <1>12, <1>15 DEF IInv

LEMMA ReportStep ==
  ASSUME IInv, Report
  PROVE  IInv'
<1>1. /\ pc \in {"commit", "print"} /\ pc' = "commit" /\ at' = at + 1
      /\ printed' = printed \cup {at}
      /\ tally' = [tally EXCEPT !.total = @ + Cardinality(plans[at].records)]
      /\ UNCHANGED <<file, saves, dryRun, rows, plans, renamed, behind, late, said>>
  BY DEF Report
<1>2. at \in Manifest /\ HasRecords(at) /\ (dryRun = (pc = "commit"))
  <2>1. CASE pc = "print"
    BY <2>1 DEF IInv, Order, Typed, FixTypeOK
  <2>2. CASE pc = "commit"
    <3>1. at <= Len(Layout) /\ HasRecords(at) /\ dryRun
      BY <2>2 DEF Report
    <3> QED
      BY <2>2, <3>1, Numbers DEF IInv
  <2> QED
    BY <1>1, <2>1, <2>2
<1>3. Cardinality(plans[at].records) \in Nat \ {0}
  <2>1. IsFiniteSet(plans[at].records) /\ plans[at].records # {}
    BY <1>2 DEF IInv, Typed, HasRecords
  <2> QED
    BY <2>1, FS_EmptySet, FS_CardinalityType
<1>4. /\ tally' \in [left : Nat, unchecked : Nat, unread : Nat, total : Nat]
      /\ tally'.total > 0 /\ tally'.unchecked = tally.unchecked
      /\ tally'.unread = tally.unread /\ tally'.left = tally.left
  <2>1. tally \in [left : Nat, unchecked : Nat, unread : Nat, total : Nat]
    BY DEF IInv, Typed, FixTypeOK
  <2> QED
    BY <1>1, <1>3, <2>1
<1>5. at' \in 1 .. Len(Layout) + 1
  BY <1>1, <1>2, Numbers DEF IInv
<1>6. Typed'
  BY <1>1, <1>2, <1>4, <1>5 DEF IInv, Typed, FixTypeOK
<1>7. Read'
  BY <1>1 DEF IInv, Read
<1>8. Spans'
  BY <1>1 DEF IInv, Spans
<1>9. Order'
  <2>1. rows = {} /\ said = Nothing
    BY <1>1 DEF IInv, Order
  <2> QED
    BY <1>1, <2>1 DEF Order
<1>10. Told'
  <2>1. renamed' = IF dryRun THEN {} ELSE printed'
    BY <1>1, <1>2 DEF IInv, Told
  <2>2. \A m \in printed' : HasRecords(m)'
    BY <1>1, <1>2 DEF IInv, Told, HasRecords
  <2>3. \/ behind' = 0 \/ tally'.unchecked > 0 \/ tally'.unread > 0 \/ tally'.left > 0
        \/ \E r \in rows' : r.verdict \in {"update", "declined"}
        \/ \E m \in Manifest : HasRecords(m)'
    BY <1>1, <1>4 DEF IInv, Told, HasRecords
  <2>4. said' # "updated" /\ said' # "up to date"
    BY <1>1, FixAssumption DEF IInv, Order
  <2>5. printed' # {} /\ tally'.total > 0 /\ pc' = "commit" /\ dryRun' = dryRun
    BY <1>1, <1>4
  <2> QED
    BY <2>1, <2>2, <2>3, <2>4, <2>5 DEF Told
<1> QED
  BY <1>6, <1>7, <1>8, <1>9, <1>10 DEF IInv

LEMMA RenameStep ==
  ASSUME IInv, Rename
  PROVE  IInv'
<1>1. /\ pc = "write" /\ pc' = "print"
      /\ file' = [file EXCEPT ![at] = plans[at].updated]
      /\ renamed' = renamed \cup {at}
      /\ UNCHANGED <<saves, dryRun, at, rows, plans, tally, printed, behind, late, said>>
  BY DEF Rename
<1>2. at \in Manifest /\ HasRecords(at) /\ ~dryRun
  BY <1>1 DEF IInv, Order
<1>3. /\ plans[at] \in FixPlan
      /\ file \in [Manifest -> Seq(Line)]
  BY <1>2 DEF IInv, Typed, FixTypeOK, HasRecords
<1>4. plans[at].updated \in Seq(Line)
  BY <1>3 DEF FixPlan
<1>5. /\ file' \in [Manifest -> Seq(Line)] /\ file'[at] = plans[at].updated
      /\ \A m \in Manifest \ {at} : file'[m] = file[m]
  BY <1>1, <1>2, <1>3, <1>4
<1>6. Typed'
  BY <1>1, <1>2, <1>5 DEF IInv, Typed, FixTypeOK
<1>7. Read'
  BY <1>1 DEF IInv, Read
<1>8. Spans'
  <2>1. Distinct => OwnTexts(plans[at].updated)
    BY <1>2 DEF IInv, Spans, HasRecords
  <2> QED
    BY <1>1, <1>5, <2>1 DEF IInv, Spans
<1>9. Order'
  <2>1. rows = {} /\ said = Nothing
    BY <1>1 DEF IInv, Order
  <2> QED
    BY <1>1, <1>2, <2>1 DEF Order, HasRecords
<1>10. Told'
  <2>1. renamed' = printed' \cup {at'}
    BY <1>1, <1>2 DEF IInv, Told
  <2> QED
    BY <1>1, <1>2, <2>1 DEF IInv, Told, HasRecords
<1> QED
  BY <1>6, <1>7, <1>8, <1>9, <1>10 DEF IInv

LEMMA FinishStep ==
  ASSUME IInv, Finish
  PROVE  IInv'
<1>1. /\ pc = "commit" /\ at > Len(Layout) /\ pc' = "done"
      /\ UNCHANGED <<file, saves, dryRun, at, rows, plans, tally, printed, renamed,
                     behind, late>>
  BY DEF Finish
<1>2. /\ said' = "up to date" => UpToDate
      /\ said' = "updated" => tally.total > 0 /\ ~dryRun
      /\ said' \in {"up to date", "nothing to rewrite", "updated", Nothing}
  <2>1. tally.total = 0 \/ tally.total > 0
    BY Numbers DEF IInv
  <2>2. UpToDate => tally.total = 0 /\ ~(tally.total > 0)
    BY DEF UpToDate
  <2>3. CASE UpToDate
    BY <2>2, <2>3 DEF Finish
  <2>4. CASE ~UpToDate /\ tally.total = 0
    <3>1. ~(tally.total > 0)
      BY <2>4
    <3>2. said' = "nothing to rewrite"
      BY <2>4, <3>1 DEF Finish
    <3> QED
      BY <3>2
  <2>5. CASE ~UpToDate /\ tally.total > 0
    <3>1. tally.total # 0
      BY <2>5
    <3>2. said' = IF dryRun THEN Nothing ELSE "updated"
      BY <2>5, <3>1 DEF Finish
    <3> QED
      BY <2>5, <3>2, FixAssumption
  <2> QED
    BY <2>1, <2>3, <2>4, <2>5
<1>3. Typed' /\ Read' /\ Spans'
  <2>1. late' \in BOOLEAN /\ at' \in 1 .. Len(Layout) + 1
        /\ printed' \subseteq Manifest /\ renamed' \subseteq Manifest
    BY <1>1 DEF IInv, Typed, FixTypeOK
  <2> QED
    BY <1>1, <1>2, <2>1, Moved DEF Ended
<1>4. Order'
  BY <1>1 DEF IInv, Order
<1>5. said' = "up to date" => behind = 0
  <2> SUFFICES ASSUME UpToDate PROVE behind = 0
    BY <1>2
  <2>1. \A m \in Manifest : m < at
    BY <1>1, Numbers DEF IInv
  <2>2. ~(tally.total > 0) /\ ~(tally.left > 0) /\ ~(tally.unchecked > 0) /\ ~(tally.unread > 0)
    BY DEF UpToDate
  <2>3. \A m \in Manifest : ~HasRecords(m)
    BY <1>1, <2>1, <2>2 DEF IInv, Told
  <2>4. rows = {}
    BY <1>1 DEF IInv, Order
  <2> QED
    BY <2>2, <2>3, <2>4 DEF IInv, Told
<1>6. Told'
  BY <1>1, <1>2, <1>5 DEF IInv, Told, HasRecords
<1> QED
  BY <1>3, <1>4, <1>6 DEF IInv

LEMMA InvStep == IInv /\ [FixNext]_fixVars => IInv'
<1> SUFFICES ASSUME IInv, [FixNext]_fixVars PROVE IInv'
  OBVIOUS
<1>1. CASE UNCHANGED fixVars
  <2>1. Typed' /\ Read' /\ Spans'
    BY <1>1 DEF fixVars, IInv, Typed, FixTypeOK, Read, Spans
  <2>2. Order' /\ Told'
    BY <1>1 DEF fixVars, IInv, Order, Told, HasRecords
  <2> QED
    BY <2>1, <2>2 DEF IInv
<1> QED
  BY <1>1, CheckStep, UnreadStep, Walks, Stops, PlanStep, ReportStep, RenameStep,
     FinishStep, SaveStep DEF FixNext, Over

LEMMA Invariant == FixSpec => []IInv
  BY InitInv, InvStep, PTL DEF FixSpec

-----------------------------------------------------------------------------
(* The run, its plans, its counters and the files keep their types.        *)
THEOREM FixTypeCorrect == FixSpec => []FixTypeOK
<1>1. IInv => FixTypeOK
  BY DEF IInv, Typed
<1> QED
  BY <1>1, Invariant, PTL

(* However a run ends short of a kill, what it reported is what it wrote;  *)
(* a dry run writes nothing; and it calls nothing up to date that it       *)
(* declined, could not compare or never read.                              *)
THEOREM ReportIsTrue == FixSpec => []ReportMatchesWrites
<1>1. IInv => ReportMatchesWrites
  <2> SUFFICES ASSUME IInv PROVE ReportMatchesWrites
    OBVIOUS
  <2>1. pc \in {"done", "failed"} => renamed = IF dryRun THEN {} ELSE printed
    BY DEF IInv, Told
  <2>2. said = "updated" => \E m \in renamed : HasRecords(m)
    <3> SUFFICES ASSUME said = "updated" PROVE \E m \in renamed : HasRecords(m)
      OBVIOUS
    <3>1. pc = "done"
      BY FixAssumption DEF IInv, Order
    <3> QED
      BY <2>1, <3>1 DEF IInv, Told
  <2>3. said = "up to date" => behind = 0
    BY DEF IInv, Told
  <2> QED
    BY <2>1, <2>2, <2>3 DEF ReportMatchesWrites
<1> QED
  BY <1>1, Invariant, PTL

(* A rename replaces the very reading its plan was made of, but for a save *)
(* that falls between the comparison and the rename.                       *)
THEOREM SavesSurvive == FixSpec => OverwritesOnlyPlanned
<1>1. IInv /\ [FixNext]_fixVars =>
        [\A m \in Manifest :
            m \in renamed' \ renamed => file[m] = plans[m].original \/ late]_fixVars
  <2> SUFFICES ASSUME IInv, FixNext, NEW m \in Manifest, m \in renamed' \ renamed
               PROVE  file[m] = plans[m].original \/ late
    OBVIOUS
  <2>1. Rename
    BY DEF FixNext, CheckManifest, CheckUnread, SkipManifest, FailCheck, PlanManifest,
           FailPlan, AllPlanned, PassOver, Report, Reread, RefuseCommit, FailWrite,
           Finish, Save, Kill, Over, Fail, fixVars
  <2>2. m = at /\ pc = "write"
    BY <2>1 DEF Rename
  <2> QED
    BY <2>2 DEF IInv, Order
<1> QED
  BY <1>1, Invariant, PTL DEF FixSpec, OverwritesOnlyPlanned

(* Where no two dependencies are written alike and no editor shortens a    *)
(* file, a dependency never says another's version, on the disk or in a    *)
(* plan, and every printed change is in what was written.  Both hypotheses *)
(* are needed: an edit is guarded by the text at its line alone            *)
(* (fix.rs:949), and one past the end is dropped (fix.rs:937).             *)
THEOREM NoForeignVersion == Distinct /\ NeverCut => (FixSpec => []OwnVersionOnly)
<1> SUFFICES ASSUME Distinct, NeverCut PROVE FixSpec => []OwnVersionOnly
  OBVIOUS
<1>1. IInv => OwnVersionOnly
  <2> SUFFICES ASSUME IInv PROVE OwnVersionOnly
    OBVIOUS
  <2>1. \A m \in printed : m \in Manifest /\ plans[m] # Nothing
    BY DEF IInv, Typed, FixTypeOK, Told, HasRecords
  <2> QED
    BY <2>1 DEF IInv, Spans, OwnVersionOnly
<1> QED
  BY <1>1, Invariant, PTL

-----------------------------------------------------------------------------
(***************************************************************************)
(* Upgrade.                                                                *)
(***************************************************************************)
(* The operators whose rewrite raises a floor.  The others name a ceiling  *)
(* or exclude what they name, and are rewritten all the same (fix.rs:839). *)
FloorsOnly == Ops \subseteq {"", "^", "~", "=", ">="}

-----------------------------------------------------------------------------
(* Versions and the components an author writes.                           *)
LEMMA PartIsNat == Part \subseteq Nat /\ 0 \in Part
BY ConstraintAssumption DEF Part

LEMMA VersionShape ==
  ASSUME NEW v \in Version
  PROVE  /\ v[1] \in Part /\ v[2] \in Part /\ v[3] \in Part
         /\ v = <<v[1], v[2], v[3]>>
BY DEF Version

LEMMA PartsShape ==
  ASSUME NEW p \in Parts
  PROVE  /\ Len(p) \in 0 .. 3 /\ DOMAIN p = 1 .. Len(p)
         /\ \A i \in 1 .. Len(p) : p[i] \in Part
<1>1. PICK n \in 0 .. 3 : p \in [1 .. n -> Part]
  BY DEF Parts
<1>2. p \in Seq(Part) /\ DOMAIN p = 1 .. n
  BY <1>1
<1>3. Len(p) = n
  BY <1>2
<1> QED
  BY <1>1, <1>2, <1>3

LEMMA FullOrPartial ==
  ASSUME NEW p \in Parts
  PROVE  Len(p) < 3 \/ Len(p) = 3
BY PartsShape

LEMMA VersionIsParts ==
  ASSUME NEW v \in Version
  PROVE  v \in Parts /\ Len(v) = 3 /\ DOMAIN v = 1 .. 3
<1>1. v = <<v[1], v[2], v[3]>> /\ v[1] \in Part /\ v[2] \in Part /\ v[3] \in Part
  BY VersionShape
<1>2. <<v[1], v[2], v[3]>> \in [1 .. 3 -> Part]
  BY <1>1
<1>3. v \in [1 .. 3 -> Part]
  BY <1>1, <1>2
<1>4. v \in Parts
  BY <1>3 DEF Parts
<1> QED
  BY <1>1, <1>3, <1>4

LEMMA FloorIsVersion ==
  ASSUME NEW p \in Parts
  PROVE  /\ Floor(p) \in Version
         /\ \A i \in 1 .. 3 : Floor(p)[i] = IF i <= Len(p) THEN p[i] ELSE 0
<1> DEFINE f == Floor(p)
<1>1. \A i \in 1 .. 3 : f[i] = IF i <= Len(p) THEN p[i] ELSE 0
  BY DEF Floor
<1>2. \A i \in 1 .. 3 : f[i] \in Part
  BY <1>1, PartsShape, PartIsNat
<1>3. f \in [1 .. 3 -> Part]
  BY <1>2 DEF Floor
<1>4. f = <<f[1], f[2], f[3]>>
  <2> HIDE DEF f
  <2> QED
    BY <1>3
<1> QED
  BY <1>1, <1>2, <1>4 DEF Version

LEMMA FloorOfVersion ==
  ASSUME NEW v \in Version
  PROVE  Floor(v) = v
<1>1. v \in Parts /\ Len(v) = 3
  BY VersionIsParts
<1>2. /\ Floor(v) \in Version
      /\ Floor(v)[1] = v[1] /\ Floor(v)[2] = v[2] /\ Floor(v)[3] = v[3]
  BY <1>1, FloorIsVersion
<1> QED
  BY <1>2, VersionShape

-----------------------------------------------------------------------------
(* The order of versions.                                                  *)
LEMMA AtMostOrders ==
  ASSUME NEW u \in Version, NEW v \in Version, NEW w \in Version
  PROVE  /\ AtMost(v, v)
         /\ AtMost(u, v) /\ AtMost(v, w) => AtMost(u, w)
         /\ AtMost(u, v) \/ AtMost(v, u)
         /\ AtMost(u, v) /\ AtMost(v, u) => u = v
<1>1. \A x \in {u, v, w} : x[1] \in Nat /\ x[2] \in Nat /\ x[3] \in Nat
  BY VersionShape, PartIsNat
<1>2. \A x, y \in {u, v, w} : x = y <=> x[1] = y[1] /\ x[2] = y[2] /\ x[3] = y[3]
  BY VersionShape
<1> QED
  BY <1>1, <1>2 DEF AtMost, Older

(* The largest of a set of bounded naturals.                               *)
LEMMA LargestPart ==
  ASSUME NEW T, T \subseteq Part, T # {}
  PROVE  \E x \in T : \A y \in T : y <= x
<1>1. MaxPart \in Nat /\ \A y \in T : y \in 0 .. MaxPart
  BY ConstraintAssumption DEF Part
<1> DEFINE D == {MaxPart - y : y \in T}
<1>2. D \subseteq Nat /\ D # {}
  BY <1>1
<1>3. PICK d \in D : \A z \in D : d <= z
  <2> HIDE DEF D
  <2> QED
    BY <1>2, LeastNat
<1>4. PICK x \in T : d = MaxPart - x
  BY <1>3
<1>5. ASSUME NEW y \in T PROVE y <= x
  <2>1. d <= MaxPart - y
    BY <1>3
  <2>2. x \in 0 .. MaxPart /\ y \in 0 .. MaxPart
    BY <1>1
  <2> QED
    BY <1>1, <1>4, <2>1, <2>2
<1> QED
  BY <1>5

LEMMA NewestIsNewest ==
  ASSUME NEW S, S \subseteq Version, S # {}
  PROVE  Newest(S) \in S /\ \A w \in S : AtMost(w, Newest(S))
<1> DEFINE A == {v[1] : v \in S}
<1>1. A \subseteq Part /\ A # {}
  BY VersionShape
<1>2. PICK a \in A : \A y \in A : y <= a
  <2> HIDE DEF A
  <2> QED
    BY <1>1, LargestPart
<1> DEFINE B == {v[2] : v \in {w \in S : w[1] = a}}
<1>3. B \subseteq Part /\ B # {}
  BY <1>2, VersionShape
<1>4. PICK b \in B : \A y \in B : y <= b
  <2> HIDE DEF B
  <2> QED
    BY <1>3, LargestPart
<1> DEFINE C == {v[3] : v \in {w \in S : w[1] = a /\ w[2] = b}}
<1>5. C \subseteq Part /\ C # {}
  BY <1>4, VersionShape
<1>6. PICK c \in C : \A y \in C : y <= c
  <2> HIDE DEF C
  <2> QED
    BY <1>5, LargestPart
<1>7. PICK v \in S : v[1] = a /\ v[2] = b /\ v[3] = c
  BY <1>6
<1>8. ASSUME NEW w \in S PROVE AtMost(w, v)
  <2>1. v = <<v[1], v[2], v[3]>> /\ w = <<w[1], w[2], w[3]>>
    BY VersionShape
  <2>2. /\ v[1] \in Nat /\ v[2] \in Nat /\ v[3] \in Nat
        /\ w[1] \in Nat /\ w[2] \in Nat /\ w[3] \in Nat
    BY VersionShape, PartIsNat
  <2>3. w[1] <= a /\ (w[1] = a => w[2] <= b) /\ (w[1] = a /\ w[2] = b => w[3] <= c)
    BY <1>2, <1>4, <1>6
  <2> QED
    BY <1>7, <2>1, <2>2, <2>3 DEF AtMost, Older
<1> QED
  BY <1>7, <1>8 DEF Newest

-----------------------------------------------------------------------------
(* The component a caret keys its bound off.                               *)
Key(p, k) ==
  /\ k \in DOMAIN p /\ p[k] # 0
  /\ \A j \in 1 .. k - 1 : p[j] = 0

LEMMA CaretKeyed ==
  ASSUME NEW p \in Parts, ~AllZero(p)
  PROVE  Key(p, CaretKey(p))
<1>1. /\ Len(p) \in 0 .. 3 /\ DOMAIN p = 1 .. Len(p)
      /\ \A i \in 1 .. Len(p) : p[i] \in Nat
  BY PartsShape, PartIsNat
<1>2. PICK i \in DOMAIN p : p[i] # 0
  BY DEF AllZero
<1>3. \E k \in DOMAIN p : Key(p, k)
  <2>1. CASE p[1] # 0
    BY <1>1, <1>2, <2>1 DEF Key
  <2>2. CASE p[1] = 0 /\ Len(p) >= 2 /\ p[2] # 0
    BY <1>1, <2>2 DEF Key
  <2>3. CASE p[1] = 0 /\ ~(Len(p) >= 2 /\ p[2] # 0)
    <3>1. i = 3 /\ Len(p) = 3 /\ p[2] = 0
      BY <1>1, <1>2, <2>3
    <3> QED
      BY <1>1, <1>2, <2>3, <3>1 DEF Key
  <2> QED
    BY <2>1, <2>2, <2>3
<1> QED
  BY <1>3 DEF CaretKey, Key

LEMMA KeyIsCaretKey ==
  ASSUME NEW p \in Parts, NEW k, Key(p, k)
  PROVE  CaretKey(p) = k /\ ~AllZero(p)
<1>1. DOMAIN p = 1 .. Len(p) /\ Len(p) \in 0 .. 3
  BY PartsShape
<1>2. ~AllZero(p)
  BY DEF Key, AllZero
<1>3. Key(p, CaretKey(p))
  BY <1>2, CaretKeyed
<1>4. CaretKey(p) \in 1 .. 3 /\ k \in 1 .. 3
  BY <1>1, <1>3 DEF Key
<1> QED
  BY <1>2, <1>3, <1>4 DEF Key

-----------------------------------------------------------------------------
(* What a constraint that no guard refuses looks like.                     *)
(* The reasons, in the order of the guards.                                *)
LEMMA GuardReasons ==
  ASSUME NEW e, NEW c
  PROVE  /\ DOMAIN Guards(e, c) = 1 .. 13
         /\ \A i \in 1 .. 13 : Guards(e, c)[i].reason \in ShapeReason
<1> DEFINE g == Guards(e, c)
<1>1. DOMAIN g = 1 .. 13
  BY DEF Guards
<1>2. /\ g[1].reason = "CommaRange" /\ g[2].reason = "MultiClause"
      /\ g[3].reason = "DistTag" /\ g[4].reason = "Interval"
      /\ g[5].reason = "WildcardOperator" /\ g[6].reason = "WildcardPins"
      /\ g[7].reason = "WildcardUnbounds" /\ g[8].reason = "WildcardShape"
      /\ g[9].reason = "CaretBoundNarrows" /\ g[10].reason = "PartialVersion"
      /\ g[11].reason = "CaretBoundNarrows" /\ g[12].reason = "EqualsPartial"
      /\ g[13].reason = "TildeArity"
  BY DEF Guards
<1> HIDE DEF g
<1>3. \A i \in 1 .. 13 : g[i].reason \in ShapeReason
  <2> TAKE i \in 1 .. 13
  <2>1. i \in {1, 2, 3, 4, 5, 6, 7, 8, 9, 10, 11, 12, 13}
    OBVIOUS
  <2> QED
    BY <1>2, <2>1 DEF ShapeReason
<1> QED
  BY <1>1, <1>3 DEF g

(* When each of them fires.                                                *)
LEMMA GuardsFire ==
  ASSUME NEW e, NEW c
  PROVE  /\ Guards(e, c)[1].when <=> c.form = "comma"
         /\ Guards(e, c)[2].when <=> c.form = "clauses"
         /\ Guards(e, c)[3].when <=> c.form = "tag"
         /\ Guards(e, c)[4].when <=> c.form = "interval"
         /\ Guards(e, c)[5].when <=> IsWildcard(c) /\ c.op # ""
         /\ Guards(e, c)[6].when <=> IsWildcard(c) /\ BareVersion(e) = "exact"
         /\ Guards(e, c)[7].when <=> IsWildcard(c) /\ BareVersion(e) = "minimum"
         /\ Guards(e, c)[8].when <=> IsWildcard(c) /\ Len(c.parts) # 1
         /\ Guards(e, c)[9].when <=> IsWildcard(c) /\ ~CaretBoundSurvives(c.parts)
         /\ Guards(e, c)[10].when <=> IsPartialVersion(c) /\ c.op = "" /\ BareVersion(e) = "exact"
         /\ Guards(e, c)[11].when <=> 
            /\ IsPartialVersion(c)
            /\ c.op = "^" \/ (c.op = "" /\ BareVersion(e) = "caret")
            /\ ~CaretBoundSurvives(c.parts)
         /\ Guards(e, c)[12].when <=> IsPartialVersion(c) /\ c.op = "="
         /\ Guards(e, c)[13].when <=> IsPartialVersion(c) /\ c.op = "~"
<1>1. Guards(e, c)[1].when <=> c.form = "comma"
  BY DEF Guards
<1>2. Guards(e, c)[2].when <=> c.form = "clauses"
  BY DEF Guards
<1>3. Guards(e, c)[3].when <=> c.form = "tag"
  BY DEF Guards
<1>4. Guards(e, c)[4].when <=> c.form = "interval"
  BY DEF Guards
<1>5. Guards(e, c)[5].when <=> IsWildcard(c) /\ c.op # ""
  BY DEF Guards
<1>6. Guards(e, c)[6].when <=> IsWildcard(c) /\ BareVersion(e) = "exact"
  BY DEF Guards
<1>7. Guards(e, c)[7].when <=> IsWildcard(c) /\ BareVersion(e) = "minimum"
  BY DEF Guards
<1>8. Guards(e, c)[8].when <=> IsWildcard(c) /\ Len(c.parts) # 1
  BY DEF Guards
<1>9. Guards(e, c)[9].when <=> IsWildcard(c) /\ ~CaretBoundSurvives(c.parts)
  BY DEF Guards
<1>10. Guards(e, c)[10].when <=> IsPartialVersion(c) /\ c.op = "" /\ BareVersion(e) = "exact"
  BY DEF Guards
<1>11. Guards(e, c)[11].when <=>
        /\ IsPartialVersion(c)
        /\ c.op = "^" \/ (c.op = "" /\ BareVersion(e) = "caret")
        /\ ~CaretBoundSurvives(c.parts)
  BY DEF Guards
<1>12. Guards(e, c)[12].when <=> IsPartialVersion(c) /\ c.op = "="
  BY DEF Guards
<1>13. Guards(e, c)[13].when <=> IsPartialVersion(c) /\ c.op = "~"
  BY DEF Guards
<1> QED
  BY <1>1, <1>2, <1>3, <1>4, <1>5, <1>6, <1>7, <1>8, <1>9, <1>10, <1>11, <1>12, <1>13

(* A refusal is one of the reasons about a shape, and None stands for no   *)
(* guard having fired.                                                     *)
LEMMA RefusalHits ==
  ASSUME NEW e, NEW c
  PROVE  /\ Refusal(e, c) # None => Refusal(e, c) \in ShapeReason
         /\ Refusal(e, c) = None => \A i \in 1 .. 13 : ~Guards(e, c)[i].when
<1> DEFINE g == Guards(e, c)
           hit == {i \in DOMAIN g : g[i].when}
           least == CHOOSE i \in hit : \A j \in hit : i <= j
<1>1. DOMAIN g = 1 .. 13 /\ \A i \in 1 .. 13 : g[i].reason \in ShapeReason
  BY GuardReasons
<1>2. Refusal(e, c) = IF hit = {} THEN None ELSE g[least].reason
  BY DEF Refusal
<1>3. hit # {} => least \in hit
  <2> HIDE DEF g
  <2>1. hit \subseteq Nat
    BY <1>1
  <2> HIDE DEF hit
  <2> QED
    BY <2>1, LeastNat
<1>4. hit # {} => g[least].reason \in ShapeReason
  <2> HIDE DEF g, least
  <2> QED
    BY <1>1, <1>3
<1>5. None \notin ShapeReason
  BY NoneAssumption
<1>6. hit = {} => \A i \in 1 .. 13 : ~g[i].when
  <2> HIDE DEF g
  <2> QED
    BY <1>1
<1> HIDE DEF g, least, hit
<1>7. /\ Refusal(e, c) # None => Refusal(e, c) \in ShapeReason
      /\ Refusal(e, c) = None => \A i \in 1 .. 13 : ~g[i].when
  BY <1>2, <1>4, <1>5, <1>6
<1> QED
  BY <1>7 DEF g

(* The shapes that are rewritten.                                          *)
Movable(e, c) ==
  /\ c \in Comparator
  /\ c.wild => /\ c.op = "" /\ BareVersion(e) = "caret"
               /\ Len(c.parts) = 1 /\ ~AllZero(c.parts)
  /\ ~c.wild /\ Len(c.parts) < 3 =>
       /\ c.op \notin {"=", "~"}
       /\ c.op = "" => BareVersion(e) # "exact"
       /\ c.op = "^" \/ (c.op = "" /\ BareVersion(e) = "caret") => ~AllZero(c.parts)

LEMMA ComparatorShape ==
  ASSUME NEW c \in Comparator
  PROVE  /\ c.form = "single" /\ c.op \in Op /\ c.parts \in Parts /\ c.wild \in BOOLEAN
         /\ c = [form |-> "single", op |-> c.op, parts |-> c.parts, wild |-> c.wild]
         /\ c.wild => Len(c.parts) < 3
         /\ Len(c.parts) = 0 => c.wild /\ c.op = ""
BY DEF Comparator

LEMMA ConstraintForms ==
  ASSUME NEW c \in Constraint
  PROVE  /\ c.form \in {"single", "comma", "clauses", "interval", "tag"}
         /\ c.form = "single" <=> c \in Comparator
<1>1. CASE c \in Comparator
  BY <1>1, ComparatorShape
<1>2. CASE c \in Span
  BY <1>2 DEF Span, Comparator
<1>3. CASE c \in Interval
  BY <1>3 DEF Interval, Comparator
<1>4. CASE c = Tag
  BY <1>4 DEF Tag, Comparator
<1> QED
  BY <1>1, <1>2, <1>3, <1>4 DEF Constraint

LEMMA NotRefused ==
  ASSUME NEW e \in Ecosystem, NEW c \in Constraint, Refusal(e, c) = None
  PROVE  Movable(e, c)
<1>1. \A i \in 1 .. 13 : ~Guards(e, c)[i].when
  BY RefusalHits
<1>2. /\ ~Guards(e, c)[1].when /\ ~Guards(e, c)[2].when /\ ~Guards(e, c)[3].when
      /\ ~Guards(e, c)[4].when /\ ~Guards(e, c)[5].when /\ ~Guards(e, c)[6].when
      /\ ~Guards(e, c)[7].when /\ ~Guards(e, c)[8].when /\ ~Guards(e, c)[9].when
      /\ ~Guards(e, c)[10].when /\ ~Guards(e, c)[11].when /\ ~Guards(e, c)[12].when
      /\ ~Guards(e, c)[13].when
  BY <1>1
<1>3. c.form \notin {"comma", "clauses", "tag", "interval"}
  BY <1>2, GuardsFire
<1>4. c \in Comparator
  BY <1>3, ConstraintForms
<1>5. BareVersion(e) \in {"caret", "exact", "minimum"}
  BY DEF BareVersion, Ecosystem
<1>6. IsWildcard(c) = c.wild /\ (IsPartialVersion(c) <=> ~c.wild /\ Len(c.parts) < 3)
  BY <1>4, ComparatorShape DEF IsWildcard, IsPartialVersion
<1>7. c.wild => /\ c.op = "" /\ BareVersion(e) \notin {"exact", "minimum"}
                /\ Len(c.parts) = 1 /\ ~AllZero(c.parts)
  BY <1>2, <1>6, GuardsFire DEF CaretBoundSurvives
<1>8. ~c.wild /\ Len(c.parts) < 3 =>
        /\ c.op \notin {"=", "~"}
        /\ c.op = "" => BareVersion(e) # "exact"
        /\ c.op = "^" \/ (c.op = "" /\ BareVersion(e) = "caret") => ~AllZero(c.parts)
  BY <1>2, <1>6, GuardsFire DEF CaretBoundSurvives
<1> QED
  BY <1>4, <1>5, <1>7, <1>8 DEF Movable

-----------------------------------------------------------------------------
(* What a full version matches.                                            *)
LEMMA FullAgrees ==
  ASSUME NEW t \in Version, NEW v \in Version
  PROVE  /\ AgreeUpTo(3, t, v) <=> v = t
         /\ \A k \in 1 .. 3 : AgreeUpTo(k, t, v) <=> \A i \in 1 .. k : v[i] = t[i]
<1>1. Len(t) = 3
  BY VersionIsParts
<1>2. \A k \in 1 .. 3 : AgreeUpTo(k, t, v) <=> \A i \in 1 .. k : v[i] = t[i]
  BY <1>1 DEF AgreeUpTo
<1>3. v = t <=> v[1] = t[1] /\ v[2] = t[2] /\ v[3] = t[3]
  BY VersionShape
<1>4. (\A i \in 1 .. 3 : v[i] = t[i]) <=> v[1] = t[1] /\ v[2] = t[2] /\ v[3] = t[3]
  <2>1. \A i \in 1 .. 3 : i = 1 \/ i = 2 \/ i = 3
    OBVIOUS
  <2> QED
    BY <2>1
<1> QED
  BY <1>2, <1>3, <1>4

(* A caret moved to a version it admits keeps its bound: the component it  *)
(* was keyed off is not zero and is the version's own ("every release the  *)
(* constraint admits agrees with it up to and including that component").  *)
LEMMA CaretMoves ==
  ASSUME NEW p \in Parts, Len(p) < 3 => ~AllZero(p),
         NEW t \in Version, Matches("^", p, t), NEW v \in Version
  PROVE  Matches("^", t, v) <=> Matches("^", p, v) /\ AtMost(t, v)
<1>1. \A w \in Version : \A q \in Parts :
        Matches("^", q, w) <=> AtMost(Floor(q), w) /\ AgreeUpTo(CaretKey(q), q, w)
  BY DEF Matches
<1>2. t \in Parts /\ Len(t) = 3 /\ DOMAIN t = 1 .. 3 /\ Floor(t) = t
  BY VersionIsParts, FloorOfVersion
<1>3. Floor(p) \in Version /\ Len(p) \in 0 .. 3 /\ DOMAIN p = 1 .. Len(p)
  BY PartsShape, FloorIsVersion
<1>4. AtMost(Floor(p), t) /\ AgreeUpTo(CaretKey(p), p, t)
  BY <1>1
<1>5. AtMost(t, v) => AtMost(Floor(p), v)
  BY <1>3, <1>4, AtMostOrders
<1>6. CaretKey(t) = CaretKey(p) /\ CaretKey(p) \in 1 .. Len(p)
  <2>1. CASE ~AllZero(p)
    <3>1. Key(p, CaretKey(p))
      BY <2>1, CaretKeyed
    <3> DEFINE k == CaretKey(p)
    <3>2. k \in 1 .. Len(p) /\ p[k] # 0 /\ \A j \in 1 .. k - 1 : p[j] = 0
      BY <1>3, <3>1 DEF Key
    <3> HIDE DEF k
    <3>3. \A i \in 1 .. Len(p) : i <= k => t[i] = p[i]
      BY <1>4 DEF AgreeUpTo, k
    <3>4. Key(t, k)
      BY <1>2, <1>3, <3>2, <3>3 DEF Key
    <3> QED
      BY <1>2, <3>2, <3>4, KeyIsCaretKey DEF k
  <2>2. CASE AllZero(p)
    <3>1. Len(p) = 3 /\ CaretKey(p) = 3
      BY <1>3, <2>2 DEF CaretKey
    <3>2. \A i \in 1 .. 3 : t[i] = p[i] /\ p[i] = 0
      BY <1>3, <1>4, <2>2, <3>1 DEF AgreeUpTo, AllZero
    <3>3. AllZero(t)
      BY <1>2, <3>2 DEF AllZero
    <3> QED
      BY <1>2, <3>1, <3>3 DEF CaretKey
  <2> QED
    BY <2>1, <2>2
<1>7. AgreeUpTo(CaretKey(t), t, v) <=> AgreeUpTo(CaretKey(p), p, v)
  <2>1. AgreeUpTo(CaretKey(p), p, v) <=>
          \A i \in 1 .. CaretKey(p) : v[i] = p[i]
    BY <1>3, <1>6 DEF AgreeUpTo
  <2>2. AgreeUpTo(CaretKey(t), t, v) <=>
          \A i \in 1 .. CaretKey(p) : v[i] = t[i]
    BY <1>2, <1>3, <1>6 DEF AgreeUpTo
  <2>3. \A i \in 1 .. CaretKey(p) : t[i] = p[i]
    BY <1>3, <1>4, <1>6 DEF AgreeUpTo
  <2> QED
    BY <2>1, <2>2, <2>3
<1>8. /\ Matches("^", t, v) <=> AtMost(t, v) /\ AgreeUpTo(CaretKey(t), t, v)
      /\ Matches("^", p, v) <=> AtMost(Floor(p), v) /\ AgreeUpTo(CaretKey(p), p, v)
  BY <1>1, <1>2
<1> QED
  BY <1>5, <1>7, <1>8

(* A tilde over a full version is keyed off its first two components.      *)
LEMMA TildeMoves ==
  ASSUME NEW p \in Parts, Len(p) = 3,
         NEW t \in Version, Matches("~", p, t), NEW v \in Version
  PROVE  Matches("~", t, v) <=> Matches("~", p, v) /\ AtMost(t, v)
<1>1. \A w \in Version : \A q \in Parts :
        Matches("~", q, w) <=> AtMost(Floor(q), w) /\ AgreeUpTo(2, q, w)
  BY DEF Matches
<1>2. t \in Parts /\ Len(t) = 3 /\ Floor(t) = t
  BY VersionIsParts, FloorOfVersion
<1>3. AtMost(Floor(p), t) /\ Floor(p) \in Version
  BY <1>1, FloorIsVersion
<1>4. AtMost(t, v) => AtMost(Floor(p), v)
  BY <1>3, AtMostOrders
<1>5. AgreeUpTo(2, p, t)
  BY <1>1
<1>6. AgreeUpTo(2, t, v) <=> AgreeUpTo(2, p, v)
  BY <1>2, <1>5 DEF AgreeUpTo
<1> QED
  BY <1>1, <1>2, <1>4, <1>6

LEMMA FloorMoves ==
  ASSUME NEW p \in Parts, NEW t \in Version, Matches(">=", p, t), NEW v \in Version
  PROVE  Matches(">=", t, v) <=> Matches(">=", p, v) /\ AtMost(t, v)
<1>1. \A w \in Version : \A q \in Parts : Matches(">=", q, w) <=> AtMost(Floor(q), w)
  BY DEF Matches
<1>2. t \in Parts /\ Floor(t) = t /\ Floor(p) \in Version
  BY VersionIsParts, FloorOfVersion, FloorIsVersion
<1> QED
  BY <1>1, <1>2, AtMostOrders

(* `1.*` becomes a caret over a release of that major, which stops where   *)
(* the wildcard did.                                                       *)
LEMMA WildMoves ==
  ASSUME NEW p \in Parts, Len(p) = 1, ~AllZero(p),
         NEW t \in Version, Matches("=", p, t), NEW v \in Version
  PROVE  Matches("^", t, v) <=> Matches("=", p, v) /\ AtMost(t, v)
<1>1. \A w \in Version : Matches("=", p, w) <=> AgreeUpTo(3, p, w)
  BY DEF Matches
<1>2. Matches("^", t, v) <=> AtMost(Floor(t), v) /\ AgreeUpTo(CaretKey(t), t, v)
  BY DEF Matches
<1>3. t \in Parts /\ Len(t) = 3 /\ DOMAIN t = 1 .. 3 /\ Floor(t) = t
  BY VersionIsParts, FloorOfVersion
<1>4. DOMAIN p = 1 .. 1
  BY PartsShape
<1>5. p[1] # 0
  BY <1>4 DEF AllZero
<1>6. \A w \in Version : AgreeUpTo(3, p, w) <=> w[1] = p[1]
  BY DEF AgreeUpTo
<1>7. t[1] = p[1]
  BY <1>1, <1>6
<1>8. CaretKey(t) = 1
  <2>1. Key(t, 1)
    BY <1>3, <1>5, <1>7 DEF Key
  <2> QED
    BY <1>3, <2>1, KeyIsCaretKey
<1>9. AgreeUpTo(1, t, v) <=> v[1] = t[1]
  BY <1>3 DEF AgreeUpTo
<1> QED
  BY <1>1, <1>2, <1>3, <1>6, <1>7, <1>8, <1>9

-----------------------------------------------------------------------------
(* A rewrite of a constraint that is not refused and not a pin, to a       *)
(* version it admits, raises its floor to that version and nothing else.   *)
LEMMA RewriteKeepsRange ==
  ASSUME NEW e \in Ecosystem, NEW c \in Constraint, WrittenIn(e, c),
         Refusal(e, c) = None, ~IsPinned(e, c),
         c.op \in {"", "^", "~", "=", ">="},
         NEW t \in Version, Admits(e, c, t), NEW v \in Version
  PROVE  Admits(e, Rewritten(c, t), v) <=> Admits(e, c, v) /\ AtMost(t, v)
<1> DEFINE d == Rewritten(c, t)
<1>1. Movable(e, c) /\ c \in Comparator
  BY NotRefused DEF Movable
<1>2. /\ c.form = "single" /\ c.parts \in Parts /\ c.wild \in BOOLEAN
      /\ c.wild => Len(c.parts) < 3
      /\ Len(c.parts) = 0 => c.wild /\ c.op = ""
  BY <1>1, ComparatorShape
<1>3. d.form = "single" /\ d.op = c.op /\ d.parts = t /\ d.wild = FALSE
  BY DEF Rewritten
<1> HIDE DEF d
<1>4. t \in Parts /\ Len(t) = 3 /\ Floor(t) = t
  BY VersionIsParts, FloorOfVersion
<1>5. Len(c.parts) < 3 \/ Len(c.parts) = 3
  BY <1>2, FullOrPartial
<1>6. \A w \in Version :
        /\ Admits(e, c, w) <=> Matches(ReadOp(e, c), ReadParts(e, c), w)
        /\ Admits(e, d, w) <=> Matches(ReadOp(e, d), t, w)
  BY <1>2, <1>3, <1>4 DEF Admits, ReadParts
<1>7. c.op # "="
  BY <1>2 DEF IsPinned
<1>8. CASE e = "CSharp"
  <2>1. c.op = "" /\ ~c.wild
    BY <1>1, <1>2, <1>8 DEF WrittenIn, Movable, BareVersion
  <2>2. /\ ReadOp(e, c) = "=" /\ ReadParts(e, c) = Floor(c.parts)
        /\ ReadOp(e, d) = "="
    BY <1>3, <1>8, <2>1 DEF ReadOp, ReadParts
  <2>3. Floor(c.parts) \in Version
    BY <1>2, FloorIsVersion
  <2>4. \A w, u \in Version : Matches("=", u, w) <=> w = u
    BY FullAgrees DEF Matches
  <2>5. \A w \in Version :
          /\ Admits(e, c, w) <=> Matches("=", Floor(c.parts), w)
          /\ Admits(e, d, w) <=> Matches("=", t, w)
    BY <1>6, <2>2
  <2>6. t = Floor(c.parts)
    BY <2>3, <2>4, <2>5, Zenon
  <2>7. (Admits(e, c, v) <=> v = t) /\ (Admits(e, d, v) <=> v = t)
    BY <2>3, <2>4, <2>5, <2>6, Zenon
  <2> QED
    BY <2>7, AtMostOrders, Zenon DEF d
<1>9. CASE e # "CSharp" /\ c.op # ""
  <2>1. ~c.wild
    BY <1>1, <1>9 DEF Movable
  <2>2. ReadOp(e, c) = c.op /\ ReadParts(e, c) = c.parts /\ ReadOp(e, d) = c.op
    BY <1>3, <1>9 DEF ReadOp, ReadParts
  <2>3. Matches(c.op, c.parts, t)
    BY <1>6, <2>2
  <2>4. CASE c.op = "^"
    <3>1. Len(c.parts) < 3 => ~AllZero(c.parts)
      BY <1>1, <2>1, <2>4 DEF Movable
    <3> QED
      BY <1>2, <1>6, <2>2, <2>3, <2>4, <3>1, CaretMoves DEF d
  <2>5. CASE c.op = "~"
    <3>1. ~(Len(c.parts) < 3)
      BY <1>1, <2>1, <2>5 DEF Movable
    <3>2. Len(c.parts) = 3
      BY <1>5, <3>1
    <3> QED
      BY <1>2, <1>6, <2>2, <2>3, <2>5, <3>2, TildeMoves DEF d
  <2>6. CASE c.op = ">="
    BY <1>2, <1>6, <2>2, <2>3, <2>6, FloorMoves DEF d
  <2> QED
    BY <1>7, <1>9, <2>4, <2>5, <2>6
<1>10. CASE e = "Npm" /\ c.op = ""
  <2>1. BareVersion(e) = "exact"
    BY <1>10 DEF BareVersion
  <2>2. ~c.wild /\ ~(Len(c.parts) < 3)
    BY <1>1, <1>10, <2>1 DEF Movable
  <2>3. IsPinned(e, c)
    <3>1. Len(c.parts) = 3
      BY <1>5, <2>2
    <3> QED
      BY <1>2, <1>10, <2>1, <2>2, <3>1, Zenon DEF IsPinned
  <2> QED
    BY <2>3
<1>11. CASE e = "Rust" /\ c.op = ""
  <2>1. BareVersion(e) = "caret" /\ ReadOp(e, d) = "^"
    BY <1>3, <1>4, <1>11 DEF BareVersion, ReadOp
  <2>2. ReadParts(e, c) = c.parts
    BY <1>11 DEF ReadParts
  <2>3. CASE ~c.wild
    <3>1. ReadOp(e, c) = "^"
      BY <1>11, <2>3 DEF ReadOp
    <3>2. Len(c.parts) < 3 => ~AllZero(c.parts)
      BY <1>1, <1>11, <2>1, <2>3 DEF Movable
    <3>3. Matches("^", c.parts, t)
      BY <1>6, <2>2, <3>1
    <3> QED
      BY <1>2, <1>6, <2>1, <2>2, <3>1, <3>2, <3>3, CaretMoves DEF d
  <2>4. CASE c.wild
    <3>1. Len(c.parts) = 1 /\ ~AllZero(c.parts)
      BY <1>1, <2>4 DEF Movable
    <3>2. ReadOp(e, c) = "="
      BY <1>11, <2>4 DEF ReadOp
    <3>3. Matches("=", c.parts, t)
      BY <1>6, <2>2, <3>2
    <3> QED
      BY <1>2, <1>6, <2>1, <2>2, <3>1, <3>2, <3>3, WildMoves, ZenonT(40) DEF d
  <2> QED
    BY <1>2, <2>3, <2>4
<1> QED
  BY <1>8, <1>9, <1>10, <1>11 DEF Ecosystem

(* What a rewrite writes admits the version it was moved to.               *)
LEMMA AdmitsItself ==
  ASSUME NEW e \in Ecosystem, NEW c \in Comparator, ~c.wild, c.parts \in Version,
         c.op \in {"", "^", "~", "=", ">="}
  PROVE  Admits(e, c, c.parts)
<1> DEFINE t == c.parts
<1>1. c.form = "single" /\ t \in Parts /\ Len(t) = 3 /\ Floor(t) = t
  BY ComparatorShape, VersionIsParts, FloorOfVersion
<1>2. Admits(e, c, t) <=> Matches(ReadOp(e, c), t, t)
  BY <1>1 DEF Admits, ReadParts
<1>3. ReadOp(e, c) \in {"^", "~", "=", ">="}
  BY DEF ReadOp
<1>4. \A k : AgreeUpTo(k, t, t)
  BY DEF AgreeUpTo
<1>5. AtMost(Floor(t), t)
  BY <1>1, AtMostOrders
<1> HIDE DEF t
<1>6. /\ Matches("^", t, t) /\ Matches("~", t, t)
      /\ Matches("=", t, t) /\ Matches(">=", t, t)
  BY <1>4, <1>5 DEF Matches
<1> QED
  BY <1>2, <1>3, <1>6 DEF t

LEMMA RewrittenShape ==
  ASSUME NEW c \in Comparator, NEW t \in Version
  PROVE  /\ Rewritten(c, t) \in Comparator
         /\ Rewritten(c, t).form = "single" /\ Rewritten(c, t).op = c.op
         /\ Rewritten(c, t).parts = t /\ ~Rewritten(c, t).wild
<1>1. c.op \in Op /\ t \in Parts /\ Len(t) = 3
  BY ComparatorShape, VersionIsParts
<1> DEFINE d == Rewritten(c, t)
<1>2. d = [form |-> "single", op |-> c.op, parts |-> t, wild |-> FALSE]
  BY DEF Rewritten
<1>3. d \in [form : {"single"}, op : Op, parts : Parts, wild : BOOLEAN]
  BY <1>1, <1>2
<1>4. d.form = "single" /\ d.op = c.op /\ d.parts = t /\ d.wild = FALSE
  BY <1>2
<1> HIDE DEF d
<1>5. ~(Len(d.parts) = 0)
  BY <1>1, <1>4
<1>6. d \in Comparator
  BY <1>3, <1>4, <1>5 DEF Comparator
<1> QED
  BY <1>4, <1>6 DEF d

-----------------------------------------------------------------------------
(* What plan_fixes decides of a row.                                       *)
Goal(all) ==
  IF all THEN Newest(listed) ELSE Compatible(ecosystem, constraint, listed)

LEMMA PlanEdits ==
  ASSUME NEW all \in BOOLEAN, NEW overrides \in BOOLEAN, NEW vulnerable \in BOOLEAN,
         Plan(all, overrides, vulnerable).kind = "edit"
  PROVE  /\ Plan(all, overrides, vulnerable) = Edit(Rewritten(constraint, Goal(all)))
         /\ Goal(all) # None /\ Refusal(ecosystem, constraint) = None
         /\ ~AlreadySays(constraint, Goal(all))
         /\ all \/ ~IsPinned(ecosystem, constraint)
<1> DEFINE row == Row(vulnerable)
<1>1. /\ row.constraint = constraint /\ row.latest = Newest(listed)
      /\ row.compatible = Compatible(ecosystem, constraint, listed)
  BY DEF Row
<1>2. Target(row, all) = Goal(all)
  BY <1>1 DEF Target, Goal
<1>3. Quiet.kind = "quiet" /\ \A r, t : Declined(r, t).kind = "declined"
  BY DEF Quiet, Declined
<1> QED
  BY <1>1, <1>2, <1>3 DEF Plan, PlanRow

(* The life of the entry: an author's constraint, or one of that operator. *)
UpgradeTyped ==
  /\ TypeOK
  /\ listed # {}
  /\ constraint \in Comparator => constraint.op \in Ops

LEMMA VersionsListed ==
  ASSUME UpgradeTyped
  PROVE  /\ listed \subseteq Version /\ Newest(listed) \in listed
         /\ \A w \in listed : AtMost(w, Newest(listed))
<1>1. listed \subseteq Version /\ listed # {}
  BY UpgradeAssumption DEF UpgradeTyped, TypeOK
<1> QED
  BY <1>1, NewestIsNewest

LEMMA BestOfAdmitted ==
  ASSUME NEW e, NEW c, NEW S, S \subseteq Version, Compatible(e, c, S) # None
  PROVE  /\ Compatible(e, c, S) \in S /\ Admits(e, c, Compatible(e, c, S))
         /\ \A w \in S : Admits(e, c, w) => AtMost(w, Compatible(e, c, S))
<1> DEFINE A == {v \in S : Admits(e, c, v)}
<1>1. A # {} /\ Compatible(e, c, S) = Newest(A)
  BY DEF Compatible
<1>2. A \subseteq Version
  OBVIOUS
<1>3. Newest(A) \in A /\ \A w \in A : AtMost(w, Newest(A))
  <2> HIDE DEF A
  <2> QED
    BY <1>1, <1>2, NewestIsNewest
<1> QED
  BY <1>1, <1>3

LEMMA GoalListed ==
  ASSUME UpgradeTyped, NEW all \in BOOLEAN, Goal(all) # None
  PROVE  /\ Goal(all) \in listed /\ Goal(all) \in Version
         /\ ~all => Admits(ecosystem, constraint, Goal(all))
BY VersionsListed, BestOfAdmitted DEF Goal

(* What an edit does to the entry.                                         *)
LEMMA FixEdits ==
  ASSUME UpgradeTyped, NEW all \in BOOLEAN, NEW overrides \in BOOLEAN, NEW vulnerable \in BOOLEAN,
         Fix(all, overrides, vulnerable), last'.edited
  PROVE  /\ Goal(all) \in listed /\ Goal(all) \in Version
         /\ constraint \in Comparator /\ Refusal(ecosystem, constraint) = None
         /\ constraint' = Rewritten(constraint, Goal(all)) /\ constraint' \in Comparator
         /\ constraint'.op = constraint.op /\ constraint'.parts = Goal(all)
         /\ ~constraint'.wild
         /\ last'.all = all /\ last'.overrides = overrides
         /\ all => written' = constraint' /\ raised' = None
         /\ ~all => /\ written' = written /\ raised' = Goal(all)
                    /\ ~IsPinned(ecosystem, constraint)
                    /\ Admits(ecosystem, constraint, Goal(all))
<1> DEFINE plan == Plan(all, overrides, vulnerable)
<1>1. plan.kind = "edit" /\ last'.all = all /\ last'.overrides = overrides
  BY DEF Fix
<1>2. /\ constraint' = plan.to /\ (all => written' = plan.to /\ raised' = None)
      /\ ~all => written' = written /\ raised' = plan.to.parts
  BY <1>1 DEF Fix
<1>3. /\ plan = Edit(Rewritten(constraint, Goal(all))) /\ Goal(all) # None
      /\ Refusal(ecosystem, constraint) = None
      /\ all \/ ~IsPinned(ecosystem, constraint)
  BY <1>1, PlanEdits
<1>4. plan.to = Rewritten(constraint, Goal(all))
  BY <1>3 DEF Edit
<1> HIDE DEF plan
<1>5. /\ Goal(all) \in listed /\ Goal(all) \in Version
      /\ ~all => Admits(ecosystem, constraint, Goal(all))
  BY <1>3, GoalListed
<1>6. constraint \in Comparator
  BY <1>3, NotRefused DEF UpgradeTyped, TypeOK, Movable
<1>7. /\ Rewritten(constraint, Goal(all)) \in Comparator
      /\ Rewritten(constraint, Goal(all)).op = constraint.op
      /\ Rewritten(constraint, Goal(all)).parts = Goal(all)
      /\ ~Rewritten(constraint, Goal(all)).wild
  BY <1>5, <1>6, RewrittenShape
<1> QED
  BY <1>1, <1>2, <1>3, <1>4, <1>5, <1>6, <1>7

LEMMA FixLeaves ==
  ASSUME NEW all \in BOOLEAN, NEW overrides \in BOOLEAN, NEW vulnerable \in BOOLEAN,
         Fix(all, overrides, vulnerable), ~last'.edited
  PROVE  UNCHANGED <<constraint, written, raised>>
BY DEF Fix

-----------------------------------------------------------------------------
LEMMA InitTyped == Init => UpgradeTyped
<1> SUFFICES ASSUME Init PROVE UpgradeTyped
  OBVIOUS
<1>1. constraint \in Constraint /\ (constraint \in Comparator => constraint.op \in Ops)
  <2>1. constraint \in Authored
    BY DEF Init
  <2>2. CASE constraint \in Comparator
    <3>1. constraint.form = "single"
      BY <2>2, ComparatorShape
    <3>2. \A c \in Span \cup Interval \cup {Tag} : c.form # "single"
      BY DEF Span, Interval, Tag
    <3> QED
      BY <2>1, <2>2, <3>1, <3>2 DEF Authored, Constraint
  <2>3. CASE constraint \notin Comparator
    BY <2>1, <2>3 DEF Authored, Constraint
  <2> QED
    BY <2>2, <2>3
<1>2. listed \subseteq Releases /\ listed # {}
  BY DEF Init
<1> QED
  BY <1>1, <1>2 DEF Init, UpgradeTyped, TypeOK

LEMMA NextTyped == UpgradeTyped /\ [Next]_vars => UpgradeTyped'
<1> SUFFICES ASSUME UpgradeTyped, [Next]_vars PROVE UpgradeTyped'
  OBVIOUS
<1> USE DEF UpgradeTyped, TypeOK
<1>1. ASSUME NEW v \in Releases, Publish(v) PROVE UpgradeTyped'
  BY <1>1 DEF Publish
<1>2. ASSUME NEW v \in Releases, Yank(v) PROVE UpgradeTyped'
  <2>1. listed' # {}
    BY <1>2 DEF Yank
  <2> QED
    BY <1>2, <2>1 DEF Yank
<1>3. CASE Lock
  <2>1. Compatible(ecosystem, constraint, listed) \in listed
    BY <1>3, VersionsListed, BestOfAdmitted DEF Lock
  <2> QED
    BY <1>3, <2>1 DEF Lock
<1>4. ASSUME NEW all \in BOOLEAN, NEW overrides \in BOOLEAN, NEW vulnerable \in BOOLEAN,
             Fix(all, overrides, vulnerable)
      PROVE  UpgradeTyped'
  <2>1. /\ ecosystem' = ecosystem /\ override' = override /\ listed' = listed
        /\ locked' = locked /\ last' \in Run
    BY <1>4 DEF Fix, Run
  <2>2. CASE ~last'.edited
    <3>1. UNCHANGED <<constraint, written, raised>>
      BY <1>4, <2>2, FixLeaves
    <3> QED
      BY <2>1, <3>1
  <2>3. CASE last'.edited
    <3>1. /\ Goal(all) \in listed /\ constraint \in Comparator /\ constraint' \in Comparator
          /\ constraint'.op = constraint.op
          /\ written' = written \/ written' = constraint'
          /\ raised' = None \/ raised' = Goal(all)
      BY <1>4, <2>3, FixEdits
    <3>2. constraint'.form = "single" /\ constraint.form = "single"
      BY <3>1, ComparatorShape
    <3>3. WrittenIn(ecosystem, constraint')
      BY <3>1, <3>2 DEF WrittenIn, Ecosystem
    <3>4. constraint' \in Constraint
      BY <3>1 DEF Constraint
    <3> QED
      BY <2>1, <3>1, <3>3, <3>4
  <2> QED
    BY <2>2, <2>3
<1>5. CASE UNCHANGED vars
  BY <1>5 DEF vars
<1> QED
  BY <1>1, <1>2, <1>3, <1>4, <1>5 DEF Next

(* What a run of --all, and the default runs since, leave in the manifest: *)
(* the version last written, bare of any other bound.                      *)
Settled ==
  last # None /\ last.edited =>
    /\ constraint \in Comparator /\ ~constraint.wild /\ constraint.parts \in Version
    /\ constraint.parts = Goal(last.all)

UpgradeInv == UpgradeTyped /\ RangeIntact /\ Settled

(* One default run: the range is what the author's admits, from the        *)
(* version written on.                                                     *)
LEMMA FixKeepsRange ==
  ASSUME FloorsOnly, UpgradeTyped, RangeIntact,
         NEW all \in BOOLEAN, NEW overrides \in BOOLEAN, NEW vulnerable \in BOOLEAN,
         Fix(all, overrides, vulnerable)
  PROVE  RangeIntact'
<1>0. ecosystem' = ecosystem
  BY DEF Fix
<1>1. CASE ~last'.edited
  <2>1. UNCHANGED <<constraint, written, raised>>
    BY <1>1, FixLeaves
  <2> QED
    BY <1>0, <2>1 DEF RangeIntact
<1>2. CASE last'.edited /\ all
  <2>1. written' = constraint' /\ raised' = None
    BY <1>2, FixEdits
  <2> QED
    BY <1>0, <2>1 DEF RangeIntact
<1>3. CASE last'.edited /\ ~all
  <2> DEFINE t == Goal(all)
  <2>1. /\ t \in Version /\ constraint \in Comparator
        /\ Refusal(ecosystem, constraint) = None
        /\ constraint' = Rewritten(constraint, t)
        /\ written' = written /\ raised' = t
        /\ ~IsPinned(ecosystem, constraint) /\ Admits(ecosystem, constraint, t)
    BY <1>3, FixEdits
  <2>2. /\ ecosystem \in Ecosystem /\ constraint \in Constraint
        /\ WrittenIn(ecosystem, constraint)
        /\ constraint.op \in {"", "^", "~", "=", ">="}
        /\ raised \in Version \cup {None}
    BY <2>1, UpgradeAssumption DEF UpgradeTyped, TypeOK, FloorsOnly
  <2>3. t # None
    BY <2>1, NoneAssumption
  <2> HIDE DEF t
  <2>4. \A v \in Version :
          Admits(ecosystem, Rewritten(constraint, t), v) <=>
            Admits(ecosystem, constraint, v) /\ AtMost(t, v)
    BY <2>1, <2>2, RewriteKeepsRange
  <2>5. raised # None => AtMost(raised, t)
    BY <2>1 DEF RangeIntact
  <2>6. \A v \in Version : raised # None /\ AtMost(t, v) => AtMost(raised, v)
    BY <2>1, <2>2, <2>5, AtMostOrders
  <2>7. \A v \in Version :
          Admits(ecosystem', constraint', v) <=>
            /\ Admits(ecosystem', written', v)
            /\ raised' # None => AtMost(raised', v)
    <3> TAKE v \in Version
    <3>1. Admits(ecosystem', constraint', v) <=>
            Admits(ecosystem, constraint, v) /\ AtMost(t, v)
      BY <1>0, <2>1, <2>4
    <3>2. Admits(ecosystem, constraint, v) <=>
            /\ Admits(ecosystem, written, v)
            /\ raised # None => AtMost(raised, v)
      BY DEF RangeIntact
    <3>3. Admits(ecosystem', written', v) <=> Admits(ecosystem, written, v)
      BY <1>0, <2>1
    <3>4. (raised' # None => AtMost(raised', v)) <=> AtMost(t, v)
      BY <2>1, <2>3
    <3> QED
      BY <2>6, <3>1, <3>2, <3>3, <3>4, Zenon
  <2> QED
    BY <2>7 DEF RangeIntact
<1> QED
  BY <1>1, <1>2, <1>3

(* Once moved to the newest release it admits, a constraint admits no      *)
(* other listed one, so that its goal is the version it names.             *)
LEMMA FixSettlesItself ==
  ASSUME FloorsOnly, UpgradeTyped,
         NEW all \in BOOLEAN, NEW overrides \in BOOLEAN, NEW vulnerable \in BOOLEAN,
         Fix(all, overrides, vulnerable)
  PROVE  Settled'
<1>0. ecosystem' = ecosystem /\ listed' = listed
  BY DEF Fix
<1> SUFFICES ASSUME last'.edited PROVE Settled'
  BY DEF Settled
<1> DEFINE t == Goal(all)
<1>1. /\ t \in listed /\ t \in Version /\ constraint \in Comparator
      /\ constraint' \in Comparator /\ ~constraint'.wild /\ constraint'.parts = t
      /\ constraint'.op = constraint.op /\ last'.all = all
      /\ Refusal(ecosystem, constraint) = None
      /\ constraint' = Rewritten(constraint, t)
      /\ ~all => ~IsPinned(ecosystem, constraint) /\ Admits(ecosystem, constraint, t)
  BY FixEdits
<1>2. CASE all
  <2>1. Goal(all)' = t
    BY <1>0, <1>2 DEF Goal
  <2>2. Goal(last.all)' = t
    BY <1>0, <1>1, <1>2 DEF Goal
  <2> QED
    BY <1>1, <2>2 DEF Settled
<1>3. CASE ~all
  <2> DEFINE A == {v \in listed : Admits(ecosystem, constraint, v)}
             B == {v \in listed : Admits(ecosystem, constraint', v)}
  <2>1. /\ ecosystem \in Ecosystem /\ constraint \in Constraint
        /\ WrittenIn(ecosystem, constraint) /\ listed \subseteq Version
        /\ constraint.op \in {"", "^", "~", "=", ">="}
    BY <1>1, VersionsListed DEF UpgradeTyped, TypeOK, FloorsOnly
  <2>2. t = Compatible(ecosystem, constraint, listed) /\ t # None
    BY <1>1, <1>3, NoneAssumption DEF Goal
  <2>3. \A w \in listed : Admits(ecosystem, constraint, w) => AtMost(w, t)
    BY <2>1, <2>2, BestOfAdmitted
  <2> HIDE DEF t
  <2>4. \A v \in Version :
          Admits(ecosystem, constraint', v) <=>
            Admits(ecosystem, constraint, v) /\ AtMost(t, v)
    <3>1. /\ t \in Version /\ Admits(ecosystem, constraint, t)
          /\ Refusal(ecosystem, constraint) = None /\ ~IsPinned(ecosystem, constraint)
      BY <1>1, <1>3
    <3>2. \A v \in Version :
            Admits(ecosystem, Rewritten(constraint, t), v) <=>
              Admits(ecosystem, constraint, v) /\ AtMost(t, v)
      BY <2>1, <3>1, RewriteKeepsRange
    <3> QED
      BY <1>1, <3>2
  <2>5. B = {t}
    <3>1. t \in B
      BY <1>1, <1>3, <2>4, AtMostOrders
    <3>2. ASSUME NEW w \in B PROVE w = t
      <4>1. w \in Version /\ AtMost(w, t) /\ AtMost(t, w)
        BY <2>1, <2>3, <2>4
      <4> QED
        BY <1>1, <4>1, AtMostOrders
    <3> QED
      BY <3>1, <3>2
  <2>6. Newest(B) = t
    BY <1>1, <2>5, NewestIsNewest
  <2>7. Compatible(ecosystem', constraint', listed') = t
    BY <1>0, <2>5, <2>6 DEF Compatible
  <2>8. Goal(last.all)' = t
    BY <1>1, <1>3, <2>7 DEF Goal
  <2> QED
    BY <1>1, <2>8 DEF Settled
<1> QED
  BY <1>2, <1>3

LEMMA InitIInv == Init => UpgradeInv
<1> SUFFICES ASSUME Init PROVE UpgradeInv
  OBVIOUS
<1>1. RangeIntact
  BY DEF Init, RangeIntact
<1>2. Settled
  BY DEF Init, Settled
<1> QED
  BY <1>1, <1>2, InitTyped DEF UpgradeInv

LEMMA NextIInv == FloorsOnly /\ UpgradeInv /\ [Next]_vars => UpgradeInv'
<1> SUFFICES ASSUME FloorsOnly, UpgradeInv, [Next]_vars PROVE UpgradeInv'
  OBVIOUS
<1>1. UpgradeTyped /\ RangeIntact /\ Settled /\ UpgradeTyped'
  BY NextTyped DEF UpgradeInv
<1>2. ASSUME UNCHANGED <<ecosystem, constraint, written, raised>>, last' = None
      PROVE  RangeIntact' /\ Settled'
  <2>1. RangeIntact'
    BY <1>1, <1>2 DEF RangeIntact
  <2>2. Settled'
    BY <1>2 DEF Settled
  <2> QED
    BY <2>1, <2>2
<1>3. ASSUME NEW v \in Releases, Publish(v) \/ Yank(v) PROVE UpgradeInv'
  BY <1>1, <1>2, <1>3 DEF Publish, Yank, UpgradeInv
<1>4. CASE Lock
  BY <1>1, <1>2, <1>4 DEF Lock, UpgradeInv
<1>5. ASSUME NEW all \in BOOLEAN, NEW overrides \in BOOLEAN, NEW vulnerable \in BOOLEAN,
             Fix(all, overrides, vulnerable)
      PROVE  UpgradeInv'
  BY <1>1, <1>5, FixKeepsRange, FixSettlesItself DEF UpgradeInv
<1>6. CASE UNCHANGED vars
  <2>1. UNCHANGED <<ecosystem, constraint, written, raised, last, listed>>
    BY <1>6 DEF vars
  <2>2. RangeIntact'
    BY <1>1, <2>1 DEF RangeIntact
  <2>3. Settled'
    BY <1>1, <2>1 DEF Settled, Goal
  <2> QED
    BY <1>1, <2>2, <2>3 DEF UpgradeInv
<1> QED
  BY <1>3, <1>4, <1>5, <1>6 DEF Next

-----------------------------------------------------------------------------
(* The invariant's consequences.                                           *)
LEMMA SettledSettles == UpgradeTyped /\ Settled => FixSettles
<1> SUFFICES ASSUME UpgradeTyped, Settled, last # None, last.edited,
                    NEW vulnerable \in BOOLEAN,
                    Plan(last.all, last.overrides, vulnerable).kind = "edit"
             PROVE  FALSE
  BY DEF FixSettles
<1>0. last.all \in BOOLEAN /\ last.overrides \in BOOLEAN
  BY DEF UpgradeTyped, TypeOK, Run
<1>1. constraint \in Comparator /\ ~constraint.wild /\ constraint.parts = Goal(last.all)
  BY DEF Settled
<1>2. ~AlreadySays(constraint, Goal(last.all))
  BY <1>0, PlanEdits
<1>3. Rewritten(constraint, constraint.parts) = constraint
  BY <1>1, ComparatorShape DEF Rewritten
<1> QED
  BY <1>1, <1>2, <1>3 DEF AlreadySays

(* A decline is about the row and not about the flags.                     *)
LEMMA DeclineReasons ==
  ASSUME UpgradeTyped, NEW all \in BOOLEAN, NEW overrides \in BOOLEAN, NEW vulnerable \in BOOLEAN,
         Plan(all, overrides, vulnerable).kind = "declined"
  PROVE  LET plan == Plan(all, overrides, vulnerable) IN
           /\ plan.reason \notin FlagReasons =>
                \A a, o \in BOOLEAN :
                  LET other == Plan(a, o, vulnerable) IN
                  other.kind = "declined" /\ other.reason \in {plan.reason, "NoTarget"}
           /\ plan.reason = "Pinned" =>
                Plan(TRUE, TRUE, vulnerable).kind = "edit" \/ AlreadySays(constraint, plan.target)
           /\ plan.reason = "NeedsAll" =>
                Plan(TRUE, TRUE, vulnerable) = Edit(Rewritten(constraint, plan.target))
           /\ plan.reason = "ForcedVersion" =>
                Plan(all, TRUE, vulnerable) = Edit(Rewritten(constraint, plan.target))
<1> DEFINE c == constraint
           refusal == Refusal(ecosystem, c)
           moves == HasUpdate(Row(vulnerable).status)
           pin == IsPinned(ecosystem, c)
           latest == Newest(listed)
           beyond(a) == ~a /\ latest # Goal(a) /\ ~AlreadySays(c, latest)
           P(a, o) == Plan(a, o, vulnerable)
<1>1. \A a, o \in BOOLEAN :
        P(a, o) =
          IF ~moves THEN Quiet
          ELSE IF pin /\ ~a
                 THEN Declined(IF refusal # None THEN refusal ELSE "Pinned", latest)
          ELSE IF Goal(a) = None THEN Declined("NoTarget", None)
          ELSE IF refusal # None THEN Declined(refusal, Goal(a))
          ELSE IF AlreadySays(c, Goal(a))
            THEN IF beyond(a) THEN Declined("NeedsAll", latest)
                              ELSE Declined("AlreadyAtTarget", Goal(a))
          ELSE IF override /\ ~o THEN Declined("ForcedVersion", Goal(a))
          ELSE Edit(Rewritten(c, Goal(a)))
  <2> TAKE a, o \in BOOLEAN
  <2>1. /\ Row(vulnerable).constraint = c /\ Row(vulnerable).latest = latest
        /\ Row(vulnerable).override = override
        /\ Target(Row(vulnerable), a) = Goal(a)
    BY DEF Row, Target, Goal
  <2> QED
    BY <2>1 DEF Plan, PlanRow, PinReason
<1>2. Goal(TRUE) = latest /\ latest # None
  BY VersionsListed, NoneAssumption DEF Goal
<1>3. refusal # None => refusal \in ShapeReason
  BY RefusalHits
<1>4. ShapeReason \cap FlagReasons = {} /\ "NoTarget" \in FlagReasons
  BY DEF ShapeReason, FlagReasons
<1>5. /\ \A r, t : Declined(r, t).kind = "declined" /\ Declined(r, t).reason = r
                   /\ Declined(r, t).target = t
      /\ \A d : Edit(d).kind = "edit"
      /\ Quiet.kind = "quiet"
  BY DEF Declined, Edit, Quiet
<1> HIDE DEF refusal, moves, pin, latest, P, beyond
<1>6. P(all, overrides).kind = "declined"
  BY DEF P
<1>7. moves
  BY <1>1, <1>5, <1>6
<1>8. CASE refusal # None
  <2>1. \A a, o \in BOOLEAN :
          /\ P(a, o).kind = "declined" /\ P(a, o).reason \in {refusal, "NoTarget"}
    BY <1>1, <1>5, <1>7, <1>8
  <2>2. refusal \notin {"Pinned", "NeedsAll", "ForcedVersion"}
    BY <1>3, <1>8 DEF ShapeReason
  <2>3. P(all, overrides).reason \notin FlagReasons => P(all, overrides).reason = refusal
    BY <1>4, <2>1
  <2>4. P(all, overrides).reason \notin {"Pinned", "NeedsAll", "ForcedVersion"}
    BY <2>1, <2>2
  <2> QED
    BY <2>1, <2>3, <2>4 DEF P
<1>9. CASE refusal = None
  <2>1. \A a, o \in BOOLEAN : pin /\ ~a => P(a, o) = Declined("Pinned", latest)
    BY <1>1, <1>7, <1>9
  <2>2. \A a, o \in BOOLEAN :
          ~(pin /\ ~a) /\ Goal(a) = None => P(a, o) = Declined("NoTarget", None)
    BY <1>1, <1>7, <1>9
  <2>3. \A a, o \in BOOLEAN :
          ~(pin /\ ~a) /\ Goal(a) # None /\ AlreadySays(c, Goal(a)) =>
            \/ beyond(a) /\ P(a, o) = Declined("NeedsAll", latest)
            \/ P(a, o) = Declined("AlreadyAtTarget", Goal(a))
    BY <1>1, <1>7, <1>9
  <2>4. \A a, o \in BOOLEAN :
          ~(pin /\ ~a) /\ Goal(a) # None /\ ~AlreadySays(c, Goal(a)) =>
            \/ ~o /\ P(a, o) = Declined("ForcedVersion", Goal(a))
            \/ P(a, o) = Edit(Rewritten(c, Goal(a)))
    BY <1>1, <1>7, <1>9
  <2>5. \A a \in BOOLEAN :
          ~(pin /\ ~a) /\ Goal(a) # None /\ ~AlreadySays(c, Goal(a)) =>
            P(a, TRUE) = Edit(Rewritten(c, Goal(a)))
    BY <2>4
  <2>6. AlreadySays(c, latest) \/ P(TRUE, TRUE) = Edit(Rewritten(c, latest))
    BY <1>2, <2>5
  <2> DEFINE r == P(all, overrides).reason
             t == P(all, overrides).target
             Truth == /\ r = "Pinned" => P(TRUE, TRUE).kind = "edit" \/ AlreadySays(c, t)
                      /\ r = "NeedsAll" => P(TRUE, TRUE) = Edit(Rewritten(c, t))
                      /\ r = "ForcedVersion" => P(all, TRUE) = Edit(Rewritten(c, t))
  <2>7. ASSUME pin /\ ~all
        PROVE  r \in FlagReasons /\ Truth
    <3>1. r = "Pinned" /\ t = latest
      BY <1>5, <2>1, <2>7
    <3> QED
      BY <1>5, <2>6, <3>1 DEF FlagReasons
  <2>8. ASSUME ~(pin /\ ~all) /\ Goal(all) = None
        PROVE  r \in FlagReasons /\ Truth
    <3>1. r = "NoTarget"
      BY <1>5, <2>2, <2>8
    <3> QED
      BY <3>1 DEF FlagReasons
  <2>9. ASSUME ~(pin /\ ~all) /\ Goal(all) # None /\ AlreadySays(c, Goal(all))
        PROVE  r \in FlagReasons /\ Truth
    <3>1. CASE beyond(all) /\ P(all, overrides) = Declined("NeedsAll", latest)
      <4>1. r = "NeedsAll" /\ t = latest /\ ~AlreadySays(c, latest)
        BY <1>5, <3>1 DEF beyond
      <4> QED
        BY <2>6, <4>1 DEF FlagReasons
    <3>2. CASE P(all, overrides) = Declined("AlreadyAtTarget", Goal(all))
      <4>1. r = "AlreadyAtTarget"
        BY <1>5, <3>2
      <4> QED
        BY <4>1 DEF FlagReasons
    <3> QED
      BY <2>3, <2>9, <3>1, <3>2
  <2>10. ASSUME ~(pin /\ ~all) /\ Goal(all) # None /\ ~AlreadySays(c, Goal(all))
        PROVE  r \in FlagReasons /\ Truth
    <3>1. P(all, overrides) = Declined("ForcedVersion", Goal(all))
      BY <1>5, <1>6, <2>4, <2>10
    <3>2. r = "ForcedVersion" /\ t = Goal(all)
      BY <1>5, <3>1
    <3>3. P(all, TRUE) = Edit(Rewritten(c, Goal(all)))
      BY <2>5, <2>10
    <3> QED
      BY <3>2, <3>3 DEF FlagReasons
  <2>11. r \in FlagReasons /\ Truth
    <3> HIDE DEF r, Truth
    <3> QED
      BY <2>7, <2>8, <2>9, <2>10
  <2> QED
    BY <2>11 DEF P
<1> QED
  BY <1>8, <1>9

LEMMA SettledExplains == FloorsOnly /\ UpgradeTyped /\ Settled => DeclineSaysWhy
<1> SUFFICES ASSUME FloorsOnly, UpgradeTyped, Settled PROVE DeclineSaysWhy
  OBVIOUS
<1>1. last # None /\ last.all /\ last.edited => Admits(ecosystem, constraint, Newest(listed))
  <2> SUFFICES ASSUME last # None, last.all, last.edited
               PROVE  Admits(ecosystem, constraint, Newest(listed))
    OBVIOUS
  <2>1. /\ constraint \in Comparator /\ ~constraint.wild /\ constraint.parts \in Version
        /\ constraint.parts = Newest(listed)
    BY DEF Settled, Goal
  <2>2. ecosystem \in Ecosystem /\ constraint.op \in {"", "^", "~", "=", ">="}
    BY <2>1 DEF UpgradeTyped, TypeOK, FloorsOnly
  <2> QED
    BY <2>1, <2>2, AdmitsItself
<1> QED
  BY <1>1, DeclineReasons DEF DeclineSaysWhy

-----------------------------------------------------------------------------
(* The entry, the registry and the lockfile keep their types.              *)
THEOREM UpgradeTypeOK == Spec => []TypeOK
<1>1. UpgradeTyped => TypeOK
  BY DEF UpgradeTyped
<1> QED
  BY <1>1, InitTyped, NextTyped, PTL DEF Spec

(* However many default runs of `fix` rewrote a constraint, and whatever   *)
(* was published, yanked and locked in between, it admits what the author  *)
(* wrote (or --all did) admits, from the version last written on.          *)
THEOREM RangeSurvives == FloorsOnly => (Spec => []RangeIntact)
<1> SUFFICES ASSUME FloorsOnly PROVE Spec => []RangeIntact
  OBVIOUS
<1>1. UpgradeInv /\ [Next]_vars => UpgradeInv'
  BY NextIInv
<1>2. UpgradeInv => RangeIntact
  BY DEF UpgradeInv
<1> QED
  BY <1>1, <1>2, InitIInv, PTL DEF Spec

(* A run of `fix` that wrote something has nothing to write when run again *)
(* with the same flags.                                                    *)
THEOREM FixesSettle == FloorsOnly => (Spec => []FixSettles)
<1> SUFFICES ASSUME FloorsOnly PROVE Spec => []FixSettles
  OBVIOUS
<1>1. UpgradeInv /\ [Next]_vars => UpgradeInv'
  BY NextIInv
<1>2. UpgradeInv => FixSettles
  BY SettledSettles DEF UpgradeInv
<1> QED
  BY <1>1, <1>2, InitIInv, PTL DEF Spec

(* The reason printed with a decline is the one that stands in the way,    *)
(* and what --all wrote admits the newest release.                         *)
THEOREM DeclinesExplain == FloorsOnly => (Spec => []DeclineSaysWhy)
<1> SUFFICES ASSUME FloorsOnly PROVE Spec => []DeclineSaysWhy
  OBVIOUS
<1>1. UpgradeInv /\ [Next]_vars => UpgradeInv'
  BY NextIInv
<1>2. UpgradeInv => DeclineSaysWhy
  BY SettledExplains DEF UpgradeInv
<1> QED
  BY <1>1, <1>2, InitIInv, PTL DEF Spec

-----------------------------------------------------------------------------
(***************************************************************************)
(* Dialects: the orders of versions.                                       *)
(***************************************************************************)
(* Every element of E is in its place under L.                             *)
Orders(L, E) ==
  /\ \A x \in E : <<x, x>> \notin L
  /\ \A x, y, z \in E : <<x, y>> \in L /\ <<y, z>> \in L => <<x, z>> \in L
  /\ \A x, y \in E : x = y \/ <<x, y>> \in L \/ <<y, x>> \in L

(* The order of sequences by their elements' order.                        *)
DiffersAt(L, i, s, t) ==
  /\ i \in DOMAIN s \cap DOMAIN t /\ <<s[i], t[i]>> \in L
  /\ \A j \in 1 .. i - 1 : s[j] = t[j]
Before(L, s, t) == IsStrictPrefix(s, t) \/ \E i \in DOMAIN s \cap DOMAIN t : DiffersAt(L, i, s, t)

LEMMA StrictPrefix ==
  ASSUME NEW E, NEW s \in Seq(E), NEW t \in Seq(E)
  PROVE  IsStrictPrefix(s, t) <=> Len(s) < Len(t) /\ \A i \in 1 .. Len(s) : s[i] = t[i]
<1>0. Len(s) \in Nat /\ Len(t) \in Nat /\ DOMAIN s = 1 .. Len(s) /\ DOMAIN t = 1 .. Len(t)
  OBVIOUS
<1>1. ASSUME Len(s) <= Len(t)
      PROVE  SubSeq(s, 1, Len(s)) = SubSeq(t, 1, Len(s)) <=> \A i \in 1 .. Len(s) : s[i] = t[i]
  <2>1. SubSeq(s, 1, Len(s)) = [i \in 1 .. Len(s) |-> s[i]]
    BY <1>0
  <2>2. SubSeq(t, 1, Len(s)) = [i \in 1 .. Len(s) |-> t[i]]
    BY <1>0, <1>1
  <2> QED
    BY <2>1, <2>2
<1>2. Len(s) = Len(t) /\ (\A i \in 1 .. Len(s) : s[i] = t[i]) => s = t
  BY <1>0, SeqEqual
<1> DEFINE Same == \A i \in 1 .. Len(s) : s[i] = t[i]
<1>3. s = t => Len(s) = Len(t)
  OBVIOUS
<1>4. IsStrictPrefix(s, t) <=> Len(s) <= Len(t) /\ Same /\ s # t
  <2> HIDE DEF Same
  <2> QED
    BY <1>1 DEF IsStrictPrefix, IsPrefix, Same
<1> HIDE DEF Same
<1>5. Same /\ Len(s) = Len(t) => s = t
  BY <1>2 DEF Same
<1>6. Len(s) < Len(t) <=> Len(s) <= Len(t) /\ Len(s) # Len(t)
  <2>1. \A m, n \in Nat : m < n <=> m <= n /\ m # n
    OBVIOUS
  <2>2. Len(s) \in Nat /\ Len(t) \in Nat
    BY <1>0
  <2> QED
    BY <2>1, <2>2, Zenon
<1>7. IsStrictPrefix(s, t) <=> Len(s) < Len(t) /\ Same
  BY <1>3, <1>4, <1>5, <1>6, Zenon
<1> QED
  BY <1>7 DEF Same

LEMMA BeforeOrders ==
  ASSUME NEW E, NEW L, Orders(L, E)
  PROVE  /\ \A s \in Seq(E) : ~Before(L, s, s)
         /\ \A s, t, u \in Seq(E) : Before(L, s, t) /\ Before(L, t, u) => Before(L, s, u)
         /\ \A s, t \in Seq(E) : s = t \/ Before(L, s, t) \/ Before(L, t, s)
<1>1. ASSUME NEW s \in Seq(E), Before(L, s, s) PROVE FALSE
  <2>1. ~IsStrictPrefix(s, s)
    BY DEF IsStrictPrefix
  <2>2. PICK i \in DOMAIN s : <<s[i], s[i]>> \in L
    BY <1>1, <2>1 DEF Before, DiffersAt
  <2> QED
    BY <2>2 DEF Orders
<1>2. ASSUME NEW s \in Seq(E), NEW t \in Seq(E), NEW u \in Seq(E), Before(L, s, t), Before(L, t, u)
      PROVE  Before(L, s, u)
  <2>0. /\ Len(s) \in Nat /\ Len(t) \in Nat /\ Len(u) \in Nat
        /\ DOMAIN s = 1 .. Len(s) /\ DOMAIN t = 1 .. Len(t) /\ DOMAIN u = 1 .. Len(u)
        /\ (\A i \in DOMAIN s : s[i] \in E) /\ (\A i \in DOMAIN t : t[i] \in E)
        /\ \A i \in DOMAIN u : u[i] \in E
    OBVIOUS
  <2>1. CASE IsStrictPrefix(s, t) /\ IsStrictPrefix(t, u)
    <3>1. /\ Len(s) < Len(t) /\ \A i \in 1 .. Len(s) : s[i] = t[i]
          /\ Len(t) < Len(u) /\ \A i \in 1 .. Len(t) : t[i] = u[i]
      BY <2>1, StrictPrefix
    <3>2. Len(s) < Len(u) /\ \A i \in 1 .. Len(s) : s[i] = u[i]
      BY <2>0, <3>1
    <3>3. IsStrictPrefix(s, u)
      BY <3>2, StrictPrefix
    <3> QED
      BY <3>3 DEF Before
  <2>2. ASSUME IsStrictPrefix(s, t), NEW i \in DOMAIN t \cap DOMAIN u, DiffersAt(L, i, t, u)
        PROVE  Before(L, s, u)
    <3>1. Len(s) < Len(t) /\ \A k \in 1 .. Len(s) : s[k] = t[k]
      BY <2>2, StrictPrefix
    <3>2. CASE i <= Len(s)
      <4>1. i \in DOMAIN s \cap DOMAIN u /\ s[i] = t[i] /\ <<t[i], u[i]>> \in L
        BY <2>0, <2>2, <3>1, <3>2 DEF DiffersAt
      <4>2. \A j \in 1 .. i - 1 : s[j] = u[j]
        BY <2>0, <2>2, <3>1, <3>2 DEF DiffersAt
      <4>3. DiffersAt(L, i, s, u)
        BY <4>1, <4>2 DEF DiffersAt
      <4> QED
        BY <4>1, <4>3 DEF Before
    <3>3. CASE Len(s) < i
      <4>1. Len(s) < Len(u)
        BY <2>0, <3>3
      <4>2. \A k \in 1 .. Len(s) : s[k] = u[k]
        <5>1. \A k \in 1 .. Len(s) : k \in 1 .. i - 1
          BY <2>0, <3>3
        <5> QED
          BY <2>2, <3>1, <5>1 DEF DiffersAt
      <4>3. IsStrictPrefix(s, u)
        BY <4>1, <4>2, StrictPrefix
      <4> QED
        BY <4>3 DEF Before
    <3> QED
      BY <2>0, <3>2, <3>3
  <2>3. ASSUME NEW i \in DOMAIN s \cap DOMAIN t, DiffersAt(L, i, s, t), IsStrictPrefix(t, u)
        PROVE  Before(L, s, u)
    <3>1. Len(t) < Len(u) /\ \A k \in 1 .. Len(t) : t[k] = u[k]
      BY <2>3, StrictPrefix
    <3>2. i \in DOMAIN s \cap DOMAIN u /\ t[i] = u[i] /\ \A j \in 1 .. i - 1 : t[j] = u[j]
      BY <2>0, <3>1
    <3>3. DiffersAt(L, i, s, u)
      BY <2>3, <3>2 DEF DiffersAt
    <3> QED
      BY <3>2, <3>3 DEF Before
  <2>4. ASSUME NEW i \in DOMAIN s \cap DOMAIN t, DiffersAt(L, i, s, t),
               NEW j \in DOMAIN t \cap DOMAIN u, DiffersAt(L, j, t, u)
        PROVE  Before(L, s, u)
    <3>0. i \in Nat /\ j \in Nat /\ s[i] \in E /\ t[i] \in E /\ t[j] \in E /\ u[j] \in E
      BY <2>0
    <3>1. CASE i < j
      <4>1. i \in DOMAIN s \cap DOMAIN u /\ t[i] = u[i] /\ \A k \in 1 .. i - 1 : t[k] = u[k]
        BY <2>0, <2>4, <3>1 DEF DiffersAt
      <4>2. DiffersAt(L, i, s, u)
        BY <2>4, <4>1 DEF DiffersAt
      <4> QED
        BY <4>1, <4>2 DEF Before
    <3>2. CASE i = j
      <4>1. <<s[i], u[i]>> \in L
        BY <2>4, <3>0, <3>2 DEF DiffersAt, Orders
      <4>2. DiffersAt(L, i, s, u)
        BY <2>4, <3>2, <4>1 DEF DiffersAt
      <4> QED
        BY <2>4, <3>2, <4>2 DEF Before
    <3>3. CASE j < i
      <4>0. \A k \in 1 .. i - 1 : s[k] = t[k]
        BY <2>4 DEF DiffersAt
      <4>1. j \in DOMAIN s \cap DOMAIN u /\ s[j] = t[j] /\ \A k \in 1 .. j - 1 : s[k] = t[k]
        BY <2>0, <3>0, <3>3, <4>0
      <4>2. DiffersAt(L, j, s, u)
        BY <2>4, <4>1 DEF DiffersAt
      <4> QED
        BY <4>1, <4>2 DEF Before
    <3> QED
      BY <3>0, <3>1, <3>2, <3>3
  <2> QED
    BY <1>2, <2>1, <2>2, <2>3, <2>4 DEF Before
<1>3. ASSUME NEW s \in Seq(E), NEW t \in Seq(E), s # t
      PROVE  Before(L, s, t) \/ Before(L, t, s)
  <2>0. /\ Len(s) \in Nat /\ Len(t) \in Nat
        /\ DOMAIN s = 1 .. Len(s) /\ DOMAIN t = 1 .. Len(t)
        /\ (\A i \in DOMAIN s : s[i] \in E) /\ (\A i \in DOMAIN t : t[i] \in E)
    OBVIOUS
  <2> DEFINE D == {i \in DOMAIN s \cap DOMAIN t : s[i] # t[i]}
  <2>1. CASE D = {}
    <3>1. \A i \in DOMAIN s \cap DOMAIN t : s[i] = t[i]
      BY <2>1
    <3>2. Len(s) # Len(t)
      BY <1>3, <2>0, <3>1, SeqEqual
    <3>3. CASE Len(s) < Len(t)
      <4>1. \A i \in 1 .. Len(s) : s[i] = t[i]
        BY <2>0, <3>1, <3>3
      <4> QED
        BY <3>3, <4>1, StrictPrefix DEF Before
    <3>4. CASE Len(t) < Len(s)
      <4>1. \A i \in 1 .. Len(t) : t[i] = s[i]
        BY <2>0, <3>1, <3>4
      <4> QED
        BY <3>4, <4>1, StrictPrefix DEF Before
    <3>5. \A m, n \in Nat : m # n => m < n \/ n < m
      OBVIOUS
    <3>6. Len(s) < Len(t) \/ Len(t) < Len(s)
      BY <2>0, <3>2, <3>5, Zenon
    <3> QED
      BY <3>3, <3>4, <3>6
  <2>2. CASE D # {}
    <3>1. D \subseteq Nat
      BY <2>0
    <3>2. PICK i \in D : \A j \in D : i <= j
      <4> HIDE DEF D
      <4> QED
        BY <2>2, <3>1, LeastNat
    <3>3. i \in DOMAIN s \cap DOMAIN t /\ i \in Nat /\ s[i] # t[i] /\ s[i] \in E /\ t[i] \in E
      BY <2>0
    <3>4. \A j \in 1 .. i - 1 : s[j] = t[j]
      <4> SUFFICES ASSUME NEW j \in 1 .. i - 1, s[j] # t[j] PROVE FALSE
        OBVIOUS
      <4>1. j \in D
        BY <2>0, <3>3
      <4> QED
        BY <3>2, <3>3, <4>1
    <3>5. <<s[i], t[i]>> \in L \/ <<t[i], s[i]>> \in L
      BY <3>3 DEF Orders
    <3> HIDE DEF D
    <3>6. DiffersAt(L, i, s, t) \/ DiffersAt(L, i, t, s)
      BY <3>3, <3>4, <3>5 DEF DiffersAt
    <3> QED
      BY <3>3, <3>6 DEF Before
  <2> QED
    BY <2>1, <2>2
<1> QED
  BY <1>1, <1>2, <1>3

(* The identifiers of a pre-release, and the numbers of a version.         *)
Ident == {0, 1} \X Nat
LowerPairs == {p \in Ident \X Ident : Lower(p[1], p[2])}
LessPairs == {p \in Nat \X Nat : p[1] < p[2]}

LEMMA LowerOrders == Orders(LowerPairs, Ident)
<1>1. \A x, y \in Ident : <<x, y>> \in LowerPairs <=> Lower(x, y)
  BY DEF LowerPairs
<1>2. \A x \in Ident : x = <<x[1], x[2]>> /\ x[1] \in Nat /\ x[2] \in Nat
  BY DEF Ident
<1>3. \A x \in Ident : ~Lower(x, x)
  BY <1>2 DEF Lower
<1>4. \A x, y, z \in Ident : Lower(x, y) /\ Lower(y, z) => Lower(x, z)
  <2> SUFFICES ASSUME NEW x \in Ident, NEW y \in Ident, NEW z \in Ident, Lower(x, y), Lower(y, z)
               PROVE  Lower(x, z)
    OBVIOUS
  <2>1. /\ x[1] \in Nat /\ x[2] \in Nat /\ y[1] \in Nat /\ y[2] \in Nat
        /\ z[1] \in Nat /\ z[2] \in Nat
    BY <1>2
  <2> QED
    BY <2>1 DEF Lower
<1>5. \A x, y \in Ident : x = y \/ Lower(x, y) \/ Lower(y, x)
  <2> SUFFICES ASSUME NEW x \in Ident, NEW y \in Ident, ~Lower(x, y), ~Lower(y, x)
               PROVE  x = y
    OBVIOUS
  <2>1. /\ x[1] \in Nat /\ x[2] \in Nat /\ y[1] \in Nat /\ y[2] \in Nat
        /\ x = <<x[1], x[2]>> /\ y = <<y[1], y[2]>>
    BY <1>2
  <2>2. x[1] = y[1] /\ x[2] = y[2]
    BY <2>1 DEF Lower
  <2> QED
    BY <2>1, <2>2, Zenon
<1> QED
  BY <1>1, <1>3, <1>4, <1>5 DEF Orders

LEMMA LessOrders == Orders(LessPairs, Nat)
<1>1. \A x, y \in Nat : <<x, y>> \in LessPairs <=> x < y
  BY DEF LessPairs
<1> QED
  BY <1>1 DEF Orders

LEMMA IdsOlderIs ==
  ASSUME NEW s \in Seq(Ident), NEW t \in Seq(Ident)
  PROVE  IdsOlder(s, t) <=> Before(LowerPairs, s, t)
<1>1. \A i \in DOMAIN s \cap DOMAIN t : s[i] \in Ident /\ t[i] \in Ident
  OBVIOUS
<1>2. \A i \in DOMAIN s \cap DOMAIN t : <<s[i], t[i]>> \in LowerPairs <=> Lower(s[i], t[i])
  BY <1>1 DEF LowerPairs
<1> QED
  BY <1>2, Zenon DEF IdsOlder, Before, DiffersAt

LEMMA SeqOlderIs ==
  ASSUME NEW s \in Seq(Nat), NEW t \in Seq(Nat)
  PROVE  SeqOlder(s, t) <=> Before(LessPairs, s, t)
<1>1. \A i \in DOMAIN s \cap DOMAIN t : s[i] \in Nat /\ t[i] \in Nat
  OBVIOUS
<1>2. \A i \in DOMAIN s \cap DOMAIN t : <<s[i], t[i]>> \in LessPairs <=> s[i] < t[i]
  BY <1>1 DEF LessPairs
<1> QED
  BY <1>2, Zenon DEF SeqOlder, Before, DiffersAt

(* What the crate's order compares, part by part.                          *)
Triple == [1 .. 3 -> Nat]
Semver == [rel : Triple, pre : Seq(Ident), build : Seq(Ident)]

LEMMA TriplesOrdered ==
  /\ \A v \in Triple : ~Older(v, v)
  /\ \A v, w, x \in Triple : Older(v, w) /\ Older(w, x) => Older(v, x)
  /\ \A v, w \in Triple : v = w \/ Older(v, w) \/ Older(w, v)
<1>0. \A v \in Triple : v[1] \in Nat /\ v[2] \in Nat /\ v[3] \in Nat
  BY DEF Triple
<1>1. \A v \in Triple : ~Older(v, v)
  BY <1>0 DEF Older
<1>2. ASSUME NEW v \in Triple, NEW w \in Triple, NEW x \in Triple, Older(v, w), Older(w, x)
      PROVE  Older(v, x)
  BY <1>0, <1>2 DEF Older
<1>3. ASSUME NEW v \in Triple, NEW w \in Triple, ~Older(v, w), ~Older(w, v)
      PROVE  v = w
  <2>1. v[1] = w[1] /\ v[2] = w[2] /\ v[3] = w[3]
    BY <1>0, <1>3 DEF Older
  <2>2. \A i \in 1 .. 3 : v[i] = w[i]
    BY <2>1
  <2> QED
    BY <2>2 DEF Triple
<1> QED
  BY <1>1, <1>2, <1>3

LEMMA IdsOrdered ==
  /\ \A s \in Seq(Ident) : ~IdsOlder(s, s)
  /\ \A s, t, u \in Seq(Ident) : IdsOlder(s, t) /\ IdsOlder(t, u) => IdsOlder(s, u)
  /\ \A s, t \in Seq(Ident) : s = t \/ IdsOlder(s, t) \/ IdsOlder(t, s)
<1>1. \A s, t \in Seq(Ident) : IdsOlder(s, t) <=> Before(LowerPairs, s, t)
  BY IdsOlderIs
<1> QED
  BY <1>1, LowerOrders, BeforeOrders

LEMMA PresOrdered ==
  /\ \A s \in Seq(Ident) : ~PreOlder(s, s)
  /\ \A s, t, u \in Seq(Ident) : PreOlder(s, t) /\ PreOlder(t, u) => PreOlder(s, u)
  /\ \A s, t \in Seq(Ident) : s = t \/ PreOlder(s, t) \/ PreOlder(t, s)
<1>1. ASSUME NEW s \in Seq(Ident), NEW t \in Seq(Ident), NEW u \in Seq(Ident),
             PreOlder(s, t), PreOlder(t, u)
      PROVE  PreOlder(s, u)
  <2>1. s # u
    BY <1>1, IdsOrdered DEF PreOlder
  <2> QED
    BY <1>1, <2>1, IdsOrdered DEF PreOlder
<1>2. ASSUME NEW s \in Seq(Ident), NEW t \in Seq(Ident), s # t
      PROVE  PreOlder(s, t) \/ PreOlder(t, s)
  BY <1>2, IdsOrdered DEF PreOlder
<1> QED
  BY <1>1, <1>2 DEF PreOlder

LEMMA SemversOrdered ==
  /\ \A v \in Semver : ~SemverOlder(v, v)
  /\ \A v, w, x \in Semver : SemverOlder(v, w) /\ SemverOlder(w, x) => SemverOlder(v, x)
  /\ \A v, w \in Semver : v = w \/ SemverOlder(v, w) \/ SemverOlder(w, v)
<1>0. \A v \in Semver : v.rel \in Triple /\ v.pre \in Seq(Ident) /\ v.build \in Seq(Ident)
  BY DEF Semver
<1>1. \A v \in Semver : ~SemverOlder(v, v)
  BY <1>0, TriplesOrdered, PresOrdered, IdsOrdered DEF SemverOlder
<1>2. ASSUME NEW v \in Semver, NEW w \in Semver, NEW x \in Semver,
             SemverOlder(v, w), SemverOlder(w, x)
      PROVE  SemverOlder(v, x)
  <2>1. /\ v.rel \in Triple /\ w.rel \in Triple /\ x.rel \in Triple
        /\ v.pre \in Seq(Ident) /\ w.pre \in Seq(Ident) /\ x.pre \in Seq(Ident)
        /\ v.build \in Seq(Ident) /\ w.build \in Seq(Ident) /\ x.build \in Seq(Ident)
    BY <1>0
  <2>2. Older(v.rel, w.rel) /\ Older(w.rel, x.rel) => Older(v.rel, x.rel)
    BY <2>1, TriplesOrdered
  <2>3. PreOlder(v.pre, w.pre) /\ PreOlder(w.pre, x.pre) => PreOlder(v.pre, x.pre)
    BY <2>1, PresOrdered
  <2>4. IdsOlder(v.build, w.build) /\ IdsOlder(w.build, x.build) => IdsOlder(v.build, x.build)
    BY <2>1, IdsOrdered
  <2> QED
    BY <1>2, <2>2, <2>3, <2>4, Zenon DEF SemverOlder
<1>3. ASSUME NEW v \in Semver, NEW w \in Semver, ~SemverOlder(v, w), ~SemverOlder(w, v)
      PROVE  v = w
  <2>1. v.rel = w.rel
    BY <1>0, <1>3, TriplesOrdered DEF SemverOlder
  <2>2. v.pre = w.pre
    BY <1>0, <1>3, <2>1, PresOrdered DEF SemverOlder
  <2>3. v.build = w.build
    BY <1>0, <1>3, <2>1, <2>2, IdsOrdered DEF SemverOlder
  <2> QED
    BY <2>1, <2>2, <2>3 DEF Semver
<1> QED
  BY <1>1, <1>2, <1>3

(* The newest of some versions is one of them.                             *)
LEMMA NewestIsOne ==
  ASSUME NEW S, S \subseteq Semver, IsFiniteSet(S), S # {}
  PROVE  NewestOf(S) \in S
<1> DEFINE R == {p \in S \X S : SemverOlder(p[1], p[2])}
<1>0. \A v, w \in S : <<v, w>> \in R <=> SemverOlder(v, w)
  OBVIOUS
<1> HIDE DEF R
<1>1. \A v \in S : <<v, v>> \notin R
  BY <1>0, SemversOrdered
<1>2. \A v, w, x \in S : <<v, w>> \in R /\ <<w, x>> \in R => <<v, x>> \in R
  BY <1>0, SemversOrdered
<1>3. \E v \in S : \A w \in S : <<v, w>> \notin R
  BY <1>1, <1>2, GreatestOf
<1>4. \E v \in S : \A w \in S : v = w \/ SemverOlder(w, v)
  BY <1>0, <1>3, SemversOrdered
<1> QED
  BY <1>4 DEF NewestOf

(***************************************************************************)
(* What a published version reads as.                                      *)
(***************************************************************************)
LEMMA FieldsOfNative ==
  \A n \in Native : n.epoch \in Nat /\ n.parts \in Seq(Nat) /\ n.words \in Seq(STRING)
BY DEF Native

LEMMA IdTyped == \A x : Id(x) \in Ident
<1> SUFFICES ASSUME NEW x PROVE Id(x) \in Ident
  OBVIOUS
<1>1. DOMAIN Word = {"alpha", "android", "beta", "dev", "jre", "post", "rc", "snapshot"}
  BY DEF Word
<1>2. \A y \in DOMAIN Word : Word[y] \in Nat
  BY <1>1 DEF Word
<1>3. CASE x \in DOMAIN Word
  <2>1. Word[x] \in Nat
    BY <1>2, <1>3
  <2> QED
    BY <1>3, <2>1 DEF Id, Ident
<1>4. CASE x \notin DOMAIN Word
  BY <1>4 DEF Id, Ident
<1> QED
  BY <1>3, <1>4

LEMMA IdsTyped ==
  ASSUME NEW S, NEW words \in Seq(S)
  PROVE  Ids(words) \in Seq(Ident)
<1>1. Ids(words) \in [1 .. Len(words) -> Ident] /\ Len(words) \in Nat
  BY IdTyped DEF Ids
<1> QED
  BY <1>1

LEMMA BeyondTyped ==
  ASSUME NEW parts \in Seq(Nat)
  PROVE  /\ Beyond(parts) \in Seq(Nat)
         /\ Len(parts) <= 3 => Beyond(parts) = <<>>
         /\ Len(parts) > 3 => Len(Beyond(parts)) = Len(parts) - 3 /\ Beyond(parts)[1] = parts[4]
<1>0. Len(parts) \in Nat /\ DOMAIN parts = 1 .. Len(parts)
  OBVIOUS
<1>1. ASSUME Len(parts) > 3
      PROVE  /\ Beyond(parts) \in Seq(Nat)
             /\ Len(Beyond(parts)) = Len(parts) - 3 /\ Beyond(parts)[1] = parts[4]
  <2>1. Beyond(parts) = SubSeq(parts, 4, Len(parts))
    BY <1>1 DEF Beyond
  <2>2. \A i \in 4 .. Len(parts) : parts[i] \in Nat
    BY <1>0
  <2>3. SubSeq(parts, 4, Len(parts)) \in Seq(Nat)
    BY <1>0, <1>1, <2>2
  <2>4. /\ Len(SubSeq(parts, 4, Len(parts))) = Len(parts) - 3
        /\ SubSeq(parts, 4, Len(parts))[1] = parts[4]
    BY <1>0, <1>1
  <2>5. Beyond(parts) \in Seq(Nat)
    BY <2>1, <2>3
  <2> QED
    BY <1>1, <2>1, <2>4, <2>5
<1>2. ASSUME Len(parts) <= 3 PROVE Beyond(parts) \in Seq(Nat) /\ Beyond(parts) = <<>>
  <2>1. ~(Len(parts) > 3)
    BY <1>0, <1>2
  <2> QED
    BY <2>1 DEF Beyond
<1>3. Len(parts) > 3 <=> ~(Len(parts) <= 3)
  BY <1>0
<1> QED
  BY <1>1, <1>2, <1>3, Zenon

LEMMA WordsTyped ==
  ASSUME NEW n \in Native
  PROVE  Suffix(n) \in Seq(STRING) /\ Post(n) \in Seq(STRING)
<1>1. n.words \in Seq(STRING)
  BY FieldsOfNative
<1> DEFINE w == n.words
           A == {i \in DOMAIN w : w[i] \notin {"final", "post"}}
           B == {i \in DOMAIN w : w[i] = "post"}
<1>2. A \subseteq DOMAIN w /\ B \subseteq DOMAIN w /\ w \in Seq(STRING)
  BY <1>1
<1>3. Suffix(n) = Picked(w, A) /\ Post(n) = Picked(w, B)
  BY DEF Suffix, Post
<1> HIDE DEF w, A, B
<1> QED
  BY <1>2, <1>3, PickedIsListed

LEMMA ReadingTyped ==
  ASSUME NEW e, NEW n \in Native
  PROVE  ToSemver(e, n) \in Semver /\ ToSemver(e, n).rel = Floor(n.parts)
<1>0. n.parts \in Seq(Nat)
  BY FieldsOfNative
<1> DEFINE b == Beyond(n.parts)
           fourth == [i \in DOMAIN b |-> <<0, b[i]>>]
           pre == (IF e = "Jvm" THEN fourth ELSE <<>>) \o Ids(Suffix(n))
<1>1. Floor(n.parts) \in Triple
  BY <1>0 DEF Floor, Triple
<1>2. b \in Seq(Nat)
  BY <1>0, BeyondTyped
<1>3. fourth \in Seq(Ident)
  <2> HIDE DEF b
  <2>1. fourth \in [1 .. Len(b) -> Ident] /\ Len(b) \in Nat
    BY <1>2 DEF Ident
  <2> HIDE DEF fourth
  <2> QED
    BY <2>1
<1>4. Ids(Suffix(n)) \in Seq(Ident) /\ Ids(Post(n)) \in Seq(Ident)
  BY WordsTyped, IdsTyped
<1>5. pre \in Seq(Ident)
  <2> HIDE DEF fourth
  <2> QED
    BY <1>3, <1>4
<1>6. ToSemver(e, n) = [rel |-> Floor(n.parts), pre |-> pre, build |-> Ids(Post(n))]
  BY DEF ToSemver
<1> HIDE DEF pre
<1> QED
  BY <1>1, <1>4, <1>5, <1>6 DEF Semver

LEMMA KeyTyped ==
  ASSUME NEW e, NEW n \in Native
  PROVE  DiscardedPrecision(e, n) \in Seq(Nat)
<1>1. n.epoch \in Nat /\ Beyond(n.parts) \in Seq(Nat)
  BY FieldsOfNative, BeyondTyped
<1>2. <<n.epoch>> \o Beyond(n.parts) \in Seq(Nat)
  BY <1>1
<1> QED
  BY <1>1, <1>2 DEF DiscardedPrecision

(* No two of them have one text.                                           *)
Texted(S) ==
  /\ \A n \in S : TextOf(n) \in Nat
  /\ \A n, m \in S : TextOf(n) = TextOf(m) => n = m

LEMMA RanksOrdered ==
  ASSUME NEW e, NEW S, S \subseteq Native, Texted(S)
  PROVE  /\ \A n \in S : ~RanksBelow(e, n, n)
         /\ \A n, m, p \in S : RanksBelow(e, n, m) /\ RanksBelow(e, m, p) => RanksBelow(e, n, p)
         /\ \A n, m \in S : n = m \/ RanksBelow(e, n, m) \/ RanksBelow(e, m, n)
<1> DEFINE key(n) == DiscardedPrecision(e, n)
<1>1. \A n \in S : key(n) \in Seq(Nat)
  BY KeyTyped
<1>2. \A n, m \in S : RanksBelow(e, n, m) <=>
        Before(LessPairs, key(n), key(m)) \/ (key(n) = key(m) /\ TextOf(n) < TextOf(m))
  BY <1>1, SeqOlderIs DEF RanksBelow
<1> HIDE DEF key
<1>3. /\ \A s \in Seq(Nat) : ~Before(LessPairs, s, s)
      /\ \A s, t, u \in Seq(Nat) : Before(LessPairs, s, t) /\ Before(LessPairs, t, u) => Before(LessPairs, s, u)
      /\ \A s, t \in Seq(Nat) : s = t \/ Before(LessPairs, s, t) \/ Before(LessPairs, t, s)
  BY LessOrders, BeforeOrders
<1>4. ASSUME NEW n \in S, NEW m \in S, NEW p \in S, RanksBelow(e, n, m), RanksBelow(e, m, p)
      PROVE  RanksBelow(e, n, p)
  <2>1. TextOf(n) < TextOf(m) /\ TextOf(m) < TextOf(p) => TextOf(n) < TextOf(p)
    BY DEF Texted
  <2>2. key(n) \in Seq(Nat) /\ key(m) \in Seq(Nat) /\ key(p) \in Seq(Nat)
    BY <1>1
  <2>3. Before(LessPairs, key(n), key(m)) /\ Before(LessPairs, key(m), key(p))
          => Before(LessPairs, key(n), key(p))
    BY <1>3, <2>2
  <2>4. /\ Before(LessPairs, key(n), key(m)) \/ (key(n) = key(m) /\ TextOf(n) < TextOf(m))
        /\ Before(LessPairs, key(m), key(p)) \/ (key(m) = key(p) /\ TextOf(m) < TextOf(p))
    BY <1>2, <1>4
  <2>5. Before(LessPairs, key(n), key(p)) \/ (key(n) = key(p) /\ TextOf(n) < TextOf(p))
    BY <2>1, <2>3, <2>4
  <2> QED
    BY <1>2, <2>5
<1>5. ASSUME NEW n \in S, NEW m \in S, ~RanksBelow(e, n, m), ~RanksBelow(e, m, n)
      PROVE  n = m
  <2>1. key(n) = key(m)
    BY <1>1, <1>2, <1>3, <1>5
  <2>2. ~(TextOf(n) < TextOf(m)) /\ ~(TextOf(m) < TextOf(n))
    BY <1>2, <1>5, <2>1
  <2>3. TextOf(n) = TextOf(m)
    BY <2>2 DEF Texted
  <2> QED
    BY <2>3 DEF Texted
<1>6. ASSUME NEW n \in S, RanksBelow(e, n, n) PROVE FALSE
  <2>1. ~Before(LessPairs, key(n), key(n))
    BY <1>1, <1>3
  <2>2. TextOf(n) < TextOf(n)
    BY <1>2, <1>6, <2>1
  <2> QED
    BY <2>2 DEF Texted
<1> QED
  BY <1>4, <1>5, <1>6

LEMMA RangeOfList ==
  ASSUME NEW S, NEW list \in Seq(S)
  PROVE  Range(list) \subseteq S /\ IsFiniteSet(Range(list)) /\ (Range(list) = {} <=> list = <<>>)
<1>1. Len(list) \in Nat /\ DOMAIN list = 1 .. Len(list)
  OBVIOUS
<1>2. Range(list) = {list[i] : i \in 1 .. Len(list)}
  BY <1>1 DEF Range
<1>3. IsFiniteSet(1 .. Len(list))
  BY <1>1, FS_Interval
<1>4. IsFiniteSet({list[i] : i \in 1 .. Len(list)})
  <2>1. list \in Surjection(DOMAIN list, {list[i] : i \in DOMAIN list})
    BY DEF Surjection
  <2> QED
    BY <1>1, <1>3, <2>1, FS_Surjection
<1>5. Range(list) = {} => list = <<>>
  <2>1. Range(list) = {} => 1 .. Len(list) = {}
    BY <1>2
  <2>2. 1 .. Len(list) = {} => Len(list) = 0
    BY <1>1
  <2>3. Len(list) = 0 => list = <<>>
    BY EmptySeq
  <2> QED
    BY <2>1, <2>2, <2>3
<1>6. list = <<>> => Range(list) = {}
  BY DEF Range
<1> QED
  BY <1>1, <1>2, <1>4, <1>5, <1>6

(* A reading of a list is given back as the highest of its versions that   *)
(* read so.                                                                *)
LEMMA NativeIsListed ==
  ASSUME NEW e, NEW v, NEW list \in Seq(Native), Texted(Range(list)), v # None,
         \E n \in Range(list) : ToSemver(e, n) = v
  PROVE  LET m == NativeFor(e, v, list)
         IN  /\ m \in Range(list) /\ ToSemver(e, m) = v
             /\ \A n \in Range(list) : ToSemver(e, n) = v => n = m \/ RanksBelow(e, n, m)
<1> DEFINE T == {n \in Range(list) : ToSemver(e, n) = v}
           R == {p \in T \X T : RanksBelow(e, p[1], p[2])}
<1>1. T \subseteq Native /\ IsFiniteSet(T) /\ T # {} /\ Texted(T)
  <2>1. Range(list) \subseteq Native /\ IsFiniteSet(Range(list))
    BY RangeOfList
  <2>2. T \subseteq Range(list) /\ T # {}
    OBVIOUS
  <2> HIDE DEF T
  <2> QED
    BY <2>1, <2>2, FS_Subset DEF Texted
<1>0. \A n, m \in T : <<n, m>> \in R <=> RanksBelow(e, n, m)
  <2> HIDE DEF T
  <2> QED
    OBVIOUS
<1>2. NativeFor(e, v, list) = CHOOSE m \in T : \A n \in T : n = m \/ RanksBelow(e, n, m)
  <2>1. T # {}
    BY <1>1
  <2> QED
    BY <2>1, Zenon DEF NativeFor
<1> HIDE DEF R, T
<1>3. \E m \in T : \A n \in T : <<m, n>> \notin R
  <2>1. \A n \in T : <<n, n>> \notin R
    BY <1>0, <1>1, RanksOrdered
  <2>2. \A n, m, p \in T : <<n, m>> \in R /\ <<m, p>> \in R => <<n, p>> \in R
    <3> SUFFICES ASSUME NEW n \in T, NEW m \in T, NEW p \in T, <<n, m>> \in R, <<m, p>> \in R
                 PROVE  <<n, p>> \in R
      OBVIOUS
    <3>1. RanksBelow(e, n, m) /\ RanksBelow(e, m, p)
      BY <1>0
    <3> QED
      BY <1>0, <1>1, <3>1, RanksOrdered
  <2> QED
    BY <1>1, <2>1, <2>2, GreatestOf
<1>4. \E m \in T : \A n \in T : n = m \/ RanksBelow(e, n, m)
  BY <1>0, <1>1, <1>3, RanksOrdered
<1> DEFINE c == CHOOSE m \in T : \A n \in T : n = m \/ RanksBelow(e, n, m)
<1>5. c \in T /\ \A n \in T : n = c \/ RanksBelow(e, n, c)
  BY <1>4
<1>6. c = NativeFor(e, v, list)
  BY <1>2
<1> HIDE DEF c
<1> QED
  BY <1>5, <1>6 DEF T

(***************************************************************************)
(* The filters, by what they leave of a list.                              *)
(***************************************************************************)
LEMMA PickedRange ==
  ASSUME NEW S, NEW s \in Seq(S), NEW G
  PROVE  LET t == Picked(s, {i \in DOMAIN s : s[i] \in G})
         IN  t \in Seq(S) /\ Range(t) = Range(s) \cap G
<1> DEFINE T == {i \in DOMAIN s : s[i] \in G}
           t == Picked(s, T)
<1>1. T \subseteq DOMAIN s /\ \A i \in DOMAIN s : i \in T <=> s[i] \in G
  OBVIOUS
<1> HIDE DEF T
<1>2. t \in Seq(S)
  BY <1>1, PickedIsListed
<1>3. \A k \in DOMAIN t : \E i \in T : t[k] = s[i]
  BY <1>1, PickedIsListed
<1>4. \A i \in T : \E k \in DOMAIN t : t[k] = s[i]
  BY <1>1, PickedIsListed
<1> HIDE DEF t
<1>5. Range(t) = Range(s) \cap G
  BY <1>1, <1>3, <1>4 DEF Range
<1> QED
  BY <1>2, <1>5 DEF T, t

Finals(e) == {n \in Native : ~IsPrerelease(e, n)}
Lets(filter, current, e) ==
  \/ filter = "IncludeAlways"
  \/ filter = "IncludeIfCurrent" /\ current # None /\ IsPrerelease(e, current)
Stable(filter, S, current, e) ==
  IF Lets(filter, current, e) \/ S \cap Finals(e) = {} THEN S ELSE S \cap Finals(e)

LEMMA UnstableLeaves ==
  ASSUME NEW filter, NEW list \in Seq(Native), NEW current, NEW e
  PROVE  /\ UnstableFilter(filter, list, current, e) \in Seq(Native)
         /\ Range(UnstableFilter(filter, list, current, e)) = Stable(filter, Range(list), current, e)
<1> DEFINE T == {i \in DOMAIN list : ~IsPrerelease(e, list[i])}
           stable == Picked(list, T)
<1>1. T = {i \in DOMAIN list : list[i] \in Finals(e)}
  BY DEF Finals
<1>2. stable \in Seq(Native) /\ Range(stable) = Range(list) \cap Finals(e)
  <2> HIDE DEF T
  <2> QED
    BY <1>1, PickedRange, Zenon
<1>3. UnstableFilter(filter, list, current, e)
        = IF Lets(filter, current, e) \/ stable = <<>> THEN list ELSE stable
  BY Zenon DEF UnstableFilter, Lets
<1> HIDE DEF stable
<1>4. stable = <<>> <=> Range(stable) = {}
  BY <1>2, RangeOfList
<1> QED
  BY <1>2, <1>3, <1>4 DEF Stable

Wanted(current) == IF current = None THEN None ELSE Flavour(current)
SamePart(current, flavours) ==
  {n \in Native : Flavour(n) \in {None, Wanted(current)} \/ Flavour(n) \notin flavours}

LEMMA FlavourLeaves ==
  ASSUME NEW list \in Seq(Native), NEW current, NEW e
  PROVE  LET left == SameFlavourOnly(list, current, e)
             flavours == PartitioningFlavours(Range(list))
         IN  /\ left \in Seq(Native)
             /\ Range(left) = IF e # "Jvm" \/ Wanted(current) = None \/ Wanted(current) \notin flavours
                              THEN Range(list) ELSE Range(list) \cap SamePart(current, flavours)
<1> DEFINE flavours == PartitioningFlavours(Range(list))
           T == {i \in DOMAIN list : Flavour(list[i]) \in {None, Wanted(current)}
                                     \/ Flavour(list[i]) \notin flavours}
           same == Picked(list, T)
           off == e # "Jvm" \/ Wanted(current) = None \/ Wanted(current) \notin flavours
<1> HIDE DEF flavours
<1>1. T = {i \in DOMAIN list : list[i] \in SamePart(current, flavours)}
  BY DEF SamePart
<1>2. same \in Seq(Native) /\ Range(same) = Range(list) \cap SamePart(current, flavours)
  <2> HIDE DEF T
  <2> QED
    BY <1>1, PickedRange, Zenon
<1>3. SameFlavourOnly(list, current, e) = IF off THEN list ELSE same
  BY Zenon DEF SameFlavourOnly, Wanted, flavours
<1> HIDE DEF same
<1> QED
  BY <1>2, <1>3 DEF flavours

(* A flavour that partitions is one some release comes in.                 *)
LEMMA PartitioningIsPublished ==
  ASSUME NEW S, NEW f \in PartitioningFlavours(S)
  PROVE  f # None /\ \E n \in S : Flavour(n) = f
BY DEF PartitioningFlavours

LEMMA ReadableLeaves ==
  ASSUME NEW list \in Seq(Native), NEW e
  PROVE  /\ ToSemverVersions(e, list) \in Seq(Native)
         /\ Range(ToSemverVersions(e, list)) = Range(list) \cap {n \in Native : Readable(e, n)}
<1> DEFINE T == {i \in DOMAIN list : Readable(e, list[i])}
           G == {n \in Native : Readable(e, n)}
<1>1. T = {i \in DOMAIN list : list[i] \in G}
  OBVIOUS
<1>2. ToSemverVersions(e, list) = Picked(list, T)
  BY DEF ToSemverVersions
<1> HIDE DEF T, G
<1>3. Picked(list, T) \in Seq(Native) /\ Range(Picked(list, T)) = Range(list) \cap G
  BY <1>1, PickedRange, Zenon
<1> QED
  BY <1>2, <1>3 DEF G

(***************************************************************************)
(* What check_version finds is among what it is shown.                     *)
(***************************************************************************)
Found(eval, S) ==
  \E status : \E compatible, available, inMajor \in S \cup {None} :
    eval = Evaluation(status, compatible, available, inMajor)

LEMMA MajorIsFound ==
  ASSUME NEW S, S \subseteq Semver, IsFiniteSet(S), NEW current
  PROVE  NewestInMajor(S, current) \in S \cup {None}
<1> DEFINE same == {v \in S : current # None /\ v.rel[1] = current.rel[1]}
<1>1. same \subseteq S
  OBVIOUS
<1>2. NewestInMajor(S, current) = IF same = {} THEN None ELSE NewestOf(same)
  BY DEF NewestInMajor
<1> HIDE DEF same
<1>3. same # {} => NewestOf(same) \in same
  BY <1>1, FS_Subset, NewestIsOne
<1> QED
  BY <1>1, <1>2, <1>3

LEMMA CheckedIsFound ==
  ASSUME NEW S, S \subseteq Semver, IsFiniteSet(S), NEW req, NEW inUse, NEW rule
  PROVE  Found(CheckVersionFor(req, S, inUse, rule), S)
<1>1. CASE req = None
  <2>1. CheckVersionFor(req, S, inUse, rule)
          = Evaluation("Undetermined", None, IF S = {} THEN None ELSE NewestOf(S), NewestInMajor(S, inUse))
    BY <1>1 DEF CheckVersionFor
  <2>2. (IF S = {} THEN None ELSE NewestOf(S)) \in S \cup {None}
    BY NewestIsOne
  <2> QED
    BY <2>1, <2>2, MajorIsFound DEF Found
<1>2. CASE req # None /\ S = {}
  <2>1. CheckVersionFor(req, S, inUse, rule) = Evaluation("Error", None, None, None)
    BY <1>2 DEF CheckVersionFor
  <2> QED
    BY <2>1 DEF Found
<1>3. CASE req # None /\ S # {}
  <2>1. CheckVersionFor(req, S, inUse, rule) = Evaluate(req, S, inUse, rule)
    BY <1>3 DEF CheckVersionFor
  <2> DEFINE admitted == {v \in S : ReqMatches(req, v)}
             compatible == IF admitted = {} THEN None ELSE NewestOf(admitted)
             current == IF inUse # None THEN inUse ELSE compatible
  <2>2. admitted \subseteq S
    OBVIOUS
  <2>3. compatible \in S \cup {None}
    <3> HIDE DEF admitted
    <3>1. admitted # {} => NewestOf(admitted) \in admitted
      BY <2>2, FS_Subset, NewestIsOne
    <3> QED
      BY <2>2, <3>1
  <2>4. \E status : Evaluate(req, S, inUse, rule)
                      = Evaluation(status, compatible, NewestOf(S), NewestInMajor(S, current))
    BY Zenon DEF Evaluate
  <2> HIDE DEF compatible, current
  <2> QED
    BY <1>3, <2>1, <2>3, <2>4, NewestIsOne, MajorIsFound DEF Found
<1> QED
  BY <1>1, <1>2, <1>3

(***************************************************************************)
(* Of the versions that read alike, the one that ranks highest is newest.  *)
(***************************************************************************)
LEMMA PaddedIs ==
  ASSUME NEW n \in Native
  PROVE  /\ Padded(n) \in Seq(Nat) /\ Len(Padded(n)) = 5 /\ Padded(n)[1] = n.epoch
         /\ \A i \in 1 .. 4 : Padded(n)[i + 1] = IF i \in DOMAIN n.parts THEN n.parts[i] ELSE 0
<1> DEFINE four == [i \in 1 .. 4 |-> IF i \in DOMAIN n.parts THEN n.parts[i] ELSE 0]
<1>0. n.epoch \in Nat /\ n.parts \in Seq(Nat)
  BY FieldsOfNative
<1>1. four \in Seq(Nat) /\ Len(four) = 4 /\ DOMAIN four = 1 .. 4
      /\ \A i \in 1 .. 4 : four[i] = IF i \in DOMAIN n.parts THEN n.parts[i] ELSE 0
  <2>1. \A i \in 1 .. 4 : (IF i \in DOMAIN n.parts THEN n.parts[i] ELSE 0) \in Nat
    BY <1>0
  <2>2. four \in [1 .. 4 -> Nat]
    BY <2>1
  <2> QED
    BY <2>2
<1>2. Padded(n) = <<n.epoch>> \o four
  BY DEF Padded
<1> HIDE DEF four
<1> DEFINE one == <<n.epoch>>
<1>a. one \in Seq(Nat) /\ Len(one) = 1 /\ one[1] = n.epoch
  BY <1>0
<1> HIDE DEF one
<1>b. four \in Seq(Nat) /\ Len(four) = 4
  BY <1>1
<1>3. /\ one \o four \in Seq(Nat) /\ Len(one \o four) = Len(one) + Len(four)
      /\ \A i \in 1 .. Len(one) + Len(four) :
           (one \o four)[i] = IF i <= Len(one) THEN one[i] ELSE four[i - Len(one)]
  BY <1>a, <1>b, ConcatProperties
<1>c. Len(one \o four) = 5 /\ (one \o four)[1] = n.epoch
  <2>1. 1 \in 1 .. Len(one) + Len(four) /\ 1 <= Len(one)
    BY <1>a, <1>b
  <2> QED
    BY <1>3, <1>a, <1>b, <2>1
<1>4. \A i \in 1 .. 4 : (one \o four)[i + 1] = four[i]
  <2> SUFFICES ASSUME NEW i \in 1 .. 4 PROVE (one \o four)[i + 1] = four[i]
    OBVIOUS
  <2>1. i + 1 \in 1 .. Len(one) + Len(four) /\ ~(i + 1 <= Len(one)) /\ (i + 1) - Len(one) = i
    BY <1>a, <1>b
  <2> QED
    BY <1>3, <2>1
<1>5. Padded(n) = one \o four
  BY <1>2 DEF one
<1> QED
  BY <1>1, <1>3, <1>4, <1>5, <1>c

Numbered(e, n) == n \in Native /\ (e # "Python" => n.epoch = 0)

LEMMA NewerKeyed ==
  ASSUME NEW e \in {"Python", "CSharp"}, NEW n, NEW m, Numbered(e, n), Numbered(e, m),
         Floor(n.parts) = Floor(m.parts), SeqOlder(Padded(n), Padded(m))
  PROVE  Before(LessPairs, DiscardedPrecision(e, n), DiscardedPrecision(e, m))
<1> DEFINE digit(x, i) == IF i \in DOMAIN x.parts THEN x.parts[i] ELSE 0
           a == Beyond(n.parts)
           b == Beyond(m.parts)
<1>0. /\ n \in Native /\ m \in Native
      /\ n.epoch \in Nat /\ m.epoch \in Nat /\ n.parts \in Seq(Nat) /\ m.parts \in Seq(Nat)
  BY FieldsOfNative DEF Numbered
<1>1. /\ Padded(n) \in Seq(Nat) /\ Len(Padded(n)) = 5 /\ Padded(n)[1] = n.epoch
      /\ Padded(m) \in Seq(Nat) /\ Len(Padded(m)) = 5 /\ Padded(m)[1] = m.epoch
      /\ \A i \in 1 .. 4 : Padded(n)[i + 1] = digit(n, i) /\ Padded(m)[i + 1] = digit(m, i)
  BY <1>0, PaddedIs
<1>2. \A i \in 1 .. 3 : digit(n, i) = digit(m, i)
  <2> SUFFICES ASSUME NEW i \in 1 .. 3 PROVE digit(n, i) = digit(m, i)
    OBVIOUS
  <2>1. Floor(n.parts)[i] = digit(n, i) /\ Floor(m.parts)[i] = digit(m, i)
    BY <1>0, SMTT(30) DEF Floor
  <2> QED
    BY <2>1
<1>3. PICK i \in 1 .. 5 : /\ Padded(n)[i] < Padded(m)[i]
                          /\ \A j \in 1 .. i - 1 : Padded(n)[j] = Padded(m)[j]
  <2>1. DOMAIN Padded(n) = 1 .. 5 /\ DOMAIN Padded(m) = 1 .. 5
    BY <1>1
  <2>2. ~IsStrictPrefix(Padded(n), Padded(m))
    BY <1>1, StrictPrefix
  <2> QED
    BY <2>1, <2>2 DEF SeqOlder
<1>4. /\ Len(n.parts) \in Nat /\ Len(m.parts) \in Nat
      /\ DOMAIN n.parts = 1 .. Len(n.parts) /\ DOMAIN m.parts = 1 .. Len(m.parts)
      /\ \A k \in 1 .. 4 : digit(n, k) \in Nat /\ digit(m, k) \in Nat
  <2>1. /\ Len(n.parts) \in Nat /\ Len(m.parts) \in Nat
        /\ DOMAIN n.parts = 1 .. Len(n.parts) /\ DOMAIN m.parts = 1 .. Len(m.parts)
    BY <1>0
  <2>2. \A k \in 1 .. 4 : digit(n, k) \in Nat /\ digit(m, k) \in Nat
    BY <1>0
  <2> QED
    BY <2>1, <2>2
<1>5. /\ a \in Seq(Nat) /\ b \in Seq(Nat) /\ Len(a) \in Nat /\ Len(b) \in Nat
      /\ DOMAIN a = 1 .. Len(a) /\ DOMAIN b = 1 .. Len(b)
  <2>1. a \in Seq(Nat) /\ b \in Seq(Nat)
    BY <1>0, BeyondTyped
  <2> HIDE DEF a, b
  <2> QED
    BY <2>1
<1>6. /\ e = "Python" => DiscardedPrecision(e, n) = <<n.epoch>> \o a /\ DiscardedPrecision(e, m) = <<m.epoch>> \o b
      /\ e = "CSharp" => DiscardedPrecision(e, n) = a /\ DiscardedPrecision(e, m) = b
  BY DEF DiscardedPrecision
<1>7. n.epoch < m.epoch \/ (n.epoch = m.epoch /\ digit(n, 4) < digit(m, 4))
  <2> HIDE DEF digit
  <2>1. CASE i = 1
    BY <1>1, <1>3, <2>1
  <2>2. CASE i \in 2 .. 4
    <3>1. i - 1 \in 1 .. 3 /\ (i - 1) + 1 = i
      BY <2>2
    <3>2. Padded(n)[i] = digit(n, i - 1) /\ Padded(m)[i] = digit(m, i - 1)
      BY <1>1, <3>1
    <3> QED
      BY <1>2, <1>3, <1>4, <3>1, <3>2
  <2>3. CASE i = 5
    <3>1. Padded(n)[5] = digit(n, 4) /\ Padded(m)[5] = digit(m, 4)
      BY <1>1
    <3>2. Padded(n)[1] = Padded(m)[1]
      BY <1>3, <2>3
    <3> QED
      BY <1>1, <1>3, <2>3, <3>1, <3>2
  <2> QED
    BY <2>1, <2>2, <2>3
<1>8. digit(n, 4) < digit(m, 4) =>
        /\ Len(b) > 0
        /\ Len(a) = 0 \/ (Len(a) > 0 /\ a[1] < b[1])
  <2> SUFFICES ASSUME digit(n, 4) < digit(m, 4)
               PROVE  Len(b) > 0 /\ (Len(a) = 0 \/ (Len(a) > 0 /\ a[1] < b[1]))
    OBVIOUS
  <2>1. digit(m, 4) # 0
    <3>1. digit(n, 4) \in Nat /\ digit(m, 4) \in Nat
      BY <1>4
    <3> HIDE DEF digit
    <3> QED
      BY <3>1
  <2>2. Len(m.parts) > 3 /\ digit(m, 4) = m.parts[4]
    BY <1>4, <2>1
  <2>3. Len(b) = Len(m.parts) - 3 /\ b[1] = m.parts[4]
    BY <1>0, <2>2, BeyondTyped
  <2>4. CASE Len(n.parts) <= 3
    <3>1. a = <<>>
      BY <1>0, <2>4, BeyondTyped
    <3> QED
      BY <1>4, <2>2, <2>3, <3>1
  <2>5. CASE Len(n.parts) > 3
    <3>1. Len(a) = Len(n.parts) - 3 /\ a[1] = n.parts[4]
      BY <1>0, <2>5, BeyondTyped
    <3>2. digit(n, 4) = n.parts[4]
      BY <1>4, <2>5
    <3>3. n.parts[4] < m.parts[4]
      BY <2>2, <3>2
    <3>4. Len(m.parts) - 3 > 0 /\ Len(n.parts) - 3 > 0
      BY <1>4, <2>2, <2>5, SMTT(30)
    <3> HIDE DEF a, b, digit
    <3> QED
      BY <2>3, <3>1, <3>3, <3>4
  <2> QED
    BY <1>4, <2>4, <2>5
<1> HIDE DEF digit, a, b
<1>9. CASE e = "CSharp"
  <2>1. n.epoch = 0 /\ m.epoch = 0
    BY <1>9 DEF Numbered
  <2>2. Len(b) > 0 /\ (Len(a) = 0 \/ (Len(a) > 0 /\ a[1] < b[1]))
    BY <1>7, <1>8, <2>1
  <2>3. CASE Len(a) = 0
    <3>1. Len(a) < Len(b) /\ \A j \in 1 .. Len(a) : a[j] = b[j]
      BY <2>2, <2>3
    <3> QED
      BY <1>5, <1>6, <1>9, <3>1, StrictPrefix DEF Before
  <2>4. CASE Len(a) > 0 /\ a[1] < b[1]
    <3>1. 1 \in DOMAIN a \cap DOMAIN b /\ a[1] \in Nat /\ b[1] \in Nat
      BY <1>5, <2>2, <2>4
    <3>2. DiffersAt(LessPairs, 1, a, b)
      BY <2>4, <3>1 DEF DiffersAt, LessPairs
    <3> QED
      BY <1>6, <1>9, <3>1, <3>2 DEF Before
  <2> QED
    BY <2>2, <2>3, <2>4
<1>10. CASE e = "Python"
  <2> DEFINE s == <<n.epoch>> \o a
             t == <<m.epoch>> \o b
  <2>1. /\ s \in Seq(Nat) /\ t \in Seq(Nat) /\ Len(s) = Len(a) + 1 /\ Len(t) = Len(b) + 1
        /\ DOMAIN s = 1 .. Len(a) + 1 /\ DOMAIN t = 1 .. Len(b) + 1
        /\ s[1] = n.epoch /\ t[1] = m.epoch
    BY <1>0, <1>5
  <2>2. (Len(a) > 0 => s[2] = a[1]) /\ (Len(b) > 0 => t[2] = b[1])
    BY <1>0, <1>5
  <2> HIDE DEF s, t
  <2>3. CASE n.epoch < m.epoch
    <3>1. 1 \in DOMAIN s \cap DOMAIN t
      BY <1>5, <2>1
    <3>2. DiffersAt(LessPairs, 1, s, t)
      BY <1>0, <2>1, <2>3, <3>1 DEF DiffersAt, LessPairs
    <3>3. Before(LessPairs, s, t)
      BY <3>1, <3>2 DEF Before
    <3> QED
      BY <1>6, <1>10, <3>3 DEF s, t
  <2>4. CASE n.epoch = m.epoch /\ digit(n, 4) < digit(m, 4)
    <3>0. Len(b) > 0 /\ (Len(a) = 0 \/ (Len(a) > 0 /\ a[1] < b[1]))
      BY <1>8, <2>4
    <3>1. CASE Len(a) = 0
      <4>1. Len(s) < Len(t) /\ \A j \in 1 .. Len(s) : s[j] = t[j]
        BY <1>5, <2>1, <2>4, <3>0, <3>1
      <4>2. Before(LessPairs, s, t)
        BY <2>1, <4>1, StrictPrefix DEF Before
      <4> QED
        BY <1>6, <1>10, <4>2 DEF s, t
    <3>2. CASE Len(a) > 0 /\ a[1] < b[1]
      <4>0. Len(a) \in Nat /\ Len(b) \in Nat /\ DOMAIN a = 1 .. Len(a) /\ DOMAIN b = 1 .. Len(b)
        BY <1>5
      <4>a. 2 \in DOMAIN s /\ 2 \in DOMAIN t
        BY <2>1, <3>0, <3>2, <4>0
      <4>b. 1 \in DOMAIN a /\ 1 \in DOMAIN b
        BY <3>0, <3>2, <4>0
      <4>c. a[1] \in Nat /\ b[1] \in Nat
        BY <1>5, <4>b
      <4>1. 2 \in DOMAIN s \cap DOMAIN t /\ a[1] \in Nat /\ b[1] \in Nat
        BY <4>a, <4>c
      <4>2. s[2] < t[2] /\ \A j \in 1 .. 2 - 1 : s[j] = t[j]
        BY <2>1, <2>2, <2>4, <3>0, <3>2
      <4>3. <<s[2], t[2]>> \in LessPairs
        BY <2>2, <3>0, <3>2, <4>1, <4>2 DEF LessPairs
      <4>4. DiffersAt(LessPairs, 2, s, t)
        BY <4>1, <4>2, <4>3 DEF DiffersAt
      <4>5. Before(LessPairs, s, t)
        BY <4>1, <4>4 DEF Before
      <4> QED
        BY <1>6, <1>10, <4>5 DEF s, t
    <3> QED
      BY <3>0, <3>1, <3>2
  <2> QED
    BY <1>7, <2>3, <2>4
<1> QED
  BY <1>9, <1>10

LEMMA HighestIsNewest ==
  ASSUME NEW e \in {"Python", "CSharp"}, NEW n, NEW m, Numbered(e, n), Numbered(e, m),
         ToSemver(e, n) = ToSemver(e, m), m = n \/ RanksBelow(e, m, n)
  PROVE  ~SeqOlder(Padded(n), Padded(m))
<1> SUFFICES ASSUME SeqOlder(Padded(n), Padded(m)) PROVE FALSE
  OBVIOUS
<1> DEFINE k == DiscardedPrecision(e, n)
           l == DiscardedPrecision(e, m)
<1>1. n \in Native /\ m \in Native
  BY DEF Numbered
<1>2. Floor(n.parts) = Floor(m.parts)
  BY <1>1, ReadingTyped
<1>3. Before(LessPairs, k, l)
  BY <1>2, NewerKeyed
<1>4. k \in Seq(Nat) /\ l \in Seq(Nat)
  BY <1>1, KeyTyped
<1>5. m = n \/ Before(LessPairs, l, k) \/ l = k
  BY <1>4, SeqOlderIs DEF RanksBelow
<1>6. l = k \/ Before(LessPairs, l, k)
  BY <1>5
<1> HIDE DEF k, l
<1> QED
  BY <1>3, <1>4, <1>6, LessOrders, BeforeOrders

(***************************************************************************)
(* A question about a list.                                                *)
(***************************************************************************)
Typical(q) ==
  /\ {"e", "listed", "written", "locked", "filter"} \subseteq DOMAIN q
  /\ q.listed \in Seq(Native) /\ Current(q) \in Native
  /\ \A n \in Range(q.listed) : q.e # "Python" => n.epoch = 0
  /\ Texted(Range(q.listed))

LEMMA FilteredList ==
  ASSUME NEW q, Typical(q)
  PROVE  /\ Offered(q) \in Seq(Native) /\ Kept(q) \in Seq(Native) /\ Translated(q) \in Seq(Native)
         /\ Range(Offered(q)) = Stable(q.filter, Range(q.listed), Current(q), q.e)
         /\ Range(Kept(q)) =
              IF \/ q.e # "Jvm" \/ Wanted(Current(q)) = None
                 \/ Wanted(Current(q)) \notin PartitioningFlavours(Range(Offered(q)))
              THEN Range(Offered(q))
              ELSE Range(Offered(q)) \cap SamePart(Current(q), PartitioningFlavours(Range(Offered(q))))
         /\ Range(Translated(q)) = Range(Kept(q)) \cap {n \in Native : Readable(q.e, n)}
<1>0. q.listed \in Seq(Native)
  BY DEF Typical
<1>1. /\ Offered(q) \in Seq(Native)
      /\ Range(Offered(q)) = Stable(q.filter, Range(q.listed), Current(q), q.e)
  BY <1>0, UnstableLeaves DEF Offered
<1>2. /\ Kept(q) \in Seq(Native)
      /\ Range(Kept(q)) =
           IF \/ q.e # "Jvm" \/ Wanted(Current(q)) = None
              \/ Wanted(Current(q)) \notin PartitioningFlavours(Range(Offered(q)))
           THEN Range(Offered(q))
           ELSE Range(Offered(q)) \cap SamePart(Current(q), PartitioningFlavours(Range(Offered(q))))
  BY <1>1, FlavourLeaves DEF Kept
<1>3. /\ Translated(q) \in Seq(Native)
      /\ Range(Translated(q)) = Range(Kept(q)) \cap {n \in Native : Readable(q.e, n)}
  BY <1>2, ReadableLeaves DEF Translated
<1> QED
  BY <1>1, <1>2, <1>3

LEMMA NothingIsAdded ==
  ASSUME NEW q, Typical(q)
  PROVE  /\ Range(Offered(q)) \subseteq Range(q.listed)
         /\ Range(Kept(q)) \subseteq Range(Offered(q))
         /\ Range(Translated(q)) \subseteq Range(Kept(q))
         /\ Texted(Range(Translated(q)))
<1>1. /\ Range(Offered(q)) \subseteq Range(q.listed)
      /\ Range(Kept(q)) \subseteq Range(Offered(q))
      /\ Range(Translated(q)) \subseteq Range(Kept(q))
  BY FilteredList DEF Stable
<1>2. Texted(Range(q.listed))
  BY DEF Typical
<1> QED
  BY <1>1, <1>2 DEF Texted

LEMMA SomethingIsKept ==
  ASSUME NEW q, Typical(q), q.listed # <<>>
  PROVE  Kept(q) # <<>>
<1>0. q.listed \in Seq(Native)
  BY DEF Typical
<1>1. Range(q.listed) # {}
  BY <1>0, RangeOfList
<1>2. Range(Offered(q)) # {} /\ Range(Offered(q)) \subseteq Native
  BY <1>1, FilteredList, RangeOfList DEF Stable
<1>3. Range(Kept(q)) # {}
  <2>1. CASE Range(Kept(q)) = Range(Offered(q))
    BY <1>2, <2>1
  <2>2. CASE Range(Kept(q)) # Range(Offered(q))
    <3> DEFINE flavours == PartitioningFlavours(Range(Offered(q)))
    <3>1. /\ Wanted(Current(q)) \in flavours
          /\ Range(Kept(q)) = Range(Offered(q)) \cap SamePart(Current(q), flavours)
      BY <2>2, FilteredList
    <3>2. PICK n \in Range(Offered(q)) : Flavour(n) = Wanted(Current(q))
      BY <3>1, PartitioningIsPublished
    <3>3. n \in SamePart(Current(q), flavours)
      BY <1>2, <3>2 DEF SamePart
    <3> QED
      BY <3>1, <3>3
  <2> QED
    BY <2>1, <2>2
<1> QED
  BY <1>3, FilteredList, RangeOfList

LEMMA ReadingsTyped ==
  ASSUME NEW e, NEW list \in Seq(Native)
  PROVE  Readings(e, list) \subseteq Semver /\ IsFiniteSet(Readings(e, list))
<1>1. Range(list) \subseteq Native /\ IsFiniteSet(Range(list))
  BY RangeOfList
<1>2. Readings(e, list) \subseteq Semver
  BY <1>1, ReadingTyped DEF Readings
<1> DEFINE f == [n \in Range(list) |-> ToSemver(e, n)]
<1>3. f \in Surjection(Range(list), Readings(e, list))
  BY DEF Surjection, Readings
<1> HIDE DEF f
<1> QED
  BY <1>1, <1>2, <1>3, FS_Surjection

(* What is said of a version: how it is published.                         *)
Said(q, eval) == InNativeVersions(q.e, eval, Translated(q))

LEMMA SaidOfEvaluation ==
  ASSUME NEW q, NEW status, NEW c, NEW a, NEW m
  PROVE  Said(q, Evaluation(status, c, a, m))
           = Evaluation(status, NativeFor(q.e, c, Translated(q)),
                        NativeFor(q.e, a, Translated(q)), NativeFor(q.e, m, Translated(q)))
BY DEF Said, InNativeVersions, Evaluation

LEMMA CheckedQuestion ==
  ASSUME NEW q, Typical(q)
  PROVE  /\ Found(Checked(q), Readings(q.e, Translated(q)))
         /\ EvaluateVersions(q) = Said(q, Checked(q))
<1>1. Readings(q.e, Translated(q)) \subseteq Semver /\ IsFiniteSet(Readings(q.e, Translated(q)))
  BY FilteredList, ReadingsTyped
<1>2. Found(Checked(q), Readings(q.e, Translated(q)))
  BY <1>1, CheckedIsFound DEF Checked
<1> QED
  BY <1>2 DEF EvaluateVersions, Said

(* Every version reported is a published one, the highest of those that    *)
(* read as it does.                                                        *)
Highest(q, n) ==
  /\ n \in Range(Translated(q))
  /\ \A m \in Range(Translated(q)) :
       ToSemver(q.e, m) = ToSemver(q.e, n) => m = n \/ RanksBelow(q.e, m, n)

LEMMA SaidIsHighest ==
  ASSUME NEW q, Typical(q), NEW v \in Readings(q.e, Translated(q)) \cup {None}
  PROVE  NativeFor(q.e, v, Translated(q)) = None \/ Highest(q, NativeFor(q.e, v, Translated(q)))
<1>1. CASE v = None
  BY <1>1 DEF NativeFor
<1>2. CASE v # None
  <2>1. \E n \in Range(Translated(q)) : ToSemver(q.e, n) = v
    BY <1>2 DEF Readings
  <2>2. Translated(q) \in Seq(Native) /\ Texted(Range(Translated(q)))
    BY FilteredList, NothingIsAdded
  <2> DEFINE n == NativeFor(q.e, v, Translated(q))
  <2>3. /\ n \in Range(Translated(q)) /\ ToSemver(q.e, n) = v
        /\ \A m \in Range(Translated(q)) : ToSemver(q.e, m) = v => m = n \/ RanksBelow(q.e, m, n)
    BY <1>2, <2>1, <2>2, NativeIsListed
  <2> HIDE DEF n
  <2>4. Highest(q, n)
    BY <2>3 DEF Highest
  <2> QED
    BY <2>4 DEF n
<1> QED
  BY <1>1, <1>2

LEMMA ReportedIsHighest ==
  ASSUME NEW q, Typical(q), NEW n,
         n \in {EvaluateVersions(q).compatible, EvaluateVersions(q).available, EvaluateVersions(q).inMajor},
         n # None
  PROVE  Highest(q, n)
<1> DEFINE S == Readings(q.e, Translated(q)) \cup {None}
           F(v) == NativeFor(q.e, v, Translated(q))
<1>0. Found(Checked(q), Readings(q.e, Translated(q)))
  BY CheckedQuestion
<1>f. PICK status : \E c, a, m \in S : Checked(q) = Evaluation(status, c, a, m)
  BY <1>0, Zenon DEF Found
<1>1. PICK c \in S, a \in S, m \in S : Checked(q) = Evaluation(status, c, a, m)
  BY <1>f, Zenon
<1>2. EvaluateVersions(q) = Evaluation(status, F(c), F(a), F(m))
  BY <1>1, CheckedQuestion, SaidOfEvaluation
<1>3. n \in {F(c), F(a), F(m)}
  <2> HIDE DEF F
  <2> QED
    BY <1>2 DEF Evaluation
<1>4. \A v \in S : F(v) = None \/ Highest(q, F(v))
  BY SaidIsHighest
<1> HIDE DEF F, S
<1> QED
  BY <1>3, <1>4

(***************************************************************************)
(* The same releases in another order.                                     *)
(***************************************************************************)
Reordered(q, r) ==
  /\ r.e = q.e /\ r.written = q.written /\ r.locked = q.locked /\ r.filter = q.filter
  /\ Range(r.listed) = Range(q.listed)

LEMMA SameFiltered ==
  ASSUME NEW q, NEW r, Typical(q), Typical(r), Reordered(q, r)
  PROVE  Range(Translated(r)) = Range(Translated(q))
<1>1. Current(r) = Current(q)
  BY DEF Reordered, Current
<1>2. Range(Offered(r)) = Range(Offered(q))
  BY <1>1, FilteredList DEF Reordered
<1>3. Range(Kept(r)) = Range(Kept(q))
  BY <1>1, <1>2, FilteredList DEF Reordered
<1> QED
  BY <1>3, FilteredList DEF Reordered

LEMMA SameChecked ==
  ASSUME NEW q, NEW r, Typical(q), Typical(r), Reordered(q, r)
  PROVE  Checked(r) = Checked(q)
<1>1. Readings(r.e, Translated(r)) = Readings(q.e, Translated(q))
  BY SameFiltered DEF Readings, Reordered
<1> QED
  BY <1>1 DEF Checked, Reordered

LEMMA SameNative ==
  ASSUME NEW q, NEW r, Typical(q), Typical(r), Reordered(q, r),
         NEW v \in Readings(q.e, Translated(q)) \cup {None}
  PROVE  NativeFor(r.e, v, Translated(r)) = NativeFor(q.e, v, Translated(q))
<1>0. r.e = q.e /\ Range(Translated(r)) = Range(Translated(q))
  BY SameFiltered DEF Reordered
<1>1. CASE v = None
  BY <1>1 DEF NativeFor
<1>2. CASE v # None
  <2>1. \E n \in Range(Translated(q)) : ToSemver(q.e, n) = v
    BY <1>2 DEF Readings
  <2>2. /\ Translated(q) \in Seq(Native) /\ Texted(Range(Translated(q)))
        /\ Translated(r) \in Seq(Native) /\ Range(Translated(q)) \subseteq Native
    BY FilteredList, NothingIsAdded, RangeOfList
  <2> DEFINE n == NativeFor(q.e, v, Translated(q))
             m == NativeFor(q.e, v, Translated(r))
  <2>3. /\ n \in Range(Translated(q)) /\ ToSemver(q.e, n) = v
        /\ \A x \in Range(Translated(q)) : ToSemver(q.e, x) = v => x = n \/ RanksBelow(q.e, x, n)
    BY <1>2, <2>1, <2>2, NativeIsListed
  <2>4. /\ m \in Range(Translated(q)) /\ ToSemver(q.e, m) = v
        /\ \A x \in Range(Translated(q)) : ToSemver(q.e, x) = v => x = m \/ RanksBelow(q.e, x, m)
    BY <1>0, <1>2, <2>1, <2>2, NativeIsListed
  <2> HIDE DEF n, m
  <2>5. n = m
    <3>1. n = m \/ (RanksBelow(q.e, n, m) /\ RanksBelow(q.e, m, n))
      BY <2>3, <2>4
    <3>2. ~(RanksBelow(q.e, n, m) /\ RanksBelow(q.e, m, n))
      BY <2>2, <2>3, <2>4, RanksOrdered
    <3> QED
      BY <3>1, <3>2
  <2> QED
    BY <1>0, <2>5 DEF n, m
<1> QED
  BY <1>1, <1>2

LEMMA SameReport ==
  ASSUME NEW q, NEW r, Typical(q), Typical(r), Reordered(q, r)
  PROVE  EvaluateVersions(r) = EvaluateVersions(q)
<1> DEFINE S == Readings(q.e, Translated(q)) \cup {None}
           F(v) == NativeFor(q.e, v, Translated(q))
           G(v) == NativeFor(r.e, v, Translated(r))
<1>0. Found(Checked(q), Readings(q.e, Translated(q)))
  BY CheckedQuestion
<1>f. PICK status : \E c, a, m \in S : Checked(q) = Evaluation(status, c, a, m)
  BY <1>0, Zenon DEF Found
<1>1. PICK c \in S, a \in S, m \in S : Checked(q) = Evaluation(status, c, a, m)
  BY <1>f, Zenon
<1>2. EvaluateVersions(q) = Evaluation(status, F(c), F(a), F(m))
  BY <1>1, CheckedQuestion, SaidOfEvaluation
<1>3. EvaluateVersions(r) = Evaluation(status, G(c), G(a), G(m))
  BY <1>1, SameChecked, CheckedQuestion, SaidOfEvaluation
<1>4. \A v \in S : G(v) = F(v)
  BY SameNative
<1>5. G(c) = F(c) /\ G(a) = F(a) /\ G(m) = F(m)
  <2> HIDE DEF F, G, S
  <2> QED
    BY <1>4
<1> HIDE DEF F, G
<1> QED
  BY <1>2, <1>3, <1>5

LEMMA ReversedRange ==
  ASSUME NEW list \in Seq(Native)
  PROVE  Reverse(list) \in Seq(Native) /\ Range(Reverse(list)) = Range(list)
<1>0. Len(list) \in Nat /\ DOMAIN list = 1 .. Len(list) /\ \A i \in 1 .. Len(list) : list[i] \in Native
  OBVIOUS
<1> DEFINE n == Len(list)
           t == [i \in 1 .. n |-> list[(n - i) + 1]]
<1>1. Reverse(list) = t
  BY DEF Reverse
<1>2. \A i \in 1 .. n : (n - i) + 1 \in 1 .. n /\ (n - ((n - i) + 1)) + 1 = i
  BY <1>0
<1>3. t \in Seq(Native)
  <2>1. t \in [1 .. n -> Native]
    BY <1>0, <1>2
  <2> QED
    BY <1>0, <2>1
<1>4. DOMAIN t = 1 .. n /\ \A i \in 1 .. n : t[i] = list[(n - i) + 1]
  OBVIOUS
<1> HIDE DEF t, n
<1>5. \A i \in 1 .. n : \E j \in 1 .. n : t[i] = list[j] /\ t[j] = list[i]
  BY <1>2, <1>4
<1>6. DOMAIN list = 1 .. n
  BY <1>0 DEF n
<1>7. Range(t) \subseteq Range(list)
  BY <1>4, <1>5, <1>6 DEF Range
<1>8. Range(list) \subseteq Range(t)
  BY <1>4, <1>5, <1>6, SMTT(30) DEF Range
<1> QED
  BY <1>1, <1>3, <1>7, <1>8

LEMMA ReversedQuestion ==
  ASSUME NEW q, Typical(q)
  PROVE  LET r == [q EXCEPT !.listed = Reverse(@)] IN Typical(r) /\ Reordered(q, r)
<1> DEFINE r == [q EXCEPT !.listed = Reverse(@)]
<1>1. /\ r.e = q.e /\ r.written = q.written /\ r.locked = q.locked /\ r.filter = q.filter
      /\ r.listed = Reverse(q.listed) /\ DOMAIN r = DOMAIN q
  BY DEF Typical
<1> HIDE DEF r
<1>2. Reverse(q.listed) \in Seq(Native) /\ Range(Reverse(q.listed)) = Range(q.listed)
  BY ReversedRange DEF Typical
<1>3. Reordered(q, r)
  BY <1>1, <1>2 DEF Reordered
<1>4. Current(r) = Current(q)
  BY <1>1 DEF Current
<1>5. Typical(r)
  BY <1>1, <1>2, <1>4 DEF Typical
<1> QED
  BY <1>3, <1>5 DEF r

(***************************************************************************)
(* And the theorem.                                                        *)
(***************************************************************************)
LEMMA QuestionsTypical ==
  ASSUME NEW q \in Questions, IsList(q)
  PROVE  Typical(q) /\ None \notin Native
BY ListsAssumption DEF ListsAssumption, Typical, Texted

LEMMA ReportOfList ==
  ASSUME question \in Questions, IsList(question)
  PROVE  ReportedWasPublished
<1> DEFINE q == question
           flavours == PartitioningFlavours(Range(Offered(q)))
           wanted == Flavour(Current(q))
<1>0. Typical(q) /\ None \notin Native
  BY QuestionsTypical
<1>1. wanted = Wanted(Current(q))
  BY <1>0 DEF Wanted, Typical
<1>2. q.listed # <<>> => Kept(q) # <<>>
  BY <1>0, SomethingIsKept
<1>3. EvaluateVersions([q EXCEPT !.listed = Reverse(@)]) = EvaluateVersions(q)
  BY <1>0, ReversedQuestion, SameReport
<1>4. ASSUME NEW n,
             n \in {EvaluateVersions(q).compatible, EvaluateVersions(q).available, EvaluateVersions(q).inMajor},
             n # None
      PROVE  /\ n \in Range(q.listed) /\ Readable(q.e, n)
             /\ q.e \in {"Python", "CSharp"} =>
                  \A m \in Range(Kept(q)) :
                    ToSemver(q.e, m) = ToSemver(q.e, n) => ~SeqOlder(Padded(n), Padded(m))
             /\ q.filter = "Exclude" /\ IsPrerelease(q.e, n) => \A m \in Range(q.listed) : IsPrerelease(q.e, m)
             /\ q.e = "Jvm" /\ wanted \in flavours => Flavour(n) \in {None, wanted} \/ Flavour(n) \notin flavours
  <2>1. Highest(q, n)
    BY <1>0, <1>4, ReportedIsHighest
  <2>2. /\ n \in Range(Translated(q)) /\ n \in Range(Kept(q)) /\ n \in Range(Offered(q))
        /\ n \in Range(q.listed) /\ Readable(q.e, n) /\ n \in Native
    BY <1>0, <2>1, FilteredList, NothingIsAdded DEF Highest
  <2>3. ASSUME q.e \in {"Python", "CSharp"}, NEW m \in Range(Kept(q)), ToSemver(q.e, m) = ToSemver(q.e, n)
        PROVE  ~SeqOlder(Padded(n), Padded(m))
    <3>1. Readable(q.e, m)
      BY <2>3 DEF Readable
    <3>2. m \in Native /\ m \in Range(q.listed) /\ m \in Range(Translated(q))
      BY <1>0, <3>1, FilteredList, NothingIsAdded, RangeOfList DEF Typical
    <3>3. Numbered(q.e, n) /\ Numbered(q.e, m)
      BY <1>0, <2>2, <3>2 DEF Numbered, Typical
    <3>4. m = n \/ RanksBelow(q.e, m, n)
      BY <2>1, <2>3, <3>2 DEF Highest
    <3> QED
      BY <2>3, <3>3, <3>4, HighestIsNewest
  <2>4. ASSUME q.filter = "Exclude", IsPrerelease(q.e, n), NEW m \in Range(q.listed)
        PROVE  IsPrerelease(q.e, m)
    <3>1. ~Lets(q.filter, Current(q), q.e)
      BY <2>4 DEF Lets
    <3>2. n \notin Finals(q.e)
      BY <2>4 DEF Finals
    <3>3. Range(q.listed) \cap Finals(q.e) = {}
      BY <1>0, <2>2, <3>1, <3>2, FilteredList DEF Stable
    <3>4. m \in Native
      BY <1>0, RangeOfList DEF Typical
    <3> QED
      BY <3>3, <3>4 DEF Finals
  <2>5. ASSUME q.e = "Jvm", wanted \in flavours
        PROVE  Flavour(n) \in {None, wanted} \/ Flavour(n) \notin flavours
    <3>1. wanted # None
      BY <2>5, PartitioningIsPublished
    <3>2. n \in SamePart(Current(q), flavours)
      BY <1>0, <1>1, <2>2, <2>5, <3>1, FilteredList
    <3> QED
      BY <1>1, <3>2 DEF SamePart
  <2> QED
    BY <2>2, <2>3, <2>4, <2>5
<1> HIDE DEF flavours, wanted
<1> QED
  BY <1>2, <1>3, <1>4 DEF ReportedWasPublished, flavours, wanted

(* Whatever a registry lists and whatever is in use, what evaluate reports *)
(* is on the list, reads as a version, is the newest of those that read    *)
(* alike in any order of the list, and was not set aside by a filter; and  *)
(* no list filters down to nothing (check.rs, evaluate_versions).          *)
THEOREM ReportsArePublished == DialectsSpec => []ReportedWasPublished
<1> DEFINE Inv == question \in Questions \cup {None}
<1>1. DialectsInit => Inv
  BY DEF DialectsInit
<1>2. Inv /\ [UNCHANGED question]_question => Inv'
  OBVIOUS
<1>3. Inv => ReportedWasPublished
  <2> SUFFICES ASSUME Inv PROVE ReportedWasPublished
    OBVIOUS
  <2>1. CASE question # None /\ IsList(question)
    BY <2>1, ReportOfList
  <2>2. CASE ~(question # None /\ IsList(question))
    BY <2>2 DEF ReportedWasPublished
  <2> QED
    BY <2>1, <2>2
<1> QED
  BY <1>1, <1>2, <1>3, PTL DEF DialectsSpec
=============================================================================
