--------------------------- MODULE TuiLoopProofs ---------------------------
(***************************************************************************)
(* Theorems of TuiLoop, for any rows, views, packages and limits.          *)
(*                                                                         *)
(* Two facts carry the argument.  Until the projects found were received,  *)
(* nothing else happens (`Quiet`): the App that holds them replaces an     *)
(* empty one.  And a frame is drawn before each drain (`Drawn`): what no   *)
(* frame is owed for is on screen.                                         *)
(***************************************************************************)
EXTENDS TuiLoop, NatSets, SequenceTheorems

Releases == 0 .. MaxReleases

Data == {Loading, Failed} \cup
        {Ready(m, l) : m \in Releases, l \in Releases \cup {None}}

Texts == {None, "opening", "said"} \cup {Notices[i] : i \in 1 .. Len(Notices)}

Known == UNION {[D -> Data] : D \in SUBSET Keys}

(* The selection is on a row, or where the first would be.                 *)
OnRow(a) == a.selected \in 1 .. Len(a.rows) \/ (a.selected = 1 /\ a.rows = <<>>)

Apps == {a \in [rows : Views \cup {<<>>}, selected : Nat,
                mode : {"Browse", "Search", "Help"}, packages : Known,
                message : Texts, hover : Nat, open : BOOLEAN, scanning : BOOLEAN] :
            OnRow(a)}

Frames == [rows : Views \cup {<<>>}, selected : Nat,
           mode : {"Browse", "Search", "Help"}, packages : Known,
           message : Texts, hover : Nat, scanning : BOOLEAN]

Messages == [type : {"Notice"}, text : Texts]
    \cup [type : {"Projects"}, rows : Views]
    \cup [type : {"Package"}, key : Keys, data : Data \ {Loading}]

InFlight == [id : Nat, key : Keys, phase : {"metadata", "versions"},
             metadata : Releases \cup {None}]

Typed ==
    /\ pc \in {"draw", "pump", "poll", "quit"}
    /\ app \in Apps
    /\ pending \in {None} \cup [key : Keys, age : 0 .. Settle]
    /\ dirty \in BOOLEAN
    /\ screen \in Frames
    /\ channel \in Seq(Messages)
    /\ discovery \in 0 .. Len(Notices) + 1
    /\ lookups \subseteq InFlight
    /\ \A t \in lookups : /\ t.id \in 1 .. history.spawned
                          /\ t.phase = "versions" => t.metadata \in Releases
    /\ caches \in [Names -> [metadata : Releases \cup {None},
                             versions : Releases \cup {None}]]
    /\ release \in [Names -> Releases]
    /\ history \in [spawned : Nat, refreshes : Nat, expired : Nat]

(* The messages of one type.                                               *)
OfType(msgs, type) == {i \in DOMAIN msgs : msgs[i].type = type}

(* The App of the projects found is still to come.                         *)
Awaited == discovery <= Len(Notices) \/ OfType(channel, "Projects") # {}

(* Until it comes there is nothing to look up: an App without rows, no     *)
(* lookup, no answer.                                                      *)
Quiet ==
    /\ discovery <= Len(Notices) => OfType(channel, "Projects") = {}
    /\ Awaited => /\ app.rows = <<>> /\ app.scanning
                  /\ DOMAIN app.packages = {}
                  /\ pending = None /\ lookups = {} /\ history.spawned = 0
                  /\ OfType(channel, "Package") = {}

(* A frame shows an App, but for its message.                              *)
Shows(frame, a) ==
    /\ frame.rows = a.rows /\ frame.selected = a.selected /\ frame.mode = a.mode
    /\ frame.packages = a.packages /\ frame.hover = a.hover
    /\ frame.scanning = a.scanning

(* Before a drain the App is on screen; after it, unless a frame is owed.  *)
Drawn ==
    /\ pc = "pump" => ~dirty /\ Shows(screen, app)
    /\ pc \in {"poll", "draw"} /\ ~dirty => Shows(screen, app)
    /\ pc = "poll" => screen.rows \in {app.rows, <<>>}

UnderWay(k) ==
    \/ \E t \in lookups : t.key = k
    \/ \E i \in DOMAIN channel : channel[i].type = "Package" /\ channel[i].key = k

(* What is marked as loading is under way, and marks are kept of all that  *)
(* was looked up, but for those a refresh dropped.                         *)
Marked ==
    /\ \A k \in DOMAIN app.packages : app.packages[k] = Loading => UnderWay(k)
    /\ IsFiniteSet(DOMAIN app.packages)
    /\ history.spawned <= Cardinality(DOMAIN app.packages) + history.refreshes

IInv == Typed /\ Quiet /\ Drawn /\ Marked

-----------------------------------------------------------------------------
(***************************************************************************)
(* The drain.                                                              *)
(***************************************************************************)
USE DEF Loading, Failed, Ready

LEMMA KnownWith ==
  ASSUME NEW f \in Known, NEW k \in Keys, NEW d \in Data
  PROVE  With(f, k, d) \in Known
<1>1. PICK D \in SUBSET Keys : f \in [D -> Data]
  BY DEF Known
<1>2. With(f, k, d) \in [D \cup {k} -> Data]
  BY <1>1 DEF With
<1> QED
  BY <1>2 DEF Known

LEMMA KnownEmpty == <<>> \in Known /\ DOMAIN <<>> = {}
<1>1. <<>> \in [{} -> Data] /\ DOMAIN <<>> = {}
  OBVIOUS
<1> QED
  BY <1>1 DEF Known

(* A message makes an App of an App.                                       *)
LEMMA ReceivedType ==
  ASSUME NEW a \in Apps, NEW m \in Messages
  PROVE  Received(a, m) \in Apps
<1> USE DEF Apps, OnRow
<1>1. CASE m.type = "Projects"
  <2>1. m.rows \in Views
    BY <1>1 DEF Messages
  <2>2. m.rows \in Seq(Rows)
    BY <2>1, TuiAssumption
  <2>3. Received(a, m) = [NewApp(m.rows) EXCEPT !.message = a.message]
    BY <1>1 DEF Received
  <2>4. None \in Texts /\ a.message \in Texts
    BY DEF Texts
  <2>5. Received(a, m) = [rows |-> m.rows, selected |-> 1, mode |-> "Browse",
                          packages |-> <<>>, message |-> a.message, hover |-> 0,
                          open |-> FALSE, scanning |-> FALSE]
    BY <2>3 DEF NewApp
  <2>6. 1 \in 1 .. Len(m.rows) \/ m.rows = <<>>
    BY <2>2
  <2> QED
    BY <2>1, <2>4, <2>5, <2>6, KnownEmpty
<1>2. CASE m.type = "Package"
  <2>1. m.key \in Keys /\ m.data \in Data
    BY <1>2 DEF Messages
  <2>2. Received(a, m) = [a EXCEPT !.packages = With(a.packages, m.key, m.data)]
    BY <1>2 DEF Received
  <2>3. With(a.packages, m.key, m.data) \in Known
    BY <2>1, KnownWith
  <2> QED
    BY <2>2, <2>3
<1>3. CASE m.type = "Notice"
  <2>1. m.text \in Texts
    BY <1>3 DEF Messages
  <2>2. Received(a, m) = [a EXCEPT !.message = m.text]
    BY <1>3 DEF Received
  <2> QED
    BY <2>1, <2>2
<1> QED
  BY <1>1, <1>2, <1>3 DEF Messages

(* The drain is a sequence of Apps, one message apart.                     *)
Drain(g, a, msgs) ==
    /\ g \in [0 .. Len(msgs) -> Apps]
    /\ g[0] = a
    /\ \A i \in 1 .. Len(msgs) : g[i] = Received(g[i - 1], msgs[i])
    /\ AfterAll(a, msgs) = g[Len(msgs)]

LEMMA Drained ==
  ASSUME NEW a \in Apps, NEW msgs \in Seq(Messages)
  PROVE  \E g : Drain(g, a, msgs)
<1> DEFINE n == Len(msgs)
           Along(g) == g = [i \in 0 .. n |-> IF i = 0 THEN a
                                             ELSE Received(g[i - 1], msgs[i])]
           step == [p \in Nat \X Apps |-> IF p[1] \in 1 .. n
                                          THEN Received(p[2], msgs[p[1]]) ELSE p[2]]
<1>0. n \in Nat /\ \A i \in 1 .. n : msgs[i] \in Messages
  OBVIOUS
<1>1. step \in [Nat \X Apps -> Apps]
  <2> SUFFICES ASSUME NEW p \in Nat \X Apps
               PROVE  (IF p[1] \in 1 .. n THEN Received(p[2], msgs[p[1]]) ELSE p[2])
                         \in Apps
    OBVIOUS
  <2>1. p[2] \in Apps
    OBVIOUS
  <2>2. ASSUME p[1] \in 1 .. n PROVE Received(p[2], msgs[p[1]]) \in Apps
    BY <1>0, <2>1, <2>2, ReceivedType
  <2> QED
    BY <2>1, <2>2
<1>2. \A i \in 1 .. n : \A b \in Apps : step[<<i, b>>] = Received(b, msgs[i])
  <2> SUFFICES ASSUME NEW i \in 1 .. n, NEW b \in Apps
               PROVE  step[<<i, b>>] = Received(b, msgs[i])
    OBVIOUS
  <2>1. <<i, b>> \in Nat \X Apps
    OBVIOUS
  <2> QED
    BY <2>1
<1> HIDE DEF step
<1>3. PICK g : Unrolls(g, Apps, a, step, n)
  <2>1. a \in Apps /\ n \in Nat
    BY <1>0
  <2> HIDE DEF n
  <2> QED
    BY <1>1, <2>1, Unrolled, Zenon
<1>4. \A i \in 1 .. n : g[i] = Received(g[i - 1], msgs[i])
  <2> SUFFICES ASSUME NEW i \in 1 .. n PROVE g[i] = Received(g[i - 1], msgs[i])
    OBVIOUS
  <2>1. i - 1 \in 0 .. n
    BY <1>0
  <2> QED
    BY <1>2, <1>3, <2>1 DEF Unrolls
<1>5. Along(g)
  BY <1>0, <1>3, <1>4 DEF Unrolls
<1> DEFINE f == CHOOSE h : Along(h)
<1>6. Along(f)
  BY <1>5
<1>7. AfterAll(a, msgs) = f[n]
  BY DEF AfterAll
<1> HIDE DEF f
<1>8. f[0] = a /\ \A i \in 1 .. n : f[i] = Received(f[i - 1], msgs[i])
  BY <1>0, <1>6
<1>9. \A i \in 0 .. n : f[i] \in Apps
  <2> DEFINE S == {k \in Nat : k <= n => f[k] \in Apps}
  <2>1. 0 \in S
    BY <1>8
  <2>2. ASSUME NEW k \in Nat, k \in S PROVE k + 1 \in S
    <3> SUFFICES ASSUME k + 1 <= n PROVE f[k + 1] \in Apps
      OBVIOUS
    <3>1. k + 1 \in 1 .. n /\ (k + 1) - 1 = k /\ k <= n
      BY <1>0
    <3>2. f[k] \in Apps /\ msgs[k + 1] \in Messages
      BY <1>0, <2>2, <3>1
    <3> QED
      BY <1>8, <3>1, <3>2, ReceivedType
  <2> HIDE DEF S
  <2>3. Nat \subseteq S
    BY <2>1, <2>2, SetInduction
  <2> QED
    BY <1>0, <2>3 DEF S
<1>10. f \in [0 .. n -> Apps]
  BY <1>6, <1>9
<1> QED
  BY <1>7, <1>8, <1>10 DEF Drain

LEMMA DrainTyped ==
  ASSUME NEW a \in Apps, NEW msgs \in Seq(Messages)
  PROVE  AfterAll(a, msgs) \in Apps
<1>1. PICK g : Drain(g, a, msgs)
  BY Drained
<1> QED
  BY <1>1 DEF Drain

LEMMA DrainOfNothing ==
  ASSUME NEW a \in Apps, NEW msgs \in Seq(Messages), msgs = <<>>
  PROVE  AfterAll(a, msgs) = a
<1>1. PICK g : Drain(g, a, msgs)
  BY Drained
<1>2. Len(msgs) = 0
  OBVIOUS
<1> QED
  BY <1>1, <1>2 DEF Drain

(* What a drain without projects leaves of the App: everything but the     *)
(* message and the packages, and of those only finished ones come in, and  *)
(* all that were answered are finished.                                    *)
Keeps(a, b) ==
    /\ b.rows = a.rows /\ b.selected = a.selected /\ b.mode = a.mode
    /\ b.hover = a.hover /\ b.open = a.open /\ b.scanning = a.scanning
    /\ DOMAIN a.packages \subseteq DOMAIN b.packages
    /\ IsFiniteSet(DOMAIN a.packages) => IsFiniteSet(DOMAIN b.packages)
    /\ \A k \in DOMAIN b.packages : b.packages[k] = Loading =>
           k \in DOMAIN a.packages /\ a.packages[k] = Loading

LEMMA ReceivedKeeps ==
  ASSUME NEW a \in Apps, NEW b \in Apps, NEW m \in Messages,
         m.type # "Projects", Keeps(a, b)
  PROVE  /\ Keeps(a, Received(b, m))
         /\ \A k \in DOMAIN Received(b, m).packages :
                Received(b, m).packages[k] = Loading =>
                    /\ k \in DOMAIN b.packages /\ b.packages[k] = Loading
                    /\ ~(m.type = "Package" /\ m.key = k)
<1>1. CASE m.type = "Package"
  <2> DEFINE c == Received(b, m)
  <2>1. m.key \in Keys /\ m.data # Loading
    BY <1>1 DEF Messages
  <2>2. c = [b EXCEPT !.packages = With(b.packages, m.key, m.data)]
    BY <1>1 DEF Received
  <2>3. c.packages = With(b.packages, m.key, m.data)
    BY <2>2 DEF Apps
  <2>4. /\ c.rows = b.rows /\ c.selected = b.selected /\ c.mode = b.mode
        /\ c.hover = b.hover /\ c.open = b.open /\ c.scanning = b.scanning
    BY <2>2 DEF Apps
  <2> HIDE DEF c
  <2>5. DOMAIN c.packages = DOMAIN b.packages \cup {m.key}
    BY <2>3 DEF With
  <2>6. ASSUME NEW k \in DOMAIN c.packages, c.packages[k] = Loading
        PROVE  k \in DOMAIN b.packages /\ b.packages[k] = Loading /\ m.key # k
    BY <2>1, <2>3, <2>6, Zenon DEF With
  <2>7. IsFiniteSet(DOMAIN b.packages) => IsFiniteSet(DOMAIN c.packages)
    BY <2>5, FS_AddElement
  <2>8. Keeps(a, c)
    BY <2>4, <2>5, <2>6, <2>7 DEF Keeps
  <2> QED
    BY <2>6, <2>8 DEF c
<1>2. CASE m.type = "Notice"
  <2> DEFINE c == Received(b, m)
  <2>1. c = [b EXCEPT !.message = m.text]
    BY <1>2 DEF Received
  <2>2. /\ c.rows = b.rows /\ c.selected = b.selected /\ c.mode = b.mode
        /\ c.hover = b.hover /\ c.open = b.open /\ c.scanning = b.scanning
        /\ c.packages = b.packages
    BY <2>1 DEF Apps
  <2> QED
    BY <1>2, <2>2 DEF Keeps
<1> QED
  BY <1>1, <1>2 DEF Messages

LEMMA DrainKeeps ==
  ASSUME NEW a \in Apps, NEW msgs \in Seq(Messages), OfType(msgs, "Projects") = {}
  PROVE  /\ Keeps(a, AfterAll(a, msgs))
         /\ \A k \in DOMAIN AfterAll(a, msgs).packages :
                AfterAll(a, msgs).packages[k] = Loading =>
                    \A i \in DOMAIN msgs : ~(msgs[i].type = "Package" /\ msgs[i].key = k)
<1>1. PICK g : Drain(g, a, msgs)
  BY Drained
<1> DEFINE n == Len(msgs)
           Fresh(b, j) == \A k \in DOMAIN b.packages : b.packages[k] = Loading =>
               \A i \in 1 .. j : ~(msgs[i].type = "Package" /\ msgs[i].key = k)
           S == {j \in Nat : j <= n => Keeps(a, g[j]) /\ Fresh(g[j], j)}
<1>2. n \in Nat /\ DOMAIN msgs = 1 .. n
  OBVIOUS
<1>3. \A i \in 1 .. n : msgs[i] \in Messages /\ msgs[i].type # "Projects"
  BY <1>2 DEF OfType
<1>4. 0 \in S
  <2>1. Keeps(a, g[0])
    BY <1>1 DEF Drain, Keeps
  <2>2. Fresh(g[0], 0)
    OBVIOUS
  <2> QED
    BY <2>1, <2>2
<1>5. ASSUME NEW j \in Nat, j \in S PROVE j + 1 \in S
  <2> SUFFICES ASSUME j + 1 <= n PROVE Keeps(a, g[j + 1]) /\ Fresh(g[j + 1], j + 1)
    OBVIOUS
  <2>1. j + 1 \in 1 .. n /\ j \in 0 .. n /\ (j + 1) - 1 = j /\ j <= n
    BY <1>2
  <2>2. g[j] \in Apps /\ g[j + 1] = Received(g[j], msgs[j + 1])
    BY <1>1, <2>1 DEF Drain
  <2>3. Keeps(a, g[j]) /\ Fresh(g[j], j)
    BY <1>5, <2>1
  <2> DEFINE m == msgs[j + 1]
  <2>4. /\ Keeps(a, Received(g[j], m))
        /\ \A k \in DOMAIN Received(g[j], m).packages :
               Received(g[j], m).packages[k] = Loading =>
                   /\ k \in DOMAIN g[j].packages /\ g[j].packages[k] = Loading
                   /\ ~(m.type = "Package" /\ m.key = k)
    <3>1. m \in Messages /\ m.type # "Projects"
      BY <1>3, <2>1
    <3> HIDE DEF m
    <3> QED
      BY <2>2, <2>3, <3>1, ReceivedKeeps
  <2>5. \A i \in 1 .. j + 1 : i \in 1 .. j \/ i = j + 1
    OBVIOUS
  <2>6. Fresh(g[j + 1], j + 1)
    BY <2>2, <2>3, <2>4, <2>5, Zenon
  <2> QED
    BY <2>2, <2>4, <2>6
<1> HIDE DEF S
<1>6. n \in S
  BY <1>2, <1>4, <1>5, SetInduction
<1>7. Keeps(a, g[n]) /\ Fresh(g[n], n)
  BY <1>2, <1>6 DEF S
<1> QED
  BY <1>1, <1>2, <1>7 DEF Drain

LEMMA DrainStaysEmpty ==
  ASSUME NEW a \in Apps, NEW msgs \in Seq(Messages),
         OfType(msgs, "Package") = {}, DOMAIN a.packages = {}
  PROVE  DOMAIN AfterAll(a, msgs).packages = {}
<1>1. PICK g : Drain(g, a, msgs)
  BY Drained
<1> DEFINE n == Len(msgs)
           S == {j \in Nat : j <= n => DOMAIN g[j].packages = {}}
<1>2. n \in Nat /\ DOMAIN msgs = 1 .. n
  OBVIOUS
<1>3. \A i \in 1 .. n : msgs[i] \in Messages /\ msgs[i].type # "Package"
  BY <1>2 DEF OfType
<1>4. 0 \in S
  BY <1>1 DEF Drain
<1>5. ASSUME NEW j \in Nat, j \in S PROVE j + 1 \in S
  <2> SUFFICES ASSUME j + 1 <= n PROVE DOMAIN g[j + 1].packages = {}
    OBVIOUS
  <2>1. j + 1 \in 1 .. n /\ j \in 0 .. n /\ (j + 1) - 1 = j /\ j <= n
    BY <1>2
  <2> DEFINE m == msgs[j + 1]
  <2>2. g[j] \in Apps /\ g[j + 1] = Received(g[j], m)
    BY <1>1, <2>1 DEF Drain
  <2>3. m \in Messages /\ m.type # "Package" /\ DOMAIN g[j].packages = {}
    BY <1>3, <1>5, <2>1
  <2> HIDE DEF m
  <2>4. CASE m.type = "Projects"
    <3>1. g[j + 1] = [NewApp(m.rows) EXCEPT !.message = g[j].message]
      BY <2>2, <2>4 DEF Received
    <3>2. g[j + 1].packages = <<>>
      BY <3>1 DEF NewApp
    <3> QED
      BY <3>2
  <2>5. CASE m.type = "Notice"
    <3>1. g[j + 1] = [g[j] EXCEPT !.message = m.text]
      BY <2>2, <2>5 DEF Received
    <3>2. g[j + 1].packages = g[j].packages
      BY <2>2, <3>1 DEF Apps
    <3> QED
      BY <2>3, <3>2
  <2> QED
    BY <2>3, <2>4, <2>5 DEF Messages
<1> HIDE DEF S
<1>6. n \in S
  BY <1>2, <1>4, <1>5, SetInduction
<1>7. DOMAIN g[n].packages = {}
  BY <1>2, <1>6 DEF S
<1> QED
  BY <1>1, <1>7 DEF Drain

-----------------------------------------------------------------------------
(***************************************************************************)
(* The invariant.                                                          *)
(***************************************************************************)
LEMMA InitInv == Init => IInv
<1> SUFFICES ASSUME Init PROVE IInv
  OBVIOUS
<1> USE DEF Init
<1>1. <<>> \in Known /\ DOMAIN <<>> = {} /\ None \in Texts
  BY KnownEmpty DEF Texts
<1>2. app = [rows |-> <<>>, selected |-> 1, mode |-> "Browse", packages |-> <<>>,
             message |-> None, hover |-> 0, open |-> FALSE, scanning |-> TRUE]
  BY DEF NewApp
<1>3. app \in Apps
  <2> HIDE DEF Init
  <2>1. app.rows = <<>> /\ app.selected = 1
    BY <1>2
  <2>2. OnRow(app)
    BY <2>1 DEF OnRow
  <2>3. <<>> \in Views \cup {<<>>}
    OBVIOUS
  <2> QED
    BY <1>1, <1>2, <2>2, <2>3 DEF Apps
<1>4. screen \in Frames
  BY <1>1 DEF Blank, Frames
<1>5. 0 \in Releases /\ discovery \in 0 .. Len(Notices) + 1
  BY TuiAssumption DEF Releases
<1>6. channel \in Seq(Messages) /\ DOMAIN channel = {}
  OBVIOUS
<1>7. history \in [spawned : Nat, refreshes : Nat, expired : Nat]
  OBVIOUS
<1>8. caches \in [Names -> [metadata : Releases \cup {None},
                            versions : Releases \cup {None}]]
  <2>1. [metadata |-> None, versions |-> None] \in
            [metadata : Releases \cup {None}, versions : Releases \cup {None}]
    OBVIOUS
  <2> QED
    BY <2>1, Zenon
<1>9. release \in [Names -> Releases]
  BY <1>5
<1>10. Typed
  BY <1>3, <1>4, <1>5, <1>6, <1>7, <1>8, <1>9 DEF Typed
<1>11. Quiet
  BY <1>1, <1>2, <1>6 DEF Quiet, Awaited, OfType
<1>12. Drawn
  BY DEF Drawn
<1>13. Marked
  <2>1. app.packages = <<>> /\ history.spawned = 0 /\ history.refreshes = 0
    BY <1>2
  <2>2. IsFiniteSet({}) /\ Cardinality({}) = 0
    BY FS_EmptySet
  <2> QED
    BY <1>1, <2>1, <2>2 DEF Marked
<1> QED
  BY <1>10, <1>11, <1>12, <1>13 DEF IInv

LEMMA Selection ==
  ASSUME NEW a \in Apps
  PROVE  /\ SelectedKey(a) \in Keys \cup {None}
         /\ a.rows = <<>> => SelectedKey(a) = None
<1>1. a.rows \in Seq(Rows)
  <2>1. a.rows \in Views \cup {<<>>}
    BY DEF Apps
  <2>2. Views \subseteq Seq(Rows) /\ <<>> \in Seq(Rows)
    BY TuiAssumption
  <2> QED
    BY <2>1, <2>2, Zenon
<1>2. a.selected \in DOMAIN a.rows => a.rows[a.selected] \in Rows
  BY <1>1
<1>3. a.rows = <<>> => DOMAIN a.rows = {}
  OBVIOUS
<1>4. KeyOf \in [Rows -> Keys \cup {None}]
  BY TuiAssumption
<1> HIDE TuiAssumption
<1> QED
  BY <1>2, <1>3, <1>4 DEF SelectedKey, SelectedRow

LEMMA DrawStep == ASSUME IInv, Draw PROVE IInv'
<1> USE DEF IInv, Draw
<1>1. Shows(screen', app)
  <2>1. CASE dirty
    BY <2>1 DEF View, Shows
  <2>2. CASE ~dirty
    BY <2>2 DEF Drawn
  <2> QED
    BY <2>1, <2>2
<1>2. screen' \in Frames
  <2>1. View(app) \in Frames
    BY DEF Typed, View, Frames, Apps
  <2> QED
    BY <2>1 DEF Typed
<1>3. Typed'
  BY <1>2 DEF Typed
<1>4. Quiet'
  BY DEF Quiet, Awaited
<1>5. Drawn'
  BY <1>1 DEF Drawn, Shows
<1>6. Marked'
  BY DEF Marked, UnderWay
<1> QED
  BY <1>3, <1>4, <1>5, <1>6

(* An input that leaves an App in order.                                   *)
LEMMA InputStep ==
  ASSUME IInv, NEW a \in Apps, NEW redraw \in BOOLEAN, Input(a, redraw),
         history' \in [spawned : Nat, refreshes : Nat, expired : Nat],
         history'.spawned = history.spawned,
         Awaited => a.rows = <<>> /\ a.scanning /\ DOMAIN a.packages = {},
         ~dirty /\ ~redraw => Shows(screen, a),
         IsFiniteSet(DOMAIN a.packages),
         \A k \in DOMAIN a.packages : a.packages[k] = Loading =>
             k \in DOMAIN app.packages /\ app.packages[k] = Loading,
         history'.spawned <= Cardinality(DOMAIN a.packages) + history'.refreshes
  PROVE  IInv'
<1> USE DEF IInv, Input
<1>1. pending' \in {None} \cup [key : Keys, age : 0 .. Settle]
  <2>1. 0 \in 0 .. Settle
    BY TuiAssumption
  <2>2. pending \in {None} \cup [key : Keys, age : 0 .. Settle]
    BY DEF Typed
  <2>3. SelectedKey(a) # None =>
            [key |-> SelectedKey(a), age |-> 0] \in [key : Keys, age : 0 .. Settle]
    BY <2>1, Selection
  <2> HIDE TuiAssumption
  <2> QED
    BY <2>2, <2>3 DEF Queue
<1>2. Typed'
  BY <1>1 DEF Typed
<1>3. Awaited => pending' = None
  BY Selection DEF Queue, Quiet
<1>4. Quiet'
  BY <1>3 DEF Quiet, Awaited
<1>5. Drawn'
  BY DEF Drawn, Shows, Typed
<1>6. Marked'
  BY DEF Marked, UnderWay
<1> QED
  BY <1>2, <1>4, <1>5, <1>6

(* An input that leaves packages and history as they are.                  *)
LEMMA PlainInput ==
  ASSUME IInv, NEW a \in Apps, NEW redraw \in BOOLEAN, Input(a, redraw),
         UNCHANGED history, a.packages = app.packages,
         Awaited => a.rows = <<>> /\ a.scanning,
         ~dirty /\ ~redraw => Shows(screen, a)
  PROVE  IInv'
<1>1. history' \in [spawned : Nat, refreshes : Nat, expired : Nat]
  BY DEF IInv, Typed
<1>2. Awaited => DOMAIN a.packages = {}
  BY DEF IInv, Quiet
<1>3. /\ IsFiniteSet(DOMAIN a.packages)
      /\ history'.spawned <= Cardinality(DOMAIN a.packages) + history'.refreshes
  BY DEF IInv, Marked
<1>4. \A k \in DOMAIN a.packages : a.packages[k] = Loading =>
          k \in DOMAIN app.packages /\ app.packages[k] = Loading
  OBVIOUS
<1> QED
  BY <1>1, <1>2, <1>3, <1>4, InputStep

LEMMA ClearedType ==
  ASSUME IInv
  PROVE  /\ Cleared \in Apps
         /\ Cleared.rows = app.rows /\ Cleared.selected = app.selected
         /\ Cleared.mode = app.mode /\ Cleared.packages = app.packages
         /\ Cleared.hover = app.hover /\ Cleared.scanning = app.scanning
<1>1. app \in Apps /\ None \in Texts
  BY DEF IInv, Typed, Texts
<1> QED
  BY <1>1 DEF Cleared, Apps, OnRow

LEMMA RowsAreSequences ==
  ASSUME NEW rows \in Views \cup {<<>>}
  PROVE  rows \in Seq(Rows) /\ Len(rows) \in Nat /\ DOMAIN rows = 1 .. Len(rows)
<1>1. Views \subseteq Seq(Rows) /\ <<>> \in Seq(Rows)
  BY TuiAssumption
<1>2. rows \in Seq(Rows)
  BY <1>1, Zenon
<1> QED
  BY <1>2

LEMMA MoveStep == ASSUME IInv, Move PROVE IInv'
<1>1. PICK i \in DOMAIN app.rows : Input([Cleared EXCEPT !.selected = i], TRUE)
  BY DEF Move
<1> DEFINE a == [Cleared EXCEPT !.selected = i]
<1>2. app \in Apps
  BY DEF IInv, Typed
<1>3. app.rows \in Views \cup {<<>>}
  BY <1>2 DEF Apps
<1>4. DOMAIN app.rows = 1 .. Len(app.rows) /\ Len(app.rows) \in Nat
  BY <1>3, RowsAreSequences
<1>5. a \in Apps /\ a.packages = app.packages /\ a.rows = app.rows /\ a.scanning = app.scanning
  <2>1. i \in Nat /\ i \in 1 .. Len(app.rows)
    BY <1>4
  <2> QED
    BY <2>1, ClearedType DEF Apps, OnRow
<1>6. UNCHANGED history
  BY DEF Move
<1>7. ~Awaited
  <2>1. app.rows # <<>>
    OBVIOUS
  <2> QED
    BY <2>1 DEF IInv, Quiet
<1> HIDE DEF a
<1> QED
  BY <1>1, <1>5, <1>6, <1>7, PlainInput DEF a

LEMMA KeptOnRow ==
  ASSUME IInv, NEW rows \in Views, NEW i \in {Kept(rows), 1}
  PROVE  i \in Nat /\ (i \in 1 .. Len(rows) \/ (i = 1 /\ rows = <<>>))
<1>1. rows \in Seq(Rows) /\ Len(rows) \in Nat /\ DOMAIN rows = 1 .. Len(rows)
  BY RowsAreSequences
<1>2. app.selected \in Nat /\ OnRow(app) /\ app.rows \in Views \cup {<<>>}
  BY DEF IInv, Typed, Apps
<1>3. Len(app.rows) \in Nat
  BY <1>2, RowsAreSequences
<1>4. app.selected >= 1
  BY <1>2, <1>3 DEF OnRow
<1> DEFINE here == {j \in DOMAIN rows : rows[j] = SelectedRow(app)}
<1>5. CASE here # {}
  <2>1. (CHOOSE j \in here : TRUE) \in here
    BY <1>5
  <2>2. here \subseteq 1 .. Len(rows)
    BY <1>1
  <2>3. Kept(rows) = CHOOSE j \in here : TRUE
    BY <1>5 DEF Kept
  <2> HIDE DEF here
  <2>4. Kept(rows) \in 1 .. Len(rows)
    BY <2>1, <2>2, <2>3
  <2> QED
    BY <1>1, <2>4
<1>6. CASE here = {} /\ app.selected <= Len(rows)
  <2>1. Kept(rows) = app.selected
    BY <1>6 DEF Kept
  <2> QED
    BY <1>1, <1>2, <1>4, <1>6, <2>1
<1>7. CASE here = {} /\ ~(app.selected <= Len(rows))
  <2>1. Kept(rows) = IF rows = <<>> THEN 1 ELSE Len(rows)
    BY <1>7 DEF Kept
  <2>2. rows # <<>> => Len(rows) >= 1
    BY <1>1
  <2> QED
    BY <1>1, <2>1, <2>2
<1> QED
  BY <1>5, <1>6, <1>7

LEMMA RearrangeStep == ASSUME IInv, Rearrange PROVE IInv'
<1>1. PICK rows \in Views, mode \in {app.mode, "Browse"} :
          \E i \in {Kept(rows), 1} :
              Input([Cleared EXCEPT !.rows = rows, !.selected = i, !.mode = mode], TRUE)
  BY DEF Rearrange
<1>2. PICK i \in {Kept(rows), 1} :
          Input([Cleared EXCEPT !.rows = rows, !.selected = i, !.mode = mode], TRUE)
  BY <1>1
<1> DEFINE a == [Cleared EXCEPT !.rows = rows, !.selected = i, !.mode = mode]
<1>3. i \in Nat /\ (i \in 1 .. Len(rows) \/ (i = 1 /\ rows = <<>>))
  BY KeptOnRow
<1>4. mode \in {"Browse", "Search", "Help"}
  BY DEF IInv, Typed, Apps
<1>5. a \in Apps /\ a.packages = app.packages
  <2>1. Cleared \in Apps /\ Cleared.packages = app.packages
    BY ClearedType
  <2>2. a.rows = rows /\ a.selected = i
    BY <2>1 DEF Apps
  <2>3. OnRow(a)
    BY <1>3, <2>2 DEF OnRow
  <2> QED
    BY <1>3, <1>4, <2>1, <2>3 DEF Apps
<1>6. UNCHANGED history /\ ~app.scanning
  BY DEF Rearrange
<1>7. ~Awaited
  BY <1>6 DEF IInv, Quiet
<1> HIDE DEF a
<1> QED
  BY <1>2, <1>5, <1>6, <1>7, PlainInput DEF a

LEMMA SetModeStep == ASSUME IInv, SetMode PROVE IInv'
<1>1. PICK mode \in {"Browse", "Search", "Help"} :
          Input([Cleared EXCEPT !.mode = mode], TRUE)
  BY DEF SetMode
<1> DEFINE a == [Cleared EXCEPT !.mode = mode]
<1>2. a \in Apps /\ a.packages = app.packages /\ a.rows = app.rows /\ a.scanning = app.scanning
  BY ClearedType DEF Apps, OnRow
<1>3. UNCHANGED history
  BY DEF SetMode
<1>4. Awaited => a.rows = <<>> /\ a.scanning
  BY <1>2 DEF IInv, Quiet
<1> HIDE DEF a
<1> QED
  BY <1>1, <1>2, <1>3, <1>4, PlainInput DEF a

LEMMA HoverStep == ASSUME IInv, Hover PROVE IInv'
<1>1. PICK i \in 0 .. Len(screen.rows) :
          Input([Cleared EXCEPT !.hover = IF i \in DOMAIN app.rows THEN i ELSE 0],
                app.hover # i)
  BY DEF Hover
<1> DEFINE h == IF i \in DOMAIN app.rows THEN i ELSE 0
           a == [Cleared EXCEPT !.hover = h]
<1>2. screen.rows \in {app.rows, <<>>}
  BY <1>1 DEF IInv, Drawn, Input
<1>3. app.rows \in Views \cup {<<>>}
  BY DEF IInv, Typed, Apps
<1>4. Len(app.rows) \in Nat /\ DOMAIN app.rows = 1 .. Len(app.rows) /\ Len(<<>>) = 0
  BY <1>3, RowsAreSequences
<1>5. i \in Nat /\ (i \in DOMAIN app.rows \/ i = 0) /\ h = i
  BY <1>2, <1>4
<1> HIDE DEF h
<1>6. /\ a \in Apps /\ a.packages = app.packages /\ a.rows = app.rows
      /\ a.scanning = app.scanning /\ a.hover = i /\ a.selected = app.selected
      /\ a.mode = app.mode
  BY <1>5, ClearedType DEF Apps, OnRow
<1>7. UNCHANGED history
  BY DEF Hover
<1>8. Awaited => a.rows = <<>> /\ a.scanning
  BY <1>6 DEF IInv, Quiet
<1>9. ~dirty /\ ~(app.hover # i) => Shows(screen, a)
  <2>1. ~dirty => Shows(screen, app)
    BY <1>1 DEF IInv, Drawn, Input
  <2> QED
    BY <1>6, <2>1 DEF Shows
<1>10. (app.hover # i) \in BOOLEAN
  OBVIOUS
<1>11. Input(a, app.hover # i)
  BY <1>1 DEF h
<1> HIDE DEF a
<1> QED
  BY <1>6, <1>7, <1>8, <1>9, <1>10, <1>11, PlainInput

LEMMA OpenLinkStep == ASSUME IInv, OpenLink PROVE IInv'
<1> DEFINE a == IF SelectedKey(app) # None THEN [Cleared EXCEPT !.open = TRUE]
                                           ELSE [Cleared EXCEPT !.message = "said"]
<1>1. "said" \in Texts
  BY DEF Texts
<1>2. a \in Apps /\ a.packages = app.packages /\ a.rows = app.rows /\ a.scanning = app.scanning
  BY <1>1, ClearedType DEF Apps, OnRow
<1>3. UNCHANGED history /\ Input(a, TRUE)
  BY DEF OpenLink
<1>4. Awaited => a.rows = <<>> /\ a.scanning
  BY <1>2 DEF IInv, Quiet
<1> HIDE DEF a
<1> QED
  BY <1>2, <1>3, <1>4, PlainInput

LEMMA RefreshStep == ASSUME IInv, Refresh PROVE IInv'
<1> DEFINE key == SelectedKey(app)
           a   == [Cleared EXCEPT !.packages = Without(app.packages, key)]
<1>1. CASE key = None
  <2>1. Input(Cleared, TRUE) /\ UNCHANGED history
    BY <1>1 DEF Refresh
  <2>2. Awaited => Cleared.rows = <<>> /\ Cleared.scanning
    BY ClearedType DEF IInv, Quiet
  <2> QED
    BY <2>1, <2>2, ClearedType, PlainInput
<1>2. CASE key # None
  <2>1. /\ Input([Cleared EXCEPT !.packages = Without(@, key)], TRUE)
        /\ history' = [history EXCEPT !.refreshes = history.refreshes + 1]
    BY <1>2 DEF Refresh
  <2>2. Input(a, TRUE)
    <3>1. [Cleared EXCEPT !.packages = Without(@, key)] =
              [Cleared EXCEPT !.packages = Without(Cleared.packages, key)]
      OBVIOUS
    <3> QED
      BY <2>1, <3>1, ClearedType
  <2>3. app.packages \in Known /\ history \in [spawned : Nat, refreshes : Nat, expired : Nat]
    BY DEF IInv, Typed, Apps
  <2>4. Without(app.packages, key) \in Known
    <3>1. PICK D \in SUBSET Keys : app.packages \in [D -> Data]
      BY <2>3 DEF Known
    <3>2. Without(app.packages, key) \in [D \ {key} -> Data]
      BY <3>1 DEF Without
    <3> QED
      BY <3>2 DEF Known
  <2>5. /\ a \in Apps /\ a.packages = Without(app.packages, key)
        /\ a.rows = app.rows /\ a.scanning = app.scanning
    BY <2>4, ClearedType DEF Apps, OnRow
  <2> HIDE DEF a, key
  <2>6. DOMAIN a.packages = DOMAIN app.packages \ {key}
    BY <2>5 DEF Without
  <2>7. \A k \in DOMAIN a.packages : a.packages[k] = app.packages[k]
    BY <2>5 DEF Without
  <2>8. /\ history'.spawned = history.spawned
        /\ history'.refreshes = history.refreshes + 1
        /\ history' \in [spawned : Nat, refreshes : Nat, expired : Nat]
    BY <2>1, <2>3
  <2>9. ~Awaited
    BY <1>2, <2>3, Selection DEF IInv, Typed, Quiet, key
  <2>10. /\ IsFiniteSet(DOMAIN app.packages)
         /\ history.spawned <= Cardinality(DOMAIN app.packages) + history.refreshes
    BY DEF IInv, Marked
  <2>11. /\ IsFiniteSet(DOMAIN a.packages)
         /\ history'.spawned <= Cardinality(DOMAIN a.packages) + history'.refreshes
    <3>1. /\ IsFiniteSet(DOMAIN app.packages \ {key})
          /\ Cardinality(DOMAIN app.packages \ {key}) >= Cardinality(DOMAIN app.packages) - 1
      <4> DEFINE D == DOMAIN app.packages
      <4> HIDE DEF D
      <4>1. IsFiniteSet(D)
        BY <2>10 DEF D
      <4>2. /\ IsFiniteSet(D \ {key})
            /\ Cardinality(D \ {key}) = IF key \in D THEN Cardinality(D) - 1
                                        ELSE Cardinality(D)
        BY <4>1, FS_RemoveElement
      <4>3. Cardinality(D) \in Nat
        BY <4>1, FS_CardinalityType
      <4> QED
        BY <4>2, <4>3 DEF D
    <3>2. Cardinality(DOMAIN app.packages \ {key}) \in Nat /\
              Cardinality(DOMAIN app.packages) \in Nat
      BY <2>10, <3>1, FS_CardinalityType
    <3> QED
      BY <2>3, <2>6, <2>8, <2>10, <3>1, <3>2
  <2> QED
    BY <2>2, <2>5, <2>6, <2>7, <2>8, <2>9, <2>11, InputStep
<1> QED
  BY <1>1, <1>2

LEMMA PollStep == ASSUME IInv, Poll PROVE IInv'
<1>1. CASE Timeout
  <2>1. Input(app, FALSE) /\ UNCHANGED history /\ app \in Apps /\ pc = "poll"
    BY <1>1 DEF Timeout, Input, IInv, Typed
  <2>2. Awaited => app.rows = <<>> /\ app.scanning
    BY DEF IInv, Quiet
  <2>3. ~dirty => Shows(screen, app)
    BY <2>1 DEF IInv, Drawn
  <2> QED
    BY <2>1, <2>2, <2>3, PlainInput
<1>2. CASE Resize
  <2>1. Input(app, TRUE) /\ UNCHANGED history /\ app \in Apps
    BY <1>2 DEF Resize, IInv, Typed
  <2>2. Awaited => app.rows = <<>> /\ app.scanning
    BY DEF IInv, Quiet
  <2> QED
    BY <2>1, <2>2, PlainInput
<1>3. CASE Quit
  BY <1>3 DEF Quit, IInv, Typed, Quiet, Drawn, Marked, Awaited, UnderWay
<1> QED
  BY <1>1, <1>2, <1>3, MoveStep, RearrangeStep, SetModeStep, RefreshStep,
     OpenLinkStep, HoverStep DEF Poll

LEMMA PumpStep == ASSUME IInv, Pump PROVE IInv'
<1> DEFINE drained == AfterAll(app, channel)
           start == Settled /\ pending.key \notin DOMAIN drained.packages
           opened == IF drained.open
                     THEN [drained EXCEPT !.open = FALSE, !.message = "opening"]
                     ELSE drained
           new == [id |-> history.spawned + 1, key |-> pending.key,
                   phase |-> "metadata", metadata |-> None]
<1>1. /\ pc = "pump" /\ pc' = "poll"
      /\ app' = IF start THEN Started(opened) ELSE opened
      /\ lookups' = IF start THEN lookups \cup {new} ELSE lookups
      /\ history' = [history EXCEPT !.spawned = IF start THEN history.spawned + 1
                                                         ELSE history.spawned]
      /\ channel' = <<>>
      /\ pending' = IF Settled THEN None ELSE pending
      /\ dirty' = (\/ dirty \/ channel # <<>> \/ drained.open \/ start \/ Busy')
      /\ UNCHANGED <<screen, discovery, caches, release>>
  BY DEF Pump
<1>2. /\ app \in Apps /\ channel \in Seq(Messages) /\ screen \in Frames
      /\ history \in [spawned : Nat, refreshes : Nat, expired : Nat]
      /\ pending \in {None} \cup [key : Keys, age : 0 .. Settle]
      /\ lookups \subseteq InFlight
  BY DEF IInv, Typed
<1>3. drained \in Apps
  BY <1>2, DrainTyped
<1>4. OfType(channel, "Projects") = {} =>
          /\ Keeps(app, drained)
          /\ \A k \in DOMAIN drained.packages : drained.packages[k] = Loading =>
                 \A i \in DOMAIN channel :
                     ~(channel[i].type = "Package" /\ channel[i].key = k)
  BY <1>2, DrainKeeps
<1>5. OfType(channel, "Package") = {} /\ DOMAIN app.packages = {} =>
          DOMAIN drained.packages = {}
  BY <1>2, DrainStaysEmpty
<1>6. channel = <<>> => drained = app
  BY <1>2, DrainOfNothing
<1> HIDE DEF drained
<1>7. /\ opened \in Apps /\ opened.packages = drained.packages
      /\ opened.rows = drained.rows /\ opened.scanning = drained.scanning
  <2>1. "opening" \in Texts
    BY DEF Texts
  <2> QED
    BY <1>3, <2>1 DEF Apps, OnRow
<1>8. ~drained.open => opened = drained
  OBVIOUS
<1> HIDE DEF opened
<1>9. start => pending \in [key : Keys, age : 0 .. Settle] /\ pending.key \in Keys
  BY <1>2 DEF Settled
<1>10. start => /\ app' \in Apps
                /\ app'.packages = With(drained.packages, pending.key, Loading)
                /\ app'.rows = drained.rows /\ app'.scanning = drained.scanning
  <2> SUFFICES ASSUME start
               PROVE  /\ app' \in Apps
                      /\ app'.packages = With(drained.packages, pending.key, Loading)
                      /\ app'.rows = drained.rows /\ app'.scanning = drained.scanning
    OBVIOUS
  <2>1. With(opened.packages, pending.key, Loading) \in Known
    <3>1. opened.packages \in Known /\ pending.key \in Keys /\ Loading \in Data
      BY <1>7, <1>9 DEF Apps, Data
    <3> QED
      BY <3>1, KnownWith
  <2>2. app' = [opened EXCEPT !.packages = With(opened.packages, pending.key, Loading)]
    BY <1>1 DEF Started
  <2> QED
    BY <1>7, <2>1, <2>2 DEF Apps, OnRow
<1>11. ~start => app' = opened
  BY <1>1
<1>12. app' \in Apps /\ app'.rows = drained.rows /\ app'.scanning = drained.scanning
  BY <1>7, <1>10, <1>11
<1>13. Awaited => ~start /\ pending = None
  BY DEF IInv, Quiet, Settled
<1>14. DOMAIN channel' = {}
  BY <1>1
<1>15. /\ history' \in [spawned : Nat, refreshes : Nat, expired : Nat]
       /\ history'.refreshes = history.refreshes
       /\ history'.spawned = IF start THEN history.spawned + 1 ELSE history.spawned
  <2> HIDE DEF start
  <2> QED
    BY <1>1, <1>2
<1>16. start => new \in InFlight
  BY <1>2, <1>9 DEF InFlight
<1> HIDE DEF start
<1>17. Typed'
  <2>1. \A t \in lookups : /\ t.id \in 1 .. history.spawned
                           /\ t.phase = "versions" => t.metadata \in Releases
    BY DEF IInv, Typed
  <2>2. lookups' \subseteq InFlight
    BY <1>1, <1>2, <1>16
  <2>3. ASSUME NEW t \in lookups'
        PROVE  /\ t.id \in 1 .. history'.spawned
               /\ t.phase = "versions" => t.metadata \in Releases
    <3>1. CASE t \in lookups
      <4>1. t.id \in 1 .. history.spawned
        BY <2>1, <3>1
      <4>2. t.id \in 1 .. history'.spawned
        BY <1>2, <1>15, <4>1
      <4> QED
        BY <2>1, <3>1, <4>2
    <3>2. CASE start /\ t = new
      <4>1. history.spawned + 1 \in 1 .. history'.spawned
        BY <1>2, <1>15, <3>2
      <4> QED
        BY <3>2, <4>1
    <3> QED
      BY <1>1, <3>1, <3>2
  <2>4. pending' \in {None} \cup [key : Keys, age : 0 .. Settle] /\ dirty' \in BOOLEAN
    BY <1>1, <1>2 DEF IInv, Typed
  <2>5. channel' \in Seq(Messages)
    BY <1>1
  <2>6. /\ screen' \in Frames /\ discovery' \in 0 .. Len(Notices) + 1
        /\ caches' \in [Names -> [metadata : Releases \cup {None},
                                  versions : Releases \cup {None}]]
        /\ release' \in [Names -> Releases]
        /\ pc' \in {"draw", "pump", "poll", "quit"}
    BY <1>1 DEF IInv, Typed
  <2> QED
    BY <1>12, <1>15, <2>2, <2>3, <2>4, <2>5, <2>6 DEF Typed
<1>18. Quiet'
  <2>1. OfType(channel', "Projects") = {} /\ OfType(channel', "Package") = {}
    BY <1>14 DEF OfType
  <2> SUFFICES ASSUME discovery <= Len(Notices)
               PROVE  /\ app'.rows = <<>> /\ app'.scanning
                      /\ DOMAIN app'.packages = {}
                      /\ pending' = None /\ lookups' = {} /\ history'.spawned = 0
    BY <1>1, <2>1 DEF Quiet, Awaited
  <2>2. Awaited /\ OfType(channel, "Projects") = {}
    BY DEF IInv, Quiet, Awaited
  <2>3. /\ app.rows = <<>> /\ app.scanning /\ DOMAIN app.packages = {}
        /\ lookups = {} /\ history.spawned = 0 /\ OfType(channel, "Package") = {}
    BY <2>2 DEF IInv, Quiet
  <2>4. ~start /\ pending = None
    BY <1>13, <2>2
  <2>5. Keeps(app, drained) /\ DOMAIN drained.packages = {}
    BY <1>4, <1>5, <2>2, <2>3
  <2>6. /\ lookups' = lookups /\ history'.spawned = history.spawned
        /\ pending' = None
    BY <1>1, <1>15, <2>4
  <2>7. DOMAIN app'.packages = {}
    BY <1>7, <1>11, <2>4, <2>5
  <2> QED
    BY <1>12, <2>3, <2>5, <2>6, <2>7 DEF Keeps
<1>19. Drawn'
  <2>1. Shows(screen, app)
    BY <1>1 DEF IInv, Drawn
  <2>2. ~dirty' => app' = app
    BY <1>1, <1>6, <1>8, <1>11
  <2>3. screen'.rows \in {app'.rows, <<>>}
    <3>1. CASE OfType(channel, "Projects") = {}
      BY <1>1, <1>4, <1>12, <2>1, <3>1 DEF Keeps, Shows
    <3>2. CASE OfType(channel, "Projects") # {}
      BY <1>1, <2>1, <3>2 DEF Shows, IInv, Quiet, Awaited
    <3> QED
      BY <3>1, <3>2
  <2>4. ~dirty' => Shows(screen, app')
    BY <2>1, <2>2
  <2> QED
    BY <1>1, <2>3, <2>4 DEF Drawn
<1>20. Marked'
  <2>1. CASE OfType(channel, "Projects") # {}
    <3>1. Awaited
      BY <2>1 DEF Awaited
    <3>2. DOMAIN drained.packages = {} /\ history.spawned = 0 /\ ~start
      BY <1>5, <1>13, <3>1 DEF IInv, Quiet
    <3>3. DOMAIN app'.packages = {} /\ history'.spawned = 0
      BY <1>7, <1>11, <1>15, <3>2
    <3>4. IsFiniteSet({}) /\ Cardinality({}) = 0
      BY FS_EmptySet
    <3> QED
      BY <1>15, <3>3, <3>4 DEF Marked
  <2>2. CASE OfType(channel, "Projects") = {}
    <3>1. /\ DOMAIN app.packages \subseteq DOMAIN drained.packages
          /\ IsFiniteSet(DOMAIN app.packages)
          /\ IsFiniteSet(DOMAIN drained.packages)
      BY <1>4, <2>2 DEF IInv, Marked, Keeps
    <3>2. ASSUME NEW k \in DOMAIN drained.packages, drained.packages[k] = Loading
          PROVE  UnderWay(k)'
      <4>1. /\ k \in DOMAIN app.packages /\ app.packages[k] = Loading
            /\ \A i \in DOMAIN channel :
                   ~(channel[i].type = "Package" /\ channel[i].key = k)
        BY <1>4, <2>2, <3>2 DEF Keeps
      <4>2. UnderWay(k)
        BY <4>1 DEF IInv, Marked
      <4>3. \E t \in lookups : t.key = k
        BY <4>1, <4>2 DEF UnderWay
      <4>4. lookups \subseteq lookups'
        BY <1>1
      <4> QED
        BY <4>3, <4>4 DEF UnderWay
    <3>3. ASSUME NEW k \in DOMAIN app'.packages, app'.packages[k] = Loading
          PROVE  UnderWay(k)'
      <4>1. CASE start /\ k = pending.key
        <5>1. new \in lookups' /\ new.key = k
          BY <1>1, <4>1
        <5> HIDE DEF new
        <5> QED
          BY <5>1 DEF UnderWay
      <4>2. CASE start /\ k # pending.key
        <5>1. k \in DOMAIN drained.packages /\ drained.packages[k] = Loading
          BY <1>10, <3>3, <4>2 DEF With
        <5> QED
          BY <3>2, <5>1
      <4>3. CASE ~start
        BY <1>7, <1>11, <3>2, <3>3, <4>3
      <4> QED
        BY <4>1, <4>2, <4>3
    <3> DEFINE A == DOMAIN app.packages
               B == DOMAIN drained.packages
    <3> HIDE DEF A, B
    <3>4. /\ Cardinality(A) \in Nat /\ Cardinality(B) \in Nat
          /\ Cardinality(A) <= Cardinality(B) /\ IsFiniteSet(B)
      BY <3>1, FS_Subset, FS_CardinalityType DEF A, B
    <3>5. history.spawned <= Cardinality(A) + history.refreshes
      BY DEF IInv, Marked, A
    <3>6. CASE start
      <4>1. DOMAIN app'.packages = B \cup {pending.key}
        BY <1>10, <3>6 DEF With, B
      <4>2. pending.key \notin B
        BY <3>6 DEF start, B
      <4>3. /\ IsFiniteSet(B \cup {pending.key})
            /\ Cardinality(B \cup {pending.key}) = Cardinality(B) + 1
        BY <3>4, <4>2, FS_AddElement
      <4>4. history'.spawned <= Cardinality(B \cup {pending.key}) + history'.refreshes
        BY <1>2, <1>15, <3>4, <3>5, <3>6, <4>3
      <4> QED
        BY <3>3, <4>1, <4>3, <4>4 DEF Marked
    <3>7. CASE ~start
      <4>1. DOMAIN app'.packages = B
        BY <1>7, <1>11, <3>7 DEF B
      <4>2. history'.spawned <= Cardinality(B) + history'.refreshes
        BY <1>2, <1>15, <3>4, <3>5, <3>7
      <4> QED
        BY <3>3, <3>4, <4>1, <4>2 DEF Marked
    <3> QED
      BY <3>6, <3>7
  <2> QED
    BY <2>1, <2>2
<1> QED
  BY <1>17, <1>18, <1>19, <1>20 DEF IInv

(* A message sent is the last of the channel.                              *)
Extends(c, ch, m) ==
    /\ c \in Seq(Messages)
    /\ \A i \in DOMAIN ch : i \in DOMAIN c /\ c[i] = ch[i]
    /\ \E i \in DOMAIN c : c[i] = m
    /\ m.type # "Projects" /\ OfType(ch, "Projects") = {} => OfType(c, "Projects") = {}
    /\ m.type # "Package" /\ OfType(ch, "Package") = {} => OfType(c, "Package") = {}

LEMMA Sent ==
  ASSUME NEW ch \in Seq(Messages), NEW m \in Messages
  PROVE  Extends(Append(ch, m), ch, m)
<1> DEFINE c == Append(ch, m)
<1>1. /\ c \in Seq(Messages) /\ Len(c) = Len(ch) + 1 /\ Len(ch) \in Nat
      /\ DOMAIN c = 1 .. Len(ch) + 1 /\ DOMAIN ch = 1 .. Len(ch)
      /\ \A i \in 1 .. Len(ch) : c[i] = ch[i]
      /\ c[Len(ch) + 1] = m
  OBVIOUS
<1> HIDE DEF c
<1>2. \A i \in 1 .. Len(ch) : i \in 1 .. Len(ch) + 1
  BY <1>1
<1>3. Len(ch) + 1 \in 1 .. Len(ch) + 1
  BY <1>1
<1>4. \A i \in 1 .. Len(ch) + 1 : i \in 1 .. Len(ch) \/ i = Len(ch) + 1
  BY <1>1
<1>5. ASSUME NEW type, m.type # type, OfType(ch, type) = {}
      PROVE  OfType(c, type) = {}
  <2> SUFFICES ASSUME NEW i \in DOMAIN c, c[i].type = type PROVE FALSE
    BY DEF OfType
  <2>1. CASE i \in 1 .. Len(ch)
    BY <1>1, <1>5, <2>1 DEF OfType
  <2>2. CASE i = Len(ch) + 1
    BY <1>1, <1>5, <2>2
  <2> QED
    BY <1>1, <1>4, <2>1, <2>2
<1> QED
  BY <1>1, <1>2, <1>3, <1>5 DEF c, Extends

(* The loop and its App are left alone.                                    *)
LEMMA LoopUntouched ==
  ASSUME IInv, UNCHANGED <<pc, app, dirty, screen>>,
         history'.spawned = history.spawned,
         history'.refreshes = history.refreshes
  PROVE  Drawn' /\ ((\A k : UnderWay(k) => UnderWay(k)') => Marked')
<1>1. Drawn'
  BY DEF IInv, Drawn, Shows
<1>2. ASSUME \A k : UnderWay(k) => UnderWay(k)' PROVE Marked'
  BY <1>2 DEF IInv, Marked
<1> QED
  BY <1>1, <1>2

LEMMA SendNoticeStep == ASSUME IInv, SendNotice PROVE IInv'
<1> DEFINE m == [type |-> "Notice", text |-> Notices[discovery + 1]]
<1>1. /\ discovery < Len(Notices) /\ channel' = Append(channel, m)
      /\ discovery' = discovery + 1
      /\ UNCHANGED <<pc, app, pending, dirty, screen, lookups, caches, release, history>>
  BY DEF SendNotice, Send
<1>2. Len(Notices) \in Nat /\ discovery \in 0 .. Len(Notices) + 1
  BY TuiAssumption DEF IInv, Typed
<1>3. discovery + 1 \in 1 .. Len(Notices) /\ discovery' \in 0 .. Len(Notices) + 1
  BY <1>1, <1>2
<1>4. m \in Messages /\ m.type = "Notice"
  <2>1. Notices[discovery + 1] \in Texts
    BY <1>3 DEF Texts
  <2> QED
    BY <2>1 DEF Messages
<1> HIDE DEF m
<1>5. channel \in Seq(Messages)
  BY DEF IInv, Typed
<1>6. /\ channel' \in Seq(Messages)
      /\ \A i \in DOMAIN channel : i \in DOMAIN channel' /\ channel'[i] = channel[i]
      /\ OfType(channel, "Projects") = {} => OfType(channel', "Projects") = {}
      /\ OfType(channel, "Package") = {} => OfType(channel', "Package") = {}
  <2>1. Extends(channel', channel, m)
    BY <1>1, <1>4, <1>5, Sent
  <2> QED
    BY <1>4, <2>1 DEF Extends
<1>7. Typed'
  BY <1>1, <1>3, <1>6 DEF IInv, Typed
<1>8. discovery <= Len(Notices)
  BY <1>1, <1>2
<1>9. Quiet'
  BY <1>1, <1>6, <1>8 DEF IInv, Quiet, Awaited
<1>10. \A k : UnderWay(k) => UnderWay(k)'
  BY <1>1, <1>6 DEF UnderWay
<1> QED
  BY <1>1, <1>7, <1>9, <1>10, LoopUntouched DEF IInv

LEMMA SendProjectsStep == ASSUME IInv, SendProjects PROVE IInv'
<1>1. PICK rows \in Views :
          channel' = Append(channel, [type |-> "Projects", rows |-> rows])
  BY DEF SendProjects, Send
<1> DEFINE m == [type |-> "Projects", rows |-> rows]
<1>2. /\ discovery = Len(Notices) /\ channel' = Append(channel, m)
      /\ discovery' = discovery + 1
      /\ UNCHANGED <<pc, app, pending, dirty, screen, lookups, caches, release, history>>
  BY <1>1 DEF SendProjects
<1>3. Len(Notices) \in Nat
  BY TuiAssumption
<1>4. m \in Messages /\ m.type = "Projects"
  BY DEF Messages
<1> HIDE DEF m
<1>5. channel \in Seq(Messages)
  BY DEF IInv, Typed
<1>6. /\ channel' \in Seq(Messages)
      /\ \A i \in DOMAIN channel : i \in DOMAIN channel' /\ channel'[i] = channel[i]
      /\ OfType(channel, "Package") = {} => OfType(channel', "Package") = {}
  <2>1. Extends(channel', channel, m)
    BY <1>2, <1>4, <1>5, Sent
  <2> QED
    BY <1>4, <2>1 DEF Extends
<1>7. discovery' \in 0 .. Len(Notices) + 1 /\ discovery <= Len(Notices)
      /\ ~(discovery' <= Len(Notices))
  BY <1>2, <1>3
<1>8. Typed'
  BY <1>2, <1>6, <1>7 DEF IInv, Typed
<1>9. Quiet'
  BY <1>2, <1>6, <1>7 DEF IInv, Quiet, Awaited
<1>10. \A k : UnderWay(k) => UnderWay(k)'
  BY <1>2, <1>6 DEF UnderWay
<1> QED
  BY <1>2, <1>8, <1>9, <1>10, LoopUntouched DEF IInv

(* A lookup goes on: it keeps its key and its number.                      *)
LEMMA BecameStep ==
  ASSUME IInv, NEW t \in lookups, NEW v \in Releases,
         Became(t, [t EXCEPT !.phase = "versions", !.metadata = v]),
         caches' \in [Names -> [metadata : Releases \cup {None},
                                versions : Releases \cup {None}]],
         UNCHANGED <<pc, app, pending, dirty, screen, channel, discovery, release,
                     history>>
  PROVE  IInv'
<1> DEFINE u == [t EXCEPT !.phase = "versions", !.metadata = v]
<1>1. lookups' = (lookups \ {t}) \cup {u}
  BY DEF Became
<1>2. t \in InFlight /\ lookups \subseteq InFlight
  BY DEF IInv, Typed
<1>3. u \in InFlight /\ u.id = t.id /\ u.key = t.key /\ u.metadata \in Releases
  BY <1>2 DEF InFlight
<1> HIDE DEF u
<1>4. \A s \in lookups : /\ s.id \in 1 .. history.spawned
                         /\ s.phase = "versions" => s.metadata \in Releases
  BY DEF IInv, Typed
<1>5. \A s \in lookups' : /\ s.id \in 1 .. history'.spawned
                          /\ s.phase = "versions" => s.metadata \in Releases
  BY <1>1, <1>3, <1>4, Zenon
<1>6. lookups' \subseteq InFlight
  BY <1>1, <1>2, <1>3
<1>7. Typed'
  BY <1>5, <1>6 DEF IInv, Typed
<1>8. ~Awaited
  BY DEF IInv, Quiet
<1>9. Quiet'
  BY <1>8 DEF IInv, Quiet, Awaited
<1>10. ASSUME NEW k, UnderWay(k) PROVE UnderWay(k)'
  <2>1. CASE \E s \in lookups : s.key = k
    BY <1>1, <1>3, <2>1 DEF UnderWay
  <2> QED
    BY <1>10, <2>1 DEF UnderWay
<1> QED
  BY <1>7, <1>9, <1>10, LoopUntouched DEF IInv

(* A lookup ends: its answer is on the way in its place.                   *)
LEMMA AnsweredStep ==
  ASSUME IInv, NEW t \in lookups, NEW data \in Data, data # Loading,
         Answered(t, data),
         caches' \in [Names -> [metadata : Releases \cup {None},
                                versions : Releases \cup {None}]],
         UNCHANGED <<pc, app, pending, dirty, screen, discovery, release, history>>
  PROVE  IInv'
<1> DEFINE m == [type |-> "Package", key |-> t.key, data |-> data]
<1>1. channel' = Append(channel, m) /\ lookups' = lookups \ {t}
  BY DEF Answered, Send
<1>2. channel \in Seq(Messages) /\ t \in InFlight
  BY DEF IInv, Typed
<1>3. m \in Messages /\ m.type = "Package" /\ m.key = t.key
  BY <1>2 DEF Messages, InFlight
<1> HIDE DEF m
<1>4. /\ channel' \in Seq(Messages)
      /\ \A i \in DOMAIN channel : i \in DOMAIN channel' /\ channel'[i] = channel[i]
      /\ \E i \in DOMAIN channel' : channel'[i] = m
      /\ OfType(channel, "Projects") = {} => OfType(channel', "Projects") = {}
  <2>1. Extends(channel', channel, m)
    BY <1>1, <1>2, <1>3, Sent
  <2> QED
    BY <1>3, <2>1 DEF Extends
<1>5. Typed'
  BY <1>1, <1>4 DEF IInv, Typed
<1>6. ~Awaited
  BY DEF IInv, Quiet
<1>7. ~Awaited'
  BY <1>4, <1>6 DEF Awaited
<1>8. Quiet'
  BY <1>7 DEF Quiet, Awaited
<1>9. ASSUME NEW k, UnderWay(k) PROVE UnderWay(k)'
  <2>1. CASE k = t.key
    BY <1>3, <1>4, <2>1 DEF UnderWay
  <2>2. CASE k # t.key /\ \E s \in lookups : s.key = k
    BY <1>1, <2>2 DEF UnderWay
  <2>3. CASE \E i \in DOMAIN channel : channel[i].type = "Package" /\ channel[i].key = k
    BY <1>4, <2>3 DEF UnderWay
  <2> QED
    BY <1>9, <2>1, <2>2, <2>3 DEF UnderWay
<1> QED
  BY <1>5, <1>8, <1>9, LoopUntouched DEF IInv

LEMMA LookupStep == ASSUME IInv, NEW t \in lookups, Lookup(t) PROVE IInv'
<1> DEFINE n == NameOf[t.key]
           Cached == [metadata : Releases \cup {None}, versions : Releases \cup {None}]
<1>1. UNCHANGED <<pc, app, pending, dirty, screen, discovery, release, history>>
  BY DEF Lookup
<1>2. /\ t \in InFlight /\ caches \in [Names -> Cached] /\ release \in [Names -> Releases]
      /\ t.phase = "versions" => t.metadata \in Releases
  BY DEF IInv, Typed
<1>3. n \in Names
  <2>1. t.key \in Keys /\ NameOf \in [Keys -> Names]
    BY <1>2, TuiAssumption DEF InFlight
  <2> QED
    BY <2>1, Zenon
<1> HIDE DEF n
<1>4. caches[n] \in Cached /\ release[n] \in Releases
  BY <1>2, <1>3
<1>5. CASE FetchMetadata(t)
  <2>1. [caches EXCEPT ![n].metadata = release[n]] \in [Names -> Cached]
    <3>1. [caches[n] EXCEPT !.metadata = release[n]] \in Cached
      BY <1>4
    <3> QED
      BY <1>2, <3>1
  <2>2. CASE /\ caches[n].metadata # None
             /\ Became(t, [t EXCEPT !.phase = "versions", !.metadata = caches[n].metadata])
             /\ UNCHANGED <<caches, channel>>
    <3>1. caches[n].metadata \in Releases
      BY <1>4, <2>2
    <3> QED
      BY <1>1, <1>2, <2>2, <3>1, BecameStep
  <2>3. CASE /\ caches' = [caches EXCEPT ![n].metadata = release[n]]
             /\ Became(t, [t EXCEPT !.phase = "versions", !.metadata = release[n]])
             /\ UNCHANGED channel
    BY <1>1, <1>4, <2>1, <2>3, BecameStep
  <2>4. CASE Answered(t, Failed) /\ UNCHANGED caches
    <3>1. Failed \in Data /\ Failed # Loading
      BY DEF Data
    <3> QED
      BY <1>1, <1>2, <2>4, <3>1, AnsweredStep
  <2> QED
    BY <1>5, <2>2, <2>3, <2>4 DEF FetchMetadata, n
<1>6. CASE FetchVersions(t)
  <2>1. t.metadata \in Releases
    BY <1>2, <1>6 DEF FetchVersions
  <2>2. \A l \in Releases \cup {None} : Ready(t.metadata, l) \in Data
                                        /\ Ready(t.metadata, l) # Loading
    BY <2>1 DEF Data
  <2> HIDE DEF Loading, Failed, Ready
  <2>3. [caches EXCEPT ![n].versions = release[n]] \in [Names -> Cached]
    <3>1. [caches[n] EXCEPT !.versions = release[n]] \in Cached
      BY <1>4
    <3> QED
      BY <1>2, <3>1
  <2>4. CASE /\ Answered(t, Ready(t.metadata, caches[n].versions))
             /\ UNCHANGED caches
    <3>1. caches[n].versions \in Releases \cup {None}
      BY <1>4
    <3> QED
      BY <1>1, <1>2, <2>2, <2>4, <3>1, AnsweredStep
  <2>5. CASE /\ caches' = [caches EXCEPT ![n].versions = release[n]]
             /\ Answered(t, Ready(t.metadata, release[n]))
    BY <1>1, <1>4, <2>2, <2>3, <2>5, AnsweredStep
  <2>6. CASE Answered(t, Ready(t.metadata, None)) /\ UNCHANGED caches
    BY <1>1, <1>2, <2>2, <2>6, AnsweredStep
  <2> QED
    BY <1>6, <2>4, <2>5, <2>6 DEF FetchVersions, n
<1> QED
  BY <1>5, <1>6 DEF Lookup

LEMMA PublishStep == ASSUME IInv, Publish PROVE IInv'
<1>1. PICK n \in Names : release[n] < MaxReleases
                         /\ release' = [release EXCEPT ![n] = release[n] + 1]
  BY DEF Publish
<1>2. UNCHANGED <<pc, app, pending, dirty, screen, channel, discovery, lookups, caches,
                  history>>
  BY DEF Publish
<1>3. release' \in [Names -> Releases]
  <2>1. release \in [Names -> Releases] /\ MaxReleases \in Nat
    BY TuiAssumption DEF IInv, Typed
  <2>2. release[n] + 1 \in Releases
    BY <1>1, <2>1 DEF Releases
  <2> QED
    BY <1>1, <2>1, <2>2
<1>4. Typed'
  BY <1>2, <1>3 DEF IInv, Typed
<1>5. Quiet' /\ \A k : UnderWay(k) => UnderWay(k)'
  BY <1>2 DEF IInv, Quiet, Awaited, UnderWay
<1> QED
  BY <1>2, <1>4, <1>5, LoopUntouched DEF IInv

LEMMA ExpireStep == ASSUME IInv, Expire PROVE IInv'
<1> DEFINE Cached == [metadata : Releases \cup {None}, versions : Releases \cup {None}]
<1>1. PICK n \in Names, c \in {"metadata", "versions"} :
          caches' = [caches EXCEPT ![n][c] = None]
  BY DEF Expire
<1>2. /\ history' = [history EXCEPT !.expired = history.expired + 1]
      /\ UNCHANGED <<pc, app, pending, dirty, screen, channel, discovery, lookups, release>>
  BY DEF Expire
<1>3. caches \in [Names -> Cached] /\ history \in [spawned : Nat, refreshes : Nat, expired : Nat]
  BY DEF IInv, Typed
<1>4. caches' \in [Names -> Cached]
  <2>1. caches[n] \in Cached
    BY <1>3
  <2>2. [caches[n] EXCEPT ![c] = None] \in Cached
    BY <2>1
  <2> QED
    BY <1>1, <1>3, <2>2
<1>5. /\ history' \in [spawned : Nat, refreshes : Nat, expired : Nat]
      /\ history'.spawned = history.spawned /\ history'.refreshes = history.refreshes
  BY <1>2, <1>3
<1>6. Typed'
  BY <1>2, <1>4, <1>5 DEF IInv, Typed
<1>7. Quiet' /\ \A k : UnderWay(k) => UnderWay(k)'
  BY <1>2, <1>5 DEF IInv, Quiet, Awaited, UnderWay
<1> QED
  BY <1>2, <1>5, <1>6, <1>7, LoopUntouched DEF IInv

LEMMA TickStep == ASSUME IInv, Tick PROVE IInv'
<1>1. /\ pending # None /\ pending.age < Settle
      /\ pending' = [pending EXCEPT !.age = pending.age + 1]
      /\ UNCHANGED <<pc, app, dirty, screen, channel, discovery, lookups, caches,
                     release, history>>
  BY DEF Tick, Ageing
<1>2. pending \in [key : Keys, age : 0 .. Settle] /\ Settle \in Nat
  BY <1>1, TuiAssumption DEF IInv, Typed
<1>3. pending.age + 1 \in 0 .. Settle
  <2>1. pending.age \in 0 .. Settle
    BY <1>2
  <2> QED
    BY <1>1, <1>2, <2>1
<1>4. pending' \in [key : Keys, age : 0 .. Settle]
  BY <1>1, <1>2, <1>3
<1>5. Typed'
  BY <1>1, <1>4 DEF IInv, Typed
<1>6. ~Awaited /\ ~Awaited'
  BY <1>1 DEF IInv, Quiet, Awaited
<1>7. Quiet' /\ \A k : UnderWay(k) => UnderWay(k)'
  BY <1>1, <1>6 DEF IInv, Quiet, Awaited, UnderWay
<1> QED
  BY <1>1, <1>5, <1>7, LoopUntouched DEF IInv

LEMMA InvStep == IInv /\ [Next]_vars => IInv'
<1> SUFFICES ASSUME IInv, [Next]_vars PROVE IInv'
  OBVIOUS
<1>1. CASE UNCHANGED vars
  <2>1. UNCHANGED <<pc, app, pending, dirty, screen, channel, discovery, lookups, caches,
                    release, history>>
    BY <1>1 DEF vars
  <2> QED
    BY <2>1 DEF IInv, Typed, Quiet, Awaited, Drawn, Shows, Marked, UnderWay
<1>2. CASE \E t \in lookups : Lookup(t)
  BY <1>2, LookupStep
<1> QED
  BY <1>1, <1>2, DrawStep, PumpStep, PollStep, SendNoticeStep, SendProjectsStep,
     PublishStep, ExpireStep, TickStep DEF Next, Beside

LEMMA Invariant == Spec => []IInv
  BY InitInv, InvStep, PTL DEF Spec

-----------------------------------------------------------------------------
(* The App, the lookups and what waits to settle keep their types: the     *)
(* selection is on a row, and a package is looked up by a key (app.rs).    *)
THEOREM LoopTypeOK == Spec => []TypeOK
<1>1. IInv => TypeOK
  <2> SUFFICES ASSUME IInv PROVE TypeOK
    OBVIOUS
  <2> USE DEF IInv, Typed
  <2>1. app.packages \in Known
    BY DEF Apps
  <2>2. PICK D \in SUBSET Keys : app.packages \in [D -> Data]
    BY <2>1 DEF Known
  <2>3. \A d \in Data : IsData(d)
    BY DEF Data, IsData, Releases
  <2>4. /\ DOMAIN app.packages \subseteq Keys
        /\ \A k \in DOMAIN app.packages : IsData(app.packages[k])
    BY <2>2, <2>3
  <2>5. app.rows \in Views \cup {<<>>} /\ app.mode \in {"Browse", "Search", "Help"}
    BY DEF Apps
  <2>6. app.selected \in 1 .. Len(app.rows) \/ (app.selected = 1 /\ app.rows = <<>>)
    BY DEF Apps, OnRow
  <2>7. pending # None => pending.key \in Keys /\ pending.age \in 0 .. Settle
    OBVIOUS
  <2>8. \A t \in lookups : t.key \in Keys /\ t.id \in 1 .. history.spawned
    BY DEF InFlight
  <2> QED
    BY <2>4, <2>5, <2>6, <2>7, <2>8 DEF TypeOK
<1> QED
  BY <1>1, Invariant, PTL

(* A package shown as loading has a lookup in flight or its answer on the  *)
(* way, and but for the refreshes there is one lookup per package: however *)
(* many packages, lookups and messages interleave (run.rs, data.rs).       *)
THEOREM SpinnersTurnForSomething == Spec => []LoadingIsUnderWay
<1>1. IInv => LoadingIsUnderWay
  BY DEF IInv, Marked, UnderWay, LoadingIsUnderWay
<1> QED
  BY <1>1, Invariant, PTL

(* When no frame is owed, the frame on screen is what the App would draw,  *)
(* but for the message: no change of the App goes without a redraw         *)
(* (run.rs).                                                               *)
THEOREM NothingStaleOnScreen == Spec => []ScreenIsCurrent
<1>1. IInv => ScreenIsCurrent
  <2> SUFFICES ASSUME IInv, pc = "draw", ~dirty
               PROVE  \A f \in DOMAIN View(app) :
                          [screen EXCEPT !.message = None][f] =
                              [View(app) EXCEPT !.message = None][f]
    BY DEF ScreenIsCurrent
  <2>1. Shows(screen, app)
    BY DEF IInv, Drawn
  <2>2. screen \in Frames
    BY DEF IInv, Typed
  <2>3. [screen EXCEPT !.message = None] =
            [rows |-> app.rows, selected |-> app.selected, mode |-> app.mode,
             packages |-> app.packages, message |-> None, hover |-> app.hover,
             scanning |-> app.scanning]
    BY <2>1, <2>2 DEF Shows, Frames
  <2>4. [View(app) EXCEPT !.message = None] =
            [rows |-> app.rows, selected |-> app.selected, mode |-> app.mode,
             packages |-> app.packages, message |-> None, hover |-> app.hover,
             scanning |-> app.scanning]
    BY DEF View
  <2> QED
    BY <2>3, <2>4, Zenon
<1> QED
  BY <1>1, Invariant, PTL

(* Input is read while the frame on screen has the App's rows, or none:    *)
(* what a click hits is the row the App acts on (run.rs).                  *)
THEOREM ClicksFindTheirRow == Spec => []ClicksHitShownRows
<1>1. IInv => ClicksHitShownRows
  BY DEF IInv, Drawn, ClicksHitShownRows
<1> QED
  BY <1>1, Invariant, PTL
=============================================================================
