------------------------------- MODULE TuiLoop -------------------------------
(***************************************************************************)
(* The interactive browser's event loop and the lookups it starts.         *)
(*                                                                         *)
(* `event_loop` (crates/dependable-tui/src/run.rs) runs on one thread:     *)
(* draw if dirty, drain the channel, start the lookup of a selection that  *)
(* has settled, read at most one input event, queue the selection if       *)
(* nothing is known about it.  Discovery and the lookups (data.rs) run     *)
(* beside it and only ever send messages.  `App` (app.rs) is the state.    *)
(*                                                                         *)
(* The tree is abstracted to the sequences of rows it can show (`Views`):  *)
(* expanding, collapsing, searching and inverting replace one by another.  *)
(* The divider between the panes, scrolling and the fade of the pointer's  *)
(* marker are left out.                                                    *)
(***************************************************************************)
EXTENDS Naturals, Sequences, FiniteSets

CONSTANTS
    Keys,          \* package keys: (ecosystem, name, version)
    Names,         \* package names
    NameOf,        \* key -> name
    Rows,          \* rows of the tree
    KeyOf,         \* row -> the key a registry can answer about, or None
    Views,         \* the sequences of rows the tree can show
    Notices,       \* discovery's notices, a sequence
    Settle,        \* clock steps until a selection counts as settled
    MaxReleases,   \* bound on new releases of one package
    MaxRefreshes,  \* bound on the uses of Refresh
    MaxExpiries,   \* bound on the cache entries that expire
    None

ASSUME TuiAssumption ==
    /\ NameOf \in [Keys -> Names]
    /\ KeyOf \in [Rows -> Keys \cup {None}]
    /\ None \notin Keys
    /\ Len(Notices) \in Nat
    /\ Views \subseteq Seq(Rows)
    /\ {Settle, MaxReleases, MaxRefreshes, MaxExpiries} \subseteq Nat
    /\ Settle > 0

VARIABLES
    pc,         \* "draw", "pump", "poll", "quit"
    app,        \* the App
    pending,    \* None, or the key waiting to settle and how long it has
    dirty,      \* whether a frame is owed
    screen,     \* what the last frame showed
    channel,    \* messages sent and not yet received
    discovery,  \* how many notices were sent; Len(Notices) + 1 when finished
    lookups,    \* lookups in flight
    caches,     \* the checker's per-name caches: metadata and versions
    release,    \* the truth: newest release of every name
    history     \* spawned: lookups started; refreshes: uses of Refresh;
                \* expired: cache entries expired

vars == <<pc, app, pending, dirty, screen, channel, discovery, lookups,
          caches, release, history>>

Loading == [kind |-> "Loading"]
Failed  == [kind |-> "Failed"]
Ready(metadata, latest) ==
    [kind |-> "Ready", metadata |-> metadata, latest |-> latest]

(* `App::new` for a tree showing `rows`.                                   *)
NewApp(rows) ==
    [rows |-> rows, selected |-> 1, mode |-> "Browse", packages |-> <<>>,
     message |-> None, hover |-> 0, open |-> FALSE, scanning |-> FALSE]

SelectedRow(a) ==
    IF a.selected \in DOMAIN a.rows THEN a.rows[a.selected] ELSE None

SelectedKey(a) ==
    IF SelectedRow(a) = None THEN None ELSE KeyOf[SelectedRow(a)]

(* A function with one value given or replaced.                            *)
With(f, k, v) == [x \in DOMAIN f \cup {k} |-> IF x = k THEN v ELSE f[x]]

(* A function without one element of its domain.                           *)
Without(f, k) == [x \in DOMAIN f \ {k} |-> f[x]]

Busy ==
    \/ app.scanning
    \/ \E k \in DOMAIN app.packages : app.packages[k] = Loading
    \/ SelectedKey(app) # None /\ SelectedKey(app) \notin DOMAIN app.packages

(* What a frame shows.                                                     *)
View(a) == [rows |-> a.rows, selected |-> a.selected, mode |-> a.mode,
            packages |-> a.packages, message |-> a.message, hover |-> a.hover,
            scanning |-> a.scanning]

Blank == [rows |-> <<>>, selected |-> 1, mode |-> "Browse", packages |-> <<>>,
          message |-> None, hover |-> 0, scanning |-> FALSE]

Init ==
    /\ pc = "draw"
    /\ app = [NewApp(<<>>) EXCEPT !.scanning = TRUE]
    /\ pending = None
    /\ dirty = TRUE
    /\ screen = Blank
    /\ channel = <<>>
    /\ discovery = 0
    /\ lookups = {}
    /\ caches = [n \in Names |-> [metadata |-> None, versions |-> None]]
    /\ release = [n \in Names |-> 0]
    /\ history = [spawned |-> 0, refreshes |-> 0, expired |-> 0]

-----------------------------------------------------------------------------
(***************************************************************************)
(* The loop.                                                               *)
(***************************************************************************)
Draw ==
    /\ pc = "draw"
    /\ pc' = "pump"
    /\ IF dirty
       THEN screen' = View(app)
       ELSE UNCHANGED screen
    /\ dirty' = FALSE
    /\ UNCHANGED <<app, pending, channel, discovery, lookups, caches, release,
                   history>>

(* Mutant: a result is kept only for the package still selected.           *)
ReceivedIfSelected(a, m) ==
    CASE m.type = "Projects" -> [NewApp(m.rows) EXCEPT !.message = a.message]
      [] m.type = "Package" /\ SelectedKey(a) = m.key ->
             [a EXCEPT !.packages = With(@, m.key, m.data)]
      [] m.type = "Package" /\ SelectedKey(a) # m.key -> a
      [] m.type = "Notice"   -> [a EXCEPT !.message = m.text]

(* What one message does to the App.                                       *)
Received(a, m) ==
    CASE m.type = "Projects" -> [NewApp(m.rows) EXCEPT !.message = a.message]
      [] m.type = "Package"  -> [a EXCEPT !.packages = With(@, m.key, m.data)]
      [] m.type = "Notice"   -> [a EXCEPT !.message = m.text]

(* The App after a sequence of messages.                                   *)
AfterAll(a, msgs) ==
    LET f[i \in 0 .. Len(msgs)] == IF i = 0 THEN a ELSE Received(f[i - 1], msgs[i])
    IN  f[Len(msgs)]

Settled == pending # None /\ pending.age = Settle

(* Mutant: a lookup that starts leaves no mark.                            *)
StartedUnmarked(a) == a

(* A lookup that starts marks its package as loading.                      *)
Started(a) == [a EXCEPT !.packages = With(@, pending.key, Loading)]

(* Drain the channel, open the link asked for, start the lookup of the     *)
(* settled selection, and owe a frame while anything moves.                *)
Pump ==
    LET drained == AfterAll(app, channel)
        start   == Settled /\ pending.key \notin DOMAIN drained.packages
        opened  == IF drained.open
                   THEN [drained EXCEPT !.open = FALSE, !.message = "opening"]
                   ELSE drained
    IN  /\ pc = "pump"
        /\ pc' = "poll"
        /\ app' = IF start THEN Started(opened) ELSE opened
        /\ lookups' = IF start
                      THEN lookups \cup {[id |-> history.spawned + 1,
                               key |-> pending.key, phase |-> "metadata",
                               metadata |-> None]}
                      ELSE lookups
        /\ history' = [history EXCEPT !.spawned = IF start THEN @ + 1 ELSE @]
        /\ channel' = <<>>
        /\ pending' = IF Settled THEN None ELSE pending
        /\ dirty' = (\/ dirty \/ channel # <<>> \/ drained.open \/ start
                     \/ Busy')
        /\ UNCHANGED <<screen, discovery, caches, release>>

(* The end of an iteration: queue the selection nothing is known about.    *)
Queue(a) ==
    IF /\ a.mode # "Help"
       /\ SelectedKey(a) # None
       /\ SelectedKey(a) \notin DOMAIN a.packages
       /\ (pending = None \/ pending.key # SelectedKey(a))
    THEN [key |-> SelectedKey(a), age |-> 0]
    ELSE pending

(* Mutant: an iteration without input forgets that a frame is owed.        *)
InputForgettingDirty(a, redraw) ==
    /\ pc = "poll"
    /\ pc' = "draw"
    /\ app' = a
    /\ dirty' = redraw
    /\ pending' = Queue(a)
    /\ UNCHANGED <<screen, channel, discovery, lookups, caches, release>>

(* One iteration's input turned the App into `a`; `redraw` is what the     *)
(* event adds to `dirty`.                                                  *)
Input(a, redraw) ==
    /\ pc = "poll"
    /\ pc' = "draw"
    /\ app' = a
    /\ dirty' = (dirty \/ redraw)
    /\ pending' = Queue(a)
    /\ UNCHANGED <<screen, channel, discovery, lookups, caches, release>>

(* `apply` begins by clearing the message.                                 *)
Cleared == [app EXCEPT !.message = None]

Timeout == Input(app, FALSE) /\ UNCHANGED history

Resize == Input(app, TRUE) /\ UNCHANGED history

Move ==
    /\ app.mode # "Help"
    /\ \E i \in DOMAIN app.rows : Input([Cleared EXCEPT !.selected = i], TRUE)
    /\ UNCHANGED history

(* Where the selection goes when the rows become `rows`: it stays on its   *)
(* row where that is still shown, else it is clamped.                      *)
Kept(rows) ==
    LET here == {i \in DOMAIN rows : rows[i] = SelectedRow(app)}
    IN  IF here # {} THEN CHOOSE i \in here : TRUE
        ELSE IF app.selected <= Len(rows) THEN app.selected
        ELSE IF rows = <<>> THEN 1 ELSE Len(rows)

(* Mutant: a tree that changed is redrawn only if the selection moved.     *)
RearrangeUndrawn ==
    /\ app.mode # "Help" /\ ~app.scanning
    /\ \E rows \in Views, mode \in {app.mode, "Browse"} :
           \E i \in {Kept(rows), 1} :
               Input([Cleared EXCEPT !.rows = rows, !.selected = i,
                                     !.mode = mode], i # app.selected)
    /\ UNCHANGED history

(* Expand, collapse, type or clear a query, follow a redirect, invert.     *)
Rearrange ==
    /\ app.mode # "Help" /\ ~app.scanning
    /\ \E rows \in Views, mode \in {app.mode, "Browse"} :
           \E i \in {Kept(rows), 1} :
               Input([Cleared EXCEPT !.rows = rows, !.selected = i,
                                     !.mode = mode], TRUE)
    /\ UNCHANGED history

SetMode ==
    /\ \E mode \in (CASE app.mode = "Browse" -> {"Search", "Help"}
                      [] OTHER               -> {"Browse"}) :
           Input([Cleared EXCEPT !.mode = mode], TRUE)
    /\ UNCHANGED history

Refresh ==
    /\ app.mode = "Browse"
    /\ history.refreshes < MaxRefreshes
    /\ LET key == SelectedKey(app) IN
       IF key = None
       THEN Input(Cleared, TRUE) /\ UNCHANGED history
       ELSE /\ Input([Cleared EXCEPT !.packages = Without(@, key)], TRUE)
            /\ history' = [history EXCEPT !.refreshes = @ + 1]

OpenLink ==
    /\ app.mode = "Browse"
    /\ Input(IF SelectedKey(app) # None THEN [Cleared EXCEPT !.open = TRUE]
                                        ELSE [Cleared EXCEPT !.message = "said"], TRUE)
    /\ UNCHANGED history

(* The pointer moves, over a row of the frame on screen or over none.      *)
Hover ==
    /\ app.mode # "Help"
    /\ \E i \in 0 .. Len(screen.rows) :
           Input([Cleared EXCEPT !.hover = IF i \in DOMAIN app.rows THEN i ELSE 0],
                 app.hover # i)
    /\ UNCHANGED history

Quit ==
    /\ pc = "poll"
    /\ pc' = "quit"
    /\ UNCHANGED <<app, pending, dirty, screen, channel, discovery, lookups,
                   caches, release, history>>

Poll == \/ Timeout \/ Resize \/ Move \/ Rearrange \/ SetMode \/ Refresh
        \/ OpenLink \/ Hover \/ Quit

-----------------------------------------------------------------------------
(***************************************************************************)
(* Beside the loop: discovery, lookups, the registries and the clock.      *)
(***************************************************************************)
Send(m) == channel' = Append(channel, m)

SendNotice ==
    /\ discovery < Len(Notices)
    /\ Send([type |-> "Notice", text |-> Notices[discovery + 1]])
    /\ discovery' = discovery + 1
    /\ UNCHANGED <<pc, app, pending, dirty, screen, lookups, caches, release,
                   history>>

SendProjects ==
    /\ discovery = Len(Notices)
    /\ \E rows \in Views : Send([type |-> "Projects", rows |-> rows])
    /\ discovery' = discovery + 1
    /\ UNCHANGED <<pc, app, pending, dirty, screen, lookups, caches, release,
                   history>>

Became(t, u) == lookups' = (lookups \ {t}) \cup {u}

Answered(t, data) ==
    /\ Send([type |-> "Package", key |-> t.key, data |-> data])
    /\ lookups' = lookups \ {t}

(* `fetch_metadata`: the cache, else the registry; a failure is the answer.*)
FetchMetadata(t) ==
    LET n == NameOf[t.key] IN
    /\ t.phase = "metadata"
    /\ \/ /\ caches[n].metadata # None
          /\ Became(t, [t EXCEPT !.phase = "versions",
                                 !.metadata = caches[n].metadata])
          /\ UNCHANGED <<caches, channel>>
       \/ /\ caches[n].metadata = None
          /\ caches' = [caches EXCEPT ![n].metadata = release[n]]
          /\ Became(t, [t EXCEPT !.phase = "versions", !.metadata = release[n]])
          /\ UNCHANGED channel
       \/ /\ caches[n].metadata = None
          /\ Answered(t, Failed)
          /\ UNCHANGED caches

(* `fetch_versions`, whose failure leaves a warning and no latest version, *)
(* then `scan_package`, whatever it answers; the result is sent.           *)
FetchVersions(t) ==
    LET n == NameOf[t.key] IN
    /\ t.phase = "versions"
    /\ \/ /\ caches[n].versions # None
          /\ Answered(t, Ready(t.metadata, caches[n].versions))
          /\ UNCHANGED caches
       \/ /\ caches[n].versions = None
          /\ caches' = [caches EXCEPT ![n].versions = release[n]]
          /\ Answered(t, Ready(t.metadata, release[n]))
       \/ /\ caches[n].versions = None
          /\ Answered(t, Ready(t.metadata, None))
          /\ UNCHANGED caches

(* Mutant: a failed lookup sends nothing.                                  *)
LookupDroppingFailures(t) ==
    /\ \/ FetchMetadata(t) /\ channel' = channel
       \/ /\ t.phase = "metadata" /\ caches[NameOf[t.key]].metadata = None
          /\ lookups' = lookups \ {t}
          /\ UNCHANGED <<caches, channel>>
       \/ FetchVersions(t)
    /\ UNCHANGED <<pc, app, pending, dirty, screen, discovery, release, history>>

Lookup(t) ==
    /\ FetchMetadata(t) \/ FetchVersions(t)
    /\ UNCHANGED <<pc, app, pending, dirty, screen, discovery, release, history>>

Publish ==
    /\ \E n \in Names : /\ release[n] < MaxReleases
                        /\ release' = [release EXCEPT ![n] = @ + 1]
    /\ UNCHANGED <<pc, app, pending, dirty, screen, channel, discovery, lookups,
                   caches, history>>

(* The ten minutes of a cache entry are over.                              *)
Expire ==
    /\ history.expired < MaxExpiries
    /\ \E n \in Names, c \in {"metadata", "versions"} :
           caches[n][c] # None /\ caches' = [caches EXCEPT ![n][c] = None]
    /\ history' = [history EXCEPT !.expired = @ + 1]
    /\ UNCHANGED <<pc, app, pending, dirty, screen, channel, discovery, lookups,
                   release>>

Ageing == pending # None /\ pending.age < Settle

Tick ==
    /\ Ageing
    /\ pending' = [pending EXCEPT !.age = @ + 1]
    /\ UNCHANGED <<pc, app, dirty, screen, channel, discovery, lookups, caches, release,
                   history>>

Beside == SendNotice \/ SendProjects \/ (\E t \in lookups : Lookup(t))

Next ==
    \/ Draw \/ Pump \/ Poll
    \/ pc # "quit" /\ (Beside \/ Publish \/ Expire \/ Tick)
    \/ pc = "quit" /\ UNCHANGED vars

Spec == Init /\ [][Next]_vars

(* The loop never blocks (input is polled with a timeout), discovery and   *)
(* lookups finish (requests have timeouts), the clock moves.  The user,    *)
(* the registries and the caches owe nothing.                              *)
FairSpec ==
    /\ Spec
    /\ WF_vars(Draw) /\ WF_vars(Pump) /\ WF_vars(Poll)
    /\ WF_vars(pc # "quit" /\ Tick)
    /\ WF_vars(pc # "quit" /\ (SendNotice \/ SendProjects))
    /\ WF_vars(pc # "quit" /\ \E t \in lookups : Lookup(t))

-----------------------------------------------------------------------------
IsData(d) ==
    \/ d \in {Loading, Failed}
    \/ /\ d.kind = "Ready"
       /\ d.metadata \in 0 .. MaxReleases
       /\ d.latest \in 0 .. MaxReleases \cup {None}

TypeOK ==
    /\ pc \in {"draw", "pump", "poll", "quit"}
    /\ app.rows \in Views \cup {<<>>}
    /\ app.selected \in 1 .. Len(app.rows) \/ (app.selected = 1 /\ app.rows = <<>>)
    /\ app.mode \in {"Browse", "Search", "Help"}
    /\ DOMAIN app.packages \subseteq Keys
    /\ \A k \in DOMAIN app.packages : IsData(app.packages[k])
    /\ pending # None => pending.key \in Keys /\ pending.age \in 0 .. Settle
    /\ \A t \in lookups : t.key \in Keys /\ t.id \in 1 .. history.spawned

(* Every package shown as loading has a lookup under way or its result on  *)
(* the way: a spinner never turns for nothing.  And without Refresh there  *)
(* is one lookup per package and session: neither a long scroll nor a late *)
(* answer makes the loop ask twice.                                        *)
LoadingIsUnderWay ==
    /\ \A k \in DOMAIN app.packages : app.packages[k] = Loading =>
        \/ \E t \in lookups : t.key = k
        \/ \E i \in DOMAIN channel : channel[i].type = "Package" /\ channel[i].key = k
    /\ history.spawned <= Cardinality(DOMAIN app.packages) + history.refreshes

(* run.rs: "Only redraw when something actually changed".  When no frame   *)
(* is owed, the frame on screen is what the App would draw now - the       *)
(* message apart, which `apply` clears on any input.                       *)
ScreenIsCurrent ==
    LET Shown(v) == [v EXCEPT !.message = None] IN
    pc = "draw" /\ ~dirty =>
        \A f \in DOMAIN View(app) : Shown(screen)[f] = Shown(View(app))[f]

(* A pointer event is resolved against the geometry of the last frame: the *)
(* row it hits there is the row the App acts on.  (The frame may still be  *)
(* the empty one from before discovery, on which nothing can be hit.)      *)
ClicksHitShownRows ==
    pc = "poll" => screen.rows \in {app.rows, <<>>}

(* A selection that rests, with the help closed, ends with an answer on    *)
(* screen - facts or a failure, never a spinner for ever.                  *)
SelectionIsAnswered ==
    \A k \in Keys :
        <>[](SelectedKey(app) = k /\ app.mode # "Help" /\ pc # "quit") =>
            []<>(k \in DOMAIN screen.packages /\ screen.packages[k] # Loading)
=============================================================================
