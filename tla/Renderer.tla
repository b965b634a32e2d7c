------------------------------- MODULE Renderer -------------------------------
(* The window: the reducer of its settings (src/renderer/src/state.tsx), and    *)
(* the effects and operations by which App.tsx asks for what it shows.  A state *)
(* change and the effects it makes due are two steps, as React runs them; an    *)
(* answer may arrive between them.  A request is asked, read by the database    *)
(* and lands, each at its own time.                                             *)
EXTENDS Integers, Sequences, FiniteSets

CONSTANTS
  Places,        \* locations a user may select
  Queries,       \* windows, filters, sorts and metrics, taken together
  MaxAsks,       \* bound: requests the window makes
  MaxVersion,    \* bound: changes of the database
  MaxActs        \* bound: things that users, the system and other processes do

VARIABLES
  ui,            \* UiState: tab, selected place and query
  stamp,         \* lastRefreshedMs: Null, or one of two instants that differ
  app,           \* what AppInner renders
  workspace,     \* the inputs its effect last ran with, and how that load stands
  drawer,        \* the same of the station's detail
  calls,         \* requests under way
  asks,          \* how many were made
  panes,         \* overview and mapData
  detail,
  op,            \* the user's operation under way, one at a time (busy)
  version,       \* of the database
  news,          \* whether a data.changed is on its way
  acts           \* what happened so far

Null == -1

view == <<ui, stamp, app>>
effects == <<workspace, drawer>>
data == <<version, news>>
windowVars == <<view, effects, calls, asks, panes, detail, op, data, acts>>

Acts == acts < MaxActs /\ acts' = acts + 1

Tabs == {"overview", "map"}
Ready == app \in {"ready", "failed"}

\* Mutant of FiltersKey: the key leaves out when the figures were loaded.
FiltersKeyUnstamped == <<ui.tab, ui.query>>
FiltersKey == <<ui.tab, ui.query, stamp>>

WorkspaceInputs == <<FiltersKey, Ready>>
DrawerInputs == <<ui.selected, FiltersKey>>
WorkspaceDue == workspace.inputs # WorkspaceInputs
DrawerDue == drawer.inputs # DrawerInputs

Nothing == [asked |-> 0, place |-> Null, query |-> Null, version |-> Null]
NoOperation == [kind |-> "none", todo |-> <<"none">>, place |-> Null, query |-> Null, drawn |-> Null]

WindowInit ==
  /\ ui = [tab |-> "map", selected |-> Null, query |-> CHOOSE q \in Queries : TRUE]
  /\ stamp = Null /\ app = "loading"
  /\ workspace = [inputs |-> WorkspaceInputs, status |-> "idle"]
  /\ drawer = [inputs |-> DrawerInputs, status |-> "idle"]
  /\ calls = {} /\ asks = 0
  /\ panes = [t \in Tabs |-> Nothing] /\ detail = Nothing
  /\ op = NoOperation /\ version = 0 /\ news = FALSE /\ acts = 0

\* loadBootstrap: at the start, when the settings open, after an operation and
\* on "Try again".  Its failure takes the whole window, whenever it happens.
LoadBootstrap(ok) ==
  app' \in IF ~ok THEN {IF Ready THEN "failed" ELSE "fatal"}
           ELSE IF app = "loading" THEN {"ready", "onboarding"} ELSE {app}
Bootstrap ==
  /\ app \in {"loading", "ready"}
  /\ IF app = "loading" THEN UNCHANGED acts ELSE Acts
  /\ \E ok \in BOOLEAN : LoadBootstrap(ok)
  /\ UNCHANGED <<ui, stamp, effects, calls, asks, panes, detail, op, data>>
TryAgain ==
  /\ app \in {"fatal", "failed"}
  /\ app' = IF app = "fatal" THEN "loading" ELSE "ready"
  /\ UNCHANGED <<ui, stamp, effects, calls, asks, panes, detail, op, data, acts>>
CompleteOnboarding ==
  /\ app = "onboarding" /\ app' = "ready"
  /\ UNCHANGED <<ui, stamp, effects, calls, asks, panes, detail, op, data, acts>>

\* The actions of uiReducer that a request depends on.
Dispatch ==
  /\ Acts
  /\ app = "ready"
  /\ \/ \E t \in Tabs : ui' = [ui EXCEPT !.tab = t]
     \/ /\ ui.tab = "map"
        /\ \E p \in Places \cup {Null} : ui' = [ui EXCEPT !.selected = p]
     \/ /\ ui.tab = "overview"
        /\ \E p \in Places : ui' = [ui EXCEPT !.tab = "map", !.selected = p]
     \/ \E q \in Queries : ui' = [ui EXCEPT !.query = q]
  /\ UNCHANGED <<stamp, app, effects, calls, asks, panes, detail, op, data>>

Call(n, what, place, query) ==
  [asked |-> n, what |-> what, place |-> place, query |-> query, live |-> TRUE, version |-> Null]

\* Each effect whose inputs changed cancels its load and begins another.
RunEffects ==
  LET loads == WorkspaceDue /\ Ready
      opens == DrawerDue /\ ui.selected # Null
      ended(c) == IF c.what \in Tabs THEN WorkspaceDue ELSE c.what = "detail" /\ DrawerDue
      kept == {IF ended(c) THEN [c EXCEPT !.live = FALSE] ELSE c : c \in calls}
      Status(on) == IF on THEN "loading" ELSE "idle"
  IN  /\ WorkspaceDue \/ DrawerDue
      /\ asks + 2 <= MaxAsks
      /\ workspace' = IF WorkspaceDue THEN [inputs |-> WorkspaceInputs, status |-> Status(loads)] ELSE workspace
      /\ drawer' = IF DrawerDue THEN [inputs |-> DrawerInputs, status |-> Status(opens)] ELSE drawer
      /\ detail' = IF DrawerDue /\ ui.selected = Null THEN Nothing ELSE detail
      /\ calls' = kept \cup (IF loads THEN {Call(asks + 1, ui.tab, Null, ui.query)} ELSE {})
                       \cup (IF opens THEN {Call(asks + 2, "detail", ui.selected, ui.query)} ELSE {})
      /\ asks' = IF opens THEN asks + 2 ELSE IF loads THEN asks + 1 ELSE asks
      /\ UNCHANGED <<view, panes, op, data, acts>>

\* The database answers a request from what it holds now.
Read(c) ==
  /\ c.version = Null
  /\ calls' = (calls \ {c}) \cup {[c EXCEPT !.version = version]}
  /\ UNCHANGED <<view, effects, asks, panes, detail, op, data, acts>>

Answer(c) == [asked |-> c.asked, place |-> c.place, query |-> c.query, version |-> c.version]
Taken(c) == calls' = calls \ {c}

\* Mutant of Lands: an answer to a load that was cancelled is shown.
LandsCancelled(c, what) == c.version # Null /\ c.what \in what
Lands(c, what) == c.version # Null /\ c.what \in what /\ c.live

\* A load that lands sets another lastRefreshedMs, and with it its own inputs.
WorkspaceLands(c) ==
  /\ Lands(c, Tabs) /\ Taken(c)
  /\ panes' = [panes EXCEPT ![c.what] = Answer(c)]
  /\ stamp' = IF workspace.inputs[1][3] = 0 THEN 1 ELSE 0
  /\ workspace' = [workspace EXCEPT !.status = "shown"]
  /\ UNCHANGED <<ui, app, drawer, asks, detail, op, data, acts>>
DetailLands(c) ==
  /\ Lands(c, {"detail"}) /\ Taken(c)
  /\ detail' = Answer(c)
  /\ drawer' = [drawer EXCEPT !.status = "shown"]
  /\ UNCHANGED <<view, workspace, asks, panes, op, data, acts>>
Dropped(c) ==
  /\ ~c.live /\ Taken(c)
  /\ UNCHANGED <<view, effects, asks, panes, detail, op, data, acts>>

\* A rejected load is reported, and nothing asks again.
LoadRejected(c) ==
  /\ c.live /\ c.what # "reload" /\ Taken(c)
  /\ IF c.what \in Tabs
       THEN workspace' = [workspace EXCEPT !.status = "failed"] /\ UNCHANGED drawer
       ELSE drawer' = [drawer EXCEPT !.status = "failed"] /\ UNCHANGED workspace
  /\ UNCHANGED <<view, asks, panes, detail, op, data, acts>>

-----------------------------------------------------------------------------
\* What an operation awaits, and whether it ends by asking for new figures.
Steps(kind) ==
  CASE kind = "monitor" -> <<"request", "reload", "bootstrap">>
    [] kind = "link" -> <<"request", "reload">>
    [] kind = "network" -> <<"request", "bootstrap", "reload">>
    [] kind = "save" -> <<"request">>
Refreshes == {"monitor", "network", "save"}

\* The drawer calls back with the place selected, whatever place it shows.
Begin(kind) ==
  /\ Acts
  /\ app = "ready" /\ op = NoOperation
  /\ kind # "network" => ui.tab = "map" /\ ui.selected # Null /\ detail # Nothing
  /\ op' = [kind |-> kind, todo |-> Steps(kind), place |-> ui.selected, query |-> ui.query,
            drawn |-> IF kind = "network" THEN Null ELSE detail.place]
  /\ UNCHANGED <<view, effects, calls, asks, panes, detail, data>>

Awaits(step) == Head(op.todo) = step
Advance ==
  /\ op' = IF Len(op.todo) = 1 THEN NoOperation ELSE [op EXCEPT !.todo = Tail(@)]
  /\ stamp' = IF Len(op.todo) = 1 /\ op.kind \in Refreshes THEN Null ELSE stamp
Fail == op' = NoOperation /\ UNCHANGED stamp

\* Main announces links and what is done to all places, not the switch of one.
OperationAnswered ==
  /\ Awaits("request")
  /\ \/ Fail /\ UNCHANGED data
     \/ /\ version < MaxVersion /\ version' = version + 1
        /\ news' = (news \/ op.kind \in {"link", "network"})
        /\ Advance
  /\ UNCHANGED <<ui, app, effects, calls, asks, panes, detail, acts>>
OperationBootstraps ==
  /\ Awaits("bootstrap")
  /\ \E ok \in BOOLEAN : LoadBootstrap(ok)
  /\ Advance
  /\ UNCHANGED <<ui, effects, calls, asks, panes, detail, data, acts>>

\* reloadDetail asks with the place and the query of the render it was made in.
ReloadDetail ==
  /\ Awaits("reload") /\ asks < MaxAsks
  /\ \A c \in calls : c.what # "reload"
  /\ IF op.place = Null
       THEN Advance /\ UNCHANGED <<calls, asks>>
       ELSE /\ calls' = calls \cup {Call(asks + 1, "reload", op.place, op.query)}
            /\ asks' = asks + 1
            /\ UNCHANGED <<op, stamp>>
  /\ UNCHANGED <<ui, app, effects, panes, detail, data, acts>>
ReloadLands(c) ==
  /\ Lands(c, {"reload"}) /\ Taken(c)
  /\ detail' = Answer(c)
  /\ Advance
  /\ UNCHANGED <<ui, app, effects, asks, panes, data, acts>>
ReloadRejected(c) ==
  /\ c.what = "reload" /\ Taken(c)
  /\ IF op.kind = "network" THEN Advance ELSE Fail
  /\ UNCHANGED <<ui, app, effects, asks, panes, detail, data, acts>>

\* A run is stored, a file imported: the database changes and says so.
DatabaseChanges ==
  /\ Acts
  /\ version < MaxVersion /\ version' = version + 1 /\ news' = TRUE
  /\ UNCHANGED <<view, effects, calls, asks, panes, detail, op>>
DataChanged ==
  /\ news /\ news' = FALSE /\ stamp' = Null
  /\ UNCHANGED <<ui, app, effects, calls, asks, panes, detail, op, version, acts>>

WindowNext ==
  \/ Bootstrap \/ TryAgain \/ CompleteOnboarding \/ Dispatch \/ RunEffects
  \/ DatabaseChanges \/ DataChanged
  \/ \E kind \in {"monitor", "link", "network", "save"} : Begin(kind)
  \/ OperationAnswered \/ OperationBootstraps \/ ReloadDetail
  \/ \E c \in calls :
       \/ Read(c) \/ WorkspaceLands(c) \/ DetailLands(c) \/ Dropped(c) \/ LoadRejected(c)
       \/ ReloadLands(c) \/ ReloadRejected(c)

WindowSpec == WindowInit /\ [][WindowNext]_windowVars

-----------------------------------------------------------------------------
\* However tabs and queries change while answers are on their way, a workspace
\* never goes back to the answer of an older question, nor to older data
\* (App.tsx:113-146).
NeverGoesBack ==
  [][\A t \in Tabs : panes'[t] # panes[t] /\ panes[t] # Nothing =>
       panes'[t].asked > panes[t].asked /\ panes'[t].version >= panes[t].version]_windowVars

\* What the user switches, links or saves is the place the drawer shows.  The
\* code does not keep it: the last detail stays until the next one arrives, and
\* a late reloadDetail puts back the detail of another place (App.tsx:286-297,
\* MapWorkspace.tsx:259-281).
ActsOnWhatIsShown == op.drawn # Null => op.place = op.drawn
=============================================================================
