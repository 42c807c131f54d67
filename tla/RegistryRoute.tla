--------------------------- MODULE RegistryRoute ---------------------------
(***************************************************************************)
(* GDS2RegistryRouteExecutor (backends/gds2/registry_navigation_runtime.py)*)
(* drives the GUI of GDS2 along the route of a registry entry: it looks at *)
(* a snapshot of the GUI, does one thing, and looks again.  The flow that  *)
(* clears trouble codes drives one route to where they show, counts them,  *)
(* and drives a second one that clears them.                               *)
(*                                                                         *)
(* The GUI is a tree of places that changes between the look and the act:  *)
(* pages load, hang, lose their controls for a moment, are covered by a    *)
(* warning or by the J2534 disconnect page; a click may do nothing or      *)
(* fail.  A route starts from whatever the previous one left.              *)
(*                                                                         *)
(* Labels stand for pairs of kind and label, and match exactly; a page's   *)
(* success criteria are the set of places that meet them.  Counts of codes *)
(* are none or some.  Left out: the route graph of legacy navigation,      *)
(* ambiguous labels, sub-categories.                                       *)
(***************************************************************************)
EXTENDS Integers, Sequences, FiniteSets, SequencesExt

CONSTANTS
    Places,          \* what GDS2 can show, warnings and transitions aside
    PageOf, PathOf,  \* the page id and the navigation path of a place
    Leads,           \* Leads[p][l]: where label l of place p leads
    Listed,          \* the labels that are list items
    Learned,         \* Learned[page]: the list items the route graph knows there
    Entries,         \* names of registry entries
    Registry,        \* Registry[e]: steps, optional, verified, target, path, kind, pages, goals, requires
    NoLabel, NoEntry,
    Start, Confirms, \* where GDS2 starts; the places whose OK clears the codes
    ClearEntries,    \* the entries that are there to clear codes
    VehicleCodes,    \* the data category that shows the codes of the whole vehicle
    DisplayOf, ClearOf,  \* the two routes of a clear, by the context it is asked for in
    MaxIterations, MaxBacktracks, MaxRestarts, MaxWaits,
    MaxSoftRetries, MaxReentries,  \* tries of the recovery of a data display
    MaxFaults        \* bound on the mishaps of the GUI

ASSUME RegistryRouteAssumption ==
    /\ Start \in Places /\ Confirms \subseteq Places
    /\ ClearEntries \subseteq Entries /\ NoEntry \notin Entries
    /\ \A n \in {MaxIterations, MaxBacktracks, MaxRestarts, MaxWaits, MaxSoftRetries,
                MaxReentries, MaxFaults} : n \in Nat

VARIABLES
    gui,      \* the place GDS2 shows and what covers it
    route,    \* the execution of a route
    flow,     \* the clear of trouble codes under way
    category, \* the data category the controller remembers
    faults,   \* mishaps so far
    clears    \* how often the codes were cleared during this route or flow

vars == <<gui, route, flow, category, faults, clears>>

Covers == {"none", "loading", "hung", "bare", "disconnect", "warning"}
Guis == [at: Places, over: Covers]
Plain(p) == [at |-> p, over |-> "none"]

Labels == UNION {DOMAIN Leads[p] : p \in Places} \cup {"OK", "Back"}
Parent(p) == IF "Back" \in DOMAIN Leads[p] THEN Leads[p]["Back"] ELSE p

Page(g) ==
    CASE g.over \in {"loading", "hung"} -> "loading"
      [] g.over = "disconnect" -> "j2534_disconnect"
      [] OTHER -> PageOf[g.at]

\* Device Explorer is a native dialog: the agent in GDS2 offers nothing of it.
Offers(g) ==
    CASE PageOf[g.at] = "device_explorer" -> {}
      [] g.over = "none" -> DOMAIN Leads[g.at]
      [] g.over = "bare" -> {"Back"} \cap DOMAIN Leads[g.at]
      [] g.over = "disconnect" -> {"OK", "Back"}
      [] g.over = "warning" -> {"OK"}
      [] OTHER -> {}

Idle == [at |-> "idle", entry |-> NoEntry, elsewhere |-> TRUE, snap |-> Plain(Start), executed |-> <<>>,
         iter |-> 0, waits |-> 0, restarts |-> 0, since |-> FALSE, skip |-> FALSE,
         left |-> 0, did |-> FALSE, recall |-> NoLabel, fix |-> "none", tries |-> 0,
         backed |-> FALSE, outcome |-> "none"]

\* What the executor can find to do about a snapshot.
Verdicts == {"succeed", "wait for page", "choose device", "reconnect", "wait for controls",
    "dismiss", "select vehicle", "target", "bridge", "try", "step", "startup", "stray"}

\* Where the recovery of a data display is.
Fixes == {"none", "ok", "ok clicked", "back", "back clicked", "enter", "entered", "plain"}

NoFlow == [at |-> "none", context |-> "module", result |-> "none"]

TypeOK ==
    /\ gui \in Guis
    /\ route.at \in {"idle", "top", "tried", "find device", "recover", "go home", "recovered"} \cup Verdicts
    /\ route.entry \in Entries \cup {NoEntry}
    /\ route.snap \in Guis
    /\ DOMAIN route.executed \subseteq Labels
    /\ \A l \in DOMAIN route.executed : route.executed[l] \in 1..MaxIterations
    /\ route.iter \in 0..MaxIterations /\ route.waits \in 0..MaxWaits
    /\ route.restarts \in 0..MaxRestarts /\ route.left \in 0..MaxBacktracks + 1
    /\ {route.elsewhere, route.since, route.skip, route.did, route.backed} \subseteq BOOLEAN
    /\ route.fix \in Fixes /\ {route.recall, category} \subseteq Labels \cup {NoLabel}
    /\ route.tries \in 0..MaxSoftRetries + MaxReentries
    /\ route.outcome \in {"none", "success", "failed"}
    /\ flow.at \in {"none", "display", "count", "clear"} /\ flow.context \in DOMAIN ClearOf
    /\ flow.result \in {"none", "nothing", "cleared", "failed"}
    /\ faults \in 0..MaxFaults /\ clears \in Nat

Init ==
    /\ gui = Plain(Start) /\ route = Idle /\ flow = NoFlow /\ category = NoLabel
    /\ faults = 0 /\ clears = 0

-----------------------------------------------------------------------------
(* What the executor makes of a snapshot.                                  *)

Entry == Registry[route.entry]
Count(executed, l) == IF l \in DOMAIN executed THEN executed[l] ELSE 0
Executes(executed, l) ==
    [k \in DOMAIN executed \cup {l} |-> Count(executed, k) + (IF k = l THEN 1 ELSE 0)]

CommonPrefix(s, t) == Cardinality({n \in 1..Len(s) : IsPrefix(SubSeq(s, 1, n), t)})

(* select_next_route_step: what was executed is done, each time it was;    *)
(* what the path shows is done; what the page offers goes first.           *)
Pending(e, executed, snap) ==
    LET steps == e.steps
        depth == CommonPrefix(steps, PathOf[snap.at])
        Done(i) == Count(executed, steps[i]) >=
                   Cardinality({j \in 1..i : steps[j] = steps[i]})
        Candidates == {i \in 1..Len(steps) : ~Done(i) /\ i > depth}
        Required == {i \in Candidates : steps[i] \notin e.optional}
        Offered(s) == {i \in s : steps[i] \in Offers(snap)}
        First(s) == steps[CHOOSE i \in s : \A j \in s : i <= j]
    IN CASE Candidates = {} -> NoLabel
         [] Offered(Required) # {} -> First(Offered(Required))
         [] Offered(Required) = {} /\ Offered(Candidates) # {} -> First(Offered(Candidates))
         [] Offered(Candidates) = {} /\ Required # {} -> First(Required)
         [] OTHER -> First(Candidates)

(* startup_target_list_action.                                             *)
StartupAction(e, pending, snap) ==
    /\ "Module Diagnostics" \in ToSet(e.path)
    /\ Page(snap) = "diagnostics_menu"
    /\ "Module Diagnostics" \in {pending, e.target}

(* should_defer_recovery_for_route_action.                                 *)
DefersRecovery(e, snap) ==
    LET pending == Pending(e, <<>>, snap) IN
    /\ Page(snap) # "vehicle_selection"
    /\ {pending, e.target} \cap Offers(snap) # {} \/ StartupAction(e, pending, snap)

PendingOf(r) == Pending(Registry[r.entry], r.executed, r.snap)
TargetDone(r) == Registry[r.entry].target \in DOMAIN r.executed
PageIsRight(r) == Page(r.snap) \in Registry[r.entry].pages
MeetsCriteria(r) == r.snap.over = "none" /\ r.snap.at \in Registry[r.entry].goals

(* terminal_loading_page_id, terminal_page_after_target_action.            *)
LoadingIsTaken(r) == Registry[r.entry].kind = "data_display" /\ Page(r.snap) = "loading"  \* mutant
LoadingIsAccepted(r) ==
    /\ Registry[r.entry].kind = "data_display" /\ "data_display" \in Registry[r.entry].pages
    /\ TargetDone(r) /\ Page(r.snap) = "loading"
PageIsAccepted(r) ==
    /\ Registry[r.entry].kind = "data_display" /\ Page(r.snap) = "data_display"
    /\ TargetDone(r) /\ PageIsRight(r)
WaitsForControls(r) ==
    /\ TargetDone(r) /\ PageIsRight(r) /\ r.waits < MaxWaits
    /\ Page(r.snap) \in {"data_display", "sub_data_list", "module_list"}

(* executed_actions_available: a set of labels, however often each.        *)
RequirementsDone(r) == Registry[r.entry].requires \subseteq DOMAIN r.executed

BlockedByOK(r, pending) == "OK" \in Offers(r.snap) /\ pending # "OK"

(* should_try_pending_list_action.                                         *)
KnownButUnseen(r, pending) ==
    /\ pending \in Listed /\ pending \notin Offers(r.snap)
    /\ Page(r.snap) \in DOMAIN Learned /\ pending \in Learned[Page(r.snap)]

Bridge(r) ==
    CASE Page(r.snap) = "main_menu" /\ "Diagnostics" \in Offers(r.snap) -> "Diagnostics"
      [] Page(r.snap) = "vehicle_selection" /\ "Enter" \in Offers(r.snap) -> "Enter"
      [] OTHER -> NoLabel

(* The one thing the executor does about a snapshot, in its order.         *)
Verdict(r) ==
    LET page == Page(r.snap)
        pending == PendingOf(r)
    IN IF LoadingIsAccepted(r) THEN "succeed"
       ELSE IF page = "loading" THEN "wait for page"
       ELSE IF page = "device_explorer" /\ ~r.skip THEN "choose device"
       ELSE IF page = "j2534_disconnect" /\ ~r.skip THEN "reconnect"
       ELSE IF RequirementsDone(r) /\ MeetsCriteria(r) THEN "succeed"
       ELSE IF RequirementsDone(r) /\ WaitsForControls(r) THEN "wait for controls"
       ELSE IF RequirementsDone(r) /\ PageIsAccepted(r) THEN "succeed"
       ELSE IF BlockedByOK(r, pending) THEN "dismiss"
       ELSE IF page = "vehicle_selection" /\ ~r.skip THEN "select vehicle"
       ELSE IF pending = NoLabel /\ Registry[r.entry].target \in Offers(r.snap) THEN "target"
       ELSE IF Bridge(r) # NoLabel THEN "bridge"
       ELSE IF pending # NoLabel /\ KnownButUnseen(r, pending) THEN "try"
       ELSE IF pending \in Offers(r.snap) THEN "step"
       ELSE IF StartupAction(Registry[r.entry], pending, r.snap) THEN "startup"
       ELSE "stray"

Judged(r) == [r EXCEPT !.at = Verdict(r)]
Skips == route' = Judged([route EXCEPT !.skip = TRUE, !.fix = "none", !.tries = 0])

(* data_display_recovery_targets: the category of the entry's path, or the *)
(* one the controller remembers.                                           *)
Recall(e) ==
    LET categories == {i \in 2..Len(e.path) : e.path[i - 1] = "Data Display"}
    IN CASE e.kind # "data_display" -> NoLabel
         [] e.kind = "data_display" /\ categories # {} -> e.path[CHOOSE i \in categories : TRUE]
         [] OTHER -> category

-----------------------------------------------------------------------------
(* The GUI.                                                                *)

\* Where a click on an offered label leads, when it does.
After(label) ==
    IF gui.over = "disconnect"
    THEN {[at |-> IF label = "Back" THEN Parent(gui.at) ELSE gui.at, over |-> o] : o \in {"none", "loading"}}
    ELSE IF gui.over = "warning" THEN {Plain(gui.at)}
    ELSE {[at |-> Leads[gui.at][label], over |-> o] : o \in {"none", "loading"}}

Clearing(label) == gui \in {Plain(p) : p \in Confirms} /\ label = "OK"

\* The click is done, or does nothing, or is refused; while the vehicle is
\* disconnected that costs no further mishap.
Clicks(label, ok) ==
    \/ /\ ok /\ label \in Offers(gui)
       /\ gui' \in After(label)
       /\ clears' = clears + (IF Clearing(label) THEN 1 ELSE 0)
       /\ UNCHANGED faults
    \/ /\ label \in Offers(gui) /\ faults < MaxFaults
       /\ faults' = faults + 1
       /\ UNCHANGED <<gui, clears>>
    \/ /\ label \in Offers(gui) /\ gui.over = "disconnect"
       /\ UNCHANGED <<gui, clears, faults>>
    \/ /\ ~ok /\ label \notin Offers(gui)
       /\ UNCHANGED <<gui, clears, faults>>

Calm == UNCHANGED <<gui, faults, clears>>
Aside == UNCHANGED <<flow, category>>

\* Back, on a page that is left for a module's submenu or for the modules.
Forgets(g) == category' = IF Page(g) \in {"module_submenu", "module_list"} THEN NoLabel ELSE category

\* A page that loads settles, at first without its controls.
Settles ==
    /\ gui.over \in {"loading", "bare"}
    /\ \E o \in {"none", "bare"} :
         /\ o # gui.over /\ (o = "bare" => PageOf[gui.at] \in {"data_display", "module_list", "vehicle_selection"})
         /\ gui' = [gui EXCEPT !.over = o]
    /\ UNCHANGED <<route, faults, clears>> /\ Aside

\* It hangs; the connection to the vehicle is lost; a warning comes up.
Mishap ==
    /\ faults < MaxFaults /\ faults' = faults + 1
    /\ \E o \in {"hung", "disconnect", "warning"} :
         /\ IF o = "hung" THEN gui.over = "loading" ELSE gui.over = "none"
         /\ o = "disconnect" => PageOf[gui.at] \in {"data_display", "data_list",
                "clear_dtcs_selection", "clear_dtcs_confirmation"}
         /\ gui' = [gui EXCEPT !.over = o]
    /\ UNCHANGED <<route, clears>> /\ Aside


-----------------------------------------------------------------------------
(* The executor.                                                           *)

Ends(outcome) == route' = [Idle EXCEPT !.outcome = outcome, !.entry = route.entry,
                              !.elsewhere = route.elsewhere, !.restarts = route.restarts,
                              !.backed = route.backed /\ Page(route.snap) = "loading"]
GoTo(place) == route' = [route EXCEPT !.at = place]

\* Back to the head of the loop; what was looked at is not kept.
Again(r) == [r EXCEPT !.at = "top", !.snap = Plain(Start), !.left = 0, !.did = FALSE]
LooksAgain == route' = Again(route)

\* Not on the pages on which codes are cleared.
Elsewhere == PageOf[gui.at] \notin {"clear_dtcs_selection", "clear_dtcs_confirmation"}

Drives(e, elsewhere) ==
    LET r == [Idle EXCEPT !.entry = e, !.elsewhere = elsewhere, !.recall = Recall(Registry[e])]
    IN route' = IF DefersRecovery(Registry[e], gui) THEN Again(r)
                ELSE [r EXCEPT !.at = "recover", !.left = MaxBacktracks + 1, !.did = TRUE]

Begins(e) ==
    /\ route.at = "idle" /\ flow.at = "none"
    /\ Drives(e, Elsewhere)
    /\ flow' = NoFlow /\ clears' = 0
    /\ UNCHANGED <<gui, category, faults>>

(* The head of the loop: an iteration, a snapshot.                         *)
Looks ==
    /\ route.at = "top"
    /\ IF route.iter = MaxIterations THEN Ends("failed")
       ELSE route' = Judged([route EXCEPT !.iter = @ + 1, !.snap = gui, !.skip = FALSE,
                                !.since = @ /\ Page(gui) = "loading"])
    /\ Calm /\ Aside

Succeeds == route.at = "succeed" /\ Ends("success") /\ Calm /\ Aside

(* LoadingWatchdog.observe: wait, and after the timeout restart GDS2.      *)
WaitsForPage ==
    /\ route.at = "wait for page"
    /\ route' = Again([route EXCEPT !.since = TRUE])
    /\ Calm /\ Aside

RestartsEndlessly ==  \* mutant
    /\ route.at = "wait for page" /\ route.since
    /\ route' = Again([route EXCEPT !.since = FALSE, !.restarts = @ + 1])
    /\ gui' = Plain(Start)
    /\ UNCHANGED <<faults, clears>> /\ Aside

RestartsAfresh ==  \* mutant
    /\ route.at = "wait for page" /\ route.since
    /\ IF route.restarts = MaxRestarts THEN Ends("failed") /\ UNCHANGED gui
       ELSE /\ route' = Again([route EXCEPT !.since = FALSE, !.restarts = @ + 1,
                                  !.executed = <<>>])
            /\ gui' = Plain(Start)
    /\ UNCHANGED <<faults, clears>> /\ Aside

RestartsGDS2 ==
    /\ route.at = "wait for page" /\ route.since
    /\ IF route.restarts = MaxRestarts THEN Ends("failed") /\ UNCHANGED gui
       ELSE /\ route' = Again([route EXCEPT !.since = FALSE, !.restarts = @ + 1])
            /\ gui' = Plain(Start)
    /\ UNCHANGED <<faults, clears>> /\ Aside

-----------------------------------------------------------------------------
(* The recovery from the J2534 disconnect page (handle_j2534_disconnect):  *)
(* a route to a data display whose category is known first has the         *)
(* controller recover it, with OK, or by going back and entering the       *)
(* category once more; the other routes, and this one when that has not    *)
(* left the page, try OK, or Back, once.                                   *)

FindsDisconnect ==
    /\ route.fix = "none"
    /\ \/ route.at = "reconnect"
       \/ route.at = "recover" /\ route.left > 0 /\ Page(gui) = "j2534_disconnect"

\* The handler returns, to the loop or to the recovery that has called it.
HandledBy(back, noted) ==
    LET r == [route EXCEPT !.fix = "none", !.tries = 0, !.backed = @ \/ back]
    IN route' = IF route.at = "reconnect" THEN Again(r)
                ELSE [r EXCEPT !.left = @ - 1, !.did = @ \/ noted]
Handled(noted) == HandledBy(FALSE, noted)
NotHandled ==
    IF route.at = "reconnect" THEN Skips
    ELSE route' = [route EXCEPT !.at = "recovered", !.fix = "none", !.tries = 0, !.did = TRUE]

Fix(step) == route' = [route EXCEPT !.fix = step, !.tries = 0]
Retries(step) == route' = [route EXCEPT !.fix = step, !.tries = @ + 1]

\* recover_data_display_connection, on whatever page it finds itself.
Recalls ==
    /\ FindsDisconnect /\ route.recall # NoLabel
    /\ category' = route.recall
    /\ IF Page(gui) = "j2534_disconnect" THEN Fix("ok") ELSE Handled(Page(gui) # "data_display")
    /\ Calm /\ UNCHANGED flow

ClicksOK ==
    /\ route.fix = "ok"
    /\ IF "OK" \in Offers(gui)
       THEN (\E ok \in BOOLEAN : Clicks("OK", ok)) /\ route' = [route EXCEPT !.fix = "ok clicked"]
       ELSE Fix("back") /\ Calm
    /\ Aside

SeesAfterOK ==
    /\ route.fix = "ok clicked"
    /\ IF Page(gui) = "data_display" THEN Handled(TRUE)
       ELSE IF "OK" \in Offers(gui) /\ route.tries + 1 < MaxSoftRetries THEN Retries("ok")
       ELSE Fix("back")
    /\ Calm /\ Aside

\* What has left the disconnect page counts as handled, wherever it has led.
GivesUp == IF Page(gui) = "j2534_disconnect" THEN Fix("plain") ELSE Handled(TRUE)
TriesAgain == IF route.tries + 1 < MaxReentries THEN Retries("back") ELSE GivesUp

ClicksBack ==
    /\ route.fix = "back"
    /\ \E ok \in BOOLEAN :
         /\ Clicks("Back", ok)
         /\ IF ok THEN route' = [route EXCEPT !.fix = "back clicked", !.backed = TRUE] ELSE GivesUp
    /\ Aside

SeesAfterBack ==
    /\ route.fix = "back clicked"
    /\ IF Page(gui) = "data_display" THEN Handled(TRUE)
       ELSE IF Page(gui) = "data_list" THEN route' = [route EXCEPT !.fix = "enter"]
       ELSE TriesAgain
    /\ Forgets(gui)
    /\ Calm /\ UNCHANGED flow

\* select_data_category: the category may not be one of this list.
EntersCategory ==
    /\ route.fix = "enter"
    /\ \E ok \in BOOLEAN :
         /\ Clicks(route.recall, ok)
         /\ IF ok THEN route' = [route EXCEPT !.fix = "entered", !.backed = FALSE] ELSE Handled(TRUE)
    /\ Aside

SeesCategory ==
    /\ route.fix = "entered"
    /\ IF Page(gui) = "j2534_disconnect" THEN TriesAgain ELSE Handled(TRUE)
    /\ category' = route.recall
    /\ Calm /\ UNCHANGED flow

Reconnects ==
    /\ route.fix = "plain" \/ (FindsDisconnect /\ route.recall = NoLabel)
    /\ LET label == IF "OK" \in Offers(gui) THEN "OK" ELSE "Back"
       IN \E ok \in BOOLEAN :
            /\ Clicks(label, ok)
            /\ IF ok THEN HandledBy(label = "Back", TRUE) ELSE NotHandled
            /\ IF ok /\ label = "Back" THEN Forgets(gui') ELSE UNCHANGED category
    /\ UNCHANGED flow

RecoversDataDisplay ==
    \/ Recalls \/ ClicksOK \/ SeesAfterOK \/ ClicksBack \/ SeesAfterBack
    \/ EntersCategory \/ SeesCategory \/ Reconnects

-----------------------------------------------------------------------------
(* The vehicle and its device.                                             *)

\* match_page_states and decide_vehicle_selection_action: what a banner asks for.
Asked(g) ==
    CASE "Enter" \in Offers(g) -> {"Enter", "nothing"}
      [] "Select Device" \in Offers(g) -> {"Select Device"}
      [] OTHER -> {"wait", "nothing"}

SelectsVehicle ==
    /\ route.at = "select vehicle"
    /\ \E asked \in IF Page(gui) = "vehicle_selection" THEN Asked(gui) ELSE {"nothing"} :
         IF asked \in {"Enter", "Select Device"}
         THEN \E ok \in BOOLEAN :
                /\ Clicks(asked, ok)
                /\ IF ~ok THEN Skips
                   ELSE IF asked = "Enter" THEN LooksAgain ELSE GoTo("find device")
         ELSE (IF asked = "wait" THEN LooksAgain ELSE Skips) /\ Calm
    /\ Aside

\* The dialog: the device is chosen, or is not, or no dialog is there.
Continues(ok) ==
    \/ /\ ok /\ Page(gui) = "device_explorer"
       /\ gui' \in {[at |-> Leads[gui.at]["Continue"], over |-> o] : o \in {"none", "loading"}}
       /\ UNCHANGED <<faults, clears>>
    \/ /\ ~ok /\ Page(gui) = "device_explorer" /\ faults < MaxFaults
       /\ faults' = faults + 1
       /\ UNCHANGED <<gui, clears>>
    \/ ~ok /\ Page(gui) # "device_explorer" /\ Calm

ChoosesDevice ==
    /\ \/ route.at \in {"choose device", "find device"}
       \/ route.at = "recover" /\ route.left > 0 /\ Page(gui) = "device_explorer"
    /\ \E ok \in BOOLEAN :
         /\ Continues(ok)
         /\ IF route.at # "recover" THEN (IF ok THEN LooksAgain ELSE Skips)
            ELSE route' = [route EXCEPT !.did = TRUE, !.left = IF ok THEN @ - 1 ELSE @,
                              !.at = IF ok THEN @ ELSE "recovered"]
    /\ Aside

-----------------------------------------------------------------------------
(* The steps of the route.                                                 *)

WaitsOnPage ==
    /\ route.at = "wait for controls"
    /\ route' = Again([route EXCEPT !.waits = @ + 1])
    /\ Calm /\ Aside

(* "dismiss blocking modal": whatever comes of it.                         *)
Dismisses ==
    /\ route.at = "dismiss"
    /\ \E ok \in BOOLEAN : Clicks("OK", ok)
    /\ LooksAgain /\ Aside

(* execute_action and what it is noted as; a failing one ends the route,   *)
(* and so does one whose effect is verified and does not show.             *)
Acts(label, next) ==
    \E ok \in BOOLEAN :
        /\ Clicks(label, ok)
        /\ IF ok /\ (label \in Entry.verified => gui' # gui)
           THEN LET r == [route EXCEPT !.executed = Executes(@, label),
                             !.backed = @ /\ label # Entry.target]
                IN route' = IF next = "top" THEN Again(r) ELSE [r EXCEPT !.at = next]
           ELSE Ends("failed")

Step ==
    LET pending == PendingOf(route) IN
    /\ \/ route.at = "target" /\ Acts(Entry.target, "top")
       \/ route.at = "bridge" /\ Acts(Bridge(route), "top")
       \/ route.at = "step" /\ Acts(pending, "top")
       \/ route.at = "try" /\ Acts(pending, "tried")
       \/ route.at = "startup" /\ Acts("Module Diagnostics", "tried")
    /\ Aside

(* A list item that was clicked unseen must have changed something.        *)
ChecksProgress ==
    /\ route.at = "tried"
    /\ IF gui = route.snap THEN Ends("failed") ELSE LooksAgain
    /\ Calm /\ Aside

NeedsRecovery ==
    /\ route.at = "stray"
    /\ route' = [route EXCEPT !.at = "recover", !.left = MaxBacktracks + 1, !.did = FALSE]
    /\ Calm /\ Aside

(* recover_to_common_ancestor: one turn of its loop.                       *)
AtAncestor ==
    \/ route.left = 0 \/ Page(gui) = "loading"
    \/ Page(gui) = "diagnostics_menu" /\ Head(Entry.path) \in Offers(gui)
    \/ /\ Page(gui) \notin {"j2534_disconnect", "device_explorer"}
       /\ IsPrefix(PathOf[gui.at], Entry.path)

StopsRecovery ==
    /\ route.at = "recover" /\ route.fix = "none" /\ AtAncestor
    /\ GoTo("recovered") /\ Calm /\ Aside

Otherwise == IF "Home" \in Offers(gui) THEN "go home" ELSE "recovered"

Backtracks ==
    /\ route.at = "recover" /\ route.fix = "none" /\ ~AtAncestor
    /\ Page(gui) \notin {"j2534_disconnect", "device_explorer"}
    /\ \/ /\ CommonPrefix(PathOf[gui.at], Entry.path) > 0
          /\ gui.over # "warning"
          /\ gui' \in {Plain(p) : p \in {q \in Places :
                PathOf[q] = LongestCommonPrefix({PathOf[gui.at], Entry.path})}}
          /\ route' = [route EXCEPT !.at = "recovered", !.did = TRUE]
          /\ UNCHANGED <<category, faults, clears>>
       \/ /\ "Back" \in Offers(gui)
          /\ \E ok \in BOOLEAN :
               /\ Clicks("Back", ok)
               /\ route' = [route EXCEPT !.left = @ - 1, !.did = TRUE, !.backed = @ \/ ok,
                              !.at = IF ok THEN "recover" ELSE Otherwise]
               /\ IF ok THEN Forgets(gui') ELSE UNCHANGED category
       \/ /\ "Back" \notin Offers(gui)
          /\ GoTo(Otherwise) /\ Calm /\ UNCHANGED category
    /\ UNCHANGED flow

\* go_home: the controller forgets where it was.
GoesHome ==
    /\ route.at = "go home"
    /\ \E ok \in BOOLEAN :
         /\ Clicks("Home", ok)
         /\ route' = [route EXCEPT !.at = "recovered", !.did = TRUE, !.backed = @ \/ ok]
         /\ category' = IF ok THEN NoLabel ELSE category
    /\ UNCHANGED flow

(* Recovered: look again.  Not: Back from the page that was looked at, or  *)
(* the route is stuck.                                                     *)
Resumes ==
    /\ route.at = "recovered"
    /\ IF route.did THEN LooksAgain /\ Calm /\ UNCHANGED category
       ELSE IF "Back" \in Offers(route.snap) /\ Page(route.snap) # "vehicle_selection"
            THEN \E ok \in BOOLEAN : /\ Clicks("Back", ok)
                                     /\ IF ok THEN /\ route' = Again([route EXCEPT !.backed = TRUE])
                                                /\ Forgets(gui')
                                        ELSE Ends("failed") /\ UNCHANGED category
            ELSE Ends("failed") /\ Calm /\ UNCHANGED category
    /\ UNCHANGED flow

-----------------------------------------------------------------------------
(* The clear of trouble codes (GDS2ClearDTCFlow).                          *)

\* The clear routes that start on the codes themselves are not in the registry.
SyntheticClear(path, pages, goals) ==
    LET steps == <<"Clear DTCs", "Add All", "OK", "OK">>
    IN [steps |-> steps, optional |-> {}, verified |-> {"Add All"}, target |-> "OK",
        path |-> path \o steps, kind |-> "clear_dtcs_execute", pages |-> pages, goals |-> goals,
        requires |-> {"Add All"}]

\* is_vehicle_dtc_context: the category that was chosen, or the path that shows.
VehicleContext ==
    \/ category = VehicleCodes
    \/ PathOf[gui.at] # <<>> /\ Head(PathOf[gui.at]) = "Vehicle Diagnostics"

\* is_data_display_direct_clear_context: the codes can be cleared from here.
ClearsFromHere == Page(gui) = "data_display" /\ "Clear DTCs" \in Offers(gui)

Context ==
    CASE VehicleContext -> "vehicle"
      [] ~VehicleContext /\ ClearsFromHere -> "data display"
      [] OTHER -> "module"

AsksToClear ==
    /\ route.at = "idle" /\ flow.at = "none"
    /\ clears' = 0
    /\ IF ClearsFromHere
       THEN /\ flow' = [NoFlow EXCEPT !.at = "count", !.context = Context]
            /\ route' = [Idle EXCEPT !.elsewhere = Elsewhere]
       ELSE /\ flow' = [NoFlow EXCEPT !.at = "display", !.context = Context]
            /\ Drives(DisplayOf[Context], Elsewhere)
    /\ UNCHANGED <<gui, category, faults>>

FlowEnds(result) == flow' = [flow EXCEPT !.at = "none", !.result = result]

\* read_dtc_count: what cannot be read counts as none.
CodesRead == {"none", "some"}

(* The codes are counted where they show; when there are none there is     *)
(* nothing to clear.                                                       *)
CountsCodes ==
    /\ \/ flow.at = "count"
       \/ flow.at = "display" /\ route.at = "idle" /\ route.outcome = "success"
    /\ \E codes \in CodesRead :
         IF codes = "none" THEN FlowEnds("nothing") /\ UNCHANGED route
         ELSE /\ flow' = [flow EXCEPT !.at = "clear"]
              /\ Drives(ClearOf[flow.context], route.elsewhere)
    /\ Calm /\ UNCHANGED category

ClearEnds ==
    /\ route.at = "idle"
    /\ \/ flow.at = "clear" /\ route.outcome = "success" /\ FlowEnds("cleared")
       \/ flow.at \in {"display", "clear"} /\ route.outcome = "failed" /\ FlowEnds("failed")
    /\ Calm /\ UNCHANGED <<route, category>>

Next ==
    \/ \E e \in Entries \ ClearEntries : Begins(e)
    \/ Looks \/ Succeeds \/ WaitsForPage \/ RestartsGDS2 \/ RecoversDataDisplay
    \/ SelectsVehicle \/ ChoosesDevice \/ WaitsOnPage \/ Dismisses \/ Step \/ ChecksProgress
    \/ NeedsRecovery \/ StopsRecovery \/ Backtracks \/ GoesHome \/ Resumes
    \/ AsksToClear \/ CountsCodes \/ ClearEnds
    \/ Settles \/ Mishap

Spec == Init /\ [][Next]_vars

-----------------------------------------------------------------------------
(* Properties.                                                             *)

Succeeded == route.at = "idle" /\ route.outcome = "success"
Clears == route.entry \in ClearEntries

(* A route that returns a final page has brought GDS2 to a place that meets*)
(* the criteria of its entry, although it looked before the page changed,  *)
(* and although a data display that still loads is taken for reached.  The *)
(* one exception: a recovery has gone back since the target was clicked,   *)
(* and the page that loads is the one it went back to.                     *)
SuccessShowsTarget ==
    Succeeded => \/ gui.at \in Registry[route.entry].goals
                 \/ route.backed

(* Between its looks, restarts and retries a route, or the two routes of a *)
(* clear, that began outside the clear pages clears the codes once at most,*)
(* and never unless it is there to clear them.  A clear that says it did   *)
(* has done so, whichever click did nothing and whatever covered a page,   *)
(* unless GDS2 was restarted under it.                                     *)
ClearsAsReported ==
    route.elsewhere =>
        /\ clears <= (IF Clears THEN 1 ELSE 0)
        /\ flow.result = "cleared" /\ route.restarts = 0 => clears = 1

(* What the policy and the flow promise: after a restart of GDS2 the task  *)
(* is resumed, so a clear that is reported was done.  The actions executed *)
(* before the restart still count as executed: on its way back the route   *)
(* meets the criteria on the list of codes and reports success.            *)
ClearedWhenReported == flow.result = "cleared" => clears >= 1

(* What the exclusive clear operation promises: no other route clears the  *)
(* codes.  A route that finds the confirmation another one left dismisses  *)
(* it as a blocking modal, with OK, and that clears them.                  *)
OnlyClearRoutesClear == clears > 0 => Clears
=============================================================================
