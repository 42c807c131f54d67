---------------------------- MODULE WindowFlow ----------------------------
(***************************************************************************)
(* A technician works through one active session in the diagnostics window *)
(* (vci_proxy/diagnostics_window.py): chooses a branch, a module and a     *)
(* data category, and then reads, clears or has the AI diagnose what GDS2  *)
(* shows.  Every button posts an API call from a thread of its own, so the *)
(* answers come back in any order, beside the status poll and three event  *)
(* streams, and each handler decides from a few flags of the window which  *)
(* buttons are offered.  The server's side of each call (server/api,       *)
(* diagnostic_platform/runtime/session_actions.py) is one step, in any     *)
(* order; the window gives a call up after 60 s and the server goes on.    *)
(*                                                                         *)
(* How sessions start and end is SessionRuntime's and DiagnosticsGuard's;  *)
(* what a navigation, a route or a diagnosis does is that of Navigation,   *)
(* RegistryRoute and LiveData.                                             *)
(***************************************************************************)
EXTENDS Naturals, Sequences, FiniteSets

CONSTANTS
    Modules,      \* control modules of the vehicle
    FirstModule,  \* the one the list begins with
    Categories,   \* data categories of a module
    DtcInfo,      \* the vehicle item "Vehicle DTC Information"
    OtherItem,    \* another item of the vehicle menu
    Nothing,      \* nothing chosen
    MaxClicks,    \* bound on the clicks of a behaviour
    MaxCalls,     \* bound on the calls not yet answered
    Settings      \* where a behaviour begins: how far the technician has got, the
                  \* clicks to come, how much may go wrong (failures, time-outs,
                  \* lost streams), and what may happen (Chances)

Items == {DtcInfo, OtherItem}

\* the technician acts before all is settled; the network gate closes
Chances == {"hurry", "gate"}

ASSUME WindowAssumption ==
    /\ FirstModule \in Modules
    /\ Nothing \notin Modules \cup Categories \cup Items
    /\ Categories \cap Items = {}
    /\ MaxClicks \in Nat /\ MaxCalls \in Nat
    /\ Settings \subseteq [at: {"fresh", "listed", "shown"}, clicks: 0..MaxClicks, faults: Nat,
                     may: SUBSET Chances]

VARIABLES
    win,      \* what the window shows and remembers
    calls,    \* the API calls on their way or answered and not handled
    gds,      \* what GDS2 shows: its page, the module and the category of it
    selected, \* Session: selection, decision, and the bindings of the worker
    navs,     \* the guided navigations, by the call that started them
    wire,     \* events of a navigation the window's reader has queued
    engine,   \* AIEngine: the running diagnosis, and how each has ended
    news,     \* the event queue of the session
    clicks, faults, \* how many clicks and faults are left
    may,      \* the chances of this behaviour
    hurried   \* history: the technician acted on a state that was changing

server == <<gds, selected, navs, engine, news>>
windowVars == <<win, calls, server, wire, clicks, faults, may, hurried>>

Numbers == 1..MaxClicks
Buttons == {"start", "vehicle", "combos", "module", "category", "ai", "read", "clear"}
Pages == {"none", "list", "other", "data"}
Ops == {"start", "connect", "decide", "navigate", "answer", "module", "category",
        "ai", "retry", "read", "clear", "status"}
Navigating == {"start", "connect", "decide", "navigate", "answer", "module", "category"}

NoPrompt == [kind |-> "none", id |-> 0]
NoModal == [q |-> 0, on |-> FALSE]
Snapshots == [ai: BOOLEAN, nav: BOOLEAN, page: Pages, gate: 0..MaxClicks, ready: BOOLEAN]
NoSnapshot == [ai |-> FALSE, nav |-> FALSE, page |-> "none", gate |-> 0, ready |-> FALSE]
\* what a decision says, or how a call was answered
CallOutcomes == {"none", "override", "cancel", "fail", "modules", "devices", "selection",
                 "gate", "cancelled", "ok"}
Calls == [op: Ops, n: 0..MaxClicks, module: Modules \cup {Nothing},
          category: Categories \cup Items \cup {Nothing}, q: 0..MaxClicks,
          at: {"sent", "late", "done"}, out: CallOutcomes, status: Snapshots]

Windows ==
    [branch: {"none", "module", "vehicle"}, page: Pages,
     listed: SUBSET Modules, module: Modules \cup {Nothing},
     offered: SUBSET (Categories \cup Items), category: Categories \cup Items \cup {Nothing},
     confirmed: BOOLEAN, ready: BOOLEAN, nav: BOOLEAN, ai: BOOLEAN,
     pending: BOOLEAN, reading: 0..MaxClicks, retry: BOOLEAN,
     following: 0..MaxClicks, navid: BOOLEAN,
     prompt: [kind: {"none", "category", "decision"}, id: 0..MaxClicks],
     modal: [q: 0..MaxClicks, on: BOOLEAN],
     refresh: BOOLEAN, listening: BOOLEAN, enabled: SUBSET Buttons]
Displays == [page: Pages \ {"none"}, module: Modules \cup {Nothing},
             category: Categories \cup Items \cup {Nothing}]
Selections == [module: Modules \cup {Nothing}, category: Categories \cup Items \cup {Nothing},
               gate: 0..MaxClicks, nav: 0..MaxClicks, ai: 0..MaxClicks]

WindowTypeOK ==
    /\ win \in Windows
    /\ IsFiniteSet(calls) /\ calls \subseteq Calls
    /\ gds \in Displays
    /\ selected \in Selections
    /\ \A n \in Numbers :
          /\ navs[n].at \in {"none", "driving", "asked", "chosen", "ended"}
          /\ navs[n].item \in Items \cup {Nothing}
          /\ Len(navs[n].events) <= 2
    /\ engine.run \in 0..MaxClicks
    /\ hurried \in BOOLEAN

-----------------------------------------------------------------------------
(* What the window offers: build_step_flow_view and the buttons it sets.   *)

Busy(w) == w.nav \/ w.ai \/ w.pending \/ w.reading # 0

ModuleReady(w) ==
    /\ w.branch = "module" /\ w.module # Nothing
    /\ w.category # Nothing /\ w.confirmed /\ w.page = "data"

VehicleReady(w) ==
    /\ w.branch = "vehicle" /\ w.page = "data" /\ w.category # Nothing
    /\ w.category = DtcInfo => w.ready

View(w) ==
    (IF w.branch = "module" THEN {"combos"} ELSE {}) \cup
    IF Busy(w) THEN {}
    ELSE {"start", "vehicle"}
         \cup {b \in {"module", "category"} : w.branch = "module" /\ w.module # Nothing
                                              /\ (b = "category" => w.category # Nothing)}
         \cup {b \in {"ai"} : ModuleReady(w)}
         \cup {b \in {"read", "clear"} : ModuleReady(w) \/ VehicleReady(w)}

Refreshed(w) == [w EXCEPT !.enabled = View(w)]
Enables(w, buttons) == [w EXCEPT !.enabled = @ \cup buttons]
Disables(w, buttons) == [w EXCEPT !.enabled = @ \ buttons]

-----------------------------------------------------------------------------
(* Calls of the window.                                                    *)

Call(op, n, module, category, q) ==
    [op |-> op, n |-> n, module |-> module, category |-> category, q |-> q,
     at |-> "sent", out |-> "none", status |-> NoSnapshot]

PlainCall(op, n) == Call(op, n, Nothing, Nothing, 0)

(* GET status.  The table of the vehicle's DTCs may still be loading.      *)
StatusNow(loaded) ==
    [ai |-> selected.ai # 0, nav |-> selected.nav # 0, page |-> gds.page,
     gate |-> selected.gate,
     ready |-> loaded /\ gds.category = DtcInfo /\ gds.page = "data"]

(* _request_session_status_refresh, one at a time as far as the window     *)
(* knows; it changes nothing, so it is served as it goes out.              *)
Polls(w, cs) ==
    IF w.refresh THEN calls' = cs
    ELSE \E loaded \in BOOLEAN :
            calls' = cs \cup {[PlainCall("status", 0) EXCEPT !.at = "done",
                                                       !.status = StatusNow(loaded)]}

(* Something the technician asked for is not settled: a call is unanswered *)
(* (given up, perhaps, but not served), one that moves GDS2 is answered    *)
(* and not handled, or a navigation has not ended or not been heard of.    *)
Unsettled ==
    \/ \E c \in calls : c.op # "status" /\ (c.at # "done" \/ c.op \in Navigating)
    \/ wire # <<>>
    \/ \E n \in Numbers : navs[n].at \in {"driving", "asked", "chosen"} \/ navs[n].events # <<>>

\* the technician does something, in haste or not
Acts(hasty) ==
    /\ hasty => "hurry" \in may
    /\ hurried' = (hurried \/ hasty)
    /\ UNCHANGED may

(* The technician clicks: the window's part of a click, and its call.      *)
ClicksAs(w, c, hasty) ==
    /\ clicks > 0 /\ Cardinality(calls) < MaxCalls
    /\ clicks' = clicks - 1
    /\ win' = w
    /\ calls' = calls \cup {c}
    /\ Acts(Unsettled \/ hasty)
    /\ UNCHANGED <<server, wire, faults>>

Clicks(w, c) == ClicksAs(w, c, FALSE)

\* the module the window shows is not the one that was submitted
Unsubmitted == win.branch = "module" /\ win.module # selected.module

\* a click's own number
Number == clicks

(* A dialog holds the grab: the window behind it takes no clicks.          *)
Can(button) == win.modal.q = 0 /\ button \in win.enabled

Cleared(w) ==
    [w EXCEPT !.listed = {}, !.module = Nothing, !.offered = {}, !.category = Nothing,
              !.confirmed = FALSE]

ClickModuleDiagnostics ==
    /\ Can("start")
    /\ Clicks(Refreshed([Cleared(win) EXCEPT !.branch = "module", !.nav = TRUE,
                                             !.prompt = NoPrompt]),
              PlainCall("start", Number))

ClickVehicleDiagnostics ==
    /\ Can("vehicle")
    /\ Clicks(Refreshed([Cleared(win) EXCEPT !.branch = "vehicle", !.nav = TRUE,
                                             !.page = "none"]),
              PlainCall("navigate", Number))

(* The module's combobox has no handler.                                   *)
ChooseModule(m) ==
    /\ Can("combos") /\ m \in win.listed \ {win.module}
    /\ win' = [win EXCEPT !.module = m]
    /\ Acts(Unsettled)
    /\ UNCHANGED <<calls, server, wire, clicks, faults>>

ClickSelectModule ==
    /\ Can("module") /\ win.module # Nothing
    /\ Clicks(Disables([win EXCEPT !.offered = {}, !.category = Nothing], {"module", "read"}),
              Call("module", Number, win.module, Nothing, 0))

OnDataCategoryChosenStillConfirmed(w, c) ==   \* variant: the confirmation is kept
    Refreshed([w EXCEPT !.category = c])
OnDataCategorySelected(w, c) ==
    Refreshed([w EXCEPT !.category = c, !.confirmed = FALSE])

ChooseCategory(c) ==
    /\ Can("combos") /\ c \in win.offered \ {win.category}
    /\ win' = OnDataCategorySelected(win, c)
    /\ Acts(Unsettled)
    /\ UNCHANGED <<calls, server, wire, clicks, faults>>

SelectsCategory(w, hasty) ==
    ClicksAs(Disables(w, {"category", "read", "ai"}),
             Call("category", Number, Nothing, w.category, 0), hasty)

ClickSelectCategory ==
    /\ Can("category") /\ win.category # Nothing
    /\ SelectsCategory(win, Unsubmitted)

(* A diagnosis, a read or a clear goes out with what the window shows.     *)
AskedOf(op) == Call(op, Number, win.module, win.category, 0)

ClickAiDiagnose ==
    /\ Can("ai")
    /\ win.module # Nothing /\ win.category # Nothing /\ win.confirmed
    /\ ClicksAs(Refreshed([win EXCEPT !.pending = TRUE, !.retry = FALSE]), AskedOf("ai"),
                Unsubmitted)

ClickAiRetry ==
    /\ win.modal.q = 0 /\ win.retry
    /\ ClicksAs(Refreshed([win EXCEPT !.pending = TRUE, !.retry = FALSE]), AskedOf("retry"),
                Unsubmitted)

MayAct ==
    IF win.branch = "vehicle" THEN win.ready ELSE win.category # Nothing /\ win.confirmed

ClickReadDtcs ==
    /\ Can("read") /\ MayAct
    /\ ClicksAs(Disables(win, {"read"}), AskedOf("read"), Unsubmitted)

ClickClearDtcs ==
    /\ Can("clear") /\ MayAct /\ win.page = "data"
    /\ ClicksAs(Disables(win, {"clear"}), AskedOf("clear"), Unsubmitted)

(* Submit of the agent's prompt.                                           *)
SubmitCategoryPrompt(c) ==
    /\ win.modal.q = 0 /\ win.prompt.kind = "category" /\ c \in Categories
    /\ SelectsCategory([win EXCEPT !.category = c, !.prompt = NoPrompt],
                       Unsubmitted \/ win.confirmed \/ win.branch # "module")

SubmitDecision(option) ==
    /\ win.modal.q = 0 /\ win.prompt.kind = "decision"
    /\ Clicks([win EXCEPT !.prompt = NoPrompt],
              [PlainCall("decide", Number) EXCEPT !.q = win.prompt.id, !.out = option])

(* Submit and Cancel of the navigation dialog, which Submit leaves open.   *)
AnswerDialog ==
    /\ win.modal.on
    /\ Cardinality(calls) < MaxCalls
    /\ win' = [win EXCEPT !.modal.on = FALSE]
    /\ calls' = IF win.navid
                THEN calls \cup {Call("answer", 0, Nothing, OtherItem, win.modal.q)} ELSE calls
    /\ UNCHANGED <<server, wire, clicks, faults, may, hurried>>

CloseDialog ==
    /\ win.modal.q # 0
    /\ win' = [win EXCEPT !.modal = NoModal]
    /\ UNCHANGED <<calls, server, wire, clicks, faults, may, hurried>>

-----------------------------------------------------------------------------
(* The server's part of a call.  CallAnswered(c, out) leaves the answer to *)
(* be handled, or nothing when the window has given the call up.           *)

CallAnswered(c, out) ==
    calls' = (calls \ {c}) \cup
             IF c.at = "late" THEN {} ELSE {[c EXCEPT !.at = "done", !.out = out]}

Fault == faults > 0 /\ faults' = faults - 1
CallFails(c) == CallAnswered(c, "fail") /\ UNCHANGED <<server, faults>>

Shows(page, module, category) ==
    gds' = [page |-> page, module |-> module, category |-> category]

GoesAstray ==   \* GDS2 is left where it was, or on the way
    \/ UNCHANGED gds
    \/ Shows("other", Nothing, Nothing)

(* start_diagnostics of the backend, and _reset_session_runtime_state.     *)
Resets(s) == [s EXCEPT !.module = Nothing, !.category = Nothing, !.nav = 0, !.ai = 0]

Starts(c, s) ==
    /\ UNCHANGED <<navs, engine>>
    /\ \/ /\ Shows("list", Nothing, Nothing) /\ selected' = Resets(s)
          /\ CallAnswered(c, "modules") /\ UNCHANGED faults
       \/ /\ Shows("other", Nothing, Nothing) /\ selected' = Resets(s)
          /\ CallAnswered(c, "devices") /\ UNCHANGED faults
       \/ /\ Fault /\ GoesAstray /\ selected' = s
          /\ CallAnswered(c, "fail")

(* POST start_diagnostics, with its network gate.                          *)
RaisesGate(c) ==
    /\ "gate" \in may
    /\ selected' = [selected EXCEPT !.gate = c.n]
    /\ news' = Append(news, [ev |-> "required", id |-> c.n])
    /\ CallAnswered(c, "gate")
    /\ UNCHANGED <<gds, navs, engine, faults>>

ServeStart(c) ==
    IF selected.gate # 0 THEN CallFails(c)
    ELSE \/ Starts(c, selected) /\ UNCHANGED news
         \/ /\ gds.page = "other" /\ CallAnswered(c, "selection")
            /\ UNCHANGED <<server, faults>>
         \/ RaisesGate(c)

(* POST execute, connect_device: selects the device and starts.            *)
ConnectsDevice == Shows("list", Nothing, Nothing)

ServeConnect(c) ==
    /\ UNCHANGED <<selected, navs, engine, news>>
    /\ \/ ConnectsDevice /\ CallAnswered(c, "modules") /\ UNCHANGED faults
       \/ Fault /\ GoesAstray /\ CallAnswered(c, "fail")

(* POST decision: the gate is answered, and start_diagnostics resumed.     *)
CancelsStart(c) ==
    /\ selected' = [selected EXCEPT !.gate = 0]
    /\ CallAnswered(c, "cancelled")
    /\ UNCHANGED <<gds, navs, engine, faults>>

ServeDecide(c) ==
    IF selected.gate = 0 \/ selected.gate # c.q THEN CallFails(c)
    ELSE /\ news' = Append(news, [ev |-> "resolved", id |-> c.q])
         /\ IF c.out = "cancel" THEN CancelsStart(c)
            ELSE Starts(c, [selected EXCEPT !.gate = 0])

(* POST navigate/start.                                                    *)
ServeNavigate(c) ==
    IF selected.gate # 0 \/ selected.nav # 0 THEN CallFails(c)
    ELSE /\ selected' = [selected EXCEPT !.nav = c.n]
         /\ navs' = [navs EXCEPT ![c.n].at = "driving"]
         /\ CallAnswered(c, "ok")
         /\ UNCHANGED <<gds, engine, news, faults>>

(* POST navigate/decision: it must name the question asked.                *)
ServeAnswer(c) ==
    IF selected.nav = 0 \/ selected.nav # c.q \/ navs[c.q].at # "asked" THEN CallFails(c)
    ELSE /\ navs' = [navs EXCEPT ![c.q].at = "chosen", ![c.q].item = c.category]
         /\ CallAnswered(c, "ok")
         /\ UNCHANGED <<gds, selected, engine, news, faults>>

(* POST select_module and select_data_category: GDS2 is driven there, then *)
(* the session remembers it.                                               *)
ReachesModule(m) == Shows("other", m, Nothing)
ReachesCategory(g) == Shows("data", gds.module, g)

SelectModule(m) ==
    ReachesModule(m) /\ selected' = [selected EXCEPT !.module = m, !.category = Nothing]
SelectDataCategory(g) ==
    ReachesCategory(g) /\ selected' = [selected EXCEPT !.category = g]

ServeModule(c) ==
    IF selected.gate # 0 THEN CallFails(c)
    ELSE /\ UNCHANGED <<navs, engine, news>>
         /\ \/ SelectModule(c.module) /\ CallAnswered(c, "ok") /\ UNCHANGED faults
            \/ Fault /\ GoesAstray /\ CallAnswered(c, "fail") /\ UNCHANGED selected

ServeCategory(c) ==
    IF selected.gate # 0 \/ gds.module = Nothing THEN CallFails(c)
    ELSE /\ UNCHANGED <<navs, engine, news>>
         /\ \/ SelectDataCategory(c.category) /\ CallAnswered(c, "ok") /\ UNCHANGED faults
            \/ Fault /\ GoesAstray /\ CallAnswered(c, "fail") /\ UNCHANGED selected

(* POST ai_diagnose and ai_diagnose/retry: the run is bound to the session *)
(* under the module and category of the request, else of the session, else *)
(* of GDS2 (resolve_session_vehicle_context).                              *)
Else(a, b) == IF a # Nothing THEN a ELSE b
ModuleFor(m) == Else(m, Else(selected.module, gds.module))
CategoryFor(g) == Else(g, Else(selected.category, gds.category))

ServeAi(c) ==
    IF engine.run # 0 \/ (c.op = "ai" /\ gds.page # "data") THEN CallFails(c)
    ELSE \/ /\ engine' = [engine EXCEPT !.run = c.n]
            /\ selected' = [selected EXCEPT !.ai = c.n, !.module = ModuleFor(c.module),
                                          !.category = CategoryFor(c.category)]
            /\ CallAnswered(c, "ok")
            /\ UNCHANGED <<gds, navs, news, faults>>
         \/ Fault /\ CallAnswered(c, "fail") /\ UNCHANGED server

(* POST dtcs: away from the data display, GDS2 is first taken to what the  *)
(* request or the session names.                                           *)
ReadsAs(c, m, g) ==
    /\ UNCHANGED <<navs, engine, news>>
    /\ IF gds.page = "data"
       THEN CallAnswered(c, "ok") /\ UNCHANGED <<gds, selected, faults>>
       ELSE \/ /\ ModuleFor(m) # Nothing /\ CategoryFor(g) \in Categories
               /\ Shows("data", ModuleFor(m), CategoryFor(g))
               /\ selected' = [selected EXCEPT !.module = ModuleFor(m), !.category = CategoryFor(g)]
               /\ CallAnswered(c, "ok") /\ UNCHANGED faults
            \/ /\ GoesAstray /\ CallAnswered(c, "fail") /\ UNCHANGED <<selected, faults>>

ServeRead(c) == ReadsAs(c, c.module, IF c.module = Nothing THEN Nothing ELSE c.category)

(* POST clear_dtcs: the window's request names no module and no category.  *)
ClearIsAllowed == selected.nav = 0 /\ selected.ai = 0

ServeClear(c) == IF ClearIsAllowed THEN ReadsAs(c, Nothing, Nothing) ELSE CallFails(c)

Serve(c) ==
    /\ c.at # "done"
    /\ CASE c.op = "start" -> ServeStart(c)
         [] c.op = "connect" -> ServeConnect(c)
         [] c.op = "decide" -> ServeDecide(c)
         [] c.op = "navigate" -> ServeNavigate(c)
         [] c.op = "answer" -> ServeAnswer(c)
         [] c.op = "module" -> ServeModule(c)
         [] c.op = "category" -> ServeCategory(c)
         [] c.op \in {"ai", "retry"} -> ServeAi(c)
         [] c.op = "read" -> ServeRead(c)
         [] c.op = "clear" -> ServeClear(c)
    /\ UNCHANGED <<win, wire, clicks, may, hurried>>

-----------------------------------------------------------------------------
(* What goes on at the server meanwhile.                                   *)

(* A guided navigation reaches the vehicle menu and asks; when answered it *)
(* chooses the item there.  The menu may lack Vehicle DTC Information.     *)
EmitsOnly(n, at, ev, item) ==   \* variant: the session's status is left as it was
    navs' = [navs EXCEPT ![n].events = Append(@, [ev |-> ev, n |-> n, item |-> item])]
Emits(n, at, ev, item) ==
    navs' = [navs EXCEPT ![n].at = at, ![n].events = Append(@, [ev |-> ev, n |-> n, item |-> item])]

Drives(n) ==
    /\ \/ /\ navs[n].at = "driving" /\ Shows("other", Nothing, Nothing) /\ UNCHANGED faults
          /\ \E item \in Items : Emits(n, "asked", "ask", item)
       \/ /\ navs[n].at = "chosen" /\ Shows("data", Nothing, navs[n].item) /\ UNCHANGED faults
          /\ Emits(n, "ended", "done", navs[n].item)
       \/ /\ navs[n].at \in {"driving", "chosen"} /\ Fault /\ GoesAstray
          /\ Emits(n, "ended", "error", Nothing)
    /\ UNCHANGED <<win, calls, selected, engine, news, wire, clicks, may, hurried>>

EngineEnds ==
    /\ engine.run # 0
    /\ \E how \in {"over", "retryable"} :
          engine' = [engine EXCEPT !.run = 0, !.ended[engine.run] = how]
    /\ UNCHANGED <<win, calls, gds, selected, navs, news, wire, clicks, faults, may, hurried>>

(* check_decision_timeout, called by the reader of the session's events.   *)
GateExpires ==
    /\ selected.gate # 0 /\ win.listening
    /\ selected' = [selected EXCEPT !.gate = 0]
    /\ news' = Append(news, [ev |-> "resolved", id |-> selected.gate])
    /\ UNCHANGED <<win, calls, gds, navs, engine, wire, clicks, faults, may, hurried>>

-----------------------------------------------------------------------------
(* The window handles an answer.                                           *)

Handled(c, w) == win' = w /\ calls' = calls \ {c}
ThenAsks(c, w, op) == win' = w /\ calls' = (calls \ {c}) \cup {PlainCall(op, c.n)}

Populated(w) ==
    Refreshed([Cleared(w) EXCEPT !.branch = "module", !.listed = Modules,
                                 !.module = FirstModule, !.page = "list"])

\* _prompt_decision: a decision already shown is left alone
PromptsDecision(w, id) == [w EXCEPT !.prompt = [kind |-> "decision", id |-> id]]

HandleStarted(c, w) ==
    CASE c.out = "modules" -> Handled(c, Populated(w))
      [] c.out \in {"devices", "selection"} -> ThenAsks(c, w, "connect")
      [] c.out = "gate" -> Handled(c, PromptsDecision(w, c.n))
      [] OTHER -> Handled(c, Refreshed(w))

HandleStart(c) == HandleStarted(c, Enables([win EXCEPT !.nav = FALSE], {"start"}))
HandleConnect(c) == HandleStarted(c, Enables(win, {"start"}))

HandleDecide(c) ==
    IF c.out = "fail" THEN Handled(c, win)
    ELSE LET w == Enables(win, {"start"}) IN
         IF c.out = "devices" THEN ThenAsks(c, Refreshed(w), "connect") ELSE HandleStarted(c, w)

(* The reader of the navigation's events finds the navigation bound, or    *)
(* its request is refused.                                                 *)
HandleNavigate(c) ==
    LET w == Enables(win, {"start"}) IN
    IF c.out = "fail" THEN Handled(c, [w EXCEPT !.nav = FALSE]) /\ UNCHANGED wire
    ELSE /\ Handled(c, [w EXCEPT !.navid = TRUE, !.following = selected.nav])
         /\ wire' = IF selected.nav # 0 THEN wire
                    ELSE Append(wire, [ev |-> "error", n |-> c.n, item |-> Nothing])

HandleModule(c) ==
    Handled(c, IF c.out = "fail" THEN Refreshed(win)
               ELSE Refreshed([win EXCEPT !.offered = Categories, !.category = Nothing,
                                          !.confirmed = FALSE,
                                          !.prompt = [kind |-> "category", id |-> 0]]))

HandleCategory(c) ==
    Handled(c, IF c.out = "fail" THEN Refreshed(win)
               ELSE Refreshed([win EXCEPT !.confirmed = TRUE]))

\* ai_done, whatever ended the stream: the second one its thread may post is the same
AiDoneReaderLeft(w) ==   \* variant: the reader is left on
    Refreshed([w EXCEPT !.pending = FALSE, !.ai = FALSE])
AiDone(w) ==
    Refreshed([w EXCEPT !.reading = 0, !.pending = FALSE, !.ai = FALSE])

HandleAi(c) ==
    LET w == [win EXCEPT !.pending = FALSE] IN
    Handled(c, IF c.out = "fail" THEN Refreshed(w)
               ELSE IF selected.ai = 0 THEN AiDone(w)   \* the reader is refused
               ELSE Refreshed([w EXCEPT !.ai = TRUE, !.reading = selected.ai]))

HandleDtcs(c) ==
    LET w == Refreshed(IF c.out = "fail" THEN win ELSE [win EXCEPT !.page = "data"]) IN
    IF c.op = "read" THEN Handled(c, w)
    ELSE /\ win' = [w EXCEPT !.refresh = TRUE]
         /\ Polls(w, calls \ {c})

HandleStatus(c) ==
    LET s == c.status
        w == [win EXCEPT !.refresh = FALSE, !.ai = s.ai, !.nav = s.nav, !.page = s.page,
                         !.ready = s.ready]
    IN IF c.out = "fail" THEN Handled(c, [win EXCEPT !.refresh = FALSE])
       ELSE Handled(c, Refreshed(IF s.gate = 0 THEN w ELSE PromptsDecision(w, s.gate)))

Handles(c) ==
    /\ CASE c.op = "start" -> HandleStart(c)
         [] c.op = "connect" -> HandleConnect(c)
         [] c.op = "decide" -> HandleDecide(c)
         [] c.op = "navigate" -> HandleNavigate(c)
         [] c.op = "answer" -> Handled(c, win)
         [] c.op = "module" -> HandleModule(c)
         [] c.op = "category" -> HandleCategory(c)
         [] c.op \in {"ai", "retry"} -> HandleAi(c)
         [] c.op \in {"read", "clear"} -> HandleDtcs(c)
         [] c.op = "status" -> HandleStatus(c)
    /\ c.op # "navigate" => UNCHANGED wire

Handle(c) ==
    /\ c.at = "done"
    /\ Handles(c)
    /\ UNCHANGED <<server, clicks, faults, may, hurried>>

(* The request times out, or its connection breaks: a failure is posted,   *)
(* and the server goes on with the request.                                *)
GiveUp(c) ==
    /\ c.at = "sent" \/ (c.op = "status" /\ c.out = "none")
    /\ Fault
    /\ calls' = (calls \ {c}) \cup {[c EXCEPT !.at = "done", !.out = "fail"]}
                \cup {d \in {[c EXCEPT !.at = "late"]} : c.op # "status"}
    /\ UNCHANGED <<win, server, wire, clicks, may, hurried>>

Poll ==
    /\ ~win.refresh
    /\ win' = [win EXCEPT !.refresh = TRUE]
    /\ Polls(win, calls)
    /\ UNCHANGED <<server, wire, clicks, faults, may, hurried>>

-----------------------------------------------------------------------------
(* The event streams and the handlers of their events.                     *)

(* The server's reader of the navigation it was asked for: a "done" leaves *)
(* the selection with the session, and either end clears the binding.      *)
ReadNavigation ==
    LET n == win.following IN
    /\ n # 0 /\ navs[n].events # <<>>
    /\ LET e == Head(navs[n].events) IN
       /\ wire' = Append(wire, e)
       /\ navs' = [navs EXCEPT ![n].events = Tail(@)]
       /\ selected' = CASE e.ev = "done" -> [selected EXCEPT !.nav = 0, !.category = e.item]
                       [] e.ev = "error" -> [selected EXCEPT !.nav = 0]
                       [] OTHER -> selected
       /\ win' = IF e.ev = "ask" THEN win ELSE [win EXCEPT !.following = 0]
    /\ UNCHANGED <<calls, gds, engine, news, clicks, faults, may, hurried>>

LoseNavigation ==
    /\ win.following # 0 /\ Fault
    /\ win' = [win EXCEPT !.following = 0]
    /\ wire' = Append(wire, [ev |-> "error", n |-> win.following, item |-> Nothing])
    /\ UNCHANGED <<calls, server, clicks, may, hurried>>

(* Vehicle DTC Information is chosen without asking; else a dialog opens.  *)
Asked(e) ==
    IF e.item = DtcInfo /\ win.branch = "vehicle"
    THEN /\ win' = win
         /\ calls' = IF win.navid
                     THEN calls \cup {Call("answer", 0, Nothing, DtcInfo, e.n)} ELSE calls
    ELSE /\ win' = [win EXCEPT !.modal = [q |-> e.n, on |-> TRUE]]
         /\ UNCHANGED calls

Arrived(e) ==
    /\ win' = Refreshed([Cleared(win) EXCEPT
                  !.following = 0, !.nav = FALSE, !.navid = FALSE, !.branch = "vehicle",
                  !.page = "data", !.category = e.item, !.offered = {e.item},
                  !.confirmed = TRUE, !.ready = FALSE])
    /\ UNCHANGED calls

Failed ==
    /\ win' = Enables([win EXCEPT !.following = 0, !.nav = FALSE, !.navid = FALSE,
                                  !.refresh = TRUE], {"start"})
    /\ Polls(win, calls)

HandleNavigationEvent ==
    /\ wire # <<>> /\ wire' = Tail(wire)
    /\ LET e == Head(wire) IN
       CASE e.ev = "ask" -> Asked(e)
         [] e.ev = "done" -> Arrived(e)
         [] e.ev = "error" -> Failed
    /\ UNCHANGED <<server, clicks, faults, may, hurried>>

(* The end of a diagnosis: its reader at the server clears the session's   *)
(* binding, and the window hears of it.                                    *)
ReadDiagnosis ==
    /\ win.reading # 0 /\ engine.ended[win.reading] # "no"
    /\ LET how == engine.ended[win.reading] IN
       /\ win' = AiDone([win EXCEPT !.retry = @ \/ how = "retryable"])
       /\ engine' = [engine EXCEPT !.ended[win.reading] = "no"]
    /\ selected' = [selected EXCEPT !.ai = 0]
    /\ UNCHANGED <<calls, gds, navs, news, wire, clicks, faults, may, hurried>>

LoseDiagnosis ==
    /\ win.reading # 0 /\ Fault
    /\ win' = AiDone(win)
    /\ UNCHANGED <<calls, server, wire, clicks, may, hurried>>

(* Events of the session: a decision asked for or settled.  The reader     *)
(* passes over a question that no longer waits.                            *)
ReadSession ==
    /\ win.listening /\ news # <<>> /\ news' = Tail(news)
    /\ LET e == Head(news) IN
       win' = CASE e.ev = "required" /\ selected.gate # 0 -> PromptsDecision(win, e.id)
                [] e.ev = "resolved" ->
                     Enables([win EXCEPT !.modal = NoModal, !.prompt = NoPrompt], {"start"})
                [] OTHER -> win
    /\ UNCHANGED <<calls, gds, selected, navs, engine, wire, clicks, faults, may, hurried>>

LoseSession ==   \* its thread is not started again
    /\ win.listening /\ Fault
    /\ win' = Disables([win EXCEPT !.listening = FALSE], {"start"})
    /\ UNCHANGED <<calls, server, wire, clicks, may, hurried>>

-----------------------------------------------------------------------------
\* _activate_session; then, in the other settings, a branch gone through
Activated ==
    Refreshed([branch |-> "none", page |-> "none", listed |-> {}, module |-> Nothing,
               offered |-> {}, category |-> Nothing, confirmed |-> FALSE, ready |-> FALSE,
               nav |-> FALSE, ai |-> FALSE, pending |-> FALSE, reading |-> 0,
               retry |-> FALSE, following |-> 0, navid |-> FALSE, prompt |-> NoPrompt,
               modal |-> NoModal, refresh |-> FALSE, listening |-> TRUE, enabled |-> {}])

Unselected == [module |-> Nothing, category |-> Nothing, gate |-> 0, nav |-> 0, ai |-> 0]

Settled(setting, category) ==
    CASE setting = "fresh" ->
           /\ win = Activated /\ selected = Unselected
           /\ gds = [page |-> "other", module |-> Nothing, category |-> Nothing]
      [] setting = "listed" ->
           /\ win = Populated(Activated) /\ selected = Unselected
           /\ gds = [page |-> "list", module |-> Nothing, category |-> Nothing]
      [] setting = "shown" ->
           /\ win = Refreshed([Populated(Activated) EXCEPT
                                 !.offered = Categories, !.category = category,
                                 !.confirmed = TRUE, !.page = "data"])
           /\ selected = [Unselected EXCEPT !.module = FirstModule, !.category = category]
           /\ gds = [page |-> "data", module |-> FirstModule, category |-> category]

WindowInit ==
    /\ \E setting \in Settings, category \in Categories :
          /\ Settled(setting.at, category)
          /\ clicks = setting.clicks /\ faults = setting.faults /\ may = setting.may
    /\ calls = {} /\ wire = <<>> /\ news = <<>>
    /\ navs = [n \in Numbers |-> [at |-> "none", item |-> Nothing, events |-> <<>>]]
    /\ engine = [run |-> 0, ended |-> [n \in Numbers |-> "no"]]
    /\ hurried = FALSE

Technician ==
    \/ ClickModuleDiagnostics \/ ClickVehicleDiagnostics
    \/ \E m \in Modules : ChooseModule(m)
    \/ \E c \in Categories : ChooseCategory(c) \/ SubmitCategoryPrompt(c)
    \/ ClickSelectModule \/ ClickSelectCategory
    \/ ClickAiDiagnose \/ ClickAiRetry \/ ClickReadDtcs \/ ClickClearDtcs
    \/ \E option \in {"override", "cancel"} : SubmitDecision(option)
    \/ AnswerDialog \/ CloseDialog

Streams ==
    \/ ReadNavigation \/ HandleNavigationEvent \/ ReadDiagnosis \/ ReadSession

Losses ==
    \/ LoseNavigation \/ LoseDiagnosis \/ LoseSession
    \/ \E c \in calls : GiveUp(c)

Server ==
    \/ \E c \in calls : Serve(c)
    \/ \E n \in Numbers : Drives(n)
    \/ EngineEnds \/ GateExpires

Window == Poll \/ \E c \in calls : Handle(c)

WindowNext == Technician \/ Streams \/ Losses \/ Server \/ Window

(* Every request is served and its answer handled, the readers read, what  *)
(* the server does comes to an end, the status poll comes round, and the   *)
(* technician submits an open dialog.  Nobody has to click anything else.  *)
WindowFairness ==
    /\ \A op \in Ops : WF_windowVars(\E c \in calls : c.op = op /\ Serve(c))
    /\ \A op \in Ops : WF_windowVars(\E c \in calls : c.op = op /\ Handle(c))
    /\ \A n \in Numbers : WF_windowVars(Drives(n))
    /\ WF_windowVars(ReadNavigation) /\ WF_windowVars(HandleNavigationEvent)
    /\ WF_windowVars(ReadDiagnosis) /\ WF_windowVars(ReadSession)
    /\ WF_windowVars(EngineEnds) /\ WF_windowVars(Poll) /\ WF_windowVars(AnswerDialog)

WindowSpec == WindowInit /\ [][WindowNext]_windowVars /\ WindowFairness

-----------------------------------------------------------------------------
(* Unless the technician hurried, a diagnosis, a read or a clear that      *)
(* succeeds does so with GDS2 on the module and the category the window    *)
(* showed when it was clicked: the server's record of a diagnosis, and the *)
(* codes it reads or clears, are those of the module the technician looks  *)
(* at.  The window knows that only from flags that answers and polls have  *)
(* set (_session_category_confirmed, _current_page, busy), and a clear and *)
(* the vehicle's read do not say what they mean.                           *)
Meets(c) == gds = [page |-> "data", module |-> c.module, category |-> c.category]

Succeeds(c) == [c EXCEPT !.at = "done", !.out = "ok"] \in calls'

ActionsMeetTarget ==
    [][~hurried => \A c \in calls :
         c.op \in {"ai", "read", "clear"} /\ c.at = "sent" /\ Succeeds(c) => Meets(c)']_windowVars

(* A busy window is free again in the end, whatever failed, unless what it *)
(* waits for is bound at the server and nobody follows it any more, or a   *)
(* question is open whose dialog was closed or has been submitted in vain. *)
(* The flags that make it busy are set and cleared by answers, by events   *)
(* and by polls that cross one another.                                    *)
Deserted ==
    \/ /\ selected.ai # 0 /\ win.reading # selected.ai
       /\ \A c \in calls : c.op \in {"ai", "retry"} => c.at = "late"
    \/ /\ selected.nav # 0 /\ wire = <<>>
       /\ \A c \in calls : c.op = "navigate" => c.at = "late"
       /\ \/ win.following # selected.nav
          \/ /\ navs[selected.nav].at = "asked" /\ navs[selected.nav].events = <<>>
             /\ win.modal # [q |-> selected.nav, on |-> TRUE]
             /\ \A c \in calls : c.op # "answer"

WindowSettles == Busy(win) ~> (~Busy(win) \/ Deserted)
=============================================================================
