----------------------------- MODULE ActionFlow -----------------------------
(***************************************************************************)
(* The actions of the Dashboard: Dashboard.tsx with its alert cards, alert   *)
(* details and action buttons, and the hook useAction.ts that runs an        *)
(* action, hands its result over in a global variable and asks for a scan    *)
(* before it returns.                                                       *)
(*                                                                          *)
(* A flow is one call of handleAction.  What it was begun by says what the   *)
(* user had confirmed; leaving the page does not stop it.                    *)
(***************************************************************************)
EXTENDS Integers, FiniteSets

CONSTANTS
  Fixes,          \* the actions
  Informational,  \* those whose result is shown in a modal
  OpenSecurity,   \* open_windows_security, which a blocked action opens instead
  Cards,          \* the places of the alert list
  MaxFlows,       \* bound on the flows
  MaxChanges,     \* bound on reports that change the alerts, and on leaving the page
  MaxReads        \* bound on the settings asked for at once, per card

Flows == 1..MaxFlows

VARIABLES
  findings,    \* the suggested action of the alert in each place
  changes,     \* history: alerts changed and page left
  cards,       \* AlertCard: busy, skipConfirmLoaded and skipConfirm
  reads,       \* settings the cards have asked for
  due,         \* cards that are painted with a new action, whose effect has not run yet
  skipped,     \* the actions whose setting "Don't ask again" is set
  running,     \* running of useAction: an action, or "none"
  flows,       \* the calls of handleAction
  resultModal, \* the modal that shows a result is open
  confirmFor,  \* the action of the confirmation or parameter modal, or "none"
  detail       \* activeAlertDetail: its action, or "none"

alerts == <<findings, changes, cards, reads, due>>
modals == <<resultModal, confirmFor, detail>>
vars == <<alerts, skipped, running, flows, modals>>

NoFlow == [by |-> "none", card |-> 0, action |-> "none", state |-> "new", here |-> FALSE]
Over == [NoFlow EXCEPT !.state = "over"]
NewCard == [busy |-> FALSE, loaded |-> FALSE, skip |-> FALSE]

\* The effect of a card reads the setting; the read of an earlier effect is not live.
ReadsOf(i) == {r \in reads : r.card = i}
MayRead(i) == Cardinality(ReadsOf(i)) < MaxReads
Read(i) == [card |-> i, action |-> findings[i], live |-> TRUE]

Init ==
  /\ findings \in [Cards -> Fixes]
  /\ changes = 0
  /\ cards = [i \in Cards |-> NewCard]
  /\ reads = {Read(i) : i \in Cards} /\ due = {}
  /\ skipped = {}
  /\ running = "none"
  /\ flows = [f \in Flows |-> NoFlow]
  /\ resultModal = FALSE /\ confirmFor = "none" /\ detail = "none"

(***************************************************************************)
(* The alert cards.                                                        *)
(***************************************************************************)
\* A card is keyed by its place, so a report that puts another alert there keeps the
\* card.  It is painted first; the effect of the card is run after that, and before the
\* page is painted again.
ReportChanges ==
  /\ changes < MaxChanges /\ changes' = changes + 1
  /\ due = {}
  /\ \E i \in Cards, a \in Fixes :
       /\ a # findings[i] /\ MayRead(i)
       /\ findings' = [findings EXCEPT ![i] = a]
       /\ due' = {i}
  /\ UNCHANGED <<cards, reads, skipped, running, flows, modals>>

\* The effect starts over: what it has read is forgotten, and a read that is under way is
\* not wanted any more.
EffectRuns(i) ==
  /\ i \in due /\ due' = due \ {i}
  /\ cards' = [cards EXCEPT ![i].loaded = FALSE, ![i].skip = FALSE]
  /\ reads' = {[r EXCEPT !.live = r.live /\ r.card # i] : r \in reads} \cup {Read(i)}
  /\ UNCHANGED <<findings, changes, skipped, running, flows, modals>>

\* Mutant: an answer for an earlier action is taken (the flag alive is missing).
AnyRead(r) == TRUE

Wanted(r) == r.live

\* getSettings is answered; a failure leaves the default.
SkipLoads(r) ==
  /\ r \in reads /\ reads' = reads \ {r}
  /\ IF Wanted(r)
     THEN \E ok \in BOOLEAN :
            cards' = [cards EXCEPT ![r.card].loaded = TRUE,
                                   ![r.card].skip = ok /\ r.action \in skipped]
     ELSE UNCHANGED cards
  /\ UNCHANGED <<findings, changes, due, skipped, running, flows, modals>>

(***************************************************************************)
(* Flows.                                                                  *)
(***************************************************************************)
\* run() up to its await.
Begin(by, i, a, state) ==
  \E f \in Flows :
    /\ flows[f] = NoFlow /\ \A g \in Flows : g < f => flows[g] # NoFlow
    /\ flows' = [flows EXCEPT ![f] = [by |-> by, card |-> i, action |-> a,
                                       state |-> state, here |-> TRUE]]
    /\ running' = IF state = "asked" THEN a ELSE running

\* The modals cover the page.
Uncovered == ~resultModal /\ confirmFor = "none" /\ detail = "none"

\* An ActionButton is disabled while an action is running, and while its own flow is, the
\* scan included.
ClickButton(a) ==
  /\ Uncovered /\ running = "none"
  /\ \A f \in Flows : ~(flows[f].here /\ flows[f].by = "button" /\ flows[f].action = a)
  /\ confirmFor' = a
  /\ UNCHANGED <<alerts, skipped, running, flows, resultModal, detail>>

\* A dry run asks for no scan.
ConfirmButton(by) ==
  /\ by \in {"button", "dry run"} /\ confirmFor # "none"
  /\ Begin(by, 0, confirmFor, "asked")
  /\ confirmFor' = "none"
  /\ UNCHANGED <<alerts, skipped, resultModal, detail>>

\* What is recommended now runs at once, and so do the buttons of the other modals, which
\* close themselves first, and "Analyze Minidump" of an alert that suggests no action.
RunSuggestion(a) ==
  /\ Uncovered /\ running = "none"
  /\ Begin("direct", 0, a, "asked")
  /\ UNCHANGED <<alerts, skipped, modals>>
RunFromPanel(a) ==
  /\ Uncovered
  /\ Begin("direct", 0, a, "asked")
  /\ UNCHANGED <<alerts, skipped, modals>>

\* handleFixButton of a card: the action at once if the card has read so, else the
\* detail.  What runs elsewhere does not disable it.
ClickFix(i) ==
  /\ Uncovered /\ ~cards[i].busy /\ cards[i].loaded
  /\ IF cards[i].skip
     THEN /\ Begin("card", i, findings[i], "asked")
          /\ cards' = [cards EXCEPT ![i].busy = TRUE]
          /\ UNCHANGED modals
     ELSE /\ detail' = findings[i]
          /\ UNCHANGED <<cards, running, flows, resultModal, confirmFor>>
  /\ UNCHANGED <<findings, changes, reads, due, skipped>>

\* A click on the card itself.
OpenDetail(i) ==
  /\ Uncovered /\ detail' = findings[i]
  /\ UNCHANGED <<alerts, skipped, running, flows, resultModal, confirmFor>>

\* "Fix Now", as often as it is clicked.  With the box ticked the setting is saved first.
FixNow(forever) ==
  /\ detail # "none"
  /\ Begin("detail", 0, detail, IF forever THEN "saving" ELSE "asked")
  /\ UNCHANGED <<alerts, skipped, modals>>

Saved(f) ==
  /\ flows[f].state = "saving"
  /\ \/ skipped' = skipped \cup {flows[f].action}
     \/ UNCHANGED skipped
  /\ flows' = [flows EXCEPT ![f].state = "asked"]
  /\ running' = IF flows[f].here THEN flows[f].action ELSE running
  /\ UNCHANGED <<alerts, modals>>

\* The flow returns: its card or button is free again, and an alert detail closes,
\* whichever it is.
Returns(f) ==
  /\ flows' = [flows EXCEPT ![f] = Over]
  /\ detail' = IF flows[f].here /\ flows[f].by = "detail" THEN "none" ELSE detail
  /\ cards' = [i \in Cards |->
                 IF flows[f].here /\ flows[f].card = i THEN [cards[i] EXCEPT !.busy = FALSE] ELSE cards[i]]

\* The finally block of run(): the one slot is cleared, whoever is in it.
RunningAfter(f) == IF flows[f].here THEN "none" ELSE running

\* runAction is answered: with a success, with a failure of the action, or with an error.
\* After a success that is not of a dry run a scan is asked for.
Answered(f, how) ==
  /\ flows[f].state = "asked"
  /\ running' = RunningAfter(f)
  /\ IF how = "ok" /\ flows[f].by # "dry run"
     THEN flows' = [flows EXCEPT ![f].state = "scans"] /\ UNCHANGED <<cards, detail>>
     ELSE Returns(f)
  /\ UNCHANGED <<findings, changes, reads, due, skipped, resultModal, confirmFor>>

\* E_TAMPER_PROTECTION: the flow goes on with the window of Windows Security.
Blocked(f) ==
  /\ flows[f].state = "asked" /\ flows[f].action # OpenSecurity
  /\ flows' = [flows EXCEPT ![f].action = OpenSecurity]
  /\ running' = IF flows[f].here THEN OpenSecurity ELSE running
  /\ UNCHANGED <<alerts, skipped, modals>>

\* The end of handleAction: an informational action opens its modal, with what is in the
\* global variable then, of whatever flow (unless that says that nothing had to be done).
ResultShown(f) ==
  \/ flows[f].here /\ flows[f].action \in Informational /\ resultModal' = TRUE
  \/ UNCHANGED resultModal

\* The scan is asked for and the status read, or one of them fails: run() returns.
Scanned(f) ==
  /\ flows[f].state = "scans"
  /\ ResultShown(f)
  /\ Returns(f)
  /\ UNCHANGED <<findings, changes, reads, due, skipped, running, confirmFor>>

(***************************************************************************)
(* The rest of the page.                                                   *)
(***************************************************************************)
CloseModal ==
  /\ resultModal' = FALSE /\ confirmFor' = "none" /\ detail' = "none"
  /\ modals' # modals
  /\ UNCHANGED <<alerts, skipped, running, flows>>

\* The page is left and mounted again.  The flows go on, for nobody; the global variable
\* and the settings stay.
Leave ==
  /\ Uncovered /\ \A i \in Cards : MayRead(i)
  /\ changes < MaxChanges /\ changes' = changes + 1
  /\ cards' = [i \in Cards |-> NewCard]
  /\ reads' = {[r EXCEPT !.live = FALSE] : r \in reads} \cup {Read(i) : i \in Cards}
  /\ due' = {}
  /\ flows' = [f \in Flows |-> [flows[f] EXCEPT !.here = FALSE, !.card = 0]]
  /\ running' = "none"
  /\ UNCHANGED <<findings, skipped, modals>>

FlowStep(f) ==
  \/ Saved(f) \/ Blocked(f) \/ Scanned(f)
  \/ \E how \in {"ok", "failed", "error"} : Answered(f, how)

Next ==
  \/ ReportChanges \/ \E r \in reads : SkipLoads(r)
  \/ \E i \in Cards : EffectRuns(i)
  \/ \E a \in Fixes : ClickButton(a) \/ RunSuggestion(a) \/ RunFromPanel(a)
  \/ ConfirmButton("button") \/ ConfirmButton("dry run")
  \/ \E i \in Cards : ClickFix(i) \/ OpenDetail(i)
  \/ FixNow(TRUE) \/ FixNow(FALSE)
  \/ \E f \in Flows : FlowStep(f)
  \/ CloseModal \/ Leave

Spec == Init /\ [][Next]_vars

(***************************************************************************)
(* Properties.                                                             *)
(***************************************************************************)
\* A card runs an action without showing what it does only if the user has ticked "Don't
\* ask again" for that very action, whatever alerts have been in its place since.  (It can
\* for the moment between painting another action and running the effect: a click that
\* falls into it finds the answer for the action before.)
RunsWithConsent ==
  [][\A f \in Flows : flows[f] = NoFlow /\ flows'[f].by = "card" =>
       flows'[f].action \in skipped \/ flows'[f].card \in due]_vars

(***************************************************************************)
(* Inductive invariant.                                                    *)
(***************************************************************************)
Actions == Fixes \cup {OpenSecurity, "none"}
CardType == [busy : BOOLEAN, loaded : BOOLEAN, skip : BOOLEAN]
ReadType == [card : Cards, action : Fixes, live : BOOLEAN]
FlowType ==
  [by : {"none", "button", "dry run", "direct", "card", "detail"}, card : Cards \cup {0},
   action : Actions, state : {"new", "saving", "asked", "scans", "over"}, here : BOOLEAN]

TypeOK ==
  /\ findings \in [Cards -> Fixes] /\ changes \in Nat
  /\ cards \in [Cards -> CardType] /\ reads \subseteq ReadType /\ due \subseteq Cards
  /\ skipped \subseteq Actions /\ running \in Actions
  /\ flows \in [Flows -> FlowType]
  /\ resultModal \in BOOLEAN
  /\ confirmFor \in Fixes \cup {"none"} /\ detail \in Fixes \cup {"none"}

\* A read that is still wanted asks for the alert there is, and what a card has read is so,
\* but for a card whose effect is due.
ReadsAreCurrent == \A r \in reads : r.live => r.action = findings[r.card] \/ r.card \in due
SkipsAreAgreed == \A i \in Cards : cards[i].skip => findings[i] \in skipped \/ i \in due

ActionInv == TypeOK /\ ReadsAreCurrent /\ SkipsAreAgreed
=============================================================================
