------------------------------ MODULE Autopilot ------------------------------
(***************************************************************************)
(* The threshold rules of src/src/main/autopilotEngine.ts: the tick that    *)
(* evaluates and dispatches them, "Run now" of the rule editor (ipc.ts),    *)
(* the buttons under an alert (the callback handler of main.ts), and the    *)
(* rows of dataStore.ts they all read and write.                            *)
(*                                                                          *)
(* Time is kept as ages.  One unit is the minimum gap of six hours: no call *)
(* lasts that long (10 s for Telegram, two hours for the slowest script),   *)
(* so time passes between calls only.                                       *)
(***************************************************************************)
EXTENDS Integers, Sequences

CONSTANTS
  ActionRules,    \* the threshold rules of tier 1 and 2, which run an action
  AlertRules,     \* the rules of tier 3, which send an alert
  Edited,         \* the rules the user snoozes or switches in the rule editor
  RuleOrder,      \* the order of listAutopilotRules: by tier, then by id
  LowDiskRules,   \* the rules that read the gauge of drive C:
  FailureRule,    \* alert_action_repeated_failures
  Reasons,        \* what the findings of a report may say to an alert rule
  FreeSpace,      \* percentages of C: that may be free
  DedupWindow,    \* a day: dedupMs of dispatchAlert
  SnoozeTime,     \* a day: the Snooze button
  Faults,         \* what may go wrong: sends, rows of the database, crashes
  MaxFaults       \* bound on failures

Rules == ActionRules \cup AlertRules
MinGap == 1              \* six hours
MaxFailures == 3         \* error rows are counted up to the three that matter

ASSUME RuleAssumption ==
  /\ ActionRules \cap AlertRules = {} /\ "none" \notin Rules
  /\ RuleOrder \in Seq(Rules) /\ Edited \subseteq Rules
  /\ \A i, j \in DOMAIN RuleOrder : RuleOrder[i] = RuleOrder[j] => i = j  \* a primary key
  /\ LowDiskRules \subseteq ActionRules /\ FailureRule \in AlertRules
  /\ Reasons \cap {"none", "condition", "failures"} = {}
  /\ FreeSpace \subseteq 0..100
ASSUME TimeAssumption ==
  DedupWindow \in Nat /\ DedupWindow >= MinGap /\ SnoozeTime \in 1..DedupWindow
ASSUME FaultAssumption ==
  Faults \subseteq {"send", "row", "crash"} /\ MaxFaults \in Nat

VARIABLES
  cFree,      \* free space on C: in the report
  finding,    \* what the report says to each alert rule
  enabled,    \* autopilot_rules.enabled
  snooze,     \* time left until suppressed_until
  lastRow,    \* age of the newest activity row of each rule
  emitted,    \* alert_emit_history: signature and age
  failures,   \* error rows since the last auto_run, up to three
  tick,       \* the tick of the engine: the decision awaited, and the rest
  runNow,     \* a "Run now" of the rule editor
  buttons,    \* the alerts whose message still has its buttons
  faults,     \* history: failures so far
  autoSent,   \* history: age of the last automatic alert; old enough once the application
              \*   died in it, or its row could not be written
  heard,      \* history: the last alert the user received, and whether it is recorded
  quiet       \* history: time left of what the Snooze button promised

reportVars == <<cFree, finding>>
ruleVars == <<enabled, snooze>>
vars == <<reportVars, ruleVars, lastRow, emitted, failures, tick, runNow, buttons,
          faults, autoSent, heard, quiet>>

\* Ages are told apart up to the window they are compared with.
Older(age, window) == IF age < window THEN age + 1 ELSE window

Less(left) == IF left > 0 THEN left - 1 ELSE 0

NoDecision == [rule |-> "none", reason |-> "none"]
Decisions == [rule : ActionRules, reason : {"condition"}]
               \cup [rule : AlertRules, reason : Reasons \cup {"failures"}]
Idle == [now |-> NoDecision, todo |-> <<>>]
Positions == DOMAIN RuleOrder
AlertReasons == Reasons \cup {"failures", "none"}

TypeOK ==
  /\ cFree \in FreeSpace
  /\ finding \in [AlertRules -> Reasons \cup {"none"}]
  /\ enabled \in [Rules -> BOOLEAN]
  /\ snooze \in [Rules -> 0..SnoozeTime]
  /\ lastRow \in [Rules -> 0..MinGap]
  /\ emitted \in [AlertRules -> [reason : AlertReasons, age : 0..DedupWindow]]
  /\ failures \in [ActionRules -> 0..MaxFailures]
  /\ tick \in [now : Decisions \cup {NoDecision},
               todo : UNION {[due -> Decisions] : due \in SUBSET Positions}]
  /\ runNow \in Decisions \cup {NoDecision}
  /\ buttons \subseteq AlertRules
  /\ faults \in 0..MaxFaults
  /\ autoSent \in [AlertRules -> 0..MinGap]
  /\ heard \in [AlertRules -> [reason : AlertReasons, age : 0..DedupWindow, known : BOOLEAN]]
  /\ quiet \in [AlertRules -> 0..SnoozeTime]

Init ==
  /\ cFree \in FreeSpace
  /\ finding = [r \in AlertRules |-> "none"]
  /\ enabled = [r \in Rules |-> TRUE]
  /\ snooze = [r \in Rules |-> 0]
  /\ lastRow = [r \in Rules |-> MinGap]
  /\ emitted = [r \in AlertRules |-> [reason |-> "none", age |-> DedupWindow]]
  /\ failures = [r \in ActionRules |-> 0]
  /\ tick = Idle
  /\ runNow = NoDecision
  /\ buttons = {}
  /\ faults = 0
  /\ autoSent = [r \in AlertRules |-> MinGap]
  /\ heard = [r \in AlertRules |-> [reason |-> "none", age |-> DedupWindow, known |-> TRUE]]
  /\ quiet = [r \in AlertRules |-> 0]

Fault(kind) ==
  /\ kind \in Faults /\ faults < MaxFaults
  /\ faults' = faults + 1

(***************************************************************************)
(* Evaluation.                                                             *)
(***************************************************************************)
\* The value of the gauge "C: Drive Used" (mapToSystemStatus of pcdoctorBridge.ts).
CDriveGauge == 100 - cFree

\* evaluateRule: the reason to dispatch the rule, or "none".  The rules of drive
\* C: compare the value of the first gauge whose label begins with "C:".
EvaluateRule(r) ==
  CASE r \in LowDiskRules -> IF CDriveGauge < 15 THEN "condition" ELSE "none"
    [] r = FailureRule    -> IF \E a \in ActionRules : failures[a] >= MaxFailures
                             THEN "failures" ELSE "none"
    [] r \in AlertRules \ {FailureRule} -> finding[r]
    [] OTHER -> "none"

DecisionOf(r) == [rule |-> r, reason |-> EvaluateRule(r)]

\* evaluateAutopilot leaves out disabled and suppressed rules.
Due(r) == enabled[r] /\ snooze[r] = 0 /\ EvaluateRule(r) # "none"

\* Each decision is kept at the position of its rule.
DueDecisions == [i \in {j \in Positions : Due(RuleOrder[j])} |-> DecisionOf(RuleOrder[i])]

(***************************************************************************)
(* Dispatch.                                                               *)
(***************************************************************************)
\* Mutant: one emission a gap is enough.
DeduplicatedForAGap(d) ==
  emitted[d.rule].reason = d.reason /\ emitted[d.rule].age < MinGap

\* dispatchAlert: the same state was emitted within a day.
Deduplicated(d) ==
  emitted[d.rule].reason = d.reason /\ emitted[d.rule].age < DedupWindow

\* dispatchDecision returns without a row: the gap, or the window of an alert.
Skipped(d, gap) ==
  \/ lastRow[d.rule] < gap
  \/ d.rule \in AlertRules /\ Deduplicated(d)

\* The rules of denied actions that get their error row: when it cannot be written, nor the
\* second one that the catch tries, the loop goes on without.
MayBeRecorded(denied) ==
  IF "row" \in Faults THEN SUBSET denied ELSE {denied}

\* The loop of a tick over the decisions: an action is denied at once (no action of
\* the catalogue may run unattended), so that the loop runs on to the next alert it
\* has to await.  row is the rule whose own row this step writes too, if any, and sent
\* the automatic alerts so far.
Loop(decisions, row, sent) ==
  LET live == {i \in DOMAIN decisions : ~Skipped(decisions[i], MinGap)}
      sends == {i \in live : decisions[i].rule \in AlertRules}
      awaited == {i \in sends : \A j \in sends : i <= j}
      denied == {decisions[i].rule : i \in {j \in live \ sends : \A k \in awaited : j < k}}
  IN  /\ \E recorded \in MayBeRecorded(denied) :
           /\ lastRow' = [r \in Rules |-> IF r \in recorded \cup row THEN 0 ELSE lastRow[r]]
           /\ failures' = [r \in ActionRules |->
                             IF r \in recorded /\ failures[r] < MaxFailures
                             THEN failures[r] + 1 ELSE failures[r]]
      /\ IF awaited = {}
         THEN tick' = Idle /\ autoSent' = sent
         ELSE \E i \in awaited :
                /\ tick' = [now |-> decisions[i],
                            todo |-> [k \in {j \in DOMAIN decisions : j > i} |-> decisions[k]]]
                /\ autoSent' = [sent EXCEPT ![decisions[i].rule] = 0]

\* The interval of a minute fires; a tick in flight makes it return.
Tick ==
  /\ tick = Idle
  /\ \E i \in DOMAIN DueDecisions : ~Skipped(DueDecisions[i], MinGap)
  /\ Loop(DueDecisions, {}, autoSent)
  /\ UNCHANGED <<reportVars, ruleVars, emitted, runNow, buttons, faults, heard, quiet>>

\* recordAlertEmit, on success only.
RecordEmit(d, ok) ==
  emitted' = IF ok THEN [emitted EXCEPT ![d.rule] = [reason |-> d.reason, age |-> 0]]
             ELSE emitted

Receives(d, known) ==
  /\ heard' = [heard EXCEPT ![d.rule] = [reason |-> d.reason, age |-> 0, known |-> known]]
  /\ buttons' = buttons \cup {d.rule}

\* Mutant: a failed send leaves no row, "so a failed send retries on the next tick".
RowsOfSendIfOk(d, ok) == IF ok THEN {d.rule} ELSE {}

\* dispatchAlert inserts its row whatever became of the send.
RowsOfSend(d, ok) == {d.rule}

\* sendTelegramMessage answers: sent; not sent; or sent, but the answer was lost.  The
\* row is inserted, and then the emission is recorded; when one of the two writes throws,
\* what follows it is not done, and the caller swallows the error.
SendResolves(d, row, unwritten) ==
  \/ /\ Receives(d, TRUE) /\ RecordEmit(d, TRUE)
     /\ row = RowsOfSend(d, TRUE) /\ unwritten = {} /\ UNCHANGED faults
  \/ /\ Fault("send") /\ RecordEmit(d, FALSE)
     /\ row = RowsOfSend(d, FALSE) /\ unwritten = {}
     /\ UNCHANGED <<heard, buttons>> \/ Receives(d, FALSE)
  \/ /\ Fault("row") /\ RecordEmit(d, FALSE)
     /\ row = RowsOfSend(d, TRUE) \ unwritten
     /\ \/ Receives(d, FALSE)
        \/ "send" \in Faults /\ unwritten = {d.rule} /\ UNCHANGED <<heard, buttons>>

\* The automatic alerts, without those whose row could not be written.
AutoSentBut(rules) == [r \in AlertRules |-> IF r \in rules THEN MinGap ELSE autoSent[r]]

\* The alert the tick awaits is answered; the loop goes on.
TickResolves ==
  LET d == tick.now IN
  /\ d # NoDecision
  /\ \E row, unwritten \in SUBSET {d.rule} :
       /\ SendResolves(d, row, unwritten)
       /\ Loop(tick.todo, row, AutoSentBut(unwritten))
  /\ UNCHANGED <<reportVars, ruleVars, runNow, quiet>>

(***************************************************************************)
(* The user.                                                               *)
(***************************************************************************)
InsertRow(r) == lastRow' = [lastRow EXCEPT ![r] = 0]

\* An error row of an action counts; a manual_run neither counts nor starts afresh.
CountError(r) ==
  failures' = IF r \in ActionRules /\ failures[r] < MaxFailures
              THEN [failures EXCEPT ![r] = @ + 1] ELSE failures

\* The insert throws, and so does the one of the catch around it, if there is one.
NoRowInserted == Fault("row") /\ UNCHANGED lastRow

\* api:runAutopilotRuleNow ignores the snooze, the switch and the gap.  A rule whose
\* condition does not hold gets a "skipped" row.
RunNow(r) ==
  LET d == DecisionOf(r) IN
  /\ runNow = NoDecision
  /\ \/ /\ d.reason = "none" /\ UNCHANGED runNow
        /\ (InsertRow(r) /\ UNCHANGED faults) \/ NoRowInserted
     \/ /\ d.reason # "none" /\ ~Skipped(d, 0)
        /\ runNow' = d /\ UNCHANGED <<lastRow, faults>>
  /\ UNCHANGED <<reportVars, ruleVars, emitted, failures, tick, buttons, autoSent,
                 heard, quiet>>

\* The send or the script of "Run now" answers.
RunNowResolves ==
  LET d == runNow IN
  /\ d # NoDecision
  /\ \/ /\ d.rule \in AlertRules
        /\ \E row, unwritten \in SUBSET {d.rule} :
             /\ SendResolves(d, row, unwritten)
             /\ lastRow' = [r \in Rules |-> IF r \in row THEN 0 ELSE lastRow[r]]
        /\ UNCHANGED failures
     \/ /\ d.rule \in ActionRules
        /\ \/ /\ InsertRow(d.rule) /\ UNCHANGED faults
              /\ CountError(d.rule) \/ UNCHANGED failures
           \/ NoRowInserted /\ UNCHANGED failures
        /\ UNCHANGED <<emitted, heard, buttons>>
  /\ runNow' = NoDecision
  /\ UNCHANGED <<reportVars, ruleVars, tick, autoSent, quiet>>

\* A button of an alert: every one inserts a row, and the edit takes the buttons away.
Press(r) ==
  /\ r \in buttons
  /\ buttons' = buttons \ {r}
  /\ InsertRow(r)
  /\ UNCHANGED <<reportVars, enabled, emitted, failures, tick, runNow, faults, autoSent, heard>>

\* Mutant: Snooze only suppresses, like the snooze of the rule editor.
SuppressOnly(r) ==
  /\ r \in buttons /\ buttons' = buttons \ {r}
  /\ snooze' = [snooze EXCEPT ![r] = SnoozeTime]
  /\ quiet' = [quiet EXCEPT ![r] = SnoozeTime]
  /\ UNCHANGED <<reportVars, enabled, lastRow, emitted, failures, tick, runNow, faults,
                 autoSent, heard>>

\* The insert of the row of a button throws.  The message of a fix is edited all the same
\* (the branch has a catch of its own), the others keep their buttons.
PressFails(r) ==
  /\ r \in buttons /\ Fault("row")
  /\ UNCHANGED <<reportVars, enabled, lastRow, emitted, failures, tick, runNow, autoSent,
                 heard, quiet>>

\* ap_snooze: the rule is suppressed, and the row is inserted in the same turn; only then
\* does the button answer.
TelegramSnooze(r) ==
  /\ snooze' = [snooze EXCEPT ![r] = SnoozeTime]
  /\ \/ Press(r) /\ quiet' = [quiet EXCEPT ![r] = SnoozeTime]
     \/ PressFails(r) /\ UNCHANGED buttons

\* ap_dismiss, and the fix of an alert (runAndRecordTelegramApprovedAction).
TelegramDismissOrFix(r) ==
  /\ UNCHANGED snooze
  /\ \/ Press(r) /\ UNCHANGED quiet
     \/ PressFails(r) /\ buttons' \in {buttons, buttons \ {r}}

\* api:suppressAutopilotRule: no row, and it replaces a longer snooze.
UiSnooze(r, time) ==
  /\ snooze' = [snooze EXCEPT ![r] = time]
  /\ quiet' = [s \in AlertRules |-> IF s = r /\ time < quiet[s] THEN time ELSE quiet[s]]
  /\ UNCHANGED <<reportVars, enabled, lastRow, emitted, failures, tick, runNow, buttons,
                 faults, autoSent, heard>>

\* api:setAutopilotRuleEnabled.
SetEnabled(r) ==
  /\ enabled' = [enabled EXCEPT ![r] = ~@]
  /\ UNCHANGED <<reportVars, snooze, lastRow, emitted, failures, tick, runNow, buttons,
                 faults, autoSent, heard, quiet>>

(***************************************************************************)
(* The environment.                                                        *)
(***************************************************************************)
\* A scan writes another report.
ReportChanges ==
  /\ cFree' \in FreeSpace
  /\ \E r \in AlertRules \ {FailureRule}, says \in Reasons \cup {"none"} :
       finding' = [finding EXCEPT ![r] = says]
  /\ reportVars' # reportVars
  /\ UNCHANGED <<ruleVars, lastRow, emitted, failures, tick, runNow, buttons, faults,
                 autoSent, heard, quiet>>

\* Six hours pass.  An error row may leave the window of seven days.
TimePasses ==
  /\ tick = Idle /\ runNow = NoDecision
  /\ snooze' = [r \in Rules |-> Less(snooze[r])]
  /\ quiet' = [r \in AlertRules |-> Less(quiet[r])]
  /\ lastRow' = [r \in Rules |-> Older(lastRow[r], MinGap)]
  /\ emitted' = [r \in AlertRules |-> [emitted[r] EXCEPT !.age = Older(@, DedupWindow)]]
  /\ heard' = [r \in AlertRules |-> [heard[r] EXCEPT !.age = Older(@, DedupWindow)]]
  /\ autoSent' = [r \in AlertRules |-> Older(autoSent[r], MinGap)]
  /\ \/ UNCHANGED failures
     \/ \E r \in ActionRules : failures[r] > 0 /\ failures' = [failures EXCEPT ![r] = @ - 1]
  /\ UNCHANGED <<reportVars, enabled, tick, runNow, buttons, faults>>

\* The application dies and starts again: what it awaited may have got out or not.
Restart ==
  /\ Fault("crash")
  /\ tick.now # NoDecision \/ runNow # NoDecision
  /\ \/ UNCHANGED <<heard, buttons>>
     \/ tick.now # NoDecision /\ Receives(tick.now, FALSE)
     \/ runNow.rule \in AlertRules /\ Receives(runNow, FALSE)
  /\ autoSent' = AutoSentBut({tick.now.rule})
  /\ tick' = Idle /\ runNow' = NoDecision
  /\ UNCHANGED <<reportVars, ruleVars, lastRow, emitted, failures, quiet>>

Next ==
  \/ Tick \/ TickResolves \/ RunNowResolves
  \/ \E r \in Rules : RunNow(r)
  \/ \E r \in Edited : SetEnabled(r)
  \/ \E r \in AlertRules : TelegramSnooze(r) \/ TelegramDismissOrFix(r)
  \/ \E r \in Edited, time \in 1..SnoozeTime : UiSnooze(r, time)
  \/ ReportChanges \/ TimePasses \/ Restart

Spec == Init /\ [][Next]_vars

(***************************************************************************)
(* Properties.                                                             *)
(***************************************************************************)
BeginsAlert(r) == tick'.now.rule = r /\ tick' # tick

\* The Snooze button under an alert, once it has answered, keeps its promise: for the whole
\* day no automatic alert of the rule begins, not even by a tick that took its decision before the
\* button was pressed and reaches it afterwards.
QuietAfterSnooze ==
  [][\A r \in AlertRules : BeginsAlert(r) => quiet[r] = 0]_vars

\* Two automatic alerts of a rule are at least the minimum gap apart, whatever the
\* report, the answers of Telegram and the user do, unless the application died in the
\* first, or its row could not be written (then the next tick, a minute later, sends again).
NoAlertStorm ==
  [][\A r \in AlertRules : BeginsAlert(r) => autoSent[r] >= MinGap]_vars

\* No tick and no "Run now" sets out to tell the user again what the last alert told
\* within the day, when Telegram confirmed that alert and this could be recorded.
ToldOnceADay ==
  [][\A d \in {tick'.now, runNow'} :
       (d.rule \in AlertRules /\ tick.now # d /\ runNow # d)
         => ~(/\ heard[d.rule].known /\ heard[d.rule].reason = d.reason
              /\ heard[d.rule].age < DedupWindow)]_vars

\* What the three rest on.  A snooze lasts as long as what the button promised, and a rule
\* snoozed under a tick that has decided already has a row of this tick's hours.
SnoozeInv ==
  /\ \A r \in AlertRules : quiet[r] <= snooze[r]
  /\ \A i \in DOMAIN tick.todo :
       tick.todo[i].rule \in AlertRules /\ quiet[tick.todo[i].rule] > 0
         => lastRow[tick.todo[i].rule] < MinGap

\* The rule of an alert of less than a gap ago has a row of that time or is awaited still,
\* and a tick comes to each rule once and awaits alerts only.
StormInv ==
  /\ tick.now.rule \in AlertRules \cup {"none"}
  /\ \A r \in AlertRules : autoSent[r] < MinGap => lastRow[r] < MinGap \/ tick.now.rule = r
  /\ \A i \in DOMAIN tick.todo : /\ tick.todo[i].rule = RuleOrder[i]
                                /\ tick.todo[i].rule # tick.now.rule

\* The history of emissions is what Telegram confirmed last, where it could be recorded.
HeardInv ==
  \A r \in AlertRules : heard[r].known =>
    emitted[r].reason = heard[r].reason /\ emitted[r].age = heard[r].age

AutopilotInv == TypeOK /\ SnoozeInv /\ StormInv /\ HeardInv

\* The rules of drive C: are described as "when disk C <15% free" (DEFAULT_RULES).
LowDiskRulesMeanLowDisk ==
  \A r \in LowDiskRules : EvaluateRule(r) # "none" => cFree < 15
=============================================================================
